------------------------------ MODULE NqpExfat ------------------------------
(***************************************************************************)
(* The read-only file system of Assignment1/A1-Drifika/nqp_exfat.c: the    *)
(* calls of nqp_io.h over a mounted volume, in any order.                  *)
(*                                                                         *)
(* A volume is its clusters.  Fat links a cluster to the next one of its   *)
(* file or directory.  A directory's cluster holds one element per entry   *)
(* set of a file, and END; a byte is named by its cluster and its place    *)
(* there.  A file descriptor is the first cluster of the file.             *)
(***************************************************************************)
EXTENDS Integers, SequencesExt, FiniteSetsExt

CONSTANTS MAX_OPEN_FILES,
          CLUSTER_SIZE,   \* in bytes
          Fat,            \* the next cluster, or EOC (0xFFFFFFFF)
          EOC,
          LongestChain,   \* how many clusters it has
          Root,           \* first_cluster_of_root_directory
          Directory,      \* the entries of each cluster of a directory
          END,            \* the end-of-directory marker
          Paths,          \* what nqp_open is called with: sequences of names
          Files,          \* descriptors nqp_read is called with
          Dirs,           \* descriptors nqp_getdents is called with
          Counts          \* how much one nqp_read asks for

Clusters == DOMAIN Fat
Links == Clusters \cup {EOC}

\* A file's entry set: its name, its first cluster (0 if it is empty), its size.
EntrySets == [name : STRING, cluster : Clusters \cup {0}, size : Nat]

Link == [c \in Links |-> IF c = EOC THEN EOC ELSE Fat[c]]

\* The cluster n links after c.
Skip(c, n) ==
    LET after[k \in 0 .. n] == IF k = 0 THEN c ELSE Link[after[k - 1]]
    IN  after[n]

Lengths == 0 .. LongestChain

\* The volume is well formed: it passed the checks of nqp_mount, the chains end,
\* and a directory's clusters hold entry sets that do not straddle clusters, END
\* behind the last one and nothing else behind END.  The entries of one cluster,
\* as those of a directory in itself and in its parent, agree on the size.
ASSUME ExfatAssumption ==
    /\ MAX_OPEN_FILES \in Nat \ {0} /\ CLUSTER_SIZE \in Nat \ {0}
    /\ Clusters \subseteq Nat \ {0, 1} /\ EOC \notin Clusters \cup {0}
    /\ Fat \in [Clusters -> Links]
    /\ LongestChain \in Nat /\ \A c \in Clusters : Skip(c, LongestChain) = EOC
    /\ Root \in DOMAIN Directory /\ DOMAIN Directory \subseteq Clusters
    /\ Dirs \subseteq DOMAIN Directory /\ Files \subseteq Int /\ Counts \subseteq Nat \ {0}

ASSUME DirectoryAssumption ==
    /\ END \notin EntrySets
    /\ \A c \in DOMAIN Directory :
          /\ Directory[c] \in Seq(EntrySets \cup {END})
          /\ Fat[c] \in DOMAIN Directory \cup {EOC}
          /\ \A i \in DOMAIN Directory[c] : Directory[c][i] = END =>
                /\ i = Len(Directory[c])
                /\ Fat[c] # EOC => Directory[Fat[c]] = <<END>>
    /\ \A c, d \in DOMAIN Directory :
          \A i \in DOMAIN Directory[c], j \in DOMAIN Directory[d] :
             Directory[c][i] # END /\ Directory[d][j] # END
             /\ Directory[c][i].cluster = Directory[d][j].cluster
             => Directory[c][i].size = Directory[d][j].size

VARIABLES
    fs_image,      \* "open", or "null"
    is_mounted,
    open_files,    \* the open file table
    dents,         \* the static variables of nqp_getdents
    answer,        \* the last call and what it returned
    got,           \* history: the bytes read with each descriptor
    reopened,      \* history: the descriptors nqp_open has returned again
    listing,       \* history: the directory the listing under way was begun
                   \* with, and the names it has yielded
    status         \* "running", or "crashed" at a null fs_image

vars == <<fs_image, is_mounted, open_files, dents, answer, got, reopened, listing, status>>

Slots == 0 .. MAX_OPEN_FILES - 1
Free == [in_use |-> FALSE, start_cluster |-> 0, file_size |-> 0, offset |-> 0]

Init ==
    /\ fs_image = "null"
    /\ is_mounted = FALSE
    /\ open_files = [s \in Slots |-> Free]
    /\ dents = [cluster |-> 0, index |-> 0, initialized |-> FALSE]
    /\ answer = [call |-> "none"]
    /\ got = [fd \in Files |-> <<>>]
    /\ reopened = {}
    /\ listing = [dir |-> Root, names |-> <<>>]
    /\ status = "running"

\* is_mounted is set and there is no image: a call that gets as far as fseek
\* crashes, one that answers before that does not.
Crashes == is_mounted /\ fs_image = "null"
Crash ==
    /\ Crashes
    /\ status' = "crashed"
    /\ UNCHANGED <<fs_image, is_mounted, open_files, dents, answer, got, reopened, listing>>

-----------------------------------------------------------------------------
\* nqp_mount of an image that passes the checks, and of one that does not or
\* cannot be opened: fs_image is overwritten first, is_mounted set last.  There is
\* one volume: a second one, mounted while the open file table and the static
\* variables of nqp_getdents are about the first, is not modelled.
nqp_mount_ok ==
    /\ fs_image' = "open"
    /\ is_mounted' = TRUE
    /\ answer' = [call |-> "mount", ret |-> 0]
    /\ UNCHANGED <<open_files, dents, got, reopened, listing, status>>

nqp_mount_fails ==
    /\ fs_image' = "null"
    /\ answer' = [call |-> "mount", ret |-> -1]
    /\ UNCHANGED <<is_mounted, open_files, dents, got, reopened, listing, status>>

nqp_unmount ==
    /\ LET ok == is_mounted /\ fs_image # "null" IN
         /\ fs_image' = IF ok THEN "null" ELSE fs_image
         /\ is_mounted' = (is_mounted /\ ~ok)
         /\ answer' = [call |-> "unmount", ret |-> IF ok THEN 0 ELSE -1]
    /\ UNCHANGED <<open_files, dents, got, reopened, listing, status>>

-----------------------------------------------------------------------------
NotFound == [name |-> "", cluster |-> EOC, size |-> 0]

IsEntry(e) == e # END

\* Where the cluster c of a directory has an entry called name.
Matches(c, name) ==
    {i \in DOMAIN Directory[c] : IsEntry(Directory[c][i]) /\ Directory[c][i].name = name}

PathNames == UNION {Range(path) : path \in Paths}

\* The first entry called name in the directory that begins at dir.  (There is
\* none in a file, through which no path leads.)
LookUp ==
    [dir \in Links \cup {0} |-> [name \in PathNames |->
        LET found(c) == c = EOC \/ Matches(c, name) # {}
            c == Skip(dir, Min({n \in Lengths : found(Skip(dir, n))}))
        IN  IF dir \notin DOMAIN Directory \/ c = EOC THEN NotFound
            ELSE Directory[c][Min(Matches(c, name))]]]

\* The entries found on the way along path, up to the first that is missing.
Walk(path) ==
    LET upTo[k \in 0 .. Len(path)] ==
          IF k = 0 THEN <<>>
          ELSE LET before == upTo[k - 1]
                   dir == IF k = 1 THEN Root ELSE before[k - 1].cluster
                   entry == LookUp[dir][path[k]]
               IN  IF Len(before) < k - 1 \/ entry = NotFound
                   THEN before ELSE Append(before, entry)
    IN  upTo[Len(path)]

\* Every component of the path but the last one, if it is there, is a directory.
LeadsThroughDirectories(path) ==
    \A k \in 1 .. Len(path) - 1 :
       LET before == Walk(SubSeq(path, 1, k))
       IN  Len(before) = k => before[k].cluster \in DOMAIN Directory

ASSUME PathsAssumption ==
    \A path \in Paths : path \in Seq(STRING) /\ LeadsThroughDirectories(path)

FreeSlots(table) == {s \in Slots : ~table[s].in_use}
SlotsOf(fd) == {s \in Slots : open_files[s].in_use /\ open_files[s].start_cluster = fd}

\* Mutant: the slot is taken without looking whether it is in use.
Record_over(table, e) ==
    [table EXCEPT ![0] = [in_use |-> TRUE, start_cluster |-> e.cluster,
                          file_size |-> e.size, offset |-> 0]]

\* Every component of the path takes a slot; with none free it is not recorded.
Record(table, e) ==
    IF FreeSlots(table) = {} THEN table
    ELSE [table EXCEPT ![Min(FreeSlots(table))] =
             [in_use |-> TRUE, start_cluster |-> e.cluster,
              file_size |-> e.size, offset |-> 0]]

RecordAll(table, entries) ==
    LET after[k \in 0 .. Len(entries)] ==
          IF k = 0 THEN table ELSE Record(after[k - 1], entries[k])
    IN  after[Len(entries)]

nqp_open(path) ==
    /\ is_mounted /\ (Crashes => path = <<>>)
    /\ \E found \in {Walk(path)} :
           /\ open_files' = RecordAll(open_files, found)
           /\ answer' = [call |-> "open",
                         ret |-> IF Len(found) < Len(path) THEN -1
                                 ELSE IF path = <<>> THEN 0 ELSE Last(found).cluster]
    /\ reopened' = reopened \cup {fd \in Files \ {0} : fd = answer'.ret /\ SlotsOf(fd) # {}}
    /\ UNCHANGED <<fs_image, is_mounted, dents, got, listing, status>>

\* nqp_close does nothing to the table.
nqp_close(fd) ==
    /\ answer' = [call |-> "close", ret |-> IF is_mounted /\ fd >= 0 THEN 0 ELSE -1]
    /\ UNCHANGED <<fs_image, is_mounted, open_files, dents, got, reopened, listing, status>>

-----------------------------------------------------------------------------
\* Mutant: the place in the first cluster is kept for the next ones.
ReadChain_kept(cluster, offset, count) ==
    LET pass[j \in 0 .. count] ==
          IF j = 0 THEN [cluster |-> cluster, offset |-> offset, data |-> <<>>]
          ELSE LET p == pass[j - 1]
                   k == Min({count - Len(p.data), CLUSTER_SIZE - p.offset})
               IN  IF p.cluster = EOC \/ Len(p.data) = count THEN p
                   ELSE [cluster |-> Fat[p.cluster], offset |-> p.offset,
                         data |-> p.data \o [i \in 1 .. k |-> <<p.cluster, p.offset + i - 1>>]]
    IN  pass[count].data

\* The loop that reads cluster by cluster: count bytes, or up to the end of
\* the chain.  A pass reads a byte at least, so that there are count at most.
ReadChain(cluster, offset, count) ==
    LET pass[j \in 0 .. count] ==
          IF j = 0 THEN [cluster |-> cluster, offset |-> offset, data |-> <<>>]
          ELSE LET p == pass[j - 1]
                   k == Min({count - Len(p.data), CLUSTER_SIZE - p.offset})
               IN  IF p.cluster = EOC \/ Len(p.data) = count THEN p
                   ELSE [cluster |-> Fat[p.cluster], offset |-> 0,
                         data |-> p.data \o [i \in 1 .. k |-> <<p.cluster, p.offset + i - 1>>]]
    IN  pass[count].data

\* The bytes one nqp_read copies, from the slot's offset to the file's end.
ReadSlot(file, count) ==
    LET start == Skip(file.start_cluster, file.offset \div CLUSTER_SIZE)
        left == file.file_size - file.offset
    IN  IF left <= 0 THEN <<>>
        ELSE ReadChain(start, file.offset % CLUSTER_SIZE, Min({count, left}))

ReadNotOpen(fd, count) ==
    /\ ~is_mounted \/ fd < 2 \/ SlotsOf(fd) = {}
    /\ answer' = [call |-> "read", ret |-> -1]
    /\ UNCHANGED <<fs_image, is_mounted, open_files, dents, got, reopened, listing, status>>

\* The first slot that names the cluster is the one that is read.
nqp_read(fd, count) ==
    /\ is_mounted /\ fd >= 2 /\ SlotsOf(fd) # {}
    /\ LET s == Min(SlotsOf(fd))
           data == ReadSlot(open_files[s], count)
       IN  /\ Crashes => data = <<>>
           /\ open_files' = [open_files EXCEPT ![s].offset = @ + Len(data)]
           /\ got' = [got EXCEPT ![fd] = @ \o data]
           /\ answer' = [call |-> "read", ret |-> Len(data)]
    /\ UNCHANGED <<fs_image, is_mounted, dents, reopened, listing, status>>

-----------------------------------------------------------------------------
\* Mutant: the index is that of the entry returned, not of the next one.
NextEntry_again(cluster, index) ==
    LET place(n) == IF n = 0 THEN index ELSE 0
        stops(n) == \/ Skip(cluster, n) = EOC
                    \/ place(n) < Len(Directory[Skip(cluster, n)])
        n == Min({m \in Lengths : stops(m)})
        c == Skip(cluster, n)
        i == place(n)
    IN  IF c = EOC
        THEN [cluster |-> EOC, index |-> 0, entry |-> NotFound, initialized |-> TRUE]
        ELSE IF Directory[c][i + 1] = END
        THEN [cluster |-> c, index |-> i, entry |-> NotFound, initialized |-> FALSE]
        ELSE [cluster |-> c, index |-> i, entry |-> Directory[c][i + 1],
              initialized |-> TRUE]

\* The search for the next entry, from where the static variables are: at END
\* they are marked for a new start, at the end of the chain they are not.
NextEntry(cluster, index) ==
    LET place(n) == IF n = 0 THEN index ELSE 0
        stops(n) == \/ Skip(cluster, n) = EOC
                    \/ place(n) < Len(Directory[Skip(cluster, n)])
        n == Min({m \in Lengths : stops(m)})
        c == Skip(cluster, n)
        i == place(n)
    IN  IF c = EOC
        THEN [cluster |-> EOC, index |-> 0, entry |-> NotFound, initialized |-> TRUE]
        ELSE IF Directory[c][i + 1] = END
        THEN [cluster |-> c, index |-> i, entry |-> NotFound, initialized |-> FALSE]
        ELSE [cluster |-> c, index |-> i + 1, entry |-> Directory[c][i + 1],
              initialized |-> TRUE]

\* fd counts only when no listing is under way.
nqp_getdents(fd) ==
    /\ is_mounted
    /\ Crashes => dents.initialized /\ dents.cluster = EOC
    /\ LET next == IF dents.initialized THEN NextEntry(dents.cluster, dents.index)
                                       ELSE NextEntry(fd, 0)
           before == IF dents.initialized THEN listing
                                          ELSE [dir |-> fd, names |-> <<>>]
           names == IF next.entry = NotFound THEN before.names
                    ELSE Append(before.names, next.entry.name)
           ret == IF next.entry = NotFound THEN 0 ELSE 1
       IN  /\ dents' = [cluster |-> next.cluster, index |-> next.index,
                        initialized |-> next.initialized]
           /\ listing' = [dir |-> before.dir, names |-> IF ret = 0 THEN <<>> ELSE names]
           /\ answer' = [call |-> "getdents", ret |-> ret,
                         entry |-> next.entry, listed |-> names]
    /\ UNCHANGED <<fs_image, is_mounted, open_files, got, reopened, status>>

\* Any call that needs a mounted volume, without one.
NotMounted(call) ==
    /\ ~is_mounted
    /\ answer' = [call |-> call, ret |-> -1]
    /\ UNCHANGED <<fs_image, is_mounted, open_files, dents, got, reopened, listing, status>>

\* nqp_size looks among the entries of the root directory's first cluster, and
\* nowhere else; it does not test is_mounted.
SizeOf(fd) ==
    LET places == {i \in DOMAIN Directory[Root] :
                      IsEntry(Directory[Root][i]) /\ Directory[Root][i].cluster = fd}
    IN  IF fd < 2 \/ places = {} THEN -1 ELSE Directory[Root][Min(places)].size

nqp_size(fd) ==
    /\ IF fs_image = "open" \/ fd < 2
       THEN answer' = [call |-> "size", fd |-> fd, ret |-> SizeOf(fd)] /\ UNCHANGED status
       ELSE status' = "crashed" /\ UNCHANGED answer
    /\ UNCHANGED <<fs_image, is_mounted, open_files, dents, got, reopened, listing>>

UseImage ==
    \/ \E path \in Paths : nqp_open(path)
    \/ \E fd \in Files : nqp_size(fd)
    \/ \E fd \in Files, count \in Counts : nqp_read(fd, count)
    \/ \E fd \in Dirs : nqp_getdents(fd)

Call ==
    \/ nqp_mount_ok \/ nqp_mount_fails \/ nqp_unmount
    \/ UseImage
    \/ Crash
    \/ NotMounted("open") \/ NotMounted("getdents")
    \/ \E fd \in Files, count \in Counts : ReadNotOpen(fd, count)
    \/ \E fd \in Files \cup Dirs : nqp_close(fd)

Next ==
    \/ status = "running" /\ Call
    \/ status = "crashed" /\ UNCHANGED vars

Spec == Init /\ [][Next]_vars
-----------------------------------------------------------------------------
SlotType == [in_use : BOOLEAN, start_cluster : Clusters \cup {0},
             file_size : Nat, offset : Nat]

TypeOK ==
    /\ fs_image \in {"open", "null"}
    /\ is_mounted \in BOOLEAN
    /\ open_files \in [Slots -> SlotType]
    /\ \A s \in Slots : open_files[s].offset <= open_files[s].file_size
    /\ dents \in [cluster : Links \cup {0}, index : Nat, initialized : BOOLEAN]
    /\ listing.dir \in Dirs \cup {Root}
    /\ reopened \subseteq Files
    /\ status \in {"running", "crashed"}

\* Byte b follows byte a in its file.
Follows(a, b) ==
    \/ b[1] = a[1] /\ b[2] = a[2] + 1 /\ b[2] < CLUSTER_SIZE
    \/ a[2] = CLUSTER_SIZE - 1 /\ b = <<Fat[a[1]], 0>>

\* A descriptor that nqp_open has returned once.  One that it returns again ought
\* to begin at the file's first byte ("Initial read offset is 0", nqp_exfat.c:245)
\* and goes on in the slot of the first time: nothing is said of those.
OpenedOnce == Files \ reopened

\* What is read with a descriptor, in whatever portions, is the file from its
\* first byte on: none twice, none left out, none of another file, across
\* cluster boundaries and whichever other files are read in between, opened
\* once or again; nor more of it than nqp_size says, where it knows the file.
ReadsInOrder ==
    /\ answer.call = "size" /\ answer.ret >= 0 /\ answer.fd \in OpenedOnce
           => Len(got[answer.fd]) <= answer.ret
    /\ \A fd \in OpenedOnce :
           /\ got[fd] # <<>> => got[fd][1] = <<fd, 0>>
           /\ \A i \in 1 .. Len(got[fd]) - 1 : Follows(got[fd][i], got[fd][i + 1])

\* Where the table says the first slot of a descriptor opened once is, its reader is, and never
\* behind the end of the file; the other variables keep their types.
OffsetIsWhatWasRead ==
    /\ TypeOK
    /\ \A fd \in OpenedOnce : SlotsOf(fd) # {} =>
          open_files[Min(SlotsOf(fd))].offset = Len(got[fd])

Marked(c) == \E i \in DOMAIN Directory[c] : Directory[c][i] = END

\* The directory's entries are followed by END, and not by the end of its chain.
EndMarked(dir) == \E n \in Lengths : Skip(dir, n) # EOC /\ Marked(Skip(dir, n))

NamesOf(c) ==
    IF c = EOC THEN <<>>
    ELSE [i \in 1 .. Len(Directory[c]) - (IF Marked(c) THEN 1 ELSE 0) |-> Directory[c][i].name]

\* The names in the first n clusters of a directory, in order.
NamesUpTo(dir) ==
    LET upTo[n \in Lengths] ==
          IF n = 0 THEN <<>> ELSE upTo[n - 1] \o NamesOf(Skip(dir, n - 1))
    IN  upTo

Names(dir) == NamesUpTo(dir)[LongestChain]

\* A listing yields the entries of the directory it was begun with, each once
\* and in order, and ends when it has yielded all of them.
ListingInOrder ==
    /\ IsPrefix(listing.names, Names(listing.dir))
    /\ answer.call = "getdents" /\ answer.ret = 0 => answer.listed = Names(listing.dir)

=============================================================================
