-------------------------- MODULE NqpExfatPrograms --------------------------
(***************************************************************************)
(* The programs of Assignment1/A1-Drifika on the calls of NqpExfat: cat.c, *)
(* ls.c, paste.c, the command interpreter of main.c; and "any", which      *)
(* makes any calls in any order.  One step is one call and what the        *)
(* program does with its answer.                                           *)
(***************************************************************************)
EXTENDS NqpExfat

CONSTANTS Jobs,      \* records of the program and the paths of its command line
          CHUNK,     \* what cat.c and main.c read at a time
          Newlines,  \* the bytes that are '\n'
          NL         \* the '\n' that paste.c writes itself

ASSUME ProgramsAssumption ==
    /\ Jobs \subseteq [program : {"any", "cli", "cat", "ls", "paste"}, args : Seq(Seq(PathNames))]
    /\ CHUNK \in Nat \ {0} /\ NL \notin Newlines

\* What a path leads to, and whether it leads to anything.
Entry(path) == Last(Walk(path))
Found(path) == path # <<>> /\ Len(Walk(path)) = Len(path)

\* The programs are given paths of the kind they are made for: cat and paste, of
\* files; ls, of directories.  The path may lead to nothing.
ASSUME JobsAssumption ==
    \A j \in Jobs : \A k \in DOMAIN j.args :
        /\ LeadsThroughDirectories(j.args[k])
        /\ Found(j.args[k]) => Entry(j.args[k]).cluster
                                 \in {0} \cup (IF j.program = "ls" THEN Dirs ELSE Files)

VARIABLES job,
          pc,          \* the call the program makes next, or "done"
          arg,         \* its place in the command line
          fds,         \* the descriptors nqp_open has returned
          bytes_read,  \* paste.c sums up what it has read of a line
          buffer,      \* paste.c: the last byte it has read
          printed

programVars == <<job, pc, arg, fds, bytes_read, buffer, printed>>
allVars == <<vars, programVars>>

Args == job.args
Runs(programs) == job.program \in programs /\ status = "running"
Calls(program, call) == Runs({program}) /\ pc = call

ProgramsInit ==
    /\ Init /\ job \in Jobs
    /\ pc = IF job.program \in {"any", "cli"} THEN "prompt" ELSE "mount"
    /\ arg = 1 /\ fds = <<>> /\ bytes_read = 0 /\ buffer = NL /\ printed = <<>>

AnyCall == Runs({"any"}) /\ Call /\ UNCHANGED programVars
-----------------------------------------------------------------------------
\* The three programs of a command line: mount, open, close, unmount.
Mount ==
    /\ Runs({"cat", "ls", "paste"}) /\ pc = "mount"
    /\ \/ nqp_mount_ok /\ pc' = "open"
       \/ nqp_mount_fails /\ pc' = "done"
    /\ UNCHANGED <<job, arg, fds, bytes_read, buffer, printed>>

\* cat.c opens its files one after the other, paste.c both at once.  A path that
\* is not found gives -1: the programs test for NQP_FILE_NOT_FOUND, and go on.
Open ==
    /\ Runs({"cat", "ls", "paste"}) /\ pc = "open" /\ arg <= Len(Args)
    /\ nqp_open(Args[arg])
    /\ fds' = Append(fds, answer'.ret)
    /\ IF job.program = "paste" /\ arg < 2
       THEN arg' = arg + 1 /\ UNCHANGED pc
       ELSE pc' = "read" /\ UNCHANGED arg
    /\ UNCHANGED <<job, bytes_read, buffer, printed>>

Close ==
    /\ Runs({"cat", "ls", "paste"}) /\ pc = "close"
    /\ nqp_close(Last(fds))
    /\ pc' = IF job.program = "cat" THEN "open" ELSE "unmount"
    /\ arg' = arg + 1
    /\ UNCHANGED <<job, fds, bytes_read, buffer, printed>>

Unmount ==
    /\ Runs({"cat", "ls", "paste"})
    /\ pc = "unmount" \/ (pc = "open" /\ arg > Len(Args))
    /\ nqp_unmount
    /\ pc' = "done"
    /\ UNCHANGED <<job, arg, fds, bytes_read, buffer, printed>>

-----------------------------------------------------------------------------
Reads(fd, count) == nqp_read(fd, count) \/ ReadNotOpen(fd, count)
\* The bytes that the call has copied.
Copied(fd) == IF answer'.ret <= 0 THEN <<>>
              ELSE SubSeq(got'[fd], Len(got[fd]) + 1, Len(got'[fd]))

\* Mutant: 0 is not taken for the end of the file.
cat_loop_on_zero ==
    /\ Calls("cat", "read")
    /\ Reads(Last(fds), CHUNK)
    /\ printed' = printed \o Copied(Last(fds))
    /\ pc' = IF answer'.ret >= 0 THEN "read" ELSE "close"
    /\ UNCHANGED <<job, arg, fds, bytes_read, buffer>>

\* cat.c: while nqp_read returns more than 0.
cat_loop ==
    /\ Calls("cat", "read")
    /\ Reads(Last(fds), CHUNK)
    /\ printed' = printed \o Copied(Last(fds))
    /\ pc' = IF answer'.ret > 0 THEN "read" ELSE "close"
    /\ UNCHANGED <<job, arg, fds, bytes_read, buffer>>

DentsRefused(fd) ==
    /\ ~is_mounted \/ fd < 2
    /\ answer' = [call |-> "getdents", ret |-> -1]
    /\ UNCHANGED <<fs_image, is_mounted, open_files, dents, got, reopened, listing, status>>
Lists(fd) == DentsRefused(fd) \/ (fd >= 2 /\ nqp_getdents(fd))

\* ls.c: while nqp_getdents returns more than 0.
ls_loop ==
    /\ Calls("ls", "read")
    /\ Lists(Last(fds))
    /\ \/ answer'.ret > 0 /\ printed' = Append(printed, answer'.entry.name) /\ UNCHANGED pc
       \/ answer'.ret <= 0 /\ pc' = "close" /\ UNCHANGED printed
    /\ UNCHANGED <<job, arg, fds, bytes_read, buffer>>

\* paste.c, a turn of the inner loop of file k: what the two loops of a line have
\* read is summed up, and the loop goes on while the sum is above 0 and the last
\* byte is no newline.  A call that reads nothing leaves that byte as it was.
paste_turn(k, Ends(_)) ==
    /\ Reads(fds[k], 1)
    /\ LET sum == bytes_read + answer'.ret
           byte == IF answer'.ret > 0 THEN Copied(fds[k])[1] ELSE buffer
       IN  /\ buffer' = byte
           /\ \/ /\ sum > 0 /\ byte \notin Newlines
                 /\ printed' = Append(printed, byte)
                 /\ bytes_read' = sum /\ UNCHANGED pc
              \/ ~(sum > 0 /\ byte \notin Newlines) /\ Ends(sum)
    /\ UNCHANGED <<job, arg, fds>>

paste_first ==
    /\ Calls("paste", "read")
    /\ paste_turn(1, LAMBDA sum : pc' = "read2" /\ bytes_read' = sum /\ UNCHANGED printed)

\* Mutant: the end of the second file ends the program.
paste_second_alone ==
    /\ Calls("paste", "read2")
    /\ paste_turn(2, LAMBDA sum : /\ printed' = Append(printed, NL)
                                  /\ pc' = IF answer'.ret > 0 THEN "read" ELSE "close"
                                  /\ bytes_read' = 0)

\* A newline, and the next line, unless neither file has given anything.
paste_second ==
    /\ Calls("paste", "read2")
    /\ paste_turn(2, LAMBDA sum : /\ printed' = Append(printed, NL)
                                  /\ pc' = IF sum > 0 THEN "read" ELSE "close"
                                  /\ bytes_read' = 0)

CommandLine == Mount \/ Open \/ Close \/ Unmount \/ cat_loop \/ ls_loop \/ paste_first \/ paste_second
-----------------------------------------------------------------------------
\* main.c: a command of one call, and those that read or list to the end.
cli_command ==
    /\ Calls("cli", "prompt")
    /\ \/ nqp_mount_ok \/ nqp_mount_fails \/ nqp_unmount
       \/ \E path \in Paths : nqp_open(path)
       \/ NotMounted("open")
       \/ \E fd \in Files \cup Dirs : nqp_close(fd)
    /\ UNCHANGED programVars

cli_loop ==
    /\ Calls("cli", "prompt")
    /\ \E call \in {"read", "getdents"} :
           /\ pc' = call
           /\ \E fd \in IF call = "read" THEN Files ELSE Dirs : fds' = <<fd>>
    /\ UNCHANGED <<vars, job, arg, bytes_read, buffer, printed>>

cli_step ==
    /\ Runs({"cli"})
    /\ \/ pc = "read" /\ Reads(fds[1], CHUNK)
       \/ pc = "getdents" /\ Lists(fds[1])
    /\ pc' = IF answer'.ret > 0 THEN pc ELSE "prompt"
    /\ fds' = IF answer'.ret > 0 THEN fds ELSE <<>>
    /\ UNCHANGED <<job, arg, bytes_read, buffer, printed>>

cli_crash == Runs({"cli"}) /\ pc # "done" /\ Crash /\ UNCHANGED programVars

\* exit, or the end of the input: cleanup.
cleanup ==
    /\ Calls("cli", "prompt")
    /\ nqp_unmount
    /\ pc' = "done"
    /\ UNCHANGED <<job, arg, fds, bytes_read, buffer, printed>>

ProgramsNext ==
    \/ AnyCall \/ CommandLine
    \/ cli_command \/ cli_loop \/ cli_step \/ cli_crash \/ cleanup
    \/ (pc = "done" \/ status = "crashed") /\ UNCHANGED allVars

ProgramsSpec == ProgramsInit /\ [][ProgramsNext]_allVars /\ WF_allVars(CommandLine)
-----------------------------------------------------------------------------
Mounted == fds # <<>>
Finished(program) == Calls(program, "done") /\ Mounted

Content(path) ==
    [i \in 1 .. Entry(path).size |->
        <<Skip(Entry(path).cluster, (i - 1) \div CLUSTER_SIZE), (i - 1) % CLUSTER_SIZE>>]

\* A file that is not empty has a cluster for each of its bytes.
Holds(e) == e.size > 0 => e.cluster # 0 /\ Skip(e.cluster, (e.size - 1) \div CLUSTER_SIZE) # EOC

\* What cat and paste find is whole, and no directory; paste is given two files that
\* end in a newline.
WholeFiles ==
    \A j \in Jobs :
        /\ j.program = "paste" => Len(j.args) = 2
        /\ j.program \in {"cat", "paste"} =>
               \A k \in DOMAIN j.args : Found(j.args[k]) =>
                  LET e == Entry(j.args[k])
                  IN  /\ Holds(e) /\ e.cluster \notin DOMAIN Directory
                      /\ j.program = "paste" /\ e.size > 0
                            => Content(j.args[k])[e.size] \in Newlines

\* The slots of the open file table that the first k paths of a command line take,
\* when they are opened in order.
SlotsFor(args) ==
    LET upTo[k \in 0 .. Len(args)] == IF k = 0 THEN 0 ELSE upTo[k - 1] + Len(Walk(args[k]))
    IN  upTo

\* The k-th path leads to a file that is not empty and has a slot.
Recorded(args, k) ==
    Found(args[k]) /\ Entry(args[k]).size > 0 /\ SlotsFor(args)[k] <= MAX_OPEN_FILES

SameFile(p, q) == Found(p) /\ Found(q) /\ Entry(p).cluster = Entry(q).cluster

\* A command line whose paths have room in the table, and that names no file twice.
FitAndDiffer(args) ==
    /\ SlotsFor(args)[Len(args)] <= MAX_OPEN_FILES
    /\ \A k \in DOMAIN args : \A j \in 1 .. k - 1 :
           SameFile(args[j], args[k]) => Entry(args[k]).size = 0

\* The files of the first k paths, one after the other.
Concatenated(args) ==
    LET upTo[k \in 0 .. Len(args)] ==
          IF k = 0 THEN <<>>
          ELSE upTo[k - 1] \o (IF Found(args[k]) THEN Content(args[k]) ELSE <<>>)
    IN  upTo

\* The end of the line that begins behind place p: its newline.  Behind the last
\* line there is none, and one stays at the end of the file.
LineEnd(bytes, p) ==
    Min({i \in p + 1 .. Len(bytes) : bytes[i] \in Newlines} \cup {Len(bytes)})

\* The ends of the first n lines.
LineEnds(bytes, n) ==
    LET upTo[i \in 0 .. n] == IF i = 0 THEN 0 ELSE LineEnd(bytes, upTo[i - 1])
    IN  upTo

\* The line i, without its newline.
Line(bytes, n, i) == SubSeq(bytes, LineEnds(bytes, n)[i - 1] + 1, LineEnds(bytes, n)[i] - 1)

\* The first i lines of two files, side by side.
SideBySide(a, b, n) ==
    LET upTo[i \in 0 .. n] ==
          IF i = 0 THEN <<>> ELSE upTo[i - 1] \o Line(a, n, i) \o Line(b, n, i) \o <<NL>>
    IN  upTo

\* Neither file has a line i.
Exhausted(a, b, n, i) == LineEnds(a, n)[i - 1] = Len(a) /\ LineEnds(b, n)[i - 1] = Len(b)

\* All lines of two files, and the empty one that neither of them has.
Pasted(a, b) ==
    LET n == Len(a) + Len(b) + 1
    IN  SideBySide(a, b, n)[Min({i \in 1 .. n : Exhausted(a, b, n, i)})]

\* What the programs write.  cat: the files of its command line that are found,
\* one after the other.  ls: the names in a directory other than the root.  paste,
\* for two files that end in a newline: line by line what the first one has and
\* what the second one has, as long as either has any, and one empty line.  Of
\* files named twice, or that the open file table has no room for, and of ls /,
\* nothing is said: there the programs do not write what their comments and
\* nqp_io.h promise.
ProgramsPrint ==
    /\ Finished("cat") /\ FitAndDiffer(Args) => printed = Concatenated(Args)[Len(Args)]
    /\ Finished("ls") /\ Args[1] # <<>> =>
           printed = IF Found(Args[1]) /\ Entry(Args[1]).cluster \in Dirs
                     THEN Names(Entry(Args[1]).cluster) ELSE <<>>
    /\ Finished("paste") /\ Recorded(Args, 1) /\ Recorded(Args, 2) /\ ~SameFile(Args[1], Args[2])
           => printed = Pasted(Content(Args[1]), Content(Args[2]))

\* cat, ls and paste end, whatever the paths they are given (paste: files that
\* end in a newline).
ProgramsEnd == job.program \in {"cat", "ls", "paste"} => <>(pc = "done")
=============================================================================
