------------------------------ MODULE NqpShell ------------------------------
(***************************************************************************)
(* A session of the shell, src/Turin/nqp_shell.c, or its earlier version   *)
(* src/Napoli/nqp_shell.c: lines are read at the prompt; built-in commands *)
(* run in the shell, others as processes, those of a pipeline in parallel, *)
(* connected by pipes; with -o the output of a line's last command is      *)
(* copied to the log.                                                      *)
(*                                                                         *)
(* <<n, i>> is command i of line n, its process, and the pipe behind it;   *)
(* the last one of a line is final_pipe.  Shell is the shell's process.  A *)
(* pipe is the number of units in it and the processes that hold its ends: *)
(* the shell's are inherited by every child.  External: the programs of    *)
(* the volume, which read until the end of their input, and write when     *)
(* they like, as often as Volume says; and the calls of nqp_io.h, each one *)
(* step.                                                                   *)
(***************************************************************************)
EXTENDS Naturals, SequencesExt

CONSTANTS MAX_CMDS, MAX_ARGS,
          PIPE_CAPACITY,
          Versions,       \* "Turin", "Napoli"
          Logging,        \* log_fd >= 0: among BOOLEAN
          Sessions,       \* sets of lines, sequences of tokens, that may be entered
          PathOf,         \* PathOf[token]: what a token is as a path
          Volume,         \* Volume[path]: the file or directory of that path
          HostDirs,       \* the paths that the host has as directories too
          MAX_LINES,      \* the lines that failed, and one more
          MaxFailures,    \* how many fork and pipe calls may fail
          NONE

Paths == [rooted : BOOLEAN, names : Seq(STRING)]

ASSUME ShellAssumption ==
    /\ MAX_CMDS \in Nat \ {0} /\ MAX_ARGS \in Nat \ {0, 1} /\ PIPE_CAPACITY \in Nat \ {0}
    /\ Versions \subseteq {"Turin", "Napoli"} /\ Logging \subseteq BOOLEAN
    /\ \A t \in DOMAIN PathOf : PathOf[t] \in Paths
    /\ \A s \in Sessions : s \subseteq Seq(DOMAIN PathOf)
    /\ <<>> \in DOMAIN Volume
    /\ \A p \in DOMAIN Volume :
           /\ Volume[p] \in [kind : {"dir", "file", "program", "script"},
                             output : Nat, endless : BOOLEAN, quits : BOOLEAN]
           /\ p # <<>> => Front(p) \in DOMAIN Volume /\ Volume[Front(p)].kind = "dir"
    /\ MAX_LINES \in Nat /\ MaxFailures \in Nat

VARIABLES
    version, logging,
    session,   \* the lines that may be entered in this session
    cwd,       \* a path: rooted is its leading slash
    shown,     \* what the last built-in command printed
    lines,     \* the lines that have failed and the last one, parsed
    shell,     \* where the shell is
    next,      \* the command it forks, or waits for, next
    failed,    \* the lines for which a fork or a pipe has failed
    pc,        \* pc[c]: where command c is
    buffer,    \* buffer[p]: what is in pipe p
    writers,   \* writers[p]: the processes that hold its write end
    readers,
    wrote,     \* wrote[c]: what command c has written, unless it is endless
    logged,    \* what shell_write_buf has copied to the log for the line
    tmpfiles   \* the files made in /tmp for the line

pipeVars == <<buffer, writers, readers>>
sessionVars == <<version, logging, session, cwd, shown, lines, failed>>
dataVars == <<wrote, logged, tmpfiles>>
vars == <<sessionVars, shell, next, pc, pipeVars, dataVars>>

Commands == (1 .. MAX_LINES) \X (1 .. MAX_CMDS)
Shell == <<0, 0>>
Processes == Commands \cup {Shell}

\* main_pipe, once the log is open and the volume mounted.
Init ==
    /\ version \in Versions /\ logging \in Logging /\ session \in Sessions
    /\ cwd = [rooted |-> TRUE, names |-> <<>>]
    /\ shown = <<>> /\ lines = <<>> /\ failed = {}
    /\ shell = "prompt" /\ next = 1
    /\ pc = [c \in Commands |-> "none"]
    /\ buffer = [p \in Commands |-> 0]
    /\ writers = [p \in Commands |-> {}] /\ readers = [p \in Commands |-> {}]
    /\ wrote = [c \in Commands |-> 0] /\ logged = 0
    /\ tmpfiles = 0

At(label) == shell = label
-----------------------------------------------------------------------------
AtMost(seq, n) == SubSeq(seq, 1, IF Len(seq) < n THEN Len(seq) ELSE n)

\* Parsing.  What is between two bars is a segment.
SplitAtBars(tokens) ==
    LET split[j \in 0 .. Len(tokens)] ==
            IF j = 0 THEN << <<>> >>
            ELSE LET segs == split[j - 1]
                 IN  IF tokens[j] = "|" THEN Append(segs, <<>>)
                     ELSE [segs EXCEPT ![Len(segs)] = Append(@, tokens[j])]
    IN  split[Len(tokens)]

\* strtok_r passes over bars at the start and the end of the line.
Segments(tokens) ==
    LET all == SplitAtBars(tokens)
        front == IF Head(all) = <<>> THEN Tail(all) ELSE all
        inner == IF front # <<>> /\ Last(front) = <<>> THEN Front(front) ELSE front
    IN  AtMost(inner, MAX_CMDS)

\* The token behind each "<" is the input file, the last one counts; the others
\* are the arguments, of which MAX_ARGS - 1 are looked at.
ParseCommand(tokens) ==
    LET parse[j \in 0 .. Len(tokens)] ==
            IF j = 0 THEN [argv |-> <<>>, input |-> NONE, expects |-> FALSE]
            ELSE LET cmd == parse[j - 1]
                     t == tokens[j]
                 IN  IF cmd.expects THEN [cmd EXCEPT !.input = t, !.expects = FALSE]
                     ELSE IF Len(cmd.argv) >= MAX_ARGS - 1 THEN cmd
                     ELSE IF t = "<" THEN [cmd EXCEPT !.expects = TRUE]
                     ELSE [cmd EXCEPT !.argv = Append(@, t)]
    IN  parse[Len(tokens)]

IsPipeline(tokens) == Contains(tokens, "|")

Parsed(tokens) ==
    IF IsPipeline(tokens)
    THEN [i \in DOMAIN Segments(tokens) |-> ParseCommand(Segments(tokens)[i])]
    ELSE <<ParseCommand(AtMost(tokens, MAX_ARGS - 1))>>

\* A segment that is only a redirection is let through, a single command is not.
WellFormed(tokens) ==
    /\ Parsed(tokens) # <<>>
    /\ \A i \in DOMAIN Parsed(tokens) :
           LET cmd == Parsed(tokens)[i]
           IN  ~cmd.expects /\ (cmd.argv # <<>> \/ (IsPipeline(tokens) /\ cmd.input # NONE))

IsBuiltin(tokens) ==
    /\ tokens # <<>> /\ ~IsPipeline(tokens)
    /\ tokens[1] \in {"exit", "pwd", "ls", "cd", "clear"}
-----------------------------------------------------------------------------
\* Built-in commands, and lines of which nothing comes.
Shows(what) ==
    /\ shown' = what
    /\ UNCHANGED <<version, logging, session, cwd, lines, failed, shell, next, pc, pipeVars, dataVars>>

handle_pwd == Shows(<<"cwd", cwd>>)

handle_ls ==
    Shows(IF cwd.names \notin DOMAIN Volume THEN <<"not found">>
          ELSE IF Volume[cwd.names].kind # "dir" THEN <<"not a directory">>
          ELSE <<"names", {p \in DOMAIN Volume : p # <<>> /\ Front(p) = cwd.names}>>)

ChangesTo(path) ==
    /\ cwd' = path /\ shown' = <<>>
    /\ UNCHANGED <<version, logging, session, lines, failed, shell, next, pc, pipeVars, dataVars>>

Rootless(path) == ~path.rooted /\ Len(path.names) = 1

\* Turin: the directory above, if there is one; a cwd with no slash is refused.
cd_up ==
    IF cwd.names = <<>> \/ Rootless(cwd) THEN ChangesTo(cwd)
    ELSE ChangesTo([cwd EXCEPT !.names = Front(@)])

\* Napoli looks for the last slash in vain, and writes through a null pointer.
cd_up_napoli ==
    \/ /\ ~Rootless(cwd)
       /\ ChangesTo(IF cwd.names = <<>> THEN cwd ELSE [cwd EXCEPT !.names = Front(@)])
    \/ /\ Rootless(cwd)
       /\ shell' = "crashed"
       /\ writers' = [p \in Commands |-> writers[p] \ {Shell}]
       /\ readers' = [p \in Commands |-> readers[p] \ {Shell}]
       /\ UNCHANGED <<sessionVars, next, pc, buffer, dataVars>>

\* Mutant: Napoli's path in Turin.
Destination_unrooted(dir) ==
    IF PathOf[dir].rooted THEN PathOf[dir]
    ELSE [rooted |-> cwd.names # <<>> /\ cwd.rooted, names |-> cwd.names \o PathOf[dir].names]

Destination(dir) ==
    IF PathOf[dir].rooted THEN PathOf[dir]
    ELSE [cwd EXCEPT !.names = @ \o PathOf[dir].names]

\* In Napoli the path of a directory named at the root begins with no slash.
Destination_napoli(dir) ==
    IF PathOf[dir].rooted THEN PathOf[dir]
    ELSE [rooted |-> cwd.names # <<>> /\ cwd.rooted, names |-> cwd.names \o PathOf[dir].names]

\* Whatever nqp_open finds is taken for a directory.
cd_to(path) ==
    IF path.names \in DOMAIN Volume THEN ChangesTo(path) ELSE Shows(<<"not found">>)

handle_cd(tokens) ==
    IF Len(tokens) = 1 THEN Shows(<<"missing argument">>)
    ELSE IF tokens[2] = ".." THEN cd_up
    ELSE cd_to(Destination(tokens[2]))

handle_cd_napoli(tokens) ==
    IF Len(tokens) = 1 THEN Shows(<<"missing argument">>)
    ELSE IF tokens[2] = ".." THEN cd_up_napoli
    ELSE cd_to(Destination_napoli(tokens[2]))

Builtin(tokens) ==
    /\ At("prompt") /\ IsBuiltin(tokens)
    /\ \/ tokens[1] = "pwd" /\ handle_pwd
       \/ tokens[1] = "ls" /\ handle_ls
       \/ tokens[1] = "clear" /\ Shows(<<"clear">>)
       \/ tokens[1] = "cd" /\ version = "Turin" /\ handle_cd(tokens)
       \/ tokens[1] = "cd" /\ version = "Napoli" /\ handle_cd_napoli(tokens)

\* An empty line, or one that is not well formed.
Nothing(tokens) ==
    /\ At("prompt") /\ ~IsBuiltin(tokens)
    /\ ~WellFormed(tokens)
    /\ Shows(IF tokens = <<>> THEN <<>> ELSE <<"syntax error">>)

\* exit, or the end of the input: the log is closed, and the process ends.
ExitShell ==
    /\ At("prompt")
    /\ shell' = "exited"
    /\ writers' = [p \in Commands |-> writers[p] \ {Shell}]
    /\ readers' = [p \in Commands |-> readers[p] \ {Shell}]
    /\ UNCHANGED <<sessionVars, next, pc, buffer, dataVars>>
-----------------------------------------------------------------------------
\* A line of commands.
Line == Len(lines)
NumCmds == Len(lines[Line].cmds)
Cmd(c) == lines[c[1]].cmds[c[2]]
\* Without logging the last command writes to the terminal.
HasPipe(c) == c[2] < Len(lines[c[1]].cmds) \/ logging
LinePipes == {c \in {<<Line, i>> : i \in 1 .. NumCmds} : HasPipe(c)}
LastCmd == <<Line, NumCmds>>
Behind(c) == <<c[1], c[2] - 1>>

\* A line takes the place of the last one, unless that one has failed: then what
\* is left of it stays.
Enter(tokens) ==
    LET past == IF Line \in failed \cup {0} THEN lines ELSE Front(lines)
        n == Len(past) + 1
        Renewed(f, v) == [c \in Commands |-> IF c[1] = n THEN v ELSE f[c]]
    IN  /\ At("prompt") /\ n <= MAX_LINES
        /\ ~IsBuiltin(tokens) /\ WellFormed(tokens)
        /\ lines' = Append(past, [piped |-> IsPipeline(tokens), cmds |-> Parsed(tokens),
                                  cwd |-> cwd])
        /\ pc' = Renewed(pc, "none") /\ buffer' = Renewed(buffer, 0) /\ wrote' = Renewed(wrote, 0)
        /\ logged' = 0 /\ tmpfiles' = 0
        /\ shown' = <<>> /\ shell' = "pipe" /\ next' = 1
        /\ UNCHANGED <<version, logging, session, cwd, failed, writers, readers>>

\* All pipes are made before the first fork.
CreatePipes ==
    /\ At("pipe")
    /\ writers' = [p \in Commands |-> IF p \in LinePipes THEN {Shell} ELSE writers[p]]
    /\ readers' = [p \in Commands |-> IF p \in LinePipes THEN {Shell} ELSE readers[p]]
    /\ shell' = "fork"
    /\ UNCHANGED <<sessionVars, next, pc, buffer, dataVars>>

MayFail == Cardinality(failed) < MaxFailures

\* One of the pipes is not made: those before it are left open.
PipeFails ==
    /\ At("pipe") /\ MayFail
    /\ \E p \in LinePipes :
           LET made == {q \in LinePipes : q[2] < p[2]}
           IN  /\ writers' = [q \in Commands |-> IF q \in made THEN {Shell} ELSE writers[q]]
               /\ readers' = [q \in Commands |-> IF q \in made THEN {Shell} ELSE readers[q]]
    /\ shell' = "prompt" /\ failed' = failed \cup {Line}
    /\ UNCHANGED <<version, logging, session, cwd, shown, lines, next, pc, buffer, dataVars>>

InheritsFrom(held, c) ==
    [p \in Commands |-> IF Shell \in held[p] THEN held[p] \cup {c} ELSE held[p]]

\* The child holds what the shell holds.
Fork ==
    /\ At("fork") /\ next <= NumCmds
    /\ pc' = [pc EXCEPT ![<<Line, next>>] = "forked"]
    /\ writers' = InheritsFrom(writers, <<Line, next>>)
    /\ readers' = InheritsFrom(readers, <<Line, next>>)
    /\ next' = next + 1
    /\ UNCHANGED <<sessionVars, shell, buffer, dataVars>>

Without(held, p, q) == [held EXCEPT ![p] = @ \ {q}]

\* A pipeline is left as it is: nothing is closed, nobody is waited for.  The
\* pipe of a single command is closed.
ForkFails ==
    /\ At("fork") /\ next <= NumCmds /\ MayFail
    /\ \/ lines[Line].piped /\ UNCHANGED <<writers, readers>>
       \/ /\ ~lines[Line].piped
          /\ writers' = Without(writers, LastCmd, Shell)
          /\ readers' = Without(readers, LastCmd, Shell)
    /\ shell' = "prompt" /\ failed' = failed \cup {Line}
    /\ UNCHANGED <<version, logging, session, cwd, shown, lines, next, pc, buffer, dataVars>>

\* Mutant: the shell keeps the read ends.
CloseChain_writers ==
    /\ At("fork") /\ next > NumCmds
    /\ writers' = [p \in Commands |-> IF p \in LinePipes THEN writers[p] \ {Shell}
                                                         ELSE writers[p]]
    /\ shell' = "wait" /\ next' = 1
    /\ UNCHANGED <<sessionVars, pc, buffer, readers, dataVars>>

\* The shell keeps the read end of final_pipe alone.
CloseChain ==
    /\ At("fork") /\ next > NumCmds
    /\ writers' = [p \in Commands |-> IF p \in LinePipes THEN writers[p] \ {Shell}
                                                         ELSE writers[p]]
    /\ readers' = [p \in Commands |-> IF p \in LinePipes \ {LastCmd}
                                      THEN readers[p] \ {Shell} ELSE readers[p]]
    /\ shell' = "wait" /\ next' = 1
    /\ UNCHANGED <<sessionVars, pc, buffer, dataVars>>

\* waitpid, for all commands but the last, in their order.
WaitInOrder ==
    /\ At("wait") /\ next < NumCmds
    /\ pc[<<Line, next>>] = "ended"
    /\ pc' = [pc EXCEPT ![<<Line, next>>] = "reaped"]
    /\ next' = next + 1
    /\ UNCHANGED <<sessionVars, shell, pipeVars, dataVars>>

StartDrain ==
    /\ At("wait") /\ next = NumCmds
    /\ shell' = IF logging THEN "drain" ELSE "reap"
    /\ UNCHANGED <<sessionVars, next, pc, pipeVars, dataVars>>

\* read(final_pipe[0]) and shell_write_buf, until the end of the output.
Drain ==
    /\ At("drain") /\ buffer[LastCmd] > 0
    /\ \E k \in 1 .. buffer[LastCmd] :
           /\ buffer' = [buffer EXCEPT ![LastCmd] = @ - k]
           /\ logged' = logged + k
    /\ UNCHANGED <<sessionVars, shell, next, pc, writers, readers, wrote, tmpfiles>>

\* Mutant: what is read last is not waited for.
DrainEnds_early ==
    /\ At("drain") /\ buffer[LastCmd] = 0
    /\ readers' = Without(readers, LastCmd, Shell)
    /\ shell' = "reap"
    /\ UNCHANGED <<sessionVars, next, pc, buffer, writers, dataVars>>

DrainEnds ==
    /\ At("drain") /\ buffer[LastCmd] = 0 /\ writers[LastCmd] = {}
    /\ readers' = Without(readers, LastCmd, Shell)
    /\ shell' = "reap"
    /\ UNCHANGED <<sessionVars, next, pc, buffer, writers, dataVars>>

Reap ==
    /\ At("reap") /\ pc[LastCmd] = "ended"
    /\ pc' = [pc EXCEPT ![LastCmd] = "reaped"]
    /\ shell' = "prompt"
    /\ UNCHANGED <<sessionVars, next, pipeVars, dataVars>>

ShellStep ==
    \/ CreatePipes \/ Fork \/ CloseChain \/ WaitInOrder \/ StartDrain
    \/ Drain \/ DrainEnds \/ Reap
-----------------------------------------------------------------------------
\* The child of command c.

\* Mutant: it keeps its copies of the other commands' write ends.
SetUp_unclosed(c) ==
    /\ pc[c] = "forked"
    /\ pc' = [pc EXCEPT ![c] = "launch"]
    /\ readers' = [p \in Commands |-> IF p[1] = c[1] /\ p # Behind(c)
                                      THEN readers[p] \ {c} ELSE readers[p]]
    /\ UNCHANGED <<sessionVars, shell, next, buffer, writers, dataVars>>

\* dup2, and close of all pipes of the line: its standard input is the pipe of
\* the command behind it and its standard output its own.
SetUp(c) ==
    /\ pc[c] = "forked"
    /\ pc' = [pc EXCEPT ![c] = "launch"]
    /\ writers' = [p \in Commands |-> IF p[1] = c[1] /\ p # c
                                      THEN writers[p] \ {c} ELSE writers[p]]
    /\ readers' = [p \in Commands |-> IF p[1] = c[1] /\ p # Behind(c)
                                      THEN readers[p] \ {c} ELSE readers[p]]
    /\ UNCHANGED <<sessionVars, shell, next, buffer, dataVars>>

\* The path of the program is always taken from cwd, others from cwd or the root.
ProgramPath(c) == lines[c[1]].cwd.names \o PathOf[Cmd(c).argv[1]].names
FilePath(c, t) ==
    IF PathOf[t].rooted THEN PathOf[t].names ELSE lines[c[1]].cwd.names \o PathOf[t].names
IsFile(path) == path \in DOMAIN Volume /\ Volume[path].kind # "dir"
\* A file is copied if it can be read; one that is no program is not run.
Found(c) == Cmd(c).argv # <<>> /\ IsFile(ProgramPath(c))
Program(c) == Volume[ProgramPath(c)]

\* The arguments that are replaced by a file in /tmp: all of them.  One that the
\* volume does not have gives -1, which is not the NQP_FILE_NOT_FOUND that is
\* tested for, and an empty file.
fix_file_args(c) ==
    IF lines[c[1]].piped /\ Cmd(c).argv[1] \in {"head", "tail"} THEN {}
    ELSE 2 .. Len(Cmd(c).argv)

setup_input_redirection(c) == Cmd(c).input # NONE => IsFile(FilePath(c, Cmd(c).input))

\* Napoli changes to the directory of that name on the host.
chdir(c) == version = "Napoli" => lines[c[1]].cwd \in HostDirs

\* The end of process c closes its descriptors.
Dies(c) ==
    /\ pc' = [pc EXCEPT ![c] = "ended"]
    /\ writers' = [p \in Commands |-> writers[p] \ {c}]
    /\ readers' = [p \in Commands |-> readers[p] \ {c}]
    /\ UNCHANGED <<sessionVars, shell, next, buffer, wrote, logged>>

Copies(c) == IF Found(c) THEN Cardinality(fix_file_args(c)) ELSE 0

\* The program is run.  With a redirection its input is the file, and nobody
\* reads the pipe of the command behind it.
LaunchFunction(c) ==
    /\ pc[c] = "launch"
    /\ Found(c) /\ setup_input_redirection(c) /\ chdir(c)
    /\ Program(c).kind \in {"program", "script"}
    /\ pc' = [pc EXCEPT ![c] = "compute"]
    /\ readers' = IF Cmd(c).input # NONE /\ c[2] > 1
                  THEN Without(readers, Behind(c), c) ELSE readers
    /\ tmpfiles' = tmpfiles + Copies(c) + IF Program(c).kind = "script" THEN 1 ELSE 0
    /\ UNCHANGED <<sessionVars, shell, next, buffer, writers, wrote, logged>>

\* _exit: it is not found or not readable, the redirection or chdir fails, or
\* it is no program.
LaunchFails(c) ==
    /\ pc[c] = "launch"
    /\ \/ ~Found(c) \/ ~setup_input_redirection(c) \/ ~chdir(c)
       \/ Found(c) /\ Program(c).kind = "file"
    /\ tmpfiles' = tmpfiles + Copies(c)
    /\ Dies(c)

ReadsPipe(c) == c[2] > 1 /\ Cmd(c).input = NONE

Read(c) ==
    /\ pc[c] = "compute" /\ ReadsPipe(c) /\ ~Program(c).endless
    /\ buffer[Behind(c)] > 0
    /\ buffer' = [buffer EXCEPT ![Behind(c)] = @ - 1]
    /\ UNCHANGED <<sessionVars, shell, next, pc, writers, readers, dataVars>>

\* A command that has something to write does nothing else until it has.
WantsToWrite(c) ==
    /\ pc[c] = "compute"
    /\ Program(c).endless \/ wrote[c] < Program(c).output
    /\ pc' = [pc EXCEPT ![c] = "write"]
    /\ UNCHANGED <<sessionVars, shell, next, pipeVars, dataVars>>

Write(c) ==
    /\ pc[c] = "write"
    /\ \/ ~HasPipe(c) /\ UNCHANGED buffer
       \/ /\ HasPipe(c) /\ readers[c] # {} /\ buffer[c] < PIPE_CAPACITY
          /\ buffer' = [buffer EXCEPT ![c] = @ + 1]
    /\ pc' = [pc EXCEPT ![c] = "compute"]
    /\ wrote' = IF Program(c).endless THEN wrote ELSE [wrote EXCEPT ![c] = @ + 1]
    /\ UNCHANGED <<sessionVars, shell, next, writers, readers, logged, tmpfiles>>

SigPipe(c) ==
    /\ pc[c] = "write" /\ HasPipe(c)
    /\ readers[c] = {}
    /\ Dies(c) /\ UNCHANGED tmpfiles

\* The command ends: of its own accord, or because its input has.
Exit(c) ==
    /\ pc[c] = "compute" /\ ~Program(c).endless
    /\ \/ Program(c).quits \/ ~ReadsPipe(c)
       \/ ReadsPipe(c) /\ buffer[Behind(c)] = 0 /\ writers[Behind(c)] = {}
    /\ Dies(c) /\ UNCHANGED tmpfiles

Command(c) ==
    \/ SetUp(c) \/ LaunchFunction(c) \/ LaunchFails(c) \/ Read(c) \/ WantsToWrite(c)
    \/ Write(c) \/ SigPipe(c) \/ Exit(c)

Quit(c) == pc[c] = "compute" /\ Program(c).quits /\ Exit(c)

Ended == shell \in {"exited", "crashed"} /\ UNCHANGED vars

Next ==
    \/ \E tokens \in session : Builtin(tokens) \/ Nothing(tokens) \/ Enter(tokens)
    \/ ExitShell \/ ShellStep \/ PipeFails \/ ForkFails
    \/ \E c \in Commands : Command(c)
    \/ Ended

Spec == Init /\ [][Next]_vars

\* Every process gets to run, and a command that quits does so at some time;
\* nobody has to enter anything.
FairSpec ==
    /\ Spec /\ WF_vars(ShellStep)
    /\ \A c \in Commands : WF_vars(Command(c)) /\ SF_vars(Quit(c))
-----------------------------------------------------------------------------
TypeOK ==
    /\ version \in Versions /\ logging \in Logging
    /\ cwd \in Paths /\ Len(lines) <= MAX_LINES /\ failed \subseteq 1 .. MAX_LINES
    /\ shell \in {"prompt", "pipe", "fork", "wait", "drain", "reap", "exited", "crashed"}
    /\ next \in 1 .. MAX_CMDS + 1
    /\ pc \in [Commands -> {"none", "forked", "launch", "compute", "write", "ended", "reaped"}]
    /\ buffer \in [Commands -> 0 .. PIPE_CAPACITY]
    /\ writers \in [Commands -> SUBSET Processes] /\ readers \in [Commands -> SUBSET Processes]
    /\ tmpfiles \in Nat

\* Of each pipe only the two commands it connects hold an end once they all
\* run: the end of a command is the end of the next one's input, and a command
\* whose reader has gone, or reads a file instead, is told so; also after a line
\* that failed.
OnlyNeighboursHold ==
    shell \in {"wait", "drain", "reap"} /\ (\A i \in 1 .. NumCmds : pc[<<Line, i>>] # "forked") =>
        \A p \in LinePipes :
            LET reader == <<p[1], p[2] + 1>>
            IN  /\ writers[p] \subseteq {p}
                /\ readers[p] \subseteq IF p = LastCmd THEN {Shell} ELSE {reader}
                /\ p # LastCmd /\ pc[reader] \in {"compute", "write"} /\ ~ReadsPipe(reader)
                       => readers[p] = {}

\* The shell stops reading the last command's output, and the prompt comes back,
\* only when nothing of a line is left, unless a call has failed in it: nobody
\* who could still write to the log, no process, no descriptor in the shell, and
\* no output unlogged.
NothingLeft ==
    /\ shell = "reap" /\ logging => writers[LastCmd] = {} /\ logged = wrote[LastCmd]
    /\ shell = "prompt" /\ Line \notin failed \cup {0} =>
           /\ \A i \in 1 .. NumCmds : /\ pc[<<Line, i>>] = "reaped"
                                      /\ writers[<<Line, i>>] = {} /\ readers[<<Line, i>>] = {}
           /\ logging => logged = wrote[LastCmd]

\* cwd is a path from the root of something the volume has, whatever has been
\* entered: ls and every relative name start from there (handle_cd: "Try opening
\* via NQP to confirm it exists/is valid"); the other variables keep their types.
CwdIsValid == /\ TypeOK
              /\ version = "Turin" => cwd.rooted /\ cwd.names \in DOMAIN Volume

\* The prompt comes back: also when a command at the front writes for ever and
\* one behind it stops reading, and behind a line that failed.
PromptReturns == shell = "wait" ~> shell = "prompt"

\* With -o the shell "intercepts and logs the final process output in a pipeline"
\* (Turin/README.md:60): all that it has written, in the end.  It does not when
\* that is more than a pipe holds: the shell waits for the commands before the last
\* one first, and those may wait for the last one, which nobody reads.
OutputIsLogged ==
    At("wait") /\ logging ~> At("prompt") /\ Line > 0 /\ logged = wrote[LastCmd]

\* The commands of a pipeline that could not be completed, which nobody waits
\* for, do not outlive the shell.
LeftoversEnd ==
    shell = "exited" ~> \A c \in Commands : pc[c] \in {"none", "ended", "reaped"}
=============================================================================
