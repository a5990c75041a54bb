-------------------------- MODULE NqpShell_proofs --------------------------
(***************************************************************************)
(* What the shell promises of the pipes and processes of a line, of the    *)
(* log and of its working directory, proved for every volume, session,     *)
(* number and length of lines, capacity of pipes and number of calls that  *)
(* fail.                                                                   *)
(*                                                                         *)
(* IInv says who may hold an end of a pipe (HoldersOK, WritersOK,          *)
(* ReadersOK), who must (EndsHeld), how far the line has come (ProgressOK, *)
(* PhaseOK), and where the last command's output is (LogOK).  The steps of *)
(* the commands are proved to keep it by way of ChildMoves and             *)
(* ChildWrites, those of the shell one by one.                             *)
(***************************************************************************)
EXTENDS NqpShell, CommonLemmas, SequenceTheorems, FiniteSetTheorems

Tokens == DOMAIN PathOf
ParsedCommands == [argv : Seq(Tokens), input : Tokens \cup {NONE}, expects : BOOLEAN]

-----------------------------------------------------------------------------
\* What is left of a sequence when it is cut off behind n elements.
LEMMA AtMostTypes ==
    ASSUME NEW S, NEW seq \in Seq(S), NEW n \in Nat
    PROVE  AtMost(seq, n) \in Seq(S) /\ Len(AtMost(seq, n)) \in 0 .. n
<1> DEFINE m == IF Len(seq) < n THEN Len(seq) ELSE n
<1>1. Len(seq) \in Nat
  BY LenProperties
<1>2. m \in Nat /\ m <= n /\ \A i \in 1 .. m : i \in 1 .. Len(seq)
  BY <1>1
<1>3. \A i \in 1 .. m : seq[i] \in S
  BY <1>2, ElementOfSeq
<1> HIDE DEF m
<1>4. /\ SubSeq(seq, 1, m) \in Seq(S)
      /\ Len(SubSeq(seq, 1, m)) = IF 1 <= m THEN m - 1 + 1 ELSE 0
  BY <1>2, <1>3, SubSeqProperties
<1>5. QED BY <1>2, <1>4 DEF AtMost, m

\* The split of a line gives one segment at least, each of tokens.
LEMMA SplitTypes ==
    ASSUME NEW tokens \in Seq(Tokens)
    PROVE  SplitAtBars(tokens) \in Seq(Seq(Tokens)) /\ SplitAtBars(tokens) # <<>>
<1> DEFINE n == Len(tokens)
           S == Seq(Seq(Tokens)) \ {<<>>}
           Step(j, segs) == IF tokens[j] = "|" THEN Append(segs, <<>>)
                            ELSE [segs EXCEPT ![Len(segs)] = Append(@, tokens[j])]
           Body(f) == [j \in 0 .. n |-> IF j = 0 THEN << <<>> >> ELSE Step(j, f[j - 1])]
           split == CHOOSE f : f = Body(f)
           step == [j \in 1 .. n |-> [segs \in S |-> Step(j, segs)]]
<1>1. n \in Nat /\ tokens \in [1 .. n -> Tokens]
  BY LenProperties
<1>2. ASSUME NEW j \in 1 .. n, NEW segs \in S
      PROVE  Step(j, segs) \in S
  <2>1. /\ segs \in Seq(Seq(Tokens)) /\ segs # <<>> /\ tokens[j] \in Tokens
        /\ Len(segs) \in 1 .. Len(segs)
    BY <1>1, <1>2, EmptySeq
  <2>2. <<>> \in Seq(Tokens)
    BY EmptySeq
  <2>3. Append(segs, <<>>) \in S
    <3>1. /\ Append(segs, <<>>) \in Seq(Seq(Tokens))
          /\ Len(Append(segs, <<>>)) = Len(segs) + 1
      BY <2>1, <2>2, AppendProperties
    <3>2. QED BY <2>1, <3>1, EmptySeq
  <2>4. [segs EXCEPT ![Len(segs)] = Append(@, tokens[j])] \in S
    <3>1. segs[Len(segs)] \in Seq(Tokens)
      BY <2>1, ElementOfSeq
    <3>2. Append(segs[Len(segs)], tokens[j]) \in Seq(Tokens)
      BY <2>1, <3>1, AppendProperties
    <3> DEFINE e == Append(segs[Len(segs)], tokens[j])
    <3> HIDE DEF e
    <3>3. /\ [segs EXCEPT ![Len(segs)] = e] \in Seq(Seq(Tokens))
          /\ Len([segs EXCEPT ![Len(segs)] = e]) = Len(segs)
      BY <2>1, <3>2, ExceptSeq DEF e
    <3>4. [segs EXCEPT ![Len(segs)] = e] # <<>>
      BY <2>1, <3>3, EmptySeq
    <3>5. QED BY <3>3, <3>4 DEF e
  <2>5. QED BY <2>3, <2>4
<1>3. << <<>> >> \in S
  <2>1. <<>> \in Seq(Tokens)
    BY EmptySeq
  <2>2. QED BY <2>1
<1> HIDE DEF Step, S
<1>4. split = Body(split)
  <2>1. step \in [1 .. n -> [S -> S]]
    BY <1>2
  <2>2. PICK F \in [0 .. n -> S] : Solves(F, n, << <<>> >>, step)
    <3> HIDE DEF step, n
    <3> QED BY <1>1, <1>3, <2>1, RecursionHasSolution
  <2>3. \A j \in 1 .. n : F[j] = Step(j, F[j - 1])
    <3> SUFFICES ASSUME NEW j \in 1 .. n PROVE F[j] = Step(j, F[j - 1])
      OBVIOUS
    <3>1. j - 1 \in 0 .. n
      BY <1>1
    <3>2. F[j - 1] \in S
      BY <2>2, <3>1
    <3>3. F[j] = step[j][F[j - 1]]
      BY <2>2 DEF Solves
    <3>4. QED BY <3>2, <3>3
  <2>4. F = Body(F)
    <3>1. ASSUME NEW j \in 0 .. n
          PROVE  F[j] = Body(F)[j]
      <4>1. CASE j = 0
        BY <2>2, <4>1 DEF Solves
      <4>2. CASE j # 0
        <5>1. j \in 1 .. n
          BY <4>2
        <5>2. QED BY <2>3, <4>2, <5>1
      <4>3. QED BY <4>1, <4>2
    <3>2. QED BY <2>2, <3>1
  <2> HIDE DEF Body
  <2>5. QED BY <2>4
<1>5. SplitAtBars(tokens) = split[n]
  BY DEF SplitAtBars, Step
<1> HIDE DEF split, n
<1>6. split[0] = << <<>> >> /\ \A j \in 1 .. n : split[j] = Step(j, split[j - 1])
  <2>1. \A j \in 0 .. n :
            split[j] = IF j = 0 THEN << <<>> >> ELSE Step(j, split[j - 1])
    BY <1>4
  <2>2. 0 \in 0 .. n /\ \A j \in 1 .. n : j \in 0 .. n /\ j # 0
    BY <1>1
  <2>3. QED BY <2>1, <2>2
<1>7. \A j \in 1 .. n : split[j - 1] \in S => split[j] \in S
  BY <1>2, <1>6
<1>8. \A j \in 0 .. n : split[j] \in S
  BY <1>1, <1>3, <1>6, <1>7, RecursionStaysIn
<1>9. split[n] \in S
  BY <1>1, <1>8
<1>10. QED BY <1>5, <1>9 DEF S

\* A command is parsed into a command.
LEMMA ParseTypes ==
    ASSUME NEW tokens \in Seq(Tokens)
    PROVE  ParseCommand(tokens) \in ParsedCommands
<1> DEFINE n == Len(tokens)
           S == ParsedCommands
           s0 == [argv |-> <<>>, input |-> NONE, expects |-> FALSE]
           Step(j, cmd) ==
               IF cmd.expects THEN [cmd EXCEPT !.input = tokens[j], !.expects = FALSE]
               ELSE IF Len(cmd.argv) >= MAX_ARGS - 1 THEN cmd
               ELSE IF tokens[j] = "<" THEN [cmd EXCEPT !.expects = TRUE]
               ELSE [cmd EXCEPT !.argv = Append(@, tokens[j])]
           Body(f) == [j \in 0 .. n |-> IF j = 0 THEN s0 ELSE Step(j, f[j - 1])]
           parse == CHOOSE f : f = Body(f)
           step == [j \in 1 .. n |-> [cmd \in S |-> Step(j, cmd)]]
<1>1. n \in Nat /\ tokens \in [1 .. n -> Tokens]
  BY LenProperties
<1>2. ASSUME NEW j \in 1 .. n, NEW cmd \in S
      PROVE  Step(j, cmd) \in S
  <2>1. /\ cmd.argv \in Seq(Tokens) /\ cmd.input \in Tokens \cup {NONE}
        /\ cmd.expects \in BOOLEAN /\ tokens[j] \in Tokens
    BY <1>1 DEF ParsedCommands
  <2>2. Append(cmd.argv, tokens[j]) \in Seq(Tokens)
    BY <2>1, AppendProperties
  <2>3. QED BY <2>1, <2>2 DEF ParsedCommands
<1>3. s0 \in S
  BY EmptySeq DEF ParsedCommands
<1> HIDE DEF Step, S, s0
<1>4. parse = Body(parse)
  <2>1. step \in [1 .. n -> [S -> S]]
    BY <1>2
  <2>2. PICK F \in [0 .. n -> S] : Solves(F, n, s0, step)
    <3> HIDE DEF step, n
    <3> QED BY <1>1, <1>3, <2>1, RecursionHasSolution
  <2>3. \A j \in 1 .. n : F[j] = Step(j, F[j - 1])
    <3> SUFFICES ASSUME NEW j \in 1 .. n PROVE F[j] = Step(j, F[j - 1])
      OBVIOUS
    <3>1. j - 1 \in 0 .. n
      BY <1>1
    <3>2. F[j - 1] \in S
      BY <2>2, <3>1
    <3>3. F[j] = step[j][F[j - 1]]
      BY <2>2 DEF Solves
    <3>4. QED BY <3>2, <3>3
  <2>4. F = Body(F)
    <3>1. ASSUME NEW j \in 0 .. n
          PROVE  F[j] = Body(F)[j]
      <4>1. CASE j = 0
        BY <2>2, <4>1 DEF Solves
      <4>2. CASE j # 0
        <5>1. j \in 1 .. n
          BY <4>2
        <5>2. QED BY <2>3, <4>2, <5>1
      <4>3. QED BY <4>1, <4>2
    <3>2. QED BY <2>2, <3>1
  <2> HIDE DEF Body
  <2>5. QED BY <2>4
<1>5. ParseCommand(tokens) = parse[n]
  BY DEF ParseCommand, Step, s0
<1> HIDE DEF parse, n
<1>6. parse[0] = s0 /\ \A j \in 1 .. n : parse[j] = Step(j, parse[j - 1])
  <2>1. \A j \in 0 .. n : parse[j] = IF j = 0 THEN s0 ELSE Step(j, parse[j - 1])
    BY <1>4
  <2>2. 0 \in 0 .. n /\ \A j \in 1 .. n : j \in 0 .. n /\ j # 0
    BY <1>1
  <2>3. QED BY <2>1, <2>2
<1>7. \A j \in 1 .. n : parse[j - 1] \in S => parse[j] \in S
  BY <1>2, <1>6
<1>8. \A j \in 0 .. n : parse[j] \in S
  BY <1>1, <1>3, <1>6, <1>7, RecursionStaysIn
<1>9. parse[n] \in S
  BY <1>1, <1>8
<1>10. QED BY <1>5, <1>9 DEF S

\* A well-formed line is parsed into MAX_CMDS commands at most, and one at least.
LEMMA ParsedTypes ==
    ASSUME NEW tokens \in Seq(Tokens), WellFormed(tokens)
    PROVE  Parsed(tokens) \in Seq(ParsedCommands) /\ Len(Parsed(tokens)) \in 1 .. MAX_CMDS
<1> USE ShellAssumption
<1>1. Segments(tokens) \in Seq(Seq(Tokens)) /\ Len(Segments(tokens)) \in 0 .. MAX_CMDS
  <2> DEFINE all == SplitAtBars(tokens)
             front == IF Head(all) = <<>> THEN Tail(all) ELSE all
             inner == IF front # <<>> /\ Last(front) = <<>> THEN Front(front) ELSE front
  <2>1. all \in Seq(Seq(Tokens)) /\ all # <<>>
    BY SplitTypes
  <2>2. Segments(tokens) = AtMost(inner, MAX_CMDS)
    BY DEF Segments
  <2> HIDE DEF all
  <2>3. front \in Seq(Seq(Tokens))
    BY <2>1, HeadTailProperties
  <2> HIDE DEF front
  <2>4. Front(front) \in Seq(Seq(Tokens)) \/ front = <<>>
    <3>1. Len(front) \in Nat /\ \A i \in 1 .. Len(front) : front[i] \in Seq(Tokens)
      BY <2>3, LenProperties, ElementOfSeq
    <3>2. \A i \in 1 .. Len(front) - 1 : i \in 1 .. Len(front)
      BY <3>1
    <3>3. SubSeq(front, 1, Len(front) - 1) \in Seq(Seq(Tokens))
      BY <3>1, <3>2, SubSeqProperties
    <3>4. QED BY <3>3 DEF Front
  <2>5. inner \in Seq(Seq(Tokens))
    BY <2>3, <2>4
  <2> HIDE DEF inner
  <2>6. QED BY <2>2, <2>5, AtMostTypes
<1>2. Parsed(tokens) # <<>>
  BY DEF WellFormed
<1>3. CASE IsPipeline(tokens)
  <2> DEFINE m == Len(Segments(tokens))
  <2>1. DOMAIN Segments(tokens) = 1 .. m /\ m \in Nat
    BY <1>1, LenProperties
  <2>2. Parsed(tokens) = [i \in 1 .. m |-> ParseCommand(Segments(tokens)[i])]
    BY <1>3, <2>1 DEF Parsed
  <2>3. \A i \in 1 .. m : ParseCommand(Segments(tokens)[i]) \in ParsedCommands
    BY <1>1, ParseTypes, ElementOfSeq
  <2>4. Parsed(tokens) \in Seq(ParsedCommands) /\ Len(Parsed(tokens)) = m
    <3> HIDE DEF m
    <3> QED BY <2>1, <2>2, <2>3
  <2>5. m # 0
    BY <1>2, <2>4, EmptySeq
  <2>6. QED BY <1>1, <2>4, <2>5
<1>4. CASE ~IsPipeline(tokens)
  <2>1. AtMost(tokens, MAX_ARGS - 1) \in Seq(Tokens)
    BY AtMostTypes
  <2>2. ParseCommand(AtMost(tokens, MAX_ARGS - 1)) \in ParsedCommands
    BY <2>1, ParseTypes
  <2>3. Parsed(tokens) = <<ParseCommand(AtMost(tokens, MAX_ARGS - 1))>>
    BY <1>4 DEF Parsed
  <2>4. QED BY <2>2, <2>3
<1>5. QED BY <1>3, <1>4

-----------------------------------------------------------------------------
Live(c) == pc[c] \in {"forked", "launch", "compute", "write"}

\* The last line is still the shell's concern: no call has failed in it.
Current == Line \notin failed \cup {0} /\ shell \notin {"exited", "crashed"}

\* How many of its commands have been forked, and waited for.
Started == IF shell = "pipe" THEN 0 ELSE IF shell = "fork" THEN next - 1 ELSE NumCmds
Reaped == IF shell \in {"pipe", "fork"} THEN 0
          ELSE IF shell = "wait" THEN next - 1
          ELSE IF shell \in {"drain", "reap"} THEN NumCmds - 1 ELSE NumCmds

Lines == [piped : BOOLEAN, cmds : Seq(ParsedCommands), cwd : Paths]
LineOK(l) == l.cmds \in Seq(ParsedCommands) /\ Len(l.cmds) \in 1 .. MAX_CMDS

TypesOK ==
    /\ TypeOK /\ session \in Sessions
    /\ lines \in Seq(Lines) /\ \A i \in 1 .. Line : LineOK(lines[i])
    /\ failed \subseteq 1 .. Line
    /\ wrote \in [Commands -> Nat] /\ logged \in Nat

PhaseOK ==
    /\ shell \notin {"prompt", "exited", "crashed"} => Line \notin failed \cup {0}
    /\ shell = "pipe" => next = 1
    /\ shell = "fork" => next <= NumCmds + 1
    /\ shell = "wait" => next <= NumCmds
    /\ shell = "drain" => logging

ProgressOK ==
    /\ \A c \in Commands : Line < c[1] \/ Len(lines[c[1]].cmds) < c[2] => pc[c] = "none"
    /\ Current => \A i \in 1 .. NumCmds :
                      /\ pc[<<Line, i>>] = "none" <=> Started < i
                      /\ pc[<<Line, i>>] = "reaped" <=> i <= Reaped

\* An end of a pipe is held by the shell, or by a live process of the pipe's
\* line or a later one; those of the last line's pipes since they were made.
HoldersOK(held) ==
    \A p \in Commands : \A q \in held[p] :
        /\ p[1] < Line \/ (p \in LinePipes /\ shell # "pipe")
        /\ q # Shell => q \in Commands /\ Live(q) /\ p[1] <= q[1]

\* The shell holds both ends of each pipe.
Forking == shell = "fork" \/ (shell = "prompt" /\ Line \in failed)

WritersOK ==
    \A p \in Commands : \A q \in writers[p] :
        p[1] = Line => IF q = Shell THEN Forking ELSE pc[q] = "forked" \/ q = p

ReadersOK ==
    \A p \in Commands : \A q \in readers[p] :
        p[1] = Line =>
            IF q = Shell THEN Forking \/ (shell \in {"wait", "drain"} /\ p = LastCmd)
            ELSE \/ pc[q] = "forked"
                 \/ p = Behind(q) /\ (pc[q] \in {"compute", "write"} => ReadsPipe(q))

\* Who must hold an end, does.
EndsHeld ==
    /\ \A q \in Commands : Live(q) /\ q[1] = Line /\ HasPipe(q) => q \in writers[q]
    /\ shell = "fork" => \A p \in LinePipes : Shell \in writers[p] /\ Shell \in readers[p]
    /\ shell \in {"wait", "drain"} /\ logging => Shell \in readers[LastCmd]

\* What the last command has written has been copied to the log, or is in the
\* pipe; only one that writes for ever is not counted.
LogOK ==
    Current /\ logging =>
        /\ \/ pc[LastCmd] \in {"compute", "write"} /\ Program(LastCmd).endless
           \/ wrote[LastCmd] = logged + buffer[LastCmd]
        /\ shell \in {"reap", "prompt"} => buffer[LastCmd] = 0 /\ writers[LastCmd] = {}

CwdOK == version = "Turin" => cwd.rooted /\ cwd.names \in DOMAIN Volume

SessionOK == TypesOK /\ PhaseOK /\ CwdOK
PipesOK == HoldersOK(writers) /\ HoldersOK(readers) /\ WritersOK /\ ReadersOK /\ EndsHeld
IInv == SessionOK /\ ProgressOK /\ PipesOK /\ LogOK

-----------------------------------------------------------------------------
\* The processes.
LEMMA CommandFacts ==
    /\ Shell \notin Commands
    /\ \A c \in Commands : /\ c[1] \in 1 .. MAX_LINES /\ c[2] \in 1 .. MAX_CMDS
                           /\ c = <<c[1], c[2]>> /\ Behind(c) # c
    /\ \A n \in 1 .. MAX_LINES, i \in 1 .. MAX_CMDS :
           <<n, i>> \in Commands /\ <<n, i>>[1] = n /\ <<n, i>>[2] = i
BY ShellAssumption DEF Commands, Shell, Behind

\* The commands of the last line, and their pipes.
LEMMA LineFacts ==
    ASSUME TypesOK, Line # 0
    PROVE  /\ Line \in 1 .. MAX_LINES /\ NumCmds \in 1 .. MAX_CMDS
           /\ \A i \in 1 .. NumCmds : <<Line, i>> \in Commands
           /\ LastCmd \in Commands /\ LastCmd = <<Line, NumCmds>>
           /\ LastCmd[1] = Line /\ LastCmd[2] = NumCmds
           /\ \A p \in Commands : p \in LinePipes <=>
                  p[1] = Line /\ p[2] \in 1 .. NumCmds /\ (p[2] < NumCmds \/ logging)
           /\ \A p : p \in LinePipes => p \in Commands
           /\ \A p \in Commands : p[1] = Line => (HasPipe(p) <=> p[2] < NumCmds \/ logging)
<1> USE ShellAssumption
<1>1. Line \in 1 .. MAX_LINES
  BY DEF TypesOK, TypeOK, Line
<1>2. NumCmds \in 1 .. MAX_CMDS
  BY <1>1 DEF TypesOK, LineOK, Line, NumCmds
<1>3. \A i \in 1 .. NumCmds : <<Line, i>> \in Commands /\ <<Line, i>>[1] = Line /\ <<Line, i>>[2] = i
  BY <1>1, <1>2, CommandFacts
<1>4. LastCmd \in Commands /\ LastCmd[1] = Line /\ LastCmd[2] = NumCmds
  BY <1>2, <1>3 DEF LastCmd
<1>5. \A p \in Commands : p[1] = Line => (HasPipe(p) <=> p[2] < NumCmds \/ logging)
  BY DEF HasPipe, NumCmds
<1>6. ASSUME NEW p \in Commands
      PROVE  p \in LinePipes <=>
                 p[1] = Line /\ p[2] \in 1 .. NumCmds /\ (p[2] < NumCmds \/ logging)
  <2>1. p \in {<<Line, i>> : i \in 1 .. NumCmds} <=> p[1] = Line /\ p[2] \in 1 .. NumCmds
    BY <1>3, CommandFacts
  <2>2. QED BY <1>5, <2>1 DEF LinePipes
<1>7. \A p : p \in LinePipes => p \in Commands
  BY <1>3 DEF LinePipes
<1>8. QED BY <1>1, <1>2, <1>3, <1>4, <1>5, <1>6, <1>7 DEF LastCmd

\* A live process is one of an earlier line, or of the last one.
LEMMA LiveFacts ==
    ASSUME IInv, NEW c \in Commands, Live(c)
    PROVE  /\ c[1] <= Line /\ Line # 0
           /\ c[2] <= Len(lines[c[1]].cmds)
           /\ c[1] = Line => c[2] <= NumCmds
           /\ c[1] = Line /\ Current =>
                  /\ c[2] <= Started /\ Reaped < c[2]
                  /\ pc[c] \notin {"none", "reaped"}
<1>1. c[1] \in Nat /\ c[2] \in 1 .. MAX_CMDS /\ c = <<c[1], c[2]>> /\ c[1] # 0
  BY CommandFacts
<1>2. Line \in Nat
  BY DEF IInv, SessionOK, TypesOK, Line
<1>3. pc[c] \notin {"none", "reaped"}
  BY DEF Live
<1>4. c[1] <= Line /\ Line # 0
  BY <1>1, <1>2, <1>3 DEF IInv, ProgressOK
<1>5. NumCmds \in Nat /\ next \in Nat
  BY <1>4, LineFacts, ShellAssumption DEF IInv, SessionOK, TypesOK, TypeOK
<1>6. c[2] <= Len(lines[c[1]].cmds) /\ (c[1] = Line => c[2] <= NumCmds)
  <2>1. Len(lines[c[1]].cmds) \in Nat
    BY <1>1, <1>2, <1>4 DEF IInv, SessionOK, TypesOK, LineOK, Line
  <2>2. c[2] <= Len(lines[c[1]].cmds)
    BY <1>1, <1>3, <2>1 DEF IInv, ProgressOK
  <2>3. QED BY <2>2 DEF NumCmds
<1>7. ASSUME c[1] = Line, Current
      PROVE  c[2] <= Started /\ Reaped < c[2]
  <2>1. c[2] \in 1 .. NumCmds /\ c = <<Line, c[2]>>
    BY <1>1, <1>5, <1>6, <1>7
  <2>2. ~ (Started < c[2]) /\ ~ (c[2] <= Reaped)
    BY <1>3, <1>7, <2>1 DEF IInv, ProgressOK
  <2>3. Started \in Int /\ Reaped \in Int
    BY <1>5 DEF Started, Reaped
  <2>4. QED BY <1>1, <2>2, <2>3
<1>8. QED BY <1>3, <1>4, <1>6, <1>7

-----------------------------------------------------------------------------
\* What the process of a command does to the others, and to the log.
ChildMoves(c) ==
    /\ UNCHANGED <<sessionVars, shell, next, logged>>
    /\ Live(c) /\ pc' \in [Commands -> {"none", "forked", "launch", "compute", "write",
                                        "ended", "reaped"}]
    /\ pc'[c] \in {"launch", "compute", "write", "ended"}
    /\ \A d \in Commands : d # c => pc'[d] = pc[d]
    /\ writers' \in [Commands -> SUBSET Processes] /\ readers' \in [Commands -> SUBSET Processes]
    /\ \A p \in Commands : /\ writers'[p] \subseteq writers[p] /\ writers[p] \ {c} \subseteq writers'[p]
                           /\ readers'[p] \subseteq readers[p] /\ readers[p] \ {c} \subseteq readers'[p]
    /\ pc'[c] = "ended" => \A p \in Commands : c \notin writers'[p] /\ c \notin readers'[p]
    /\ pc'[c] # "ended" /\ c[1] = Line =>
           /\ c \in writers[c] => c \in writers'[c]
           /\ \A p \in Commands : p[1] = Line /\ c \in writers'[p] => p = c
           /\ \A p \in Commands : p[1] = Line /\ c \in readers'[p] =>
                  p = Behind(c) /\ (pc'[c] \in {"compute", "write"} => ReadsPipe(c))

ChildWrites(c) ==
    /\ buffer' \in [Commands -> 0 .. PIPE_CAPACITY] /\ wrote' \in [Commands -> Nat]
    /\ tmpfiles' \in Nat
    /\ \A d \in Commands : d # c => /\ wrote'[d] = wrote[d]
                                    /\ d # Behind(c) => buffer'[d] = buffer[d]
    /\ \/ /\ pc[c] \in {"compute", "write"} /\ Program(c).endless
          /\ pc'[c] \in {"compute", "write"} \/ readers[c] = {}
       \/ /\ pc[c] \in {"compute", "write"} => ~Program(c).endless
          /\ HasPipe(c) => wrote'[c] + buffer[c] = wrote[c] + buffer'[c]

\* A step in which a process neither ends nor changes the pipes' ends.
LEMMA KeepsEnds ==
    ASSUME IInv, NEW c \in Commands, pc[c] \in {"compute", "write"},
           UNCHANGED <<sessionVars, shell, next, logged, writers, readers>>,
           pc' = [pc EXCEPT ![c] = pc'[c]], pc'[c] \in {"compute", "write"}
    PROVE  ChildMoves(c)
<1>1. Live(c) /\ Shell # c
  BY CommandFacts DEF Live
<1>2. /\ writers \in [Commands -> SUBSET Processes] /\ readers \in [Commands -> SUBSET Processes]
      /\ pc \in [Commands -> {"none", "forked", "launch", "compute", "write", "ended", "reaped"}]
  BY DEF IInv, SessionOK, TypesOK, TypeOK
<1>3. \A p \in Commands : p[1] = Line /\ c \in writers[p] => p = c
  BY <1>1 DEF IInv, PipesOK, WritersOK
<1>4. \A p \in Commands : p[1] = Line /\ c \in readers[p] => p = Behind(c) /\ ReadsPipe(c)
  BY <1>1 DEF IInv, PipesOK, ReadersOK
<1>5. pc' \in [Commands -> {"none", "forked", "launch", "compute", "write", "ended", "reaped"}]
      /\ \A d \in Commands : d # c => pc'[d] = pc[d]
  BY <1>2
<1>6. QED BY <1>1, <1>2, <1>3, <1>4, <1>5 DEF ChildMoves

\* The end of a process.
LEMMA DiesMoves ==
    ASSUME IInv, NEW c \in Commands, Live(c), Dies(c)
    PROVE  ChildMoves(c) /\ UNCHANGED <<buffer, wrote>> /\ pc'[c] = "ended"
<1>1. /\ writers \in [Commands -> SUBSET Processes] /\ readers \in [Commands -> SUBSET Processes]
      /\ pc \in [Commands -> {"none", "forked", "launch", "compute", "write", "ended", "reaped"}]
  BY DEF IInv, SessionOK, TypesOK, TypeOK
<1>2. /\ pc' = [pc EXCEPT ![c] = "ended"]
      /\ writers' = [p \in Commands |-> writers[p] \ {c}]
      /\ readers' = [p \in Commands |-> readers[p] \ {c}]
      /\ UNCHANGED <<sessionVars, shell, next, buffer, wrote, logged>>
  BY DEF Dies
<1>3. QED BY <1>1, <1>2 DEF ChildMoves

\* The child closes what it has inherited but its own two ends.
LEMMA SetUpMoves ==
    ASSUME IInv, NEW c \in Commands, SetUp(c)
    PROVE  ChildMoves(c)
<1>1. /\ writers \in [Commands -> SUBSET Processes] /\ readers \in [Commands -> SUBSET Processes]
      /\ pc \in [Commands -> {"none", "forked", "launch", "compute", "write", "ended", "reaped"}]
  BY DEF IInv, SessionOK, TypesOK, TypeOK
<1>2. /\ pc[c] = "forked"
      /\ pc' = [pc EXCEPT ![c] = "launch"]
      /\ writers' = [p \in Commands |-> IF p[1] = c[1] /\ p # c
                                        THEN writers[p] \ {c} ELSE writers[p]]
      /\ readers' = [p \in Commands |-> IF p[1] = c[1] /\ p # Behind(c)
                                        THEN readers[p] \ {c} ELSE readers[p]]
      /\ UNCHANGED <<sessionVars, shell, next, logged>>
  BY DEF SetUp, dataVars
<1>3. QED BY <1>1, <1>2 DEF ChildMoves, Live

\* The program is run.
LEMMA LaunchMoves ==
    ASSUME IInv, NEW c \in Commands, LaunchFunction(c)
    PROVE  ChildMoves(c)
<1>1. /\ writers \in [Commands -> SUBSET Processes] /\ readers \in [Commands -> SUBSET Processes]
      /\ pc \in [Commands -> {"none", "forked", "launch", "compute", "write", "ended", "reaped"}]
  BY DEF IInv, SessionOK, TypesOK, TypeOK
<1>2. /\ pc[c] = "launch"
      /\ pc' = [pc EXCEPT ![c] = "compute"]
      /\ readers' = IF Cmd(c).input # NONE /\ c[2] > 1
                    THEN [readers EXCEPT ![Behind(c)] = @ \ {c}] ELSE readers
      /\ writers' = writers
      /\ UNCHANGED <<sessionVars, shell, next, logged>>
  BY DEF LaunchFunction, Without
<1>3. /\ \A p \in Commands : p[1] = Line /\ c \in writers[p] => p = c
      /\ \A p \in Commands : p[1] = Line /\ c \in readers[p] => p = Behind(c)
  BY <1>2, CommandFacts DEF IInv, PipesOK, WritersOK, ReadersOK
<1>4. \A p \in Commands : p = Behind(c) => c[2] > 1
  BY CommandFacts DEF Behind
<1>5. \A p \in Commands : /\ readers'[p] \subseteq readers[p] /\ readers[p] \ {c} \subseteq readers'[p]
                          /\ p = Behind(c) /\ ~ReadsPipe(c) => c \notin readers'[p]
  BY <1>1, <1>2, <1>4 DEF ReadsPipe
<1>6. readers' \in [Commands -> SUBSET Processes]
  BY <1>1, <1>2
<1>7. QED BY <1>1, <1>2, <1>3, <1>5, <1>6 DEF ChildMoves, Live

\* The number of copies that are made of a command's arguments.
LEMMA CopiesTypes ==
    ASSUME IInv, NEW c \in Commands, Live(c)
    PROVE  Copies(c) \in Nat
<1> DEFINE n == Len(Cmd(c).argv)
           S == 2 .. n
<1>1. c[1] \in 1 .. Line /\ c[2] <= Len(lines[c[1]].cmds) /\ c[2] \in Nat \ {0}
  <2>1. c[1] <= Line /\ c[2] <= Len(lines[c[1]].cmds)
    BY LiveFacts
  <2>2. c[1] \in Nat \ {0} /\ c[2] \in Nat \ {0} /\ Line \in Nat
    BY CommandFacts DEF Line, IInv, SessionOK, TypesOK
  <2>3. QED BY <2>1, <2>2
<1>2. Cmd(c) \in ParsedCommands
  <2>1. lines[c[1]].cmds \in Seq(ParsedCommands)
    BY <1>1 DEF IInv, SessionOK, TypesOK, LineOK
  <2> DEFINE cmds == lines[c[1]].cmds
  <2>2. Len(cmds) \in Nat /\ \A i \in 1 .. Len(cmds) : cmds[i] \in ParsedCommands
    BY <2>1, LenProperties, ElementOfSeq
  <2>3. c[2] \in 1 .. Len(cmds)
    BY <1>1, <2>2
  <2>4. QED BY <2>2, <2>3 DEF Cmd
<1>3. n \in Nat
  BY <1>2, LenProperties DEF ParsedCommands
<1>4. IsFiniteSet(S)
  <2> HIDE DEF n
  <2> QED BY <1>3, FS_Interval
<1>5. fix_file_args(c) = {} \/ fix_file_args(c) = S
  BY DEF fix_file_args
<1> HIDE DEF S
<1>6. Cardinality(S) \in Nat /\ Cardinality({}) \in Nat
  BY <1>4, FS_CardinalityType, FS_EmptySet
<1>7. QED BY <1>5, <1>6 DEF Copies

\* Every step of a child ends its process, or leaves others' ends alone; and
\* what it writes is in the pipe.
LEMMA CommandMoves ==
    ASSUME IInv, NEW c \in Commands, Command(c)
    PROVE  ChildMoves(c) /\ ChildWrites(c)
<1>1. /\ buffer \in [Commands -> 0 .. PIPE_CAPACITY] /\ wrote \in [Commands -> Nat]
      /\ tmpfiles \in Nat /\ logged \in Nat
      /\ pc \in [Commands -> {"none", "forked", "launch", "compute", "write", "ended", "reaped"}]
      /\ PIPE_CAPACITY \in Nat
  BY ShellAssumption DEF IInv, SessionOK, TypesOK, TypeOK
<1>2. \A b, w \in Nat : w + b = w + b
  OBVIOUS
<1>3. CASE SetUp(c)
  <2>1. ChildMoves(c)
    BY <1>3, SetUpMoves
  <2>2. pc[c] = "forked" /\ UNCHANGED <<buffer, wrote, tmpfiles>>
    BY <1>3 DEF SetUp, dataVars
  <2>3. QED BY <1>1, <2>1, <2>2 DEF ChildWrites
<1>4. CASE LaunchFunction(c)
  <2>1. ChildMoves(c)
    BY <1>4, LaunchMoves
  <2>2. pc[c] = "launch" /\ UNCHANGED <<buffer, wrote>>
        /\ tmpfiles' = tmpfiles + Copies(c) + IF Program(c).kind = "script" THEN 1 ELSE 0
    BY <1>4 DEF LaunchFunction
  <2>3. tmpfiles' \in Nat
    BY <1>1, <2>1, <2>2, CopiesTypes DEF ChildMoves
  <2>4. QED BY <1>1, <2>1, <2>2, <2>3 DEF ChildWrites
<1>5. CASE LaunchFails(c)
  <2>1. pc[c] = "launch" /\ Dies(c) /\ tmpfiles' = tmpfiles + Copies(c)
    BY <1>5 DEF LaunchFails
  <2>2. Live(c)
    BY <2>1 DEF Live
  <2>3. ChildMoves(c) /\ UNCHANGED <<buffer, wrote>>
    BY <2>1, <2>2, DiesMoves
  <2>4. tmpfiles' \in Nat
    BY <1>1, <2>1, <2>2, CopiesTypes
  <2>5. QED BY <1>1, <2>1, <2>3, <2>4 DEF ChildWrites
<1>6. CASE Read(c)
  <2>1. /\ pc[c] = "compute" /\ ~Program(c).endless
        /\ buffer[Behind(c)] > 0
        /\ buffer' = [buffer EXCEPT ![Behind(c)] = @ - 1]
        /\ UNCHANGED <<sessionVars, shell, next, pc, writers, readers, logged, wrote, tmpfiles>>
    BY <1>6 DEF Read, dataVars
  <2>2. ChildMoves(c)
    BY <1>1, <2>1, KeepsEnds
  <2>3. buffer' \in [Commands -> 0 .. PIPE_CAPACITY]
        /\ \A d \in Commands : d # Behind(c) => buffer'[d] = buffer[d]
    <3> DEFINE b == Behind(c)
               e == buffer[b] - 1
    <3>1. buffer' = [buffer EXCEPT ![b] = e]
      BY <2>1
    <3>2. b \in Commands => e \in 0 .. PIPE_CAPACITY
      <4> HIDE DEF b
      <4>1. b \in Commands => buffer[b] \in 0 .. PIPE_CAPACITY
        BY <1>1
      <4>2. buffer[b] > 0
        BY <2>1 DEF b
      <4>3. QED BY <1>1, <4>1, <4>2
    <3> HIDE DEF b, e
    <3>3. /\ buffer' \in [Commands -> 0 .. PIPE_CAPACITY]
          /\ \A d \in Commands : d # b => buffer'[d] = buffer[d]
      BY <1>1, <3>1, <3>2
    <3>4. QED BY <3>3 DEF b
  <2>4. buffer'[c] = buffer[c]
    BY <2>3, CommandFacts
  <2>5. QED BY <1>1, <2>1, <2>2, <2>3, <2>4 DEF ChildWrites
<1>7. CASE WantsToWrite(c)
  <2>1. /\ pc[c] = "compute" /\ pc' = [pc EXCEPT ![c] = "write"]
        /\ UNCHANGED <<sessionVars, shell, next, buffer, writers, readers, logged, wrote, tmpfiles>>
    BY <1>7 DEF WantsToWrite, dataVars, pipeVars
  <2>2. pc'[c] = "write"
    BY <1>1, <2>1
  <2>3. ChildMoves(c)
    BY <2>1, <2>2, KeepsEnds
  <2>4. QED BY <1>1, <2>1, <2>2, <2>3 DEF ChildWrites
<1>8. CASE Write(c)
  <2>1. /\ pc[c] = "write" /\ pc' = [pc EXCEPT ![c] = "compute"]
        /\ \/ ~HasPipe(c) /\ UNCHANGED buffer
           \/ /\ HasPipe(c) /\ buffer[c] < PIPE_CAPACITY
              /\ buffer' = [buffer EXCEPT ![c] = @ + 1]
        /\ wrote' = IF Program(c).endless THEN wrote ELSE [wrote EXCEPT ![c] = @ + 1]
        /\ UNCHANGED <<sessionVars, shell, next, writers, readers, logged, tmpfiles>>
    BY <1>8 DEF Write
  <2>2. pc'[c] = "compute"
    BY <1>1, <2>1
  <2>3. ChildMoves(c)
    BY <2>1, <2>2, KeepsEnds
  <2>4. /\ buffer' \in [Commands -> 0 .. PIPE_CAPACITY] /\ wrote' \in [Commands -> Nat]
        /\ \A d \in Commands : d # c => wrote'[d] = wrote[d] /\ buffer'[d] = buffer[d]
    BY <1>1, <2>1
  <2>5. ~Program(c).endless /\ HasPipe(c) => wrote'[c] + buffer[c] = wrote[c] + buffer'[c]
    <3>1. ASSUME ~Program(c).endless, HasPipe(c)
          PROVE  wrote'[c] = wrote[c] + 1 /\ buffer'[c] = buffer[c] + 1
      BY <1>1, <2>1, <3>1
    <3>2. wrote[c] \in Nat /\ buffer[c] \in Nat
      BY <1>1
    <3>3. QED BY <3>1, <3>2
  <2>6. QED BY <1>1, <2>1, <2>2, <2>3, <2>4, <2>5 DEF ChildWrites
<1>9. CASE SigPipe(c) \/ Exit(c)
  <2>1. /\ pc[c] \in {"compute", "write"} /\ Dies(c) /\ UNCHANGED tmpfiles
        /\ Program(c).endless => readers[c] = {}
    BY <1>9 DEF SigPipe, Exit
  <2>2. ChildMoves(c) /\ UNCHANGED <<buffer, wrote>>
    BY <2>1, DiesMoves DEF Live
  <2>3. QED BY <1>1, <2>1, <2>2 DEF ChildWrites
<1>10. QED BY <1>3, <1>4, <1>5, <1>6, <1>7, <1>8, <1>9 DEF Command

\* A command's steps keep the invariant.
LEMMA CommandKeeps ==
    ASSUME IInv, NEW c \in Commands, Command(c)
    PROVE  IInv'
<1> USE ShellAssumption
<1>1. ChildMoves(c) /\ ChildWrites(c)
  BY CommandMoves
<1>2. UNCHANGED <<version, logging, session, cwd, lines, failed, shell, next, logged>>
  BY <1>1 DEF ChildMoves, sessionVars
<1>3. /\ Line' = Line /\ NumCmds' = NumCmds /\ LastCmd' = LastCmd /\ LinePipes' = LinePipes
      /\ Current' = Current /\ Started' = Started /\ Reaped' = Reaped /\ Forking' = Forking
  BY <1>2 DEF Line, NumCmds, LastCmd, LinePipes, HasPipe, Current, Started, Reaped, Forking
<1>4. SessionOK'
  BY <1>1, <1>2, <1>3 DEF IInv, SessionOK, TypesOK, TypeOK, PhaseOK, CwdOK, LineOK,
                          ChildMoves, ChildWrites
<1>5. /\ c[1] <= Line /\ Line # 0 /\ c[2] <= Len(lines[c[1]].cmds)
      /\ c[1] = Line => c[2] <= NumCmds
      /\ c[1] = Line /\ Current => c[2] <= Started /\ Reaped < c[2]
  BY <1>1, LiveFacts DEF ChildMoves
<1>6. pc'[c] \notin {"none", "reaped"}
  BY <1>1 DEF ChildMoves
<1>7. /\ Line \in 1 .. MAX_LINES /\ NumCmds \in 1 .. MAX_CMDS /\ next \in Nat
      /\ LastCmd \in Commands /\ LastCmd = <<Line, NumCmds>>
      /\ LastCmd[1] = Line /\ LastCmd[2] = NumCmds
      /\ Started \in Int /\ Reaped \in Int
      /\ \A i \in 1 .. NumCmds : <<Line, i>> \in Commands
  BY <1>5, LineFacts DEF IInv, SessionOK, TypesOK, TypeOK, Started, Reaped
<1>8. c[1] \in Nat /\ c[2] \in Nat \ {0} /\ c = <<c[1], c[2]>> /\ Behind(c) # c /\ Shell # c
  BY CommandFacts
<1>9. ProgressOK'
  <2>1. ASSUME NEW d \in Commands, Line < d[1] \/ Len(lines[d[1]].cmds) < d[2]
        PROVE  pc'[d] = "none"
    <3>1. Len(lines[c[1]].cmds) \in Nat
      BY <1>5, <1>8, CommandFacts DEF IInv, SessionOK, TypesOK, LineOK, Line
    <3>2. d # c
      BY <1>5, <1>7, <1>8, <2>1, <3>1
    <3>3. QED BY <1>1, <2>1, <3>2 DEF IInv, ProgressOK, ChildMoves
  <2>2. ASSUME Current, NEW i \in 1 .. NumCmds
        PROVE  /\ pc'[<<Line, i>>] = "none" <=> Started < i
               /\ pc'[<<Line, i>>] = "reaped" <=> i <= Reaped
    <3>1. CASE c = <<Line, i>>
      BY <1>5, <1>6, <1>7, <1>8, <2>2, <3>1
    <3>2. CASE c # <<Line, i>>
      BY <1>1, <1>7, <2>2, <3>2 DEF IInv, ProgressOK, ChildMoves
    <3>3. QED BY <3>1, <3>2
  <2>3. QED BY <1>2, <1>3, <2>1, <2>2 DEF ProgressOK
<1>10. \A q \in Commands : q # c => Live(q)' = Live(q)
  BY <1>1 DEF Live, ChildMoves
<1>11. pc'[c] # "ended" => Live(c)'
  BY <1>1 DEF Live, ChildMoves
<1>12. HoldersOK(writers)' /\ HoldersOK(readers)'
  <2>1. ASSUME NEW p \in Commands, NEW q \in writers'[p]
        PROVE  /\ p[1] < Line \/ (p \in LinePipes /\ shell # "pipe")
               /\ q # Shell => q \in Commands /\ Live(q)' /\ p[1] <= q[1]
    <3>1. q \in writers[p] /\ (q = c => pc'[c] # "ended")
      BY <1>1, <2>1 DEF ChildMoves
    <3>2. QED BY <1>10, <1>11, <3>1 DEF IInv, PipesOK, HoldersOK
  <2>2. ASSUME NEW p \in Commands, NEW q \in readers'[p]
        PROVE  /\ p[1] < Line \/ (p \in LinePipes /\ shell # "pipe")
               /\ q # Shell => q \in Commands /\ Live(q)' /\ p[1] <= q[1]
    <3>1. q \in readers[p] /\ (q = c => pc'[c] # "ended")
      BY <1>1, <2>2 DEF ChildMoves
    <3>2. QED BY <1>10, <1>11, <3>1 DEF IInv, PipesOK, HoldersOK
  <2>3. QED BY <1>2, <1>3, <2>1, <2>2 DEF HoldersOK
<1>13. WritersOK'
  <2>1. ASSUME NEW p \in Commands, NEW q \in writers'[p], p[1] = Line
        PROVE  IF q = Shell THEN Forking ELSE pc'[q] = "forked" \/ q = p
    <3>1. q \in writers[p] /\ (q = c => pc'[c] # "ended")
      BY <1>1, <2>1 DEF ChildMoves
    <3>2. CASE q = c
      <4>1. p[1] <= c[1]
        BY <1>8, <3>1, <3>2 DEF IInv, PipesOK, HoldersOK
      <4>2. c[1] = Line
        BY <1>5, <1>7, <1>8, <2>1, <4>1
      <4>3. QED BY <1>1, <1>8, <2>1, <3>1, <3>2, <4>2 DEF ChildMoves
    <3>3. CASE q # c
      <4>1. q # Shell => q \in Commands
        BY <3>1 DEF IInv, PipesOK, HoldersOK
      <4>2. QED BY <1>1, <2>1, <3>1, <3>3, <4>1 DEF IInv, PipesOK, WritersOK, ChildMoves
    <3>4. QED BY <3>2, <3>3
  <2>2. QED BY <1>3, <2>1 DEF WritersOK
<1>14. ReadersOK'
  <2>1. ASSUME NEW p \in Commands, NEW q \in readers'[p], p[1] = Line
        PROVE  IF q = Shell THEN Forking \/ (shell \in {"wait", "drain"} /\ p = LastCmd)
               ELSE \/ pc'[q] = "forked"
                    \/ p = Behind(q) /\ (pc'[q] \in {"compute", "write"} => ReadsPipe(q))
    <3>1. q \in readers[p] /\ (q = c => pc'[c] # "ended")
      BY <1>1, <2>1 DEF ChildMoves
    <3>2. CASE q = c
      <4>1. p[1] <= c[1]
        BY <1>8, <3>1, <3>2 DEF IInv, PipesOK, HoldersOK
      <4>2. c[1] = Line
        BY <1>5, <1>7, <1>8, <2>1, <4>1
      <4>3. QED BY <1>1, <1>8, <2>1, <3>1, <3>2, <4>2 DEF ChildMoves
    <3>3. CASE q # c
      <4>1. q # Shell => q \in Commands
        BY <3>1 DEF IInv, PipesOK, HoldersOK
      <4>2. QED BY <1>1, <2>1, <3>1, <3>3, <4>1 DEF IInv, PipesOK, ReadersOK, ChildMoves
    <3>4. QED BY <3>2, <3>3
  <2>2. QED BY <1>2, <1>3, <2>1 DEF ReadersOK, ReadsPipe, Cmd
<1>15. \A p \in Commands : /\ Shell \in writers'[p] <=> Shell \in writers[p]
                           /\ Shell \in readers'[p] <=> Shell \in readers[p]
  BY <1>1, <1>8 DEF ChildMoves
<1>16. EndsHeld'
  <2>1. ASSUME NEW q \in Commands, Live(q)', q[1] = Line, HasPipe(q)
        PROVE  q \in writers'[q]
    <3>1. q = c => pc'[c] # "ended"
      BY <2>1 DEF Live
    <3>2. Live(q)
      BY <1>1, <1>10, <2>1 DEF ChildMoves
    <3>3. q \in writers[q]
      BY <2>1, <3>2 DEF IInv, PipesOK, EndsHeld
    <3>4. QED BY <1>1, <2>1, <3>1, <3>3 DEF ChildMoves
  <2>2. \A p \in LinePipes : p \in Commands
    BY <1>5, LineFacts DEF IInv, SessionOK
  <2>3. /\ shell = "fork" => \A p \in LinePipes : Shell \in writers'[p] /\ Shell \in readers'[p]
        /\ shell \in {"wait", "drain"} /\ logging => Shell \in readers'[LastCmd]
    BY <1>7, <1>15, <2>2 DEF IInv, PipesOK, EndsHeld
  <2>4. QED BY <1>2, <1>3, <2>1, <2>3 DEF EndsHeld, HasPipe
<1>17. LogOK'
  <2> SUFFICES ASSUME Current, logging
               PROVE  /\ \/ pc'[LastCmd] \in {"compute", "write"} /\ Program(LastCmd).endless
                         \/ wrote'[LastCmd] = logged + buffer'[LastCmd]
                      /\ shell \in {"reap", "prompt"} => buffer'[LastCmd] = 0 /\ writers'[LastCmd] = {}
    BY <1>2, <1>3 DEF LogOK, Program, ProgramPath, Cmd
  <2>1. /\ \/ pc[LastCmd] \in {"compute", "write"} /\ Program(LastCmd).endless
           \/ wrote[LastCmd] = logged + buffer[LastCmd]
        /\ shell \in {"reap", "prompt"} => buffer[LastCmd] = 0 /\ writers[LastCmd] = {}
    BY DEF IInv, LogOK
  <2>2. Behind(c) # LastCmd
    <3>1. Behind(c)[1] = c[1] /\ Behind(c)[2] = c[2] - 1
      BY DEF Behind
    <3>2. QED BY <1>5, <1>7, <1>8, <3>1
  <2>3. CASE c # LastCmd
    <3>1. pc'[LastCmd] = pc[LastCmd] /\ writers'[LastCmd] \subseteq writers[LastCmd]
      BY <1>1, <1>7, <2>3 DEF ChildMoves
    <3>2. wrote'[LastCmd] = wrote[LastCmd] /\ buffer'[LastCmd] = buffer[LastCmd]
      BY <1>1, <1>7, <2>2, <2>3 DEF ChildWrites
    <3>3. QED BY <2>1, <3>1, <3>2
  <2>4. CASE c = LastCmd
    <3>1. HasPipe(c) /\ c[1] = Line
      BY <1>7, <2>4 DEF HasPipe
    <3>2. c \in writers[c]
      BY <1>1, <3>1 DEF IInv, PipesOK, EndsHeld, ChildMoves
    <3>3. shell \notin {"reap", "prompt"}
      BY <2>1, <2>4, <3>2
    <3>4. shell # "pipe"
      BY <1>5, <1>7, <1>8, <3>1 DEF Started
    <3>5. shell \in {"fork", "wait", "drain"}
      BY <3>3, <3>4 DEF Current, IInv, SessionOK, TypesOK, TypeOK
    <3>6. c \in LinePipes
      BY <1>5, <1>7, <2>4, LineFacts DEF IInv, SessionOK
    <3>7. Shell \in readers[c]
      BY <2>4, <3>5, <3>6 DEF IInv, PipesOK, EndsHeld
    <3>8. wrote[c] \in Nat /\ wrote'[c] \in Nat /\ buffer[c] \in Nat /\ buffer'[c] \in Nat /\ logged \in Nat
      BY <1>1 DEF IInv, SessionOK, TypesOK, TypeOK, ChildWrites
    <3>9. CASE pc[c] \in {"compute", "write"} /\ Program(c).endless
      BY <1>1, <2>4, <3>3, <3>7, <3>9 DEF ChildWrites
    <3>10. CASE ~(pc[c] \in {"compute", "write"} /\ Program(c).endless)
      <4>1. wrote[c] = logged + buffer[c] /\ wrote'[c] + buffer[c] = wrote[c] + buffer'[c]
        BY <1>1, <2>1, <2>4, <3>1, <3>10 DEF ChildWrites
      <4>2. wrote'[c] = logged + buffer'[c]
        BY <3>8, <4>1
      <4>3. QED BY <2>4, <3>3, <4>2
    <3>11. QED BY <3>9, <3>10
  <2>5. QED BY <2>3, <2>4
<1>18. QED BY <1>4, <1>9, <1>12, <1>13, <1>14, <1>16, <1>17 DEF IInv, PipesOK

-----------------------------------------------------------------------------
\* What depends on the lines and the logging alone.
LEMMA LineFrame ==
    ASSUME UNCHANGED <<lines, logging>>
    PROVE  /\ Line' = Line /\ NumCmds' = NumCmds /\ LastCmd' = LastCmd
           /\ LinePipes' = LinePipes
BY DEF Line, NumCmds, LastCmd, LinePipes, HasPipe

\* A built-in command leaves lines, processes and pipes alone.
LEMMA UnmovedKeeps ==
    ASSUME IInv, cwd' \in Paths, CwdOK',
           UNCHANGED <<version, logging, session, lines, failed, shell, next, pc, pipeVars, dataVars>>
    PROVE  IInv'
<1>1. Line' = Line /\ NumCmds' = NumCmds /\ LastCmd' = LastCmd /\ LinePipes' = LinePipes
  BY LineFrame
<1>2. UNCHANGED <<buffer, writers, readers, wrote, logged, tmpfiles>>
  BY DEF pipeVars, dataVars
<1>3. SessionOK'
  BY <1>1, <1>2 DEF IInv, SessionOK, TypesOK, TypeOK, PhaseOK, LineOK
<1>4. ProgressOK'
  BY <1>1 DEF IInv, ProgressOK, Current, Started, Reaped
<1>5. PipesOK'
  BY <1>1, <1>2 DEF IInv, PipesOK, HoldersOK, WritersOK, ReadersOK, EndsHeld, Live,
                    Forking, HasPipe, ReadsPipe, Cmd
<1>6. LogOK'
  BY <1>1, <1>2 DEF IInv, LogOK, Current, Program, ProgramPath, Cmd
<1>7. QED BY <1>3, <1>4, <1>5, <1>6 DEF IInv

\* The shell ends at the prompt, and with it what it holds is closed.
LEMMA ShellEnds ==
    ASSUME IInv, At("prompt"), shell' \in {"exited", "crashed"},
           writers' = [p \in Commands |-> writers[p] \ {Shell}],
           readers' = [p \in Commands |-> readers[p] \ {Shell}],
           UNCHANGED <<sessionVars, next, pc, buffer, dataVars>>
    PROVE  IInv'
<1>1. UNCHANGED <<version, logging, session, cwd, lines, failed, wrote, logged, tmpfiles>>
      /\ shell = "prompt"
  BY DEF sessionVars, dataVars, At
<1>2. Line' = Line /\ NumCmds' = NumCmds /\ LastCmd' = LastCmd /\ LinePipes' = LinePipes
  BY <1>1, LineFrame
<1>3. SessionOK'
  BY <1>1, <1>2 DEF IInv, SessionOK, TypesOK, TypeOK, PhaseOK, LineOK, CwdOK
<1>4. ~Current'
  BY DEF Current
<1>5. ProgressOK'
  BY <1>1, <1>2, <1>4 DEF IInv, ProgressOK
<1>6. HoldersOK(writers)' /\ HoldersOK(readers)'
  BY <1>1, <1>2 DEF IInv, PipesOK, HoldersOK, Live
<1>7. WritersOK' /\ ReadersOK'
  BY <1>1, <1>2 DEF IInv, PipesOK, WritersOK, ReadersOK, ReadsPipe, Cmd
<1>8. EndsHeld'
  BY <1>1, <1>2, CommandFacts DEF IInv, PipesOK, EndsHeld, Live, HasPipe
<1>9. LogOK'
  BY <1>4 DEF LogOK
<1>10. QED BY <1>3, <1>5, <1>6, <1>7, <1>8, <1>9 DEF IInv, PipesOK

\* A path without its last name.
LEMMA FrontTypes ==
    ASSUME NEW S, NEW seq \in Seq(S)
    PROVE  Front(seq) \in Seq(S)
<1>1. Len(seq) \in Nat /\ \A i \in 1 .. Len(seq) : seq[i] \in S
  BY LenProperties, ElementOfSeq
<1>2. \A i \in 1 .. Len(seq) - 1 : i \in 1 .. Len(seq)
  BY <1>1
<1>3. QED BY <1>1, <1>2, SubSeqProperties DEF Front

\* Built-in commands, exit and the crash of the earlier version's cd.
LEMMA BuiltinKeeps ==
    ASSUME IInv, NEW tokens \in session, Builtin(tokens)
    PROVE  IInv'
<1> USE ShellAssumption
<1>1. /\ tokens \in Seq(Tokens) /\ tokens # <<>> /\ At("prompt")
      /\ cwd \in Paths /\ CwdOK
  BY DEF IInv, SessionOK, TypesOK, TypeOK, Builtin, IsBuiltin, Tokens
<1>2. ASSUME NEW what, Shows(what)
      PROVE  IInv'
  <2>1. UNCHANGED <<version, logging, session, cwd, lines, failed, shell, next, pc, pipeVars, dataVars>>
    BY <1>2 DEF Shows
  <2>2. QED BY <1>1, <2>1, UnmovedKeeps DEF CwdOK
<1>3. ASSUME NEW path \in Paths, ChangesTo(path),
             version = "Turin" => path.rooted /\ path.names \in DOMAIN Volume
      PROVE  IInv'
  <2>1. /\ cwd' = path
        /\ UNCHANGED <<version, logging, session, lines, failed, shell, next, pc, pipeVars, dataVars>>
    BY <1>3 DEF ChangesTo
  <2>2. QED BY <1>3, <2>1, UnmovedKeeps DEF CwdOK
<1>4. [cwd EXCEPT !.names = Front(@)] \in Paths
      /\ [cwd EXCEPT !.names = Front(@)].rooted = cwd.rooted
      /\ [cwd EXCEPT !.names = Front(@)].names = Front(cwd.names)
  <2>1. Front(cwd.names) \in Seq(STRING)
    BY <1>1, FrontTypes DEF Paths
  <2>2. QED BY <1>1, <2>1 DEF Paths
<1>5. ASSUME NEW path \in Paths, cd_to(path), version = "Turin" => path.rooted
      PROVE  IInv'
  BY <1>2, <1>3, <1>5 DEF cd_to
<1>6. Len(tokens) # 1 => tokens[2] \in Tokens
  <2>1. Len(tokens) \in Nat \ {0}
    BY <1>1, EmptySeq, LenProperties
  <2>2. Len(tokens) # 1 => 2 \in 1 .. Len(tokens)
    <3>1. \A k \in Nat \ {0} : k # 1 => 2 \in 1 .. k
      OBVIOUS
    <3>2. QED BY <2>1, <3>1, Zenon
  <2>3. \A i \in 1 .. Len(tokens) : tokens[i] \in Tokens
    BY <1>1, ElementOfSeq
  <2>4. QED BY <2>2, <2>3
<1>7. CASE handle_pwd
  BY <1>2, <1>7 DEF handle_pwd
<1>8. CASE handle_ls
  BY <1>2, <1>8 DEF handle_ls
<1>9. CASE version = "Turin" /\ handle_cd(tokens)
  <2>1. CASE Len(tokens) = 1
    BY <1>2, <1>9, <2>1 DEF handle_cd
  <2>2. CASE Len(tokens) # 1 /\ tokens[2] = ".."
    <3>1. cd_up
      BY <1>9, <2>2 DEF handle_cd
    <3>2. cwd.rooted /\ cwd.names \in DOMAIN Volume
      BY <1>1, <1>9 DEF CwdOK
    <3>3. CASE ChangesTo(cwd)
      BY <1>1, <1>3, <3>2, <3>3
    <3>4. CASE cwd.names # <<>> /\ ChangesTo([cwd EXCEPT !.names = Front(@)])
      <4>1. Front(cwd.names) \in DOMAIN Volume
        BY <3>2, <3>4
      <4> DEFINE up == [cwd EXCEPT !.names = Front(@)]
      <4>2. up \in Paths /\ up.rooted /\ up.names \in DOMAIN Volume
        BY <1>4, <3>2, <4>1
      <4>3. ChangesTo(up)
        BY <3>4
      <4> HIDE DEF up
      <4>4. QED BY <1>3, <4>2, <4>3
    <3>5. QED BY <3>1, <3>3, <3>4 DEF cd_up
  <2>3. CASE Len(tokens) # 1 /\ tokens[2] # ".."
    <3>1. cd_to(Destination(tokens[2]))
      BY <1>9, <2>3 DEF handle_cd
    <3>2. PathOf[tokens[2]] \in Paths
      BY <1>6, <2>3 DEF Tokens
    <3>3. Destination(tokens[2]) \in Paths /\ Destination(tokens[2]).rooted
      <4>1. cwd \in [rooted : BOOLEAN, names : Seq(STRING)] /\ cwd.rooted
            /\ PathOf[tokens[2]].names \in Seq(STRING)
        BY <1>1, <1>9, <3>2 DEF Paths, CwdOK
      <4>2. cwd.names \o PathOf[tokens[2]].names \in Seq(STRING)
        BY <4>1, ConcatProperties
      <4>3. CASE PathOf[tokens[2]].rooted
        BY <3>2, <4>3 DEF Destination
      <4>4. CASE ~PathOf[tokens[2]].rooted
        <5> DEFINE to == [cwd EXCEPT !.names = @ \o PathOf[tokens[2]].names]
        <5>1. to \in Paths /\ to.rooted = cwd.rooted
          BY <4>1, <4>2 DEF Paths
        <5>2. Destination(tokens[2]) = to
          BY <4>4, Zenon DEF Destination
        <5> HIDE DEF to
        <5>3. QED BY <4>1, <5>1, <5>2
      <4>5. QED BY <4>3, <4>4
    <3>4. QED BY <1>5, <3>1, <3>3
  <2>4. QED BY <2>1, <2>2, <2>3
<1>10. CASE version = "Napoli" /\ handle_cd_napoli(tokens)
  <2>1. CASE Len(tokens) = 1
    BY <1>2, <1>10, <2>1 DEF handle_cd_napoli
  <2>2. CASE Len(tokens) # 1 /\ tokens[2] = ".."
    <3>1. cd_up_napoli
      BY <1>10, <2>2 DEF handle_cd_napoli
    <3>2. CASE ChangesTo(IF cwd.names = <<>> THEN cwd ELSE [cwd EXCEPT !.names = Front(@)])
      <4>1. CASE cwd.names = <<>>
        BY <1>1, <1>3, <1>10, <3>2, <4>1
      <4>2. CASE cwd.names # <<>>
        BY <1>3, <1>4, <1>10, <3>2, <4>2
      <4>3. QED BY <4>1, <4>2
    <3>3. CASE ~ChangesTo(IF cwd.names = <<>> THEN cwd ELSE [cwd EXCEPT !.names = Front(@)])
      BY <1>1, <3>1, <3>3, ShellEnds DEF cd_up_napoli
    <3>4. QED BY <3>2, <3>3
  <2>3. CASE Len(tokens) # 1 /\ tokens[2] # ".."
    <3>1. cd_to(Destination_napoli(tokens[2]))
      BY <1>10, <2>3 DEF handle_cd_napoli
    <3>2. PathOf[tokens[2]] \in Paths
      BY <1>6, <2>3 DEF Tokens
    <3>3. Destination_napoli(tokens[2]) \in Paths
      BY <1>1, <3>2 DEF Destination_napoli, Paths
    <3>4. QED BY <1>5, <1>10, <3>1, <3>3
  <2>4. QED BY <2>1, <2>2, <2>3
<1>11. CASE Shows(<<"clear">>)
  BY <1>2, <1>11
<1>12. QED BY <1>7, <1>8, <1>9, <1>10, <1>11 DEF Builtin

\* A line that nothing comes of, and the end of the session.
LEMMA NothingKeeps ==
    ASSUME IInv, NEW tokens, Nothing(tokens) \/ ExitShell
    PROVE  IInv'
<1>1. CASE Nothing(tokens)
  <2>1. UNCHANGED <<version, logging, session, cwd, lines, failed, shell, next, pc, pipeVars, dataVars>>
    BY <1>1 DEF Nothing, Shows
  <2>2. QED BY <2>1, UnmovedKeeps DEF IInv, SessionOK, TypesOK, TypeOK, CwdOK
<1>2. CASE ExitShell
  BY <1>2, ShellEnds DEF ExitShell
<1>3. QED BY <1>1, <1>2

\* A line is entered: in the place of one of which nothing is left, or behind one
\* that has failed, whose pipes and processes are not touched.
LEMMA EnterKeeps ==
    ASSUME IInv, NEW tokens \in session, Enter(tokens)
    PROVE  IInv'
<1> USE ShellAssumption
<1> DEFINE past == IF Line \in failed \cup {0} THEN lines ELSE Front(lines)
           n == Len(past) + 1
           l == [piped |-> IsPipeline(tokens), cmds |-> Parsed(tokens), cwd |-> cwd]
<1>1. /\ shell = "prompt" /\ n <= MAX_LINES /\ WellFormed(tokens)
      /\ lines' = Append(past, l)
      /\ pc' = [c \in Commands |-> IF c[1] = n THEN "none" ELSE pc[c]]
      /\ buffer' = [c \in Commands |-> IF c[1] = n THEN 0 ELSE buffer[c]]
      /\ wrote' = [c \in Commands |-> IF c[1] = n THEN 0 ELSE wrote[c]]
      /\ logged' = 0 /\ tmpfiles' = 0 /\ shell' = "pipe" /\ next' = 1
      /\ UNCHANGED <<version, logging, session, cwd, failed, writers, readers>>
  BY DEF Enter, At
<1>2. /\ lines \in Seq(Lines) /\ Line \in Nat /\ failed \subseteq 1 .. Line
      /\ \A i \in 1 .. Line : LineOK(lines[i])
      /\ tokens \in Seq(Tokens) /\ cwd \in Paths
  <2>1. lines \in Seq(Lines) /\ Line \in Nat /\ failed \subseteq 1 .. Line
        /\ \A i \in 1 .. Line : LineOK(lines[i])
    BY LenProperties DEF IInv, SessionOK, TypesOK, Line
  <2>2. tokens \in Seq(Tokens) /\ cwd \in Paths
    BY DEF IInv, SessionOK, TypesOK, TypeOK, Tokens
  <2>3. QED BY <2>1, <2>2
<1>3. LineOK(l) /\ l \in Lines
  <2>1. Parsed(tokens) \in Seq(ParsedCommands) /\ Len(Parsed(tokens)) \in 1 .. MAX_CMDS
    BY <1>1, <1>2, ParsedTypes
  <2>2. IsPipeline(tokens) \in BOOLEAN
    BY DEF IsPipeline, Contains
  <2>3. QED BY <1>2, <2>1, <2>2 DEF LineOK, Lines
<1>4. /\ past \in Seq(Lines) /\ n \in Nat \ {0}
      /\ \A i \in 1 .. n - 1 : i <= Line /\ past[i] = lines[i]
      /\ IF Line \in failed \cup {0} THEN n = Line + 1 ELSE n = Line
  <2>1. CASE Line \in failed \cup {0}
    BY <1>2, <2>1 DEF Line
  <2>2. CASE Line \notin failed \cup {0}
    <3>1. Line - 1 \in Nat /\ Line = Len(lines)
      BY <1>2, <2>2 DEF Line
    <3>2. \A i \in 1 .. Line - 1 : lines[i] \in Lines
      <4>1. \A i \in 1 .. Line - 1 : i \in 1 .. Len(lines)
        BY <3>1
      <4>2. QED BY <1>2, <4>1, ElementOfSeq
    <3>3. /\ SubSeq(lines, 1, Line - 1) \in Seq(Lines)
          /\ Len(SubSeq(lines, 1, Line - 1)) = IF 1 <= Line - 1 THEN Line - 1 - 1 + 1 ELSE 0
          /\ \A i \in 1 .. Line - 1 - 1 + 1 : SubSeq(lines, 1, Line - 1)[i] = lines[1 + i - 1]
      BY <3>1, <3>2, SubSeqProperties
    <3>4. past = SubSeq(lines, 1, Line - 1)
      BY <2>2, <3>1 DEF Front
    <3>5. Len(past) = Line - 1 /\ \A i \in 1 .. Line - 1 : past[i] = lines[i]
      BY <3>1, <3>3, <3>4
    <3>6. QED BY <2>2, <3>1, <3>3, <3>4, <3>5
  <2>3. QED BY <2>1, <2>2
<1>5. /\ lines' \in Seq(Lines) /\ Line' = n /\ lines'[n] = l
      /\ \A i \in 1 .. n - 1 : lines'[i] = lines[i]
  <2>1. /\ Append(past, l) \in Seq(Lines) /\ Len(Append(past, l)) = Len(past) + 1
        /\ \A i \in 1 .. Len(past) : Append(past, l)[i] = past[i]
        /\ Append(past, l)[Len(past) + 1] = l
    BY <1>3, <1>4, AppendProperties
  <2> HIDE DEF past, l
  <2>2. Len(past) = n - 1 /\ Len(past) \in Nat
    BY <1>4, LenProperties
  <2>3. QED BY <1>1, <1>4, <2>1, <2>2 DEF Line
<1> HIDE DEF past, n, l
<1>6. \A d \in Commands : d[1] >= n => ~Live(d)
  <2> SUFFICES ASSUME NEW d \in Commands, d[1] >= n, Live(d) PROVE FALSE
    OBVIOUS
  <2>1. d[1] <= Line /\ d[1] \in Nat
    BY LiveFacts, CommandFacts
  <2>2. d[1] = Line /\ Current
    BY <1>1, <1>2, <1>4, <2>1 DEF Current
  <2>3. Reaped < d[2] /\ d[2] <= NumCmds
    BY <2>2, LiveFacts
  <2>4. Reaped = NumCmds
    BY <1>1 DEF Reaped
  <2>5. NumCmds \in Nat /\ d[2] \in Nat
    BY <1>2, <2>2, LineFacts, CommandFacts DEF IInv, SessionOK, Current
  <2>6. QED BY <2>3, <2>4, <2>5
<1>7. \A p \in Commands : p[1] >= n => writers[p] = {} /\ readers[p] = {}
  <2>1. ASSUME NEW p \in Commands, p[1] >= n, NEW q \in writers[p]
        PROVE  FALSE
    <3>1. p[1] < Line \/ p \in LinePipes
      BY <2>1 DEF IInv, PipesOK, HoldersOK
    <3>2. p[1] = Line /\ n = Line /\ Line # 0
      <4>1. p[1] \in Nat \ {0} /\ p[1] <= Line
        <5>1. p[1] \in Nat \ {0}
          BY CommandFacts
        <5>2. p \in LinePipes => p[1] = Line
          <6>1. ASSUME p \in LinePipes PROVE p[1] = Line
            BY <6>1, <1>2 DEF LinePipes
          <6>2. QED BY <6>1
        <5>3. QED BY <1>2, <3>1, <5>1, <5>2
      <4>2. QED BY <1>2, <1>4, <2>1, <4>1
    <3>3. q # Shell
      BY <1>1, <1>2, <1>4, <2>1, <3>2 DEF IInv, PipesOK, WritersOK, Forking
    <3>4. q \in Commands /\ Live(q) /\ p[1] <= q[1]
      BY <2>1, <3>3 DEF IInv, PipesOK, HoldersOK
    <3>5. QED BY <1>6, <3>2, <3>4
  <2>2. ASSUME NEW p \in Commands, p[1] >= n, NEW q \in readers[p]
        PROVE  FALSE
    <3>1. p[1] < Line \/ p \in LinePipes
      BY <2>2 DEF IInv, PipesOK, HoldersOK
    <3>2. p[1] = Line /\ n = Line /\ Line # 0
      <4>1. p[1] \in Nat \ {0} /\ p[1] <= Line
        <5>1. p[1] \in Nat \ {0}
          BY CommandFacts
        <5>2. p \in LinePipes => p[1] = Line
          <6>1. ASSUME p \in LinePipes PROVE p[1] = Line
            BY <6>1, <1>2 DEF LinePipes
          <6>2. QED BY <6>1
        <5>3. QED BY <1>2, <3>1, <5>1, <5>2
      <4>2. QED BY <1>2, <1>4, <2>2, <4>1
    <3>3. q # Shell
      BY <1>1, <1>2, <1>4, <2>2, <3>2 DEF IInv, PipesOK, ReadersOK, Forking
    <3>4. q \in Commands /\ Live(q) /\ p[1] <= q[1]
      BY <2>2, <3>3 DEF IInv, PipesOK, HoldersOK
    <3>5. QED BY <1>6, <3>2, <3>4
  <2>3. QED BY <2>1, <2>2
<1>8. /\ n \in 1 .. MAX_LINES /\ n \notin failed
      /\ NumCmds' \in 1 .. MAX_CMDS /\ LastCmd' = <<n, NumCmds'>>
      /\ LastCmd' \in Commands /\ LastCmd'[1] = n
      /\ \A i \in 1 .. NumCmds' : <<n, i>> \in Commands /\ <<n, i>>[1] = n
  <2>1. n \in 1 .. MAX_LINES /\ n \notin failed
    BY <1>1, <1>2, <1>4
  <2>2. NumCmds' \in 1 .. MAX_CMDS
    BY <1>3, <1>5 DEF NumCmds, LineOK
  <2>3. LastCmd' = <<n, NumCmds'>>
    BY <1>5 DEF LastCmd
  <2>4. \A i \in 1 .. NumCmds' : i \in 1 .. MAX_CMDS
    BY <2>2
  <2>5. QED BY <2>1, <2>2, <2>3, <2>4, CommandFacts
<1>9. SessionOK'
  <2>1. \A i \in 1 .. n : LineOK(lines'[i])
    <3>1. \A i \in 1 .. n : i = n \/ (i \in 1 .. n - 1 /\ i \in 1 .. Line)
      BY <1>2, <1>4
    <3>2. QED BY <1>2, <1>3, <1>5, <3>1
  <2>2. failed \subseteq 1 .. n
    BY <1>2, <1>4
  <2>3. TypeOK'
    <3>1. Len(lines') <= MAX_LINES
      BY <1>5, <1>8 DEF Line
    <3>2. QED BY <1>1, <3>1 DEF IInv, SessionOK, TypesOK, TypeOK
  <2>4. TypesOK'
    BY <1>1, <1>5, <2>1, <2>2, <2>3 DEF IInv, SessionOK, TypesOK, LineOK
  <2>5. PhaseOK'
    BY <1>1, <1>5, <1>8 DEF PhaseOK
  <2>6. QED BY <1>1, <2>4, <2>5 DEF IInv, SessionOK, CwdOK
<1>10. ProgressOK'
  <2>1. ASSUME NEW d \in Commands, n < d[1] \/ Len(lines'[d[1]].cmds) < d[2]
        PROVE  pc'[d] = "none"
    <3>1. d[1] \in Nat \ {0}
      BY CommandFacts
    <3>2. CASE d[1] = n
      BY <1>1, <3>2
    <3>3. CASE d[1] > n
      <4>1. Line < d[1]
        BY <1>2, <1>4, <3>1, <3>3
      <4>2. QED BY <1>1, <1>4, <3>1, <3>3, <4>1 DEF IInv, ProgressOK
    <3>4. CASE d[1] < n
      <4>1. d[1] \in 1 .. n - 1 /\ d[1] # n /\ ~ (n < d[1])
        BY <1>4, <3>1, <3>4
      <4>2. Len(lines[d[1]].cmds) < d[2]
        BY <1>5, <2>1, <4>1
      <4>3. QED BY <1>1, <4>1, <4>2 DEF IInv, ProgressOK
    <3>5. QED BY <1>4, <3>1, <3>2, <3>3, <3>4
  <2>2. \A i \in 1 .. NumCmds' : pc'[<<n, i>>] = "none"
    BY <1>1, <1>8
  <2>3. Started' = 0 /\ Reaped' = 0
    BY <1>1 DEF Started, Reaped
  <2>4. \A i \in 1 .. NumCmds' : 0 < i /\ ~ (i <= 0)
    BY <1>8
  <2>5. QED BY <1>5, <2>1, <2>2, <2>3, <2>4 DEF ProgressOK
<1>11. \A q \in Commands : Live(q) => Live(q)'
  BY <1>1, <1>4, <1>6 DEF Live
<1>12. \A q \in Commands : q[1] = n => ~Live(q)'
  BY <1>1 DEF Live
<1>13. HoldersOK(writers)' /\ HoldersOK(readers)'
  <2>1. \A p \in Commands : writers[p] # {} \/ readers[p] # {} => p[1] < n
    BY <1>4, <1>7, CommandFacts
  <2>2. QED BY <1>1, <1>5, <1>11, <2>1 DEF IInv, PipesOK, HoldersOK
<1>14. WritersOK' /\ ReadersOK'
  BY <1>1, <1>4, <1>5, <1>7 DEF WritersOK, ReadersOK
<1>15. EndsHeld'
  BY <1>1, <1>5, <1>12 DEF EndsHeld
<1>16. LogOK'
  BY <1>1, <1>8 DEF LogOK
<1>17. QED BY <1>9, <1>10, <1>13, <1>14, <1>15, <1>16 DEF IInv, PipesOK

-----------------------------------------------------------------------------
\* What depends on the lines alone keeps its meaning while they stay.
LEMMA CommandFrame ==
    ASSUME UNCHANGED <<lines, logging>>
    PROVE  \A c \in Commands : /\ HasPipe(c)' <=> HasPipe(c)
                               /\ ReadsPipe(c)' <=> ReadsPipe(c)
                               /\ Program(c)' = Program(c)
BY DEF HasPipe, ReadsPipe, Program, ProgramPath, Cmd

\* While the shell is busy with a line, no call has failed in it.
LEMMA BusyFacts ==
    ASSUME IInv, shell \notin {"prompt", "exited", "crashed"}
    PROVE  /\ Current /\ Line # 0 /\ TypesOK /\ Line \notin failed
           /\ Line \in 1 .. MAX_LINES /\ NumCmds \in 1 .. MAX_CMDS
           /\ next \in 1 .. MAX_CMDS + 1
           /\ LastCmd \in Commands /\ LastCmd[1] = Line /\ LastCmd[2] = NumCmds
           /\ LastCmd = <<Line, NumCmds>>
<1>1. Current /\ Line # 0 /\ TypesOK /\ Line \notin failed
  BY DEF IInv, SessionOK, PhaseOK, Current
<1>2. QED BY <1>1, LineFacts DEF TypesOK, TypeOK

\* A holder of a pipe of the last line holds one that has been made.
LEMMA HeldFacts ==
    ASSUME IInv, NEW p \in Commands, p[1] = Line, writers[p] # {} \/ readers[p] # {}
    PROVE  p \in LinePipes /\ shell # "pipe"
<1>1. Line \in Nat /\ ~(p[1] < Line)
  BY DEF IInv, SessionOK, TypesOK, Line
<1>2. CASE writers[p] # {}
  BY <1>1, <1>2 DEF IInv, PipesOK, HoldersOK
<1>3. CASE readers[p] # {}
  BY <1>1, <1>3 DEF IInv, PipesOK, HoldersOK
<1>4. QED BY <1>2, <1>3

\* Before the first fork of a line none of its processes is live.
LEMMA NoneLive ==
    ASSUME IInv, shell = "pipe"
    PROVE  \A q \in Commands : q[1] = Line => ~Live(q)
<1> SUFFICES ASSUME NEW q \in Commands, q[1] = Line, Live(q) PROVE FALSE
  OBVIOUS
<1>1. q[2] <= Started /\ q[2] \in Nat \ {0}
  BY LiveFacts, BusyFacts, CommandFacts
<1>2. QED BY <1>1 DEF Started

\* The pipes of the line are made.
LEMMA CreatePipesKeeps ==
    ASSUME IInv, CreatePipes
    PROVE  IInv'
<1>1. /\ shell = "pipe" /\ shell' = "fork"
      /\ writers' = [p \in Commands |-> IF p \in LinePipes THEN {Shell} ELSE writers[p]]
      /\ readers' = [p \in Commands |-> IF p \in LinePipes THEN {Shell} ELSE readers[p]]
      /\ UNCHANGED <<version, logging, session, cwd, lines, failed, next, pc, buffer, wrote,
                     logged, tmpfiles>>
  BY DEF CreatePipes, At, sessionVars, dataVars
<1>2. Line' = Line /\ NumCmds' = NumCmds /\ LastCmd' = LastCmd /\ LinePipes' = LinePipes
  BY <1>1, LineFrame
<1>3. /\ Current /\ TypesOK /\ Line # 0 /\ Line \notin failed /\ next = 1
      /\ Line \in 1 .. MAX_LINES /\ NumCmds \in 1 .. MAX_CMDS
  BY <1>1, BusyFacts DEF IInv, SessionOK, PhaseOK
<1>4. \A p \in Commands : p[1] = Line /\ p \notin LinePipes => writers[p] = {} /\ readers[p] = {}
  BY HeldFacts
<1>5. \A p \in Commands : p \in LinePipes => p[1] = Line
  BY <1>3, LineFacts
<1>6. SessionOK'
  <2>1. writers' \in [Commands -> SUBSET Processes] /\ readers' \in [Commands -> SUBSET Processes]
    BY <1>1, <1>3 DEF TypesOK, TypeOK, Processes
  <2>2. TypesOK'
    BY <1>1, <1>2, <1>3, <2>1 DEF TypesOK, TypeOK, LineOK
  <2>3. PhaseOK'
    BY <1>1, <1>2, <1>3 DEF PhaseOK
  <2>4. QED BY <1>1, <2>2, <2>3 DEF IInv, SessionOK, CwdOK
<1>7. ProgressOK'
  BY <1>1, <1>2, <1>3 DEF IInv, ProgressOK, Current, Started, Reaped
<1>8. HoldersOK(writers)' /\ HoldersOK(readers)'
  BY <1>1, <1>2 DEF IInv, PipesOK, HoldersOK, Live
<1>9. WritersOK' /\ ReadersOK'
  BY <1>1, <1>2, <1>4 DEF WritersOK, ReadersOK, Forking
<1>10. EndsHeld'
  <2>1. \A q \in Commands : q[1] = Line => ~Live(q)'
    BY <1>1, NoneLive DEF Live
  <2>2. \A p \in LinePipes : p \in Commands
    BY <1>3, LineFacts
  <2>3. QED BY <1>1, <1>2, <2>1, <2>2 DEF EndsHeld
<1>11. LogOK'
  BY <1>1, <1>2, <1>3, BusyFacts, CommandFrame DEF IInv, LogOK, Current
<1>12. QED BY <1>6, <1>7, <1>8, <1>9, <1>10, <1>11 DEF IInv, PipesOK

\* A pipe cannot be made: the line is given up.
LEMMA PipeFailsKeeps ==
    ASSUME IInv, PipeFails
    PROVE  IInv'
<1>1. PICK made \in SUBSET LinePipes :
          /\ writers' = [q \in Commands |-> IF q \in made THEN {Shell} ELSE writers[q]]
          /\ readers' = [q \in Commands |-> IF q \in made THEN {Shell} ELSE readers[q]]
  BY DEF PipeFails
<1>2. /\ shell = "pipe" /\ shell' = "prompt" /\ failed' = failed \cup {Line}
      /\ UNCHANGED <<version, logging, session, cwd, lines, next, pc, buffer, wrote,
                     logged, tmpfiles>>
  BY DEF PipeFails, At, dataVars
<1>3. Line' = Line /\ NumCmds' = NumCmds /\ LastCmd' = LastCmd /\ LinePipes' = LinePipes
  BY <1>2, LineFrame
<1>4. /\ TypesOK /\ Line # 0 /\ Line \in 1 .. MAX_LINES
  BY <1>2, BusyFacts
<1>5. \A p \in Commands : p[1] = Line /\ p \notin made => writers[p] = {} /\ readers[p] = {}
  BY <1>2, HeldFacts
<1>6. SessionOK'
  <2>1. writers' \in [Commands -> SUBSET Processes] /\ readers' \in [Commands -> SUBSET Processes]
    BY <1>1, <1>4 DEF TypesOK, TypeOK, Processes
  <2>2. failed' \subseteq 1 .. Line /\ failed' \subseteq 1 .. MAX_LINES
    BY <1>2, <1>4, ShellAssumption DEF TypesOK, TypeOK
  <2>3. TypesOK'
    BY <1>2, <1>3, <1>4, <2>1, <2>2 DEF TypesOK, TypeOK, LineOK
  <2>4. QED BY <1>2, <2>3 DEF IInv, SessionOK, PhaseOK, CwdOK
<1>7. ~Current'
  BY <1>2, <1>3 DEF Current
<1>8. ProgressOK'
  BY <1>2, <1>3, <1>7 DEF IInv, ProgressOK
<1>9. HoldersOK(writers)' /\ HoldersOK(readers)'
  BY <1>1, <1>2, <1>3 DEF IInv, PipesOK, HoldersOK, Live
<1>10. WritersOK' /\ ReadersOK'
  BY <1>1, <1>2, <1>3, <1>5 DEF WritersOK, ReadersOK, Forking
<1>11. EndsHeld'
  <2>1. \A q \in Commands : q[1] = Line => ~Live(q)'
    BY <1>2, NoneLive DEF Live
  <2>2. QED BY <1>2, <1>3, <2>1 DEF EndsHeld
<1>12. LogOK'
  BY <1>7 DEF LogOK
<1>13. QED BY <1>6, <1>8, <1>9, <1>10, <1>11, <1>12 DEF IInv, PipesOK

\* A child is forked: it holds what the shell holds.
LEMMA ForkKeeps ==
    ASSUME IInv, Fork
    PROVE  IInv'
<1>0. PICK c : c = <<Line, next>>
  OBVIOUS
<1>1. /\ shell = "fork" /\ shell' = "fork" /\ next <= NumCmds /\ next' = next + 1
      /\ pc' = [pc EXCEPT ![c] = "forked"]
      /\ writers' = [p \in Commands |-> IF Shell \in writers[p] THEN writers[p] \cup {c}
                                                                ELSE writers[p]]
      /\ readers' = [p \in Commands |-> IF Shell \in readers[p] THEN readers[p] \cup {c}
                                                                ELSE readers[p]]
      /\ UNCHANGED <<version, logging, session, cwd, lines, failed, buffer, wrote, logged,
                     tmpfiles>>
  BY <1>0 DEF Fork, At, sessionVars, dataVars, InheritsFrom
<1>2. Line' = Line /\ NumCmds' = NumCmds /\ LastCmd' = LastCmd /\ LinePipes' = LinePipes
  BY <1>1, LineFrame
<1>3. /\ Current /\ TypesOK /\ Line # 0 /\ Line \notin failed
      /\ Line \in 1 .. MAX_LINES /\ NumCmds \in 1 .. MAX_CMDS /\ next \in 1 .. NumCmds
      /\ MAX_CMDS \in Nat
  BY <1>1, BusyFacts, ShellAssumption
<1>4. c \in Commands /\ c[1] = Line /\ c[2] = next /\ c # Shell
  BY <1>0, <1>3, CommandFacts, LineFacts
<1>5. pc[c] = "none" /\ ~Live(c)
  <2>1. Started < next
    BY <1>1, <1>3 DEF Started
  <2>2. QED BY <1>0, <1>3, <2>1 DEF IInv, ProgressOK, Live
<1>6. /\ pc \in [Commands -> {"none", "forked", "launch", "compute", "write", "ended", "reaped"}]
      /\ writers \in [Commands -> SUBSET Processes] /\ readers \in [Commands -> SUBSET Processes]
  BY <1>3 DEF TypesOK, TypeOK
<1>7. /\ pc' \in [Commands -> {"none", "forked", "launch", "compute", "write", "ended", "reaped"}]
      /\ pc'[c] = "forked" /\ \A d \in Commands : d # c => pc'[d] = pc[d]
  BY <1>1, <1>4, <1>6
<1>8. \A p \in Commands :
          /\ \A q \in writers'[p] : q \in writers[p] \/ (q = c /\ Shell \in writers[p])
          /\ \A q \in readers'[p] : q \in readers[p] \/ (q = c /\ Shell \in readers[p])
          /\ writers[p] \subseteq writers'[p] /\ readers[p] \subseteq readers'[p]
          /\ Shell \in writers[p] => c \in writers'[p]
  BY <1>1
<1>9. SessionOK'
  <2>1. writers' \in [Commands -> SUBSET Processes] /\ readers' \in [Commands -> SUBSET Processes]
    BY <1>1, <1>4, <1>6 DEF Processes
  <2>2. next' \in 1 .. MAX_CMDS + 1 /\ next' <= NumCmds + 1
    BY <1>1, <1>3
  <2>3. TypesOK'
    BY <1>1, <1>2, <1>3, <1>7, <2>1, <2>2 DEF TypesOK, TypeOK, LineOK
  <2>4. PhaseOK'
    BY <1>1, <1>2, <1>3, <2>2 DEF PhaseOK
  <2>5. QED BY <1>1, <2>3, <2>4 DEF IInv, SessionOK, CwdOK
<1>10. ProgressOK'
  <2>1. \A d \in Commands : Line < d[1] \/ Len(lines[d[1]].cmds) < d[2] => pc'[d] = "none"
    <3>1. ~(Line < c[1]) /\ ~(Len(lines[c[1]].cmds) < c[2])
      BY <1>3, <1>4 DEF NumCmds
    <3>2. QED BY <1>7, <3>1 DEF IInv, ProgressOK
  <2>2. \A i \in 1 .. NumCmds : /\ pc[<<Line, i>>] = "none" <=> next - 1 < i
                                /\ pc[<<Line, i>>] # "reaped"
    <3>1. Started = next - 1 /\ Reaped = 0
      BY <1>1 DEF Started, Reaped
    <3>2. \A i \in 1 .. NumCmds : ~(i <= 0)
      BY <1>3
    <3>3. QED BY <1>3, <3>1, <3>2 DEF IInv, ProgressOK
  <2>3. Started' = next /\ Reaped' = 0
    BY <1>1, <1>3 DEF Started, Reaped
  <2>4. ASSUME NEW i \in 1 .. NumCmds
        PROVE  /\ pc'[<<Line, i>>] = "none" <=> next < i
               /\ pc'[<<Line, i>>] = "reaped" <=> i <= 0
    <3>1. <<Line, i>> \in Commands /\ ~(i <= 0)
      BY <1>3, LineFacts
    <3>2. CASE i = next
      <4>1. <<Line, i>> = c /\ ~(next < i)
        BY <1>0, <1>3, <3>2
      <4>2. QED BY <1>7, <3>1, <4>1
    <3>3. CASE i # next
      <4>1. <<Line, i>> # c
        BY <1>0, <3>3
      <4>2. next - 1 < i <=> next < i
        BY <1>3, <3>3
      <4>3. QED BY <1>7, <2>2, <3>1, <4>1, <4>2
    <3>4. QED BY <3>2, <3>3
  <2>5. QED BY <1>1, <1>2, <2>1, <2>3, <2>4 DEF ProgressOK
<1>11. \A q \in Commands : Live(q) => Live(q)'
  BY <1>5, <1>7 DEF Live
<1>12. Live(c)'
  BY <1>7 DEF Live
<1>13. ASSUME NEW p \in Commands, p[1] < Line \/ p \in LinePipes
       PROVE  p[1] <= c[1]
  BY <1>3, <1>4, <1>13, LineFacts, CommandFacts
<1>14. HoldersOK(writers)' /\ HoldersOK(readers)'
  <2>1. HoldersOK(writers)'
    <3> SUFFICES ASSUME NEW p \in Commands, NEW q \in writers'[p]
                 PROVE  /\ p[1] < Line \/ p \in LinePipes
                        /\ q # Shell => q \in Commands /\ Live(q)' /\ p[1] <= q[1]
      BY <1>1, <1>2 DEF HoldersOK
    <3>1. writers[p] # {} /\ (q \in writers[p] \/ q = c)
      BY <1>8
    <3>2. p[1] < Line \/ p \in LinePipes
      BY <3>1 DEF IInv, PipesOK, HoldersOK
    <3>3. CASE q \in writers[p]
      BY <1>11, <3>2, <3>3 DEF IInv, PipesOK, HoldersOK
    <3>4. CASE q = c
      BY <1>4, <1>12, <1>13, <3>2, <3>4 DEF Live
    <3>5. QED BY <3>1, <3>3, <3>4
  <2>2. HoldersOK(readers)'
    <3> SUFFICES ASSUME NEW p \in Commands, NEW q \in readers'[p]
                 PROVE  /\ p[1] < Line \/ p \in LinePipes
                        /\ q # Shell => q \in Commands /\ Live(q)' /\ p[1] <= q[1]
      BY <1>1, <1>2 DEF HoldersOK
    <3>1. readers[p] # {} /\ (q \in readers[p] \/ q = c)
      BY <1>8
    <3>2. p[1] < Line \/ p \in LinePipes
      BY <3>1 DEF IInv, PipesOK, HoldersOK
    <3>3. CASE q \in readers[p]
      BY <1>11, <3>2, <3>3 DEF IInv, PipesOK, HoldersOK
    <3>4. CASE q = c
      BY <1>4, <1>12, <1>13, <3>2, <3>4 DEF Live
    <3>5. QED BY <3>1, <3>3, <3>4
  <2>3. QED BY <2>1, <2>2
<1>15. \A p \in Commands : \A q \in writers[p] \cup readers[p] : q # Shell => q \in Commands
  BY DEF IInv, PipesOK, HoldersOK
<1>16. WritersOK'
  BY <1>1, <1>2, <1>7, <1>8, <1>15 DEF IInv, PipesOK, WritersOK, Forking
<1>17. ReadersOK'
  <2>1. \A q \in Commands : ReadsPipe(q)' <=> ReadsPipe(q)
    BY <1>1, CommandFrame
  <2> SUFFICES ASSUME NEW p \in Commands, NEW q \in readers'[p], p[1] = Line, q # Shell
               PROVE  \/ pc'[q] = "forked"
                      \/ p = Behind(q) /\ (pc'[q] \in {"compute", "write"} => ReadsPipe(q)')
    BY <1>1, <1>2 DEF ReadersOK, Forking
  <2>2. CASE q = c
    BY <1>7, <2>2
  <2>3. CASE q # c
    <3>1. q \in readers[p] /\ q \in Commands
      BY <1>8, <1>15, <2>3
    <3>2. pc'[q] = pc[q]
      BY <1>7, <2>3, <3>1
    <3>3. QED BY <2>1, <3>1, <3>2 DEF IInv, PipesOK, ReadersOK
  <2>4. QED BY <2>2, <2>3
<1>18. EndsHeld'
  <2>1. \A p \in LinePipes : p \in Commands /\ Shell \in writers[p] /\ Shell \in readers[p]
    BY <1>1, <1>3, LineFacts DEF IInv, PipesOK, EndsHeld
  <2>2. ASSUME NEW q \in Commands, Live(q)', q[1] = Line, HasPipe(q)
        PROVE  q \in writers'[q]
    <3>1. CASE q = c
      <4>1. c \in LinePipes
        BY <1>3, <1>4, <2>2, <3>1, LineFacts
      <4>2. QED BY <1>8, <2>1, <3>1, <4>1
    <3>2. CASE q # c
      <4>1. Live(q)
        BY <1>7, <2>2, <3>2 DEF Live
      <4>2. QED BY <1>8, <2>2, <4>1 DEF IInv, PipesOK, EndsHeld
    <3>3. QED BY <3>1, <3>2
  <2>3. \A q \in Commands : HasPipe(q)' <=> HasPipe(q)
    BY <1>1, CommandFrame
  <2>4. QED BY <1>1, <1>2, <1>8, <2>1, <2>2, <2>3 DEF EndsHeld
<1>19. LogOK'
  <2>1. LastCmd \in Commands /\ Program(LastCmd)' = Program(LastCmd)
    <3>1. LastCmd \in Commands
      BY <1>1, BusyFacts
    <3>2. QED BY <1>1, <3>1, <1>2, CommandFrame DEF Program, ProgramPath, Cmd
  <2>2. logging => \/ pc[LastCmd] \in {"compute", "write"} /\ Program(LastCmd).endless
                   \/ wrote[LastCmd] = logged + buffer[LastCmd]
    BY <1>3 DEF IInv, LogOK
  <2>3. pc[LastCmd] \in {"compute", "write"} => pc'[LastCmd] = pc[LastCmd]
    BY <1>5, <1>7, <2>1
  <2>4. QED BY <1>1, <1>2, <2>1, <2>2, <2>3 DEF LogOK
<1>20. QED BY <1>9, <1>10, <1>14, <1>16, <1>17, <1>18, <1>19 DEF IInv, PipesOK

\* A fork fails: the line is given up.
LEMMA ForkFailsKeeps ==
    ASSUME IInv, ForkFails
    PROVE  IInv'
<1>1. /\ shell = "fork" /\ shell' = "prompt" /\ failed' = failed \cup {Line}
      /\ UNCHANGED <<version, logging, session, cwd, lines, next, pc, buffer, wrote,
                     logged, tmpfiles>>
  BY DEF ForkFails, At, dataVars
<1>2. Line' = Line /\ NumCmds' = NumCmds /\ LastCmd' = LastCmd /\ LinePipes' = LinePipes
  BY <1>1, LineFrame
<1>3. /\ TypesOK /\ Line # 0 /\ Line \in 1 .. MAX_LINES /\ LastCmd \in Commands
  BY <1>1, BusyFacts
<1>4. /\ writers' \in [Commands -> SUBSET Processes] /\ readers' \in [Commands -> SUBSET Processes]
      /\ \A p \in Commands :
             /\ writers'[p] \subseteq writers[p] /\ writers[p] \ {Shell} \subseteq writers'[p]
             /\ readers'[p] \subseteq readers[p] /\ readers[p] \ {Shell} \subseteq readers'[p]
  <2>1. writers \in [Commands -> SUBSET Processes] /\ readers \in [Commands -> SUBSET Processes]
    BY <1>3 DEF TypesOK, TypeOK
  <2>2. CASE UNCHANGED <<writers, readers>>
    BY <2>1, <2>2
  <2>3. CASE /\ writers' = [writers EXCEPT ![LastCmd] = @ \ {Shell}]
             /\ readers' = [readers EXCEPT ![LastCmd] = @ \ {Shell}]
    BY <2>1, <2>3, <1>3
  <2>4. QED BY <2>2, <2>3 DEF ForkFails, Without
<1>5. SessionOK'
  <2>1. failed' \subseteq 1 .. Line /\ failed' \subseteq 1 .. MAX_LINES
    BY <1>1, <1>3, ShellAssumption DEF TypesOK, TypeOK
  <2>2. TypesOK'
    BY <1>1, <1>2, <1>3, <1>4, <2>1 DEF TypesOK, TypeOK, LineOK
  <2>3. QED BY <1>1, <2>2 DEF IInv, SessionOK, PhaseOK, CwdOK
<1>6. ~Current'
  BY <1>1, <1>2 DEF Current
<1>7. ProgressOK'
  BY <1>1, <1>2, <1>6 DEF IInv, ProgressOK
<1>8. HoldersOK(writers)' /\ HoldersOK(readers)'
  BY <1>1, <1>2, <1>4 DEF IInv, PipesOK, HoldersOK, Live
<1>9. WritersOK'
  BY <1>1, <1>2, <1>4 DEF IInv, PipesOK, WritersOK, Forking
<1>10. ReadersOK'
  BY <1>1, <1>2, <1>4 DEF IInv, PipesOK, ReadersOK, Forking, ReadsPipe, Cmd
<1>11. EndsHeld'
  BY <1>1, <1>2, <1>4, CommandFacts DEF IInv, PipesOK, EndsHeld, Live, HasPipe
<1>12. LogOK'
  BY <1>6 DEF LogOK
<1>13. QED BY <1>5, <1>7, <1>8, <1>9, <1>10, <1>11, <1>12 DEF IInv, PipesOK

\* The shell closes its ends, but the one it reads the last output from.
LEMMA CloseChainKeeps ==
    ASSUME IInv, CloseChain
    PROVE  IInv'
<1>1. /\ shell = "fork" /\ shell' = "wait" /\ next > NumCmds /\ next' = 1
      /\ writers' = [p \in Commands |-> IF p \in LinePipes THEN writers[p] \ {Shell}
                                                           ELSE writers[p]]
      /\ readers' = [p \in Commands |-> IF p \in LinePipes \ {LastCmd}
                                        THEN readers[p] \ {Shell} ELSE readers[p]]
      /\ UNCHANGED <<version, logging, session, cwd, lines, failed, pc, buffer, wrote,
                     logged, tmpfiles>>
  BY DEF CloseChain, At, sessionVars, dataVars
<1>2. Line' = Line /\ NumCmds' = NumCmds /\ LastCmd' = LastCmd /\ LinePipes' = LinePipes
  BY <1>1, LineFrame
<1>3. /\ Current /\ TypesOK /\ Line # 0 /\ Line \notin failed
      /\ Line \in 1 .. MAX_LINES /\ NumCmds \in 1 .. MAX_CMDS /\ next \in Nat
      /\ LastCmd \in Commands /\ LastCmd[1] = Line /\ LastCmd[2] = NumCmds
      /\ MAX_CMDS \in Nat
  BY <1>1, BusyFacts, ShellAssumption
<1>4. next = NumCmds + 1
  BY <1>1, <1>3 DEF IInv, SessionOK, PhaseOK
<1>5. /\ writers \in [Commands -> SUBSET Processes] /\ readers \in [Commands -> SUBSET Processes]
      /\ writers' \in [Commands -> SUBSET Processes] /\ readers' \in [Commands -> SUBSET Processes]
      /\ \A p \in Commands :
             /\ writers'[p] \subseteq writers[p] /\ writers[p] \ {Shell} \subseteq writers'[p]
             /\ readers'[p] \subseteq readers[p]
             /\ p[1] = Line => Shell \notin writers'[p]
             /\ p[1] = Line /\ p # LastCmd => Shell \notin readers'[p]
  <2>1. writers \in [Commands -> SUBSET Processes] /\ readers \in [Commands -> SUBSET Processes]
    BY <1>3 DEF TypesOK, TypeOK
  <2>2. \A p \in Commands : p[1] = Line /\ p \notin LinePipes => writers[p] = {} /\ readers[p] = {}
    BY HeldFacts
  <2>3. QED BY <1>1, <2>1, <2>2
<1>6. SessionOK'
  <2>1. TypesOK'
    BY <1>1, <1>2, <1>3, <1>5 DEF TypesOK, TypeOK, LineOK
  <2>2. PhaseOK'
    BY <1>1, <1>2, <1>3 DEF PhaseOK
  <2>3. QED BY <1>1, <2>1, <2>2 DEF IInv, SessionOK, CwdOK
<1>7. ProgressOK'
  <2>1. Started = NumCmds /\ Reaped = 0 /\ Started' = NumCmds /\ Reaped' = 0 /\ Current'
    BY <1>1, <1>2, <1>3, <1>4 DEF Started, Reaped, Current
  <2>2. QED BY <1>1, <1>2, <1>3, <2>1 DEF IInv, ProgressOK
<1>8. HoldersOK(writers)' /\ HoldersOK(readers)'
  BY <1>1, <1>2, <1>5 DEF IInv, PipesOK, HoldersOK, Live
<1>9. WritersOK'
  BY <1>1, <1>2, <1>5 DEF IInv, PipesOK, WritersOK
<1>10. ReadersOK'
  BY <1>1, <1>2, <1>5 DEF IInv, PipesOK, ReadersOK, ReadsPipe, Cmd
<1>11. EndsHeld'
  <2>1. ASSUME logging
        PROVE  Shell \in readers'[LastCmd]
    <3>1. LastCmd \in LinePipes
      BY <1>3, <2>1, LineFacts
    <3>2. Shell \in readers[LastCmd]
      BY <1>1, <3>1 DEF IInv, PipesOK, EndsHeld
    <3>3. QED BY <1>1, <1>3, <3>2
  <2>2. \A q \in Commands : Live(q) /\ q[1] = Line /\ HasPipe(q) => q \in writers'[q]
    BY <1>5, CommandFacts DEF IInv, PipesOK, EndsHeld
  <2>3. QED BY <1>1, <1>2, <2>1, <2>2 DEF EndsHeld, Live, HasPipe
<1>12. LogOK'
  BY <1>1, <1>2, <1>3, CommandFrame DEF IInv, LogOK
<1>13. QED BY <1>6, <1>7, <1>8, <1>9, <1>10, <1>11, <1>12 DEF IInv, PipesOK

\* A process that has ended is waited for.
LEMMA WaitInOrderKeeps ==
    ASSUME IInv, WaitInOrder
    PROVE  IInv'
<1>0. PICK c : c = <<Line, next>>
  OBVIOUS
<1>1. /\ shell = "wait" /\ shell' = "wait" /\ next < NumCmds /\ next' = next + 1
      /\ pc[c] = "ended" /\ pc' = [pc EXCEPT ![c] = "reaped"]
      /\ UNCHANGED <<version, logging, session, cwd, lines, failed, buffer, writers, readers,
                     wrote, logged, tmpfiles>>
  BY <1>0 DEF WaitInOrder, At, sessionVars, dataVars, pipeVars
<1>2. Line' = Line /\ NumCmds' = NumCmds /\ LastCmd' = LastCmd /\ LinePipes' = LinePipes
  BY <1>1, LineFrame
<1>3. /\ Current /\ TypesOK /\ Line # 0 /\ Line \notin failed
      /\ Line \in 1 .. MAX_LINES /\ NumCmds \in 1 .. MAX_CMDS /\ next \in 1 .. MAX_CMDS + 1
      /\ LastCmd \in Commands /\ LastCmd[1] = Line /\ LastCmd[2] = NumCmds
      /\ MAX_CMDS \in Nat
  BY <1>1, BusyFacts, ShellAssumption
<1>4. /\ next \in 1 .. NumCmds /\ c \in Commands /\ c[1] = Line /\ c[2] = next /\ c # LastCmd
  BY <1>0, <1>1, <1>3, CommandFacts, LineFacts
<1>5. /\ pc' \in [Commands -> {"none", "forked", "launch", "compute", "write", "ended", "reaped"}]
      /\ pc'[c] = "reaped" /\ \A d \in Commands : d # c => pc'[d] = pc[d]
  BY <1>1, <1>3, <1>4 DEF TypesOK, TypeOK
<1>6. SessionOK'
  <2>1. next' \in 1 .. MAX_CMDS + 1 /\ next' <= NumCmds
    BY <1>1, <1>3
  <2>2. TypesOK'
    BY <1>1, <1>2, <1>3, <1>5, <2>1 DEF TypesOK, TypeOK, LineOK
  <2>3. PhaseOK'
    BY <1>1, <1>2, <1>3, <2>1 DEF PhaseOK
  <2>4. QED BY <1>1, <2>2, <2>3 DEF IInv, SessionOK, CwdOK
<1>7. ProgressOK'
  <2>1. \A d \in Commands : Line < d[1] \/ Len(lines[d[1]].cmds) < d[2] => pc'[d] = "none"
    <3>1. ~(Line < c[1]) /\ ~(Len(lines[c[1]].cmds) < c[2])
      BY <1>3, <1>4 DEF NumCmds
    <3>2. QED BY <1>5, <3>1 DEF IInv, ProgressOK
  <2>2. \A i \in 1 .. NumCmds : /\ pc[<<Line, i>>] = "none" <=> NumCmds < i
                                /\ pc[<<Line, i>>] = "reaped" <=> i <= next - 1
    <3>1. Started = NumCmds /\ Reaped = next - 1
      BY <1>1 DEF Started, Reaped
    <3>2. QED BY <1>3, <3>1 DEF IInv, ProgressOK
  <2>3. Started' = NumCmds /\ Reaped' = next
    BY <1>1, <1>2, <1>3 DEF Started, Reaped
  <2>4. ASSUME NEW i \in 1 .. NumCmds
        PROVE  /\ pc'[<<Line, i>>] = "none" <=> NumCmds < i
               /\ pc'[<<Line, i>>] = "reaped" <=> i <= next
    <3>1. <<Line, i>> \in Commands /\ ~(NumCmds < i)
      BY <1>3, LineFacts
    <3>2. CASE i = next
      <4>1. <<Line, i>> = c /\ i <= next
        BY <1>0, <1>3, <3>2
      <4>2. QED BY <1>5, <3>1, <4>1
    <3>3. CASE i # next
      <4>1. <<Line, i>> # c
        BY <1>0, <3>3
      <4>2. i <= next - 1 <=> i <= next
        BY <1>3, <3>3
      <4>3. QED BY <1>5, <2>2, <3>1, <4>1, <4>2
    <3>4. QED BY <3>2, <3>3
  <2>5. QED BY <1>1, <1>2, <2>1, <2>3, <2>4 DEF ProgressOK
<1>8. \A q \in Commands : Live(q)' <=> Live(q)
  BY <1>1, <1>5 DEF Live
<1>9. HoldersOK(writers)' /\ HoldersOK(readers)'
  BY <1>1, <1>2, <1>8 DEF IInv, PipesOK, HoldersOK
<1>10. \A p \in Commands : \A q \in writers[p] \cup readers[p] : q # Shell => q \in Commands
  BY DEF IInv, PipesOK, HoldersOK
<1>11. WritersOK'
  BY <1>1, <1>2, <1>5, <1>10 DEF IInv, PipesOK, WritersOK, Forking
<1>12. ReadersOK'
  <2>1. \A q \in Commands : ReadsPipe(q)' <=> ReadsPipe(q)
    BY <1>1, CommandFrame
  <2>2. QED BY <1>1, <1>2, <1>5, <1>10, <2>1 DEF IInv, PipesOK, ReadersOK, Forking
<1>13. EndsHeld'
  <2>1. \A q \in Commands : HasPipe(q)' <=> HasPipe(q)
    BY <1>1, CommandFrame
  <2>2. QED BY <1>1, <1>2, <1>8, <2>1 DEF IInv, PipesOK, EndsHeld
<1>14. LogOK'
  <2>1. Program(LastCmd)' = Program(LastCmd) /\ pc'[LastCmd] = pc[LastCmd]
    BY <1>1, <1>2, <1>3, <1>4, <1>5 DEF Program, ProgramPath, Cmd
  <2>2. QED BY <1>1, <1>2, <1>3, <2>1 DEF IInv, LogOK
<1>15. QED BY <1>6, <1>7, <1>9, <1>11, <1>12, <1>13, <1>14 DEF IInv, PipesOK

\* All but the last command have been waited for.
LEMMA StartDrainKeeps ==
    ASSUME IInv, StartDrain
    PROVE  IInv'
<1>1. /\ shell = "wait" /\ next = NumCmds /\ shell' = IF logging THEN "drain" ELSE "reap"
      /\ UNCHANGED <<version, logging, session, cwd, lines, failed, next, pc, buffer, writers,
                     readers, wrote, logged, tmpfiles>>
  BY DEF StartDrain, At, sessionVars, dataVars, pipeVars
<1>2. Line' = Line /\ NumCmds' = NumCmds /\ LastCmd' = LastCmd /\ LinePipes' = LinePipes
  BY <1>1, LineFrame
<1>3. /\ Current /\ TypesOK /\ Line # 0 /\ Line \notin failed
      /\ Line \in 1 .. MAX_LINES /\ NumCmds \in 1 .. MAX_CMDS
      /\ LastCmd \in Commands /\ LastCmd[1] = Line /\ LastCmd[2] = NumCmds
      /\ MAX_CMDS \in Nat
  BY <1>1, BusyFacts, ShellAssumption
<1>4. SessionOK'
  <2>1. TypesOK'
    BY <1>1, <1>2, <1>3 DEF TypesOK, TypeOK, LineOK
  <2>2. PhaseOK'
    BY <1>1, <1>2, <1>3 DEF PhaseOK
  <2>3. QED BY <1>1, <2>1, <2>2 DEF IInv, SessionOK, CwdOK
<1>5. ProgressOK'
  <2>1. /\ Started = NumCmds /\ Reaped = NumCmds - 1
        /\ Started' = NumCmds /\ Reaped' = NumCmds - 1 /\ Current'
    BY <1>1, <1>2, <1>3 DEF Started, Reaped, Current
  <2>2. QED BY <1>1, <1>2, <1>3, <2>1 DEF IInv, ProgressOK
<1>6. HoldersOK(writers)' /\ HoldersOK(readers)'
  BY <1>1, <1>2 DEF IInv, PipesOK, HoldersOK, Live
<1>7. WritersOK'
  BY <1>1, <1>2 DEF IInv, PipesOK, WritersOK, Forking
<1>8. ReadersOK'
  <2>1. Shell \in readers[LastCmd] => logging
    <3>1. Shell \in readers[LastCmd] => LastCmd \in LinePipes
      BY <1>3, HeldFacts
    <3>2. LastCmd \in LinePipes => logging
      BY <1>3, LineFacts
    <3>3. QED BY <3>1, <3>2
  <2>2. \A q \in Commands : ReadsPipe(q)' <=> ReadsPipe(q)
    BY <1>1, CommandFrame
  <2>3. \A p \in Commands : \A q \in readers[p] : q # Shell => q \in Commands
    BY DEF IInv, PipesOK, HoldersOK
  <2>4. QED BY <1>1, <1>2, <2>1, <2>2, <2>3 DEF IInv, PipesOK, ReadersOK, Forking
<1>9. EndsHeld'
  BY <1>1, <1>2 DEF IInv, PipesOK, EndsHeld, Live, HasPipe
<1>10. LogOK'
  BY <1>1, <1>2, <1>3, CommandFrame DEF IInv, LogOK
<1>11. QED BY <1>4, <1>5, <1>6, <1>7, <1>8, <1>9, <1>10 DEF IInv, PipesOK

\* Output is copied to the log.
LEMMA DrainKeeps ==
    ASSUME IInv, Drain
    PROVE  IInv'
<1>1. /\ shell = "drain" /\ shell' = "drain"
      /\ UNCHANGED <<version, logging, session, cwd, lines, failed, next, pc, writers, readers,
                     wrote, tmpfiles>>
  BY DEF Drain, At, sessionVars
<1>2. PICK k \in 1 .. buffer[LastCmd] : /\ buffer' = [buffer EXCEPT ![LastCmd] = @ - k]
                                        /\ logged' = logged + k
  BY DEF Drain
<1>3. Line' = Line /\ NumCmds' = NumCmds /\ LastCmd' = LastCmd /\ LinePipes' = LinePipes
  BY <1>1, LineFrame
<1>4. /\ Current /\ TypesOK /\ Line # 0 /\ Line \notin failed /\ LastCmd \in Commands
  BY <1>1, BusyFacts
<1>5. /\ buffer \in [Commands -> 0 .. PIPE_CAPACITY] /\ wrote \in [Commands -> Nat]
      /\ logged \in Nat /\ PIPE_CAPACITY \in Nat
  BY <1>4, ShellAssumption DEF TypesOK, TypeOK
<1>6. /\ buffer' \in [Commands -> 0 .. PIPE_CAPACITY] /\ logged' \in Nat
      /\ logged' + buffer'[LastCmd] = logged + buffer[LastCmd]
  <2>1. PICK b \in 0 .. PIPE_CAPACITY : b = buffer[LastCmd]
    BY <1>4, <1>5
  <2>2. PICK d : d = b - k
    OBVIOUS
  <2>3. k \in 1 .. b /\ d \in 0 .. PIPE_CAPACITY /\ (logged + k) + d = logged + b
    BY <1>2, <1>5, <2>1, <2>2
  <2>4. buffer' = [buffer EXCEPT ![LastCmd] = d]
    BY <1>2, <2>1, <2>2
  <2>5. buffer' \in [Commands -> 0 .. PIPE_CAPACITY] /\ buffer'[LastCmd] = d
    BY <1>4, <1>5, <2>3, <2>4
  <2>6. logged' \in Nat
    BY <1>2, <1>5, <2>1, <2>3
  <2>7. QED BY <1>2, <2>1, <2>3, <2>5, <2>6
<1>7. SessionOK'
  <2>1. TypesOK'
    BY <1>1, <1>3, <1>4, <1>6 DEF TypesOK, TypeOK, LineOK
  <2>2. PhaseOK'
    BY <1>1, <1>3, <1>4 DEF IInv, SessionOK, PhaseOK
  <2>3. QED BY <1>1, <2>1, <2>2 DEF IInv, SessionOK, CwdOK
<1>8. ProgressOK'
  BY <1>1, <1>3 DEF IInv, ProgressOK, Current, Started, Reaped
<1>9. PipesOK'
  BY <1>1, <1>3 DEF IInv, PipesOK, HoldersOK, WritersOK, ReadersOK, EndsHeld, Live,
                    Forking, HasPipe, ReadsPipe, Cmd
<1>10. LogOK'
  <2>1. Program(LastCmd)' = Program(LastCmd)
    BY <1>1, <1>3 DEF Program, ProgramPath, Cmd
  <2>2. QED BY <1>1, <1>3, <1>4, <1>6, <2>1 DEF IInv, LogOK
<1>11. QED BY <1>7, <1>8, <1>9, <1>10 DEF IInv

\* The output has ended.
LEMMA DrainEndsKeeps ==
    ASSUME IInv, DrainEnds
    PROVE  IInv'
<1>1. /\ shell = "drain" /\ shell' = "reap" /\ buffer[LastCmd] = 0 /\ writers[LastCmd] = {}
      /\ readers' = [readers EXCEPT ![LastCmd] = @ \ {Shell}]
      /\ UNCHANGED <<version, logging, session, cwd, lines, failed, next, pc, buffer, writers,
                     wrote, logged, tmpfiles>>
  BY DEF DrainEnds, At, sessionVars, dataVars, Without
<1>2. Line' = Line /\ NumCmds' = NumCmds /\ LastCmd' = LastCmd /\ LinePipes' = LinePipes
  BY <1>1, LineFrame
<1>3. /\ Current /\ TypesOK /\ Line # 0 /\ Line \notin failed /\ LastCmd \in Commands
  BY <1>1, BusyFacts
<1>4. /\ readers' \in [Commands -> SUBSET Processes]
      /\ Shell \notin readers'[LastCmd]
      /\ \A p \in Commands : readers'[p] \subseteq readers[p]
  BY <1>1, <1>3 DEF TypesOK, TypeOK
<1>5. SessionOK'
  <2>1. TypesOK'
    BY <1>1, <1>2, <1>3, <1>4 DEF TypesOK, TypeOK, LineOK
  <2>2. PhaseOK'
    BY <1>1, <1>2, <1>3 DEF PhaseOK
  <2>3. QED BY <1>1, <2>1, <2>2 DEF IInv, SessionOK, CwdOK
<1>6. ProgressOK'
  BY <1>1, <1>2 DEF IInv, ProgressOK, Current, Started, Reaped
<1>7. HoldersOK(writers)' /\ HoldersOK(readers)'
  BY <1>1, <1>2, <1>4 DEF IInv, PipesOK, HoldersOK, Live
<1>8. WritersOK'
  BY <1>1, <1>2 DEF IInv, PipesOK, WritersOK, Forking
<1>9. ReadersOK'
  <2>1. \A q \in Commands : ReadsPipe(q)' <=> ReadsPipe(q)
    BY <1>1, CommandFrame
  <2>2. \A p \in Commands : \A q \in readers[p] : q # Shell => q \in Commands
    BY DEF IInv, PipesOK, HoldersOK
  <2>3. QED BY <1>1, <1>2, <1>4, <2>1, <2>2 DEF IInv, PipesOK, ReadersOK, Forking
<1>10. EndsHeld'
  BY <1>1, <1>2 DEF IInv, PipesOK, EndsHeld, Live, HasPipe
<1>11. LogOK'
  <2>1. Program(LastCmd)' = Program(LastCmd)
    BY <1>1, <1>2 DEF Program, ProgramPath, Cmd
  <2>2. QED BY <1>1, <1>2, <1>3, <2>1 DEF IInv, LogOK
<1>12. QED BY <1>5, <1>6, <1>7, <1>8, <1>9, <1>10, <1>11 DEF IInv, PipesOK

\* The last command is waited for, and the prompt comes back.
LEMMA ReapKeeps ==
    ASSUME IInv, Reap
    PROVE  IInv'
<1>0. PICK c : c = LastCmd
  OBVIOUS
<1>1. /\ shell = "reap" /\ shell' = "prompt" /\ pc[c] = "ended"
      /\ pc' = [pc EXCEPT ![c] = "reaped"]
      /\ UNCHANGED <<version, logging, session, cwd, lines, failed, next, buffer, writers,
                     readers, wrote, logged, tmpfiles>>
  BY <1>0 DEF Reap, At, sessionVars, dataVars, pipeVars
<1>2. Line' = Line /\ NumCmds' = NumCmds /\ LastCmd' = LastCmd /\ LinePipes' = LinePipes
  BY <1>1, LineFrame
<1>3. /\ Current /\ TypesOK /\ Line # 0 /\ Line \notin failed
      /\ Line \in 1 .. MAX_LINES /\ NumCmds \in 1 .. MAX_CMDS /\ MAX_CMDS \in Nat
      /\ c \in Commands /\ c = <<Line, NumCmds>> /\ c[1] = Line /\ c[2] = NumCmds
  BY <1>0, <1>1, BusyFacts, ShellAssumption
<1>4. /\ pc' \in [Commands -> {"none", "forked", "launch", "compute", "write", "ended", "reaped"}]
      /\ pc'[c] = "reaped" /\ \A d \in Commands : d # c => pc'[d] = pc[d]
  BY <1>1, <1>3 DEF TypesOK, TypeOK
<1>5. SessionOK'
  <2>1. TypesOK'
    BY <1>1, <1>2, <1>3, <1>4 DEF TypesOK, TypeOK, LineOK
  <2>2. QED BY <1>1, <2>1 DEF IInv, SessionOK, CwdOK, PhaseOK
<1>6. ProgressOK'
  <2>1. \A d \in Commands : Line < d[1] \/ Len(lines[d[1]].cmds) < d[2] => pc'[d] = "none"
    <3>1. ~(Line < c[1]) /\ ~(Len(lines[c[1]].cmds) < c[2])
      BY <1>3 DEF NumCmds
    <3>2. QED BY <1>4, <3>1 DEF IInv, ProgressOK
  <2>2. \A i \in 1 .. NumCmds : /\ pc[<<Line, i>>] = "none" <=> NumCmds < i
                                /\ pc[<<Line, i>>] = "reaped" <=> i <= NumCmds - 1
    <3>1. Started = NumCmds /\ Reaped = NumCmds - 1
      BY <1>1 DEF Started, Reaped
    <3>2. QED BY <1>3, <3>1 DEF IInv, ProgressOK
  <2>3. Started' = NumCmds /\ Reaped' = NumCmds
    BY <1>1, <1>2 DEF Started, Reaped
  <2>4. ASSUME NEW i \in 1 .. NumCmds
        PROVE  /\ pc'[<<Line, i>>] = "none" <=> NumCmds < i
               /\ pc'[<<Line, i>>] = "reaped" <=> i <= NumCmds
    <3>1. <<Line, i>> \in Commands /\ ~(NumCmds < i) /\ i <= NumCmds
      BY <1>3, LineFacts
    <3>2. CASE i = NumCmds
      BY <1>3, <1>4, <3>1, <3>2
    <3>3. CASE i # NumCmds
      <4>1. <<Line, i>> # c /\ i <= NumCmds - 1
        BY <1>3, <3>3
      <4>2. QED BY <1>4, <2>2, <3>1, <4>1
    <3>4. QED BY <3>2, <3>3
  <2>5. QED BY <1>1, <1>2, <2>1, <2>3, <2>4 DEF ProgressOK
<1>7. \A q \in Commands : Live(q)' <=> Live(q)
  BY <1>1, <1>4 DEF Live
<1>8. HoldersOK(writers)' /\ HoldersOK(readers)'
  BY <1>1, <1>2, <1>7 DEF IInv, PipesOK, HoldersOK
<1>9. \A p \in Commands : \A q \in writers[p] \cup readers[p] : q # Shell => q \in Commands
  BY DEF IInv, PipesOK, HoldersOK
<1>10. WritersOK'
  BY <1>1, <1>2, <1>4, <1>9 DEF IInv, PipesOK, WritersOK, Forking
<1>11. ReadersOK'
  <2>1. \A q \in Commands : ReadsPipe(q)' <=> ReadsPipe(q)
    BY <1>1, CommandFrame
  <2>2. QED BY <1>1, <1>2, <1>4, <1>9, <2>1 DEF IInv, PipesOK, ReadersOK, Forking
<1>12. EndsHeld'
  <2>1. \A q \in Commands : HasPipe(q)' <=> HasPipe(q)
    BY <1>1, CommandFrame
  <2>2. QED BY <1>1, <1>2, <1>7, <2>1 DEF IInv, PipesOK, EndsHeld
<1>13. LogOK'
  <2>1. logging => /\ wrote[LastCmd] = logged + buffer[LastCmd]
                   /\ buffer[LastCmd] = 0 /\ writers[LastCmd] = {}
    BY <1>0, <1>1, <1>3 DEF IInv, LogOK
  <2>2. QED BY <1>1, <1>2, <2>1 DEF LogOK
<1>14. QED BY <1>5, <1>6, <1>8, <1>10, <1>11, <1>12, <1>13 DEF IInv, PipesOK

-----------------------------------------------------------------------------
\* No line has been entered.
LEMMA InitIInv == Init => IInv
<1> SUFFICES ASSUME Init PROVE IInv
  OBVIOUS
<1> USE ShellAssumption DEF Init
<1>1. lines \in Seq(Lines) /\ Len(lines) = 0 /\ Line = 0
  BY EmptySeq DEF Line
<1>2. cwd \in Paths /\ cwd.rooted /\ cwd.names = <<>>
  BY EmptySeq DEF Paths
<1>3. TypesOK
  BY <1>1, <1>2 DEF TypesOK, TypeOK, Processes
<1>4. SessionOK
  BY <1>2, <1>3 DEF SessionOK, PhaseOK, CwdOK
<1>5. ~Current /\ \A c \in Commands : ~Live(c) /\ writers[c] = {} /\ readers[c] = {}
  BY <1>1 DEF Current, Live
<1>6. ProgressOK /\ LogOK
  BY <1>5 DEF ProgressOK, LogOK
<1>7. PipesOK
  BY <1>5 DEF PipesOK, HoldersOK, WritersOK, ReadersOK, EndsHeld
<1>8. QED BY <1>4, <1>6, <1>7 DEF IInv

\* Every step keeps the invariant.
LEMMA NextIInv ==
    ASSUME IInv, [Next]_vars
    PROVE  IInv'
<1>1. CASE UNCHANGED vars
  <2>1. UNCHANGED <<version, logging, session, cwd, lines, failed, shell, next, pc, pipeVars,
                    dataVars>>
    BY <1>1 DEF vars, sessionVars
  <2>2. QED BY <2>1, UnmovedKeeps DEF IInv, SessionOK, TypesOK, TypeOK, CwdOK
<1>2. ASSUME NEW tokens \in session, Builtin(tokens) \/ Nothing(tokens) \/ Enter(tokens)
      PROVE  IInv'
  BY <1>2, BuiltinKeeps, NothingKeeps, EnterKeeps
<1>3. CASE ExitShell
  BY <1>3, NothingKeeps
<1>4. CASE ShellStep
  BY <1>4, CreatePipesKeeps, ForkKeeps, CloseChainKeeps, WaitInOrderKeeps, StartDrainKeeps,
     DrainKeeps, DrainEndsKeeps, ReapKeeps DEF ShellStep
<1>5. CASE PipeFails \/ ForkFails
  BY <1>5, PipeFailsKeeps, ForkFailsKeeps
<1>6. ASSUME NEW c \in Commands, Command(c)
      PROVE  IInv'
  BY <1>6, CommandKeeps
<1>7. QED BY <1>1, <1>2, <1>3, <1>4, <1>5, <1>6 DEF Next, Ended

\* IInv holds in every state of the shell's session, whatever is entered.
THEOREM ShellInvariance == Spec => []IInv
<1>1. Init => IInv
  BY InitIInv
<1>2. IInv /\ [Next]_vars => IInv'
  BY NextIInv
<1>3. QED BY <1>1, <1>2, PTL DEF Spec

-----------------------------------------------------------------------------
\* Once all commands of a line run, only the two that a pipe connects hold its
\* ends (create_chain_pipes, close_chain_pipes and the closes of each child): for
\* every volume and session, any number of commands, behind any failed line.
THEOREM PipesConnectNeighbours == Spec => []OnlyNeighboursHold
<1>1. IInv => OnlyNeighboursHold
  <2> SUFFICES ASSUME IInv, shell \in {"wait", "drain", "reap"},
                      \A i \in 1 .. NumCmds : pc[<<Line, i>>] # "forked",
                      NEW p \in LinePipes
               PROVE  LET reader == <<p[1], p[2] + 1>>
                      IN  /\ writers[p] \subseteq {p}
                          /\ readers[p] \subseteq IF p = LastCmd THEN {Shell} ELSE {reader}
                          /\ p # LastCmd /\ pc[reader] \in {"compute", "write"}
                                 /\ ~ReadsPipe(reader) => readers[p] = {}
    BY DEF OnlyNeighboursHold
  <2> DEFINE reader == <<p[1], p[2] + 1>>
  <2>1. /\ Line \in 1 .. MAX_LINES /\ NumCmds \in Nat /\ LastCmd[2] = NumCmds
        /\ p \in Commands /\ p[1] = Line /\ p[2] \in 1 .. NumCmds
    BY BusyFacts, LineFacts, ShellAssumption
  <2>2. ASSUME NEW q \in writers[p] \cup readers[p], q # Shell
        PROVE  /\ q \in Commands /\ q[1] = Line /\ q[2] \in 1 .. NumCmds
               /\ q = <<Line, q[2]>> /\ pc[q] # "forked"
    <3>1. q \in Commands /\ Live(q) /\ Line <= q[1]
      BY <2>1, <2>2 DEF IInv, PipesOK, HoldersOK
    <3>2. q[1] \in Nat /\ q[2] \in Nat \ {0} /\ q = <<q[1], q[2]>>
      BY <3>1, CommandFacts
    <3>3. q[1] = Line
      BY <2>1, <3>1, <3>2, LiveFacts
    <3>4. q[2] <= NumCmds
      BY <3>1, <3>3, LiveFacts
    <3>5. QED BY <2>1, <3>1, <3>2, <3>3, <3>4
  <2>3. writers[p] \subseteq {p}
    <3> SUFFICES ASSUME NEW q \in writers[p] PROVE q = p
      OBVIOUS
    <3>1. q # Shell
      BY <2>1 DEF IInv, PipesOK, WritersOK, Forking
    <3>2. QED BY <2>1, <2>2, <3>1 DEF IInv, PipesOK, WritersOK
  <2>4. ASSUME NEW q \in readers[p]
        PROVE  IF p = LastCmd THEN q = Shell
               ELSE q = reader /\ (pc[q] \in {"compute", "write"} => ReadsPipe(q))
    <3>1. CASE q = Shell
      BY <2>1, <3>1 DEF IInv, PipesOK, ReadersOK, Forking
    <3>2. CASE q # Shell
      <4>1. p = Behind(q) /\ (pc[q] \in {"compute", "write"} => ReadsPipe(q))
        BY <2>1, <2>2, <3>2 DEF IInv, PipesOK, ReadersOK
      <4>2. q[2] \in 1 .. NumCmds /\ p[1] = q[1] /\ p[2] = q[2] - 1 /\ q = <<Line, q[2]>>
        BY <2>2, <3>2, <4>1 DEF Behind
      <4>3. q = reader
        BY <2>1, <4>2
      <4>4. p # LastCmd
        BY <2>1, <4>2
      <4>5. QED BY <4>1, <4>3, <4>4
    <3>3. QED BY <3>1, <3>2
  <2> HIDE DEF reader
  <2>5. /\ readers[p] \subseteq IF p = LastCmd THEN {Shell} ELSE {reader}
        /\ p # LastCmd /\ pc[reader] \in {"compute", "write"} /\ ~ReadsPipe(reader)
               => readers[p] = {}
    <3>1. CASE p = LastCmd
      BY <2>4, <3>1
    <3>2. CASE p # LastCmd
      <4>1. readers[p] \subseteq {reader}
        BY <2>4, <3>2
      <4>2. reader \in readers[p] => (pc[reader] \in {"compute", "write"} => ReadsPipe(reader))
        BY <2>4, <3>2
      <4>3. QED BY <3>2, <4>1, <4>2
    <3>3. QED BY <3>1, <3>2
  <2>6. QED BY <2>3, <2>5 DEF reader
<1>2. QED BY <1>1, ShellInvariance, PTL

\* When the prompt comes back from a line in which no call has failed, every
\* command of it has been waited for, none of its pipes is open, and the log has
\* all the output of the last command (launch_commands, shell_write_buf): however
\* long the line, and however the output is cut into reads.
THEOREM PromptLeavesNothing == Spec => []NothingLeft
<1>1. IInv => NothingLeft
  <2> SUFFICES ASSUME IInv PROVE NothingLeft
    OBVIOUS
  <2>1. ASSUME Current, shell \in {"reap", "prompt"}, logging
        PROVE  writers[LastCmd] = {} /\ logged = wrote[LastCmd]
    <3>1. buffer[LastCmd] = 0 /\ writers[LastCmd] = {}
      BY <2>1 DEF IInv, LogOK
    <3>2. /\ LastCmd \in Commands /\ LastCmd[1] = Line /\ HasPipe(LastCmd)
          /\ wrote[LastCmd] \in Nat /\ logged \in Nat
      BY <2>1, LineFacts DEF IInv, SessionOK, TypesOK, Current
    <3>3. pc[LastCmd] \notin {"compute", "write"}
      BY <3>1, <3>2 DEF IInv, PipesOK, EndsHeld, Live
    <3>4. QED BY <2>1, <3>1, <3>2, <3>3 DEF IInv, LogOK
  <2>2. CASE shell = "reap" /\ logging
    BY <2>1, <2>2, BusyFacts DEF NothingLeft
  <2>3. CASE shell = "prompt" /\ Line \notin failed \cup {0}
    <3>1. Current /\ Reaped = NumCmds /\ Line # 0 /\ TypesOK
      BY <2>3 DEF Current, Reaped, IInv, SessionOK
    <3>2. ASSUME NEW i \in 1 .. NumCmds
          PROVE  /\ pc[<<Line, i>>] = "reaped"
                 /\ writers[<<Line, i>>] = {} /\ readers[<<Line, i>>] = {}
      <4>1. pc[<<Line, i>>] = "reaped" /\ <<Line, i>> \in Commands /\ <<Line, i>>[1] = Line
        BY <3>1, LineFacts DEF IInv, ProgressOK
      <4>2. ASSUME NEW q \in writers[<<Line, i>>] \cup readers[<<Line, i>>]
            PROVE  FALSE
        <5>1. q # Shell
          BY <2>3, <4>1, <4>2 DEF IInv, PipesOK, WritersOK, ReadersOK, Forking
        <5>2. q \in Commands /\ Live(q) /\ Line <= q[1]
          BY <4>1, <4>2, <5>1 DEF IInv, PipesOK, HoldersOK
        <5>3. q[1] \in Nat /\ q[2] \in Nat /\ Line \in Nat /\ NumCmds \in Nat
          BY <3>1, <5>2, CommandFacts, LineFacts, ShellAssumption
        <5>4. q[1] = Line
          BY <5>2, <5>3, LiveFacts
        <5>5. Reaped < q[2] /\ q[2] <= NumCmds
          BY <3>1, <5>2, <5>4, LiveFacts
        <5>6. QED BY <3>1, <5>3, <5>5
      <4>3. QED BY <4>1, <4>2
    <3>3. QED BY <2>1, <2>3, <3>1, <3>2 DEF NothingLeft
  <2>4. QED BY <2>2, <2>3 DEF NothingLeft
<1>2. QED BY <1>1, ShellInvariance, PTL

\* Whatever is entered, the working directory is a path from the root that the
\* volume has (handle_cd), and every variable keeps its type.
THEOREM CwdStaysValid == Spec => []CwdIsValid
<1>1. IInv => CwdIsValid
  BY DEF IInv, SessionOK, TypesOK, CwdOK, CwdIsValid
<1>2. QED BY <1>1, ShellInvariance, PTL
=============================================================================
