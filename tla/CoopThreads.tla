---------------------------- MODULE CoopThreads ----------------------------
(***************************************************************************)
(* What a cooperative thread library promises its program, whatever the    *)
(* policy: a thread runs only while its task has not finished, a task that *)
(* has finished never runs again, and the process exits of its own accord  *)
(* only when no thread is left.  NqpThread implements it.                  *)
(***************************************************************************)
EXTENDS Naturals, FiniteSets

CONSTANTS Threads, Main, MAX_THREADS

VARIABLES live,      \* threads whose task has not finished
          done,      \* threads whose task has
          running,   \* who has the CPU: a thread, or Main
          outcome    \* "running", "exited" or "failed"

coopVars == <<live, done, running, outcome>>

CoopInit ==
    /\ live = {}
    /\ done = {}
    /\ running = Main
    /\ outcome = "running"

\* A thread starts to exist; whoever creates it keeps the CPU.
Spawn(t) ==
    /\ t \notin live \cup done
    /\ Cardinality(live \cup done) < MAX_THREADS
    /\ live' = live \cup {t}
    /\ UNCHANGED <<done, running, outcome>>

\* The CPU goes to a thread that has not finished, or to the scheduler.
Dispatch ==
    /\ running' \in live \cup {Main}
    /\ UNCHANGED <<live, done, outcome>>

\* The running thread finishes, and keeps the CPU only if nobody can take it.
Finish ==
    /\ running \in live
    /\ live' = live \ {running}
    /\ done' = done \cup {running}
    /\ \/ running' \in live' \cup {Main}
       \/ live' = {} /\ UNCHANGED running
    /\ UNCHANGED outcome

Exit ==
    /\ live = {}
    /\ outcome' = "exited"
    /\ UNCHANGED <<live, done, running>>

\* One thread too many ends the process with a failure.
Fail ==
    /\ Cardinality(live \cup done) = MAX_THREADS
    /\ outcome' = "failed"
    /\ UNCHANGED <<live, done, running>>

CoopNext ==
    /\ outcome = "running"
    /\ (\E t \in Threads : Spawn(t)) \/ Dispatch \/ Finish \/ Exit \/ Fail

CoopSpec == CoopInit /\ [][CoopNext]_coopVars
=============================================================================
