----------------------------- MODULE NqpCounter -----------------------------
(***************************************************************************)
(* The lock test of src/Erebor/main.c: kernel threads that each lock the   *)
(* mutex of NqpMutex, increment a shared counter Increments times, and     *)
(* unlock.  counter++ is a load and a store, and threads interleave        *)
(* between any two steps.                                                  *)
(***************************************************************************)
EXTENDS NqpMutex, Naturals, FiniteSets

CONSTANTS Threads,      \* main.c creates two
          Increments    \* 1000000 in main.c

ASSUME CounterAssumption == IsFiniteSet(Threads) /\ Increments \in Nat

VARIABLES counter,
          pc,        \* pc[t]: where thread_counter is
          i,         \* i[t]: increments t has made
          loaded,    \* loaded[t]: the value of counter t has read
          main,      \* where main() is
          printed    \* what main() has printed; 0 before

threadVars == <<counter, pc, i, loaded>>
vars == <<flag, threadVars, main, printed>>

Init ==
    /\ flag = "none"
    /\ counter = 0
    /\ pc = [t \in Threads |-> "none"]
    /\ i = [t \in Threads |-> 0]
    /\ loaded = [t \in Threads |-> 0]
    /\ main = "init"
    /\ printed = 0

Goto(t, from, to) == pc[t] = from /\ pc' = [pc EXCEPT ![t] = to]

-----------------------------------------------------------------------------
\* main(): a mutex that cannot be allocated ends the program.
InitLock ==
    /\ main = "init"
    /\ \/ mutex_init /\ main' = "create"
       \/ UNCHANGED flag /\ main' = "failed"
    /\ UNCHANGED <<threadVars, printed>>

CreateThread(t) ==
    /\ main = "create"
    /\ Goto(t, "none", "lock")
    /\ UNCHANGED <<flag, counter, i, loaded, main, printed>>

\* Mutant: main() does not wait.
JoinAndPrint_unjoined ==
    /\ main = "create"
    /\ printed' = counter
    /\ main' = "destroy"
    /\ UNCHANGED <<flag, threadVars>>

\* Both pthread_joins return, and the counter is printed.
JoinAndPrint ==
    /\ main = "create"
    /\ \A t \in Threads : pc[t] = "done"
    /\ printed' = counter
    /\ main' = "destroy"
    /\ UNCHANGED <<flag, threadVars>>

DestroyLock ==
    /\ main = "destroy"
    /\ mutex_destroy
    /\ main' = "done"
    /\ UNCHANGED <<threadVars, printed>>

\* thread_counter.
Lock(t) ==
    /\ Goto(t, "lock", "loop")
    /\ test_and_set
    /\ UNCHANGED <<counter, i, loaded, main, printed>>

Spin(t) ==
    /\ pc[t] = "lock"
    /\ spin
    /\ UNCHANGED <<threadVars, main, printed>>

Load(t) ==
    /\ i[t] < Increments
    /\ Goto(t, "loop", "store")
    /\ loaded' = [loaded EXCEPT ![t] = counter]
    /\ UNCHANGED <<flag, counter, i, main, printed>>

Store(t) ==
    /\ Goto(t, "store", "loop")
    /\ counter' = loaded[t] + 1
    /\ i' = [i EXCEPT ![t] = @ + 1]
    /\ UNCHANGED <<flag, loaded, main, printed>>

Unlock(t) ==
    /\ i[t] = Increments
    /\ Goto(t, "loop", "done")
    /\ mutex_unlock
    /\ UNCHANGED <<counter, i, loaded, main, printed>>

Thread(t) == Lock(t) \/ Spin(t) \/ Load(t) \/ Store(t) \/ Unlock(t)

MainNext ==
    \/ InitLock \/ JoinAndPrint \/ DestroyLock
    \/ \E t \in Threads : CreateThread(t)

Ended == main \in {"failed", "done"} /\ UNCHANGED vars

Next == MainNext \/ (\E t \in Threads : Thread(t)) \/ Ended

Spec == Init /\ [][Next]_vars
FairSpec == Spec /\ WF_vars(MainNext) /\ \A t \in Threads : WF_vars(Thread(t))
-----------------------------------------------------------------------------
TypeOK ==
    /\ flag \in {"none", "clear", "set", "freed"}
    /\ counter \in Nat
    /\ pc \in [Threads -> {"none", "lock", "loop", "store", "done"}]
    /\ i \in [Threads -> 0 .. Increments]
    /\ loaded \in [Threads -> Nat]
    /\ main \in {"init", "failed", "create", "destroy", "done"}
    /\ printed \in Nat

Holds(t) == pc[t] \in {"loop", "store"}
Done == {t \in Threads : pc[t] = "done"}

\* The test and set lets one thread at a time between lock and unlock.
MutualExclusion == \A t, u \in Threads : Holds(t) /\ Holds(u) => t = u

\* No increment is lost: main() prints the number of increments made, which
\* the README of Erebor expects of main.c.
NoLostUpdate ==
    main \in {"destroy", "done"} => printed = Increments * Cardinality(Threads)

\* No thread uses the mutex before it is initialised or after it is freed.
LockAlive ==
    \A t \in Threads : pc[t] = "lock" \/ Holds(t) => flag \in {"clear", "set"}

\* The program ends: the holder never waits for anybody, so each spinner gets
\* its turn to find the flag clear.
Termination == <>(main \in {"failed", "done"})
=============================================================================
