------------------------- MODULE NqpCounter_proofs -------------------------
(***************************************************************************)
(* Proofs about NqpCounter, for any number of threads and increments.      *)
(***************************************************************************)
EXTENDS NqpCounter, TLAPS, FiniteSetTheorems

\* The threads exist, and the mutex is there for them, in main()'s middle part.
LifeOK ==
    /\ main = "create" => flag \in {"clear", "set"}
    /\ main \in {"init", "failed"} => \A t \in Threads : pc[t] = "none"
    /\ main \in {"destroy", "done"} => \A t \in Threads : pc[t] = "done"

\* Only the thread that has found the flag clear is past it.
HolderOK ==
    /\ \A t \in Threads : Holds(t) => flag = "set"
    /\ MutualExclusion

\* The threads that are done have made all their increments, the holder as many
\* as it has counted, the others none; a value that was loaded is still there.
CountOK ==
    /\ \A t \in Threads : pc[t] \in {"none", "lock"} => i[t] = 0
    /\ \A t \in Threads : pc[t] = "store" => loaded[t] = counter /\ i[t] < Increments
    /\ \A t \in Threads : Holds(t) => counter = Increments * Cardinality(Done) + i[t]
    /\ (\A t \in Threads : ~ Holds(t)) => counter = Increments * Cardinality(Done)

IInv == TypeOK /\ LifeOK /\ HolderOK /\ CountOK /\ NoLostUpdate

-----------------------------------------------------------------------------
\* The threads that are done are finitely many.
LEMMA DoneIsFinite == IsFiniteSet(Done) /\ Cardinality(Done) \in Nat
<1>1. Done \subseteq Threads BY DEF Done
<1>2. QED BY <1>1, CounterAssumption, FS_Subset, FS_CardinalityType

\* Before main() has done anything the invariant holds.
LEMMA InitIInv == Init => IInv
<1> SUFFICES ASSUME Init PROVE IInv OBVIOUS
<1> USE CounterAssumption DEF Init
<1>1. TypeOK BY DEF TypeOK
<1>2. LifeOK /\ HolderOK BY DEF LifeOK, HolderOK, MutualExclusion, Holds
<1>3. Done = {} BY DEF Done
<1>4. Cardinality(Done) = 0 BY <1>3, FS_EmptySet
<1>5. CountOK BY <1>4 DEF CountOK, Holds
<1>6. NoLostUpdate BY DEF NoLostUpdate
<1>7. QED BY <1>1, <1>2, <1>5, <1>6 DEF IInv

\* Steps that leave the increments alone and make no thread a holder, or end one.
LEMMA CountKept ==
    ASSUME IInv, UNCHANGED <<counter, i, loaded>>,
           \A t \in Threads : pc'[t] = pc[t] \/ (pc[t] = "none" /\ pc'[t] = "lock")
    PROVE  CountOK'
<1>1. Done' = Done BY DEF Done
<1>2. \A t \in Threads : Holds(t)' <=> Holds(t) BY DEF Holds
<1>3. QED BY <1>1, <1>2 DEF IInv, CountOK, Holds

\* What main() does keeps the invariant; it prints when all threads are done.
LEMMA MainIInv == ASSUME IInv, MainNext PROVE IInv'
<1> USE CounterAssumption
<1>1. CASE InitLock
  <2>1. CountOK' BY <1>1, CountKept DEF InitLock, threadVars
  <2>2. QED BY <1>1, <2>1 DEF InitLock, threadVars, mutex_init, IInv, TypeOK, LifeOK,
                              HolderOK, MutualExclusion, Holds, NoLostUpdate
<1>2. CASE JoinAndPrint
  <2>1. CountOK' BY <1>2, CountKept DEF JoinAndPrint, threadVars
  <2>2. Done = Threads BY <1>2 DEF JoinAndPrint, Done
  <2>3. counter = Increments * Cardinality(Threads)
    BY <1>2, <2>2 DEF JoinAndPrint, IInv, CountOK, Holds
  <2>4. NoLostUpdate' BY <1>2, <2>3 DEF JoinAndPrint, threadVars, NoLostUpdate
  <2>5. QED BY <1>2, <2>1, <2>4 DEF JoinAndPrint, threadVars, IInv, TypeOK, LifeOK,
                                    HolderOK, MutualExclusion, Holds
<1>3. CASE DestroyLock
  <2>1. CountOK' BY <1>3, CountKept DEF DestroyLock, threadVars
  <2>2. QED BY <1>3, <2>1 DEF DestroyLock, threadVars, mutex_destroy, IInv, TypeOK,
                              LifeOK, HolderOK, MutualExclusion, Holds, NoLostUpdate
<1>4. ASSUME NEW t \in Threads, CreateThread(t) PROVE IInv'
  <2>1. pc' = [pc EXCEPT ![t] = "lock"] /\ pc[t] = "none"
    BY <1>4 DEF CreateThread, Goto
  <2>2. CountOK' BY <1>4, <2>1, CountKept DEF CreateThread, IInv, TypeOK
  <2>3. QED BY <1>4, <2>1, <2>2 DEF CreateThread, IInv, TypeOK, LifeOK, HolderOK,
                                    MutualExclusion, Holds, NoLostUpdate
<1>5. QED BY <1>1, <1>2, <1>3, <1>4 DEF MainNext

\* A thread is created, and runs, while main() is at its joins only.
LEMMA ThreadsRunInCreate ==
    ASSUME IInv, NEW t \in Threads, pc[t] \notin {"none", "done"}
    PROVE  main = "create"
BY DEF IInv, TypeOK, LifeOK

\* thread_counter keeps the invariant: only the holder changes the counter.
LEMMA ThreadIInv == ASSUME IInv, NEW t \in Threads, Thread(t) PROVE IInv'
<1> USE CounterAssumption
<1>1. CASE Lock(t)
  <2>1. pc' = [pc EXCEPT ![t] = "loop"] /\ pc[t] = "lock" /\ main = "create"
    BY <1>1, ThreadsRunInCreate DEF Lock, Goto
  <2>2. \A u \in Threads : ~ Holds(u)
    BY <1>1 DEF Lock, test_and_set, IInv, HolderOK
  <2>3. Done' = Done BY <2>1 DEF Done, IInv, TypeOK
  <2>4. CountOK'
    BY <1>1, <2>1, <2>2, <2>3, DoneIsFinite DEF Lock, IInv, TypeOK, CountOK, Holds
  <2>5. QED BY <1>1, <2>1, <2>2, <2>4
            DEF Lock, test_and_set, IInv, TypeOK, LifeOK, HolderOK, MutualExclusion,
                Holds, NoLostUpdate
<1>2. CASE Spin(t)
  <2>1. CountOK' BY <1>2, CountKept DEF Spin, threadVars
  <2>2. QED BY <1>2, <2>1 DEF Spin, spin, threadVars, IInv, TypeOK, LifeOK, HolderOK,
                              MutualExclusion, Holds, NoLostUpdate
<1>3. CASE Load(t)
  <2>1. pc' = [pc EXCEPT ![t] = "store"] /\ pc[t] = "loop" /\ main = "create"
    BY <1>3, ThreadsRunInCreate DEF Load, Goto
  <2>2. Done' = Done BY <2>1 DEF Done, IInv, TypeOK
  <2>3. \A u \in Threads : Holds(u)' <=> Holds(u) BY <2>1 DEF Holds, IInv, TypeOK
  <2>4. CountOK'
    BY <1>3, <2>1, <2>2, <2>3 DEF Load, IInv, TypeOK, CountOK, Holds
  <2>5. QED BY <1>3, <2>1, <2>3, <2>4
            DEF Load, IInv, TypeOK, LifeOK, HolderOK, MutualExclusion, Holds, NoLostUpdate
<1>4. CASE Store(t)
  <2>1. pc' = [pc EXCEPT ![t] = "loop"] /\ pc[t] = "store" /\ main = "create"
    BY <1>4, ThreadsRunInCreate DEF Store, Goto
  <2>2. Done' = Done BY <2>1 DEF Done, IInv, TypeOK
  <2>3. \A u \in Threads : Holds(u)' <=> Holds(u) BY <2>1 DEF Holds, IInv, TypeOK
  <2>4. \A u \in Threads : Holds(u) => u = t
    BY <2>1 DEF IInv, HolderOK, MutualExclusion, Holds
  <2>5. counter' = counter + 1 /\ i' = [i EXCEPT ![t] = @ + 1] /\ i[t] < Increments
    BY <1>4, <2>1 DEF Store, IInv, CountOK
  <2>6. counter' = Increments * Cardinality(Done) + i'[t]
    BY <2>1, <2>5, DoneIsFinite DEF IInv, TypeOK, CountOK, Holds
  <2>7. CountOK'
    BY <2>1, <2>2, <2>3, <2>4, <2>5, <2>6 DEF IInv, TypeOK, CountOK, Holds
  <2>8. TypeOK' BY <1>4, <2>1, <2>5 DEF Store, IInv, TypeOK
  <2>9. QED BY <1>4, <2>1, <2>3, <2>7, <2>8
            DEF Store, IInv, LifeOK, HolderOK, MutualExclusion, Holds, NoLostUpdate
<1>5. CASE Unlock(t)
  <2>1. pc' = [pc EXCEPT ![t] = "done"] /\ pc[t] = "loop" /\ main = "create"
    BY <1>5, ThreadsRunInCreate DEF Unlock, Goto
  <2>2. Done' = Done \cup {t} /\ t \notin Done BY <2>1 DEF Done, IInv, TypeOK
  <2>3. Cardinality(Done') = Cardinality(Done) + 1
    BY <2>2, DoneIsFinite, FS_AddElement
  <2>4. \A u \in Threads : Holds(u) => u = t
    BY <2>1 DEF IInv, HolderOK, MutualExclusion, Holds
  <2>5. \A u \in Threads : ~ Holds(u)' BY <2>1, <2>4 DEF Holds, IInv, TypeOK
  <2>6. counter = Increments * Cardinality(Done) + Increments
    BY <1>5, <2>1 DEF Unlock, IInv, CountOK, Holds
  <2>7. counter' = Increments * Cardinality(Done')
    BY <1>5, <2>3, <2>6, DoneIsFinite DEF Unlock
  <2>8. CountOK'
    BY <1>5, <2>1, <2>5, <2>7 DEF Unlock, IInv, TypeOK, CountOK, Holds
  <2>9. QED BY <1>5, <2>1, <2>5, <2>8
            DEF Unlock, mutex_unlock, IInv, TypeOK, LifeOK, HolderOK, MutualExclusion,
                NoLostUpdate
<1>6. QED BY <1>1, <1>2, <1>3, <1>4, <1>5 DEF Thread

\* The invariant holds throughout every run of main.c.
THEOREM Invariance == Spec => []IInv
<1>1. IInv /\ UNCHANGED vars => IInv'
  <2> SUFFICES ASSUME IInv, UNCHANGED vars PROVE IInv' OBVIOUS
  <2>1. CountOK' BY CountKept DEF vars, threadVars
  <2>2. QED BY <2>1 DEF vars, threadVars, IInv, TypeOK, LifeOK, HolderOK,
                        MutualExclusion, Holds, NoLostUpdate
<1>2. IInv /\ [Next]_vars => IInv'
  BY <1>1, MainIInv, ThreadIInv DEF Next, Ended
<1>3. QED BY <1>2, InitIInv, PTL DEF Spec

\* Between lock and unlock there is one thread at a time, however many spin.
THEOREM LockExcludes == Spec => []MutualExclusion
<1>1. IInv => MutualExclusion BY DEF IInv, HolderOK
<1>2. QED BY <1>1, Invariance, PTL

\* main() prints Increments times the number of threads: no increment is lost.
THEOREM CounterIsExact == Spec => []NoLostUpdate
<1>1. IInv => NoLostUpdate BY DEF IInv
<1>2. QED BY <1>1, Invariance, PTL

\* The mutex is neither used before it exists nor after it is freed.
THEOREM MutexOutlivesItsUse == Spec => []LockAlive
<1>1. IInv => LockAlive
  BY DEF IInv, TypeOK, LifeOK, LockAlive, Holds
<1>2. QED BY <1>1, Invariance, PTL
=============================================================================
