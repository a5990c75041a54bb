-------------------------- MODULE Pool3430_proofs --------------------------
(***************************************************************************)
(* Proofs about Pool3430, for any number of workers, clients and jobs.     *)
(***************************************************************************)
EXTENDS Pool3430, TLAPS, FiniteSetTheorems, SequenceTheorems

Gone == {w \in Workers : pc[w] = "gone"}

\* A worker that runs a job has one.
PcOK ==
    /\ pc \in [Workers \cup Clients -> WorkerLabels \cup ClientLabels]
    /\ \A w \in Workers : pc[w] = "run" => job[w] \in Jobs

\* A worker goes to sleep on an empty queue, and the sleepers are those that the
\* condition variable knows.
SleepOK ==
    /\ \A w \in Workers : w \in pool_workcv <=> pc[w] = "asleep"
    /\ \A w \in Workers : pc[w] = "sleep" => jobs = <<>>

\* A worker that finds nothing to take after its check has been told to leave.
ShutOK ==
    \A w \in Workers :
        (pc[w] = "shut" \/ (pc[w] = "take" /\ jobs = <<>>)) => pool_wait

\* A worker that is about to take a job finds one.
TakeOK == \A w \in Workers : pc[w] = "dequeue" => jobs # <<>>

\* A job that is taken late is that of the worker which had read pool_wait and
\* held the mutex when it was set; nobody gets past that reading any more.
LateOK ==
    /\ ~pool_wait => late = 0
    /\ late = 0 \/ (late = 1 /\ \A w \in Workers : pc[w] # "dequeue")

\* pool_nthreads counts the threads that have not left, and a thr_pool_wait that
\* returned has seen all of them leave.
CountOK == pool_nthreads + Cardinality(Gone) = Cardinality(Workers)
ReturnedOK == (\E c \in Clients : pc[c] = "returned") => Gone = Workers

IInv ==
    /\ TypeOK /\ PcOK /\ MutexMatchesCode /\ SleepOK /\ ShutOK /\ CountOK /\ ReturnedOK
    /\ TakeOK /\ LateOK /\ SomebodyAwake

-----------------------------------------------------------------------------
\* The threads that have left are finitely many, and no more than there are.
LEMMA GoneIsFinite ==
    /\ IsFiniteSet(Gone) /\ Cardinality(Gone) \in Nat /\ Cardinality(Workers) \in Nat
    /\ Cardinality(Gone) = Cardinality(Workers) => Gone = Workers
<1>1. Gone \subseteq Workers BY DEF Gone
<1>2. QED BY <1>1, PoolAssumption, FS_Subset, FS_CardinalityType

\* Steps in which nobody leaves, and no thr_pool_wait returns.
LEMMA CountKept ==
    ASSUME IInv, pool_nthreads' = pool_nthreads,
           \A w \in Workers : pc'[w] = "gone" <=> pc[w] = "gone",
           \A c \in Clients : pc'[c] = "returned" => pc[c] = "returned"
    PROVE  CountOK' /\ ReturnedOK'
<1>1. Gone' = Gone BY DEF Gone
<1>2. QED BY <1>1 DEF IInv, CountOK, ReturnedOK

\* dequeue takes an element off the queue.
LEMMA DequeueFacts ==
    ASSUME jobs \in Seq(Jobs), jobs # <<>>
    PROVE  /\ Front(jobs) \in Seq(Jobs)
           /\ Len(Front(jobs)) < Len(jobs)
           /\ NextJob \in Jobs
BY DEF Front, Last, NextJob

\* enqueue adds one.
LEMMA EnqueueFacts ==
    ASSUME jobs \in Seq(Jobs), NEW j \in Jobs, enqueue(j)
    PROVE  /\ jobs' \in Seq(Jobs)
           /\ Len(jobs') > Len(jobs)
           /\ jobs' # <<>>
BY DEF enqueue

\* The pool is created with nobody in it.
LEMMA InitIInv == Init => IInv
<1> SUFFICES ASSUME Init PROVE IInv OBVIOUS
<1> USE PoolAssumption DEF Init
<1>1. Gone = {} BY DEF Gone
<1>2. Cardinality(Gone) = 0 BY <1>1, FS_EmptySet
<1>3. CountOK BY <1>2, GoneIsFinite DEF CountOK
<1>4. TypeOK
  <2>1. jobs \in Seq(Jobs) /\ queued \in Seq(Jobs) BY SMT
  <2>2. pool_nthreads \in 0 .. Cardinality(Workers) BY GoneIsFinite
  <2>3. \A w \in Workers : pc[w] \in WorkerLabels BY DEF WorkerLabels
  <2>4. \A c \in Clients : pc[c] \in ClientLabels BY DEF ClientLabels
  <2>5. job \in [Workers -> Jobs \cup {NULL}] BY SMT
  <2>6. failures \in 0 .. MaxFailures /\ late \in Nat BY SMT
  <2>7. /\ pool_mutex \in Workers \cup {NULL} /\ pool_workcv \subseteq Workers
        /\ pool_wait \in BOOLEAN /\ ran \subseteq Jobs
    OBVIOUS
  <2>8. QED BY ONLY <2>1, <2>2, <2>3, <2>4, <2>5, <2>6, <2>7, Zenon DEF TypeOK
<1>5. PcOK BY DEF PcOK, WorkerLabels, ClientLabels
<1>6. MutexMatchesCode /\ SleepOK /\ ShutOK /\ ReturnedOK /\ TakeOK /\ LateOK
  BY DEF MutexMatchesCode, SleepOK, ShutOK, ReturnedOK, TakeOK, LateOK
<1>7. SomebodyAwake BY DEF SomebodyAwake
<1>8. QED BY <1>3, <1>4, <1>5, <1>6, <1>7 DEF IInv

-----------------------------------------------------------------------------
\* Steps that start a worker, or fail to.
LEMMA StartIInv ==
    ASSUME IInv, NEW w \in Workers, StartWorker(w) \/ StartFails(w)
    PROVE  IInv'
<1> USE PoolAssumption DEF Goto, poolVars, workVars
<1>1. CASE StartWorker(w)
  <2>1. CountOK' /\ ReturnedOK' BY <1>1, CountKept DEF StartWorker, IInv, PcOK
  <2>2. QED BY <1>1, <2>1 DEF StartWorker, IInv, TypeOK, PcOK, MutexMatchesCode, SleepOK,
                  ShutOK, TakeOK, LateOK, SomebodyAwake, WorkerLabels
<1>2. CASE StartFails(w)
  <2>1. CountOK' /\ ReturnedOK' BY <1>2, CountKept DEF StartFails, IInv, PcOK
  <2>2. QED BY <1>2, <2>1 DEF StartFails, IInv, TypeOK, PcOK, MutexMatchesCode, SleepOK,
                  ShutOK, TakeOK, LateOK, SomebodyAwake, WorkerLabels
<1>3. QED BY <1>1, <1>2

\* What a signal does to the sleepers, whatever its caller goes on to.
LEMMA SignalFacts ==
    ASSUME IInv, NEW at, at \in [Workers \cup Clients -> WorkerLabels \cup ClientLabels],
           \A w \in Workers : at[w] = pc[w],
           pthread_cond_signal(at)
    PROVE  /\ pc' \in [Workers \cup Clients -> WorkerLabels \cup ClientLabels]
           /\ pool_workcv' \subseteq Workers
           /\ \A c \in Clients : pc'[c] = at[c]
           /\ \A w \in Workers : \/ pc'[w] = pc[w]
                                 \/ pc[w] = "asleep" /\ pc'[w] = "woken"
           /\ \A w \in Workers : w \in pool_workcv' <=> pc'[w] = "asleep"
           /\ \E w \in Workers : pc'[w] # "asleep"
<1> USE PoolAssumption
<1>1. CASE pool_workcv = {} /\ pc' = at /\ UNCHANGED pool_workcv
  BY <1>1 DEF IInv, TypeOK, SleepOK
<1>2. ASSUME NEW w \in pool_workcv, pool_workcv' = pool_workcv \ {w},
             pc' = [at EXCEPT ![w] = "woken"]
      PROVE  /\ pc' \in [Workers \cup Clients -> WorkerLabels \cup ClientLabels]
             /\ pool_workcv' \subseteq Workers
             /\ \A c \in Clients : pc'[c] = at[c]
             /\ \A v \in Workers : \/ pc'[v] = pc[v]
                                   \/ pc[v] = "asleep" /\ pc'[v] = "woken"
             /\ \A v \in Workers : v \in pool_workcv' <=> pc'[v] = "asleep"
             /\ \E v \in Workers : pc'[v] # "asleep"
  BY <1>2 DEF IInv, TypeOK, SleepOK, WorkerLabels
<1>3. QED BY <1>1, <1>2 DEF pthread_cond_signal

\* What the clients do keeps the invariant.
LEMMA ClientIInv ==
    ASSUME IInv, NEW c \in Clients,
           \/ Created(c) \/ WaitCall(c) \/ WaitStep(c)
           \/ \E j \in Jobs : thr_pool_queue(c, j)
    PROVE  IInv'
<1> USE PoolAssumption DEF Goto, poolVars, workVars
<1>1. CASE Created(c)
  <2>1. CountOK' /\ ReturnedOK' BY <1>1, CountKept DEF Created, IInv, PcOK
  <2>2. QED BY <1>1, <2>1 DEF Created, IInv, TypeOK, PcOK, MutexMatchesCode, SleepOK,
                  ShutOK, TakeOK, LateOK, SomebodyAwake, ClientLabels
<1>2. CASE WaitCall(c)
  <2>1. CountOK' /\ ReturnedOK' BY <1>2, CountKept DEF WaitCall, IInv, PcOK
  <2>2. QED BY <1>2, <2>1 DEF WaitCall, IInv, TypeOK, PcOK, MutexMatchesCode, SleepOK,
                  ShutOK, TakeOK, LateOK, SomebodyAwake, ClientLabels
<1>3. CASE WaitLoops(c)
  <2>1. CountOK' /\ ReturnedOK' BY <1>3, CountKept DEF WaitLoops, IInv, PcOK
  <2>2. QED BY <1>3, <2>1 DEF WaitLoops, IInv, TypeOK, PcOK, MutexMatchesCode, SleepOK,
                  ShutOK, TakeOK, LateOK, SomebodyAwake, ClientLabels
<1>4. CASE WaitReturns(c)
  <2>1. Gone' = Gone BY <1>4 DEF WaitReturns, IInv, PcOK, Gone
  <2>2. Cardinality(Gone) = Cardinality(Workers)
    BY <1>4, GoneIsFinite DEF WaitReturns, IInv, CountOK
  <2>3. CountOK' /\ ReturnedOK'
    BY <1>4, <2>1, <2>2, GoneIsFinite DEF WaitReturns, IInv, CountOK, ReturnedOK
  <2>4. QED BY <1>4, <2>3 DEF WaitReturns, IInv, TypeOK, PcOK, MutexMatchesCode, SleepOK,
                  ShutOK, TakeOK, LateOK, SomebodyAwake, ClientLabels
<1>5. CASE WaitSignals(c)
  <2> DEFINE at == [pc EXCEPT ![c] = "count"]
  <2>1. /\ at \in [Workers \cup Clients -> WorkerLabels \cup ClientLabels]
        /\ \A w \in Workers : at[w] = pc[w]
        /\ \A d \in Clients : at[d] = pc[d] \/ at[d] = "count"
    BY DEF IInv, PcOK, ClientLabels
  <2>2. pthread_cond_signal(at) BY <1>5 DEF WaitSignals
  <2> HIDE DEF at
  <2>3. CountOK' /\ ReturnedOK'
    <3>1. \A w \in Workers :
              pc'[w] = pc[w] \/ (pc[w] = "asleep" /\ pc'[w] = "woken")
      BY ONLY IInv, <2>1, <2>2, SignalFacts, Zenon
    <3>2. \A d \in Clients : pc'[d] = at[d]
      BY ONLY IInv, <2>1, <2>2, SignalFacts, Zenon
    <3>3. QED BY <1>5, <2>1, <3>1, <3>2, CountKept DEF WaitSignals
  <2>4. TypeOK'
    <3>1. \A w \in Workers : pc'[w] \in WorkerLabels
      BY <2>1, <2>2, SignalFacts DEF IInv, TypeOK, WorkerLabels
    <3>2. \A d \in Clients : pc'[d] \in ClientLabels
      <4>1. \A d \in Clients : pc'[d] = at[d] BY <2>1, <2>2, SignalFacts
      <4>2. QED BY <2>1, <4>1 DEF IInv, TypeOK, ClientLabels
    <3>3. pool_workcv' \subseteq Workers BY <2>1, <2>2, SignalFacts
    <3>4. QED BY <1>5, <3>1, <3>2, <3>3 DEF WaitSignals, IInv, TypeOK
  <2>5. /\ pc' \in [Workers \cup Clients -> WorkerLabels \cup ClientLabels]
        /\ \A w \in Workers :
               pc'[w] = pc[w] \/ (pc[w] = "asleep" /\ pc'[w] = "woken")
        /\ \A w \in Workers : w \in pool_workcv' <=> pc'[w] = "asleep"
        /\ \E w \in Workers : pc'[w] # "asleep"
    BY <2>1, <2>2, SignalFacts
  <2>6. UNCHANGED <<pool_mutex, jobs, pool_wait, job, late>>
    BY <1>5 DEF WaitSignals
  <2>7. QED BY <2>3, <2>4, <2>5, <2>6
            DEF IInv, PcOK, MutexMatchesCode, SleepOK, ShutOK, TakeOK, LateOK,
                SomebodyAwake
<1>6. ASSUME NEW j \in Jobs, thr_pool_queue(c, j) PROVE IInv'
  <2>1. /\ pthread_cond_signal(pc)
        /\ pc \in [Workers \cup Clients -> WorkerLabels \cup ClientLabels]
    BY <1>6 DEF thr_pool_queue, IInv, PcOK
  <2>2. jobs' \in Seq(Jobs) /\ jobs' # <<>>
    BY <1>6, EnqueueFacts DEF thr_pool_queue, IInv, TypeOK
  <2>3. CountOK' /\ ReturnedOK' BY <1>6, <2>1, SignalFacts, CountKept DEF thr_pool_queue
  <2>4. TypeOK'
    <3>1. \A w \in Workers : pc'[w] \in WorkerLabels
      BY <2>1, SignalFacts DEF IInv, TypeOK, WorkerLabels
    <3>2. \A d \in Clients : pc'[d] \in ClientLabels
      BY <2>1, SignalFacts DEF IInv, TypeOK
    <3>3. pool_workcv' \subseteq Workers BY <2>1, SignalFacts
    <3>4. queued' \in Seq(Jobs) BY <1>6 DEF thr_pool_queue, IInv, TypeOK
    <3>5. QED BY <1>6, <2>2, <3>1, <3>2, <3>3, <3>4 DEF thr_pool_queue, IInv, TypeOK
  <2>5. \A w \in Workers : pc[w] \notin {"check", "sleep", "take", "dequeue", "shut"}
    BY <1>6 DEF thr_pool_queue, IInv, MutexMatchesCode
  <2>6. QED BY <1>6, <2>1, <2>2, <2>3, <2>4, <2>5, SignalFacts
            DEF thr_pool_queue, IInv, PcOK, MutexMatchesCode, SleepOK, ShutOK, TakeOK, LateOK,
                SomebodyAwake
<1>7. QED BY <1>1, <1>2, <1>3, <1>4, <1>5, <1>6 DEF WaitStep

-----------------------------------------------------------------------------
\* What a worker does keeps the invariant.
LEMMA WorkerIInv ==
    ASSUME IInv, NEW w \in Workers, WorkerStep(w) \/ SpuriousWakeup(w)
    PROVE  IInv'
<1> USE PoolAssumption DEF Goto, poolVars, workVars
<1>1. CASE TestWait(w)
  <2>1. CountOK' /\ ReturnedOK' BY <1>1, CountKept DEF TestWait, IInv, PcOK
  <2>2. QED BY <1>1, <2>1 DEF TestWait, IInv, TypeOK, PcOK, MutexMatchesCode, SleepOK,
                  ShutOK, TakeOK, LateOK, SomebodyAwake, WorkerLabels
<1>2. CASE Lock(w)
  <2>1. CountOK' /\ ReturnedOK' BY <1>2, CountKept DEF Lock, IInv, PcOK
  <2>2. QED BY <1>2, <2>1 DEF Lock, IInv, TypeOK, PcOK, MutexMatchesCode, SleepOK,
                  ShutOK, TakeOK, LateOK, SomebodyAwake, WorkerLabels
<1>3. CASE CheckQueue(w)
  <2>1. CountOK' /\ ReturnedOK' BY <1>3, CountKept DEF CheckQueue, IInv, PcOK
  <2>2. QED BY <1>3, <2>1 DEF CheckQueue, IInv, TypeOK, PcOK, MutexMatchesCode, SleepOK,
                  ShutOK, TakeOK, LateOK, SomebodyAwake, WorkerLabels
<1>4. CASE Sleep(w)
  <2>1. CountOK' /\ ReturnedOK' BY <1>4, CountKept DEF Sleep, IInv, PcOK
  <2>2. QED BY <1>4, <2>1 DEF Sleep, IInv, TypeOK, PcOK, MutexMatchesCode, SleepOK,
                  ShutOK, TakeOK, LateOK, SomebodyAwake, WorkerLabels
<1>5. CASE TakeJob(w)
  <2>1. /\ pc[w] = "dequeue" /\ pc' = [pc EXCEPT ![w] = "run"]
        /\ job' = [job EXCEPT ![w] = NextJob] /\ jobs' = Front(jobs)
        /\ pool_mutex' = NULL /\ late' = IF pool_wait THEN late + 1 ELSE late
        /\ UNCHANGED <<pool_workcv, pool_nthreads, pool_wait, queued, ran, failures>>
    BY <1>5 DEF TakeJob, dequeue
  <2>2. jobs' \in Seq(Jobs) /\ NextJob \in Jobs
    BY <2>1, DequeueFacts DEF IInv, TypeOK, TakeOK
  <2>3. CountOK' /\ ReturnedOK' BY <2>1, CountKept DEF IInv, PcOK
  <2>4. TypeOK' BY <2>1, <2>2 DEF IInv, TypeOK, PcOK, WorkerLabels
  <2>5. pool_mutex = w BY <2>1 DEF IInv, MutexMatchesCode
  <2>6. \A v \in Workers : v # w => pc[v] \notin {"check", "sleep", "take", "dequeue", "shut"}
    BY <2>5 DEF IInv, MutexMatchesCode
  <2>7. TakeOK' /\ LateOK'
    BY <2>1, <2>6 DEF IInv, TypeOK, PcOK, TakeOK, LateOK
  <2>8. QED BY <2>1, <2>2, <2>3, <2>4, <2>5, <2>6, <2>7
            DEF IInv, TypeOK, PcOK, MutexMatchesCode, SleepOK, ShutOK, SomebodyAwake,
                WorkerLabels
<1>6. CASE Take(w)
  <2>1. /\ pc[w] = "take"
        /\ pc' = [pc EXCEPT ![w] = IF jobs # <<>> /\ ~pool_wait THEN "dequeue" ELSE "shut"]
        /\ UNCHANGED <<poolVars, workVars>>
    BY <1>6 DEF Take
  <2>2. jobs = <<>> => pool_wait BY <2>1 DEF IInv, ShutOK
  <2>3. CountOK' /\ ReturnedOK' BY <2>1, CountKept DEF IInv, PcOK
  <2>4. QED BY <2>1, <2>2, <2>3 DEF IInv, TypeOK, PcOK, MutexMatchesCode, SleepOK,
                  ShutOK, TakeOK, LateOK, SomebodyAwake, WorkerLabels
<1>7. CASE Shut(w)
  <2>1. CountOK' /\ ReturnedOK' BY <1>7, CountKept DEF Shut, IInv, PcOK
  <2>2. pool_wait /\ pool_mutex = w BY <1>7 DEF Shut, IInv, ShutOK, MutexMatchesCode
  <2>3. QED BY <1>7, <2>1, <2>2 DEF Shut, IInv, TypeOK, PcOK, MutexMatchesCode, SleepOK,
                  ShutOK, TakeOK, LateOK, SomebodyAwake, WorkerLabels
<1>8. CASE Run(w)
  <2>1. CountOK' /\ ReturnedOK' BY <1>8, CountKept DEF Run, IInv, PcOK
  <2>2. QED BY <1>8, <2>1 DEF Run, IInv, TypeOK, PcOK, MutexMatchesCode, SleepOK,
                  ShutOK, TakeOK, LateOK, SomebodyAwake, WorkerLabels
<1>9. CASE Leave(w)
  <2>1. Gone' = Gone \cup {w} /\ w \notin Gone
    BY <1>9 DEF Leave, Gone, IInv, PcOK
  <2>2. Cardinality(Gone') = Cardinality(Gone) + 1
    BY <2>1, GoneIsFinite, FS_AddElement
  <2>3. Gone' \subseteq Workers BY DEF Gone
  <2>4. Cardinality(Gone') <= Cardinality(Workers)
    BY <2>3, FS_Subset
  <2>5. CountOK' /\ pool_nthreads' \in 0 .. Cardinality(Workers)
    BY <1>9, <2>2, <2>4, GoneIsFinite DEF Leave, IInv, TypeOK, CountOK
  <2>6. ReturnedOK' BY <1>9, <2>1, <2>3 DEF Leave, IInv, PcOK, ReturnedOK
  <2>7. TypeOK' BY <1>9, <2>5 DEF Leave, IInv, TypeOK, PcOK, WorkerLabels
  <2>8. QED BY <1>9, <2>5, <2>6, <2>7 DEF Leave, IInv, TypeOK, PcOK, MutexMatchesCode,
                  SleepOK, ShutOK, TakeOK, LateOK, SomebodyAwake, WorkerLabels
<1>10. CASE SpuriousWakeup(w)
  <2>1. CountOK' /\ ReturnedOK' BY <1>10, CountKept DEF SpuriousWakeup, IInv, PcOK
  <2>2. QED BY <1>10, <2>1 DEF SpuriousWakeup, IInv, TypeOK, PcOK, MutexMatchesCode,
                  SleepOK, ShutOK, TakeOK, LateOK, SomebodyAwake, WorkerLabels
<1>11. QED BY <1>1, <1>2, <1>3, <1>4, <1>5, <1>6, <1>7, <1>8, <1>9, <1>10 DEF WorkerStep

\* The invariant holds whatever the clients do and however the threads interleave.
THEOREM Invariance == Spec => []IInv
<1>1. IInv /\ UNCHANGED vars => IInv'
  <2> SUFFICES ASSUME IInv, UNCHANGED vars PROVE IInv' OBVIOUS
  <2>1. CountOK' /\ ReturnedOK' BY CountKept DEF vars, poolVars
  <2>2. QED BY <2>1 DEF vars, poolVars, workVars, IInv, TypeOK, PcOK, MutexMatchesCode,
                        SleepOK, ShutOK, TakeOK, LateOK, SomebodyAwake
<1>2. IInv /\ [Next]_vars => IInv'
  BY <1>1, StartIInv, ClientIInv, WorkerIInv DEF Next, Ended
<1>3. QED BY <1>2, InitIInv, PTL DEF Spec

\* No way through worker_thread leaves pool_mutex locked, or unlocks it twice,
\* though the worker reads pool_wait anew to decide whether to unlock.
THEOREM MutexIsReleased == Spec => []MutexMatchesCode
<1>1. IInv => MutexMatchesCode BY DEF IInv
<1>2. QED BY <1>1, Invariance, PTL

\* A job that was queued does not find all the workers of the pool asleep.
THEOREM NoWakeupIsLost == Spec => []SomebodyAwake
<1>1. IInv => SomebodyAwake BY DEF IInv
<1>2. QED BY <1>1, Invariance, PTL

\* When thr_pool_wait returns no worker is in a job, or will be.
THEOREM WaitReturnsLast == Spec => []NoneRunsAfterWait
<1>1. IInv => NoneRunsAfterWait BY DEF IInv, ReturnedOK, Gone, NoneRunsAfterWait
<1>2. QED BY <1>1, Invariance, PTL

\* After pool_wait is set at most one job is taken, by the worker that had read it
\* before, whatever the number of workers and of jobs in the queue.
THEOREM OneJobLate == Spec => []OneTakenLate
<1>1. IInv => OneTakenLate BY DEF IInv, LateOK, OneTakenLate
<1>2. QED BY <1>1, Invariance, PTL

-----------------------------------------------------------------------------
\* A job is in one place: in the queue, once, or in one worker's hands, or done;
\* and it is one that was queued.
JobsOK ==
    /\ \A w \in Workers : job[w] # NULL =>
          /\ pc[w] = "run"
          /\ Contains(queued, job[w]) /\ job[w] \notin ran
          /\ \A v \in Workers : job[v] = job[w] => v = w
    /\ \A n \in 1 .. Len(jobs) :
          /\ Contains(queued, jobs[n]) /\ jobs[n] \notin ran
          /\ \A w \in Workers : job[w] # jobs[n]
          /\ \A m \in 1 .. Len(jobs) : jobs[m] = jobs[n] => m = n
    /\ \A j \in ran : Contains(queued, j)

Executing == {job[w] : w \in Workers} \ {NULL}

\* The queue, seen from its tail, when a job is put at its head.
LEMMA EnqueueReversed ==
    ASSUME jobs \in Seq(Jobs), NEW j \in Jobs, enqueue(j)
    PROVE  /\ Len(jobs') = Len(jobs) + 1 /\ jobs'[1] = j
           /\ \A n \in 1 .. Len(jobs') : n = 1 \/ (n - 1 \in 1 .. Len(jobs) /\ jobs'[n] = jobs[n - 1])
           /\ Reverse(jobs)' = Append(Reverse(jobs), j)
<1>1. jobs' = <<j>> \o jobs BY DEF enqueue
<1>2. /\ Len(jobs') = Len(jobs) + 1 /\ jobs'[1] = j
      /\ \A n \in 1 .. Len(jobs') : n = 1 \/ (n - 1 \in 1 .. Len(jobs) /\ jobs'[n] = jobs[n - 1])
  BY <1>1
<1>3. Reverse(jobs)' = Append(Reverse(jobs), j)
  BY <1>1, <1>2 DEF Reverse
<1>4. QED BY <1>2, <1>3

\* The same, when the one at the tail is taken.
LEMMA DequeueReversed ==
    ASSUME jobs \in Seq(Jobs), jobs # <<>>, dequeue
    PROVE  /\ Len(jobs) \in 1 .. Len(jobs) /\ Len(jobs') = Len(jobs) - 1
           /\ \A n \in 1 .. Len(jobs') : n \in 1 .. Len(jobs) /\ n # Len(jobs) /\ jobs'[n] = jobs[n]
           /\ NextJob = jobs[Len(jobs)]
           /\ Reverse(jobs) # <<>> /\ Head(Reverse(jobs)) = NextJob
           /\ Reverse(jobs)' = Tail(Reverse(jobs))
<1>1. jobs' = SubSeq(jobs, 1, Len(jobs) - 1) BY DEF dequeue, Front
<1>2. NextJob = jobs[Len(jobs)] BY DEF NextJob, Last
<1>3. /\ Len(jobs) \in 1 .. Len(jobs) /\ Len(jobs') = Len(jobs) - 1
      /\ \A n \in 1 .. Len(jobs') : n \in 1 .. Len(jobs) /\ n # Len(jobs) /\ jobs'[n] = jobs[n]
  <2>1. Len(jobs) \in Nat \ {0} BY EmptySeq
  <2>2. \A n \in 1 .. Len(jobs) - 1 : jobs[n] \in Jobs BY <2>1
  <2>3. /\ Len(jobs') = Len(jobs) - 1
        /\ \A n \in 1 .. Len(jobs) - 1 : jobs'[n] = jobs[n]
    <3> DEFINE l == Len(jobs) - 1
    <3>1. l \in Nat /\ 1 \in Int /\ l \in Int BY <2>1
    <3> HIDE DEF l
    <3>2. /\ Len(SubSeq(jobs, 1, l)) = IF 1 =< l THEN l - 1 + 1 ELSE 0
          /\ \A n \in 1 .. l - 1 + 1 : SubSeq(jobs, 1, l)[n] = jobs[1 + n - 1]
      <4>1. \A n \in 1 .. l : jobs[n] \in Jobs BY <2>2 DEF l
      <4>2. QED BY ONLY <3>1, <4>1, SubSeqProperties, SMT
    <3>3. Len(SubSeq(jobs, 1, l)) = l BY <3>1, <3>2
    <3>4. l - 1 + 1 = l /\ \A n \in 1 .. l : 1 + n - 1 = n BY <3>1
    <3>5. \A n \in 1 .. l : SubSeq(jobs, 1, l)[n] = jobs[n] BY <3>2, <3>4, Zenon
    <3>6. QED BY <1>1, <3>3, <3>5, Zenon DEF l
  <2>4. QED BY <2>1, <2>3
<1>4. Reverse(jobs) # <<>> /\ Head(Reverse(jobs)) = NextJob
  BY <1>2, <1>3 DEF Reverse
<1>5. Reverse(jobs)' = Tail(Reverse(jobs))
  <2> DEFINE l == Len(jobs)
  <2>1. /\ l \in Nat \ {0} /\ Len(jobs') = l - 1
        /\ \A n \in 1 .. l - 1 : jobs'[n] = jobs[n]
    BY <1>3
  <2>2. Reverse(jobs) = [n \in 1 .. l |-> jobs[(l - n) + 1]] BY DEF Reverse
  <2>3. Reverse(jobs)' = [n \in 1 .. l - 1 |-> jobs'[(l - 1 - n) + 1]]
    BY <2>1 DEF Reverse
  <2> HIDE DEF l
  <2>4. Tail(Reverse(jobs)) = [n \in 1 .. l - 1 |-> jobs[(l - (n + 1)) + 1]]
    BY <2>1, <2>2
  <2>5. \A n \in 1 .. l - 1 : /\ (l - 1 - n) + 1 \in 1 .. l - 1
                              /\ (l - (n + 1)) + 1 = (l - 1 - n) + 1
    BY <2>1
  <2>6. \A n \in 1 .. l - 1 : jobs'[(l - 1 - n) + 1] = jobs[(l - (n + 1)) + 1]
    BY <2>1, <2>5
  <2>7. QED BY ONLY <2>3, <2>4, <2>6, Zenon
<1>6. QED BY <1>2, <1>3, <1>4, <1>5

\* The steps that neither queue a job, nor take one, nor end one.
OtherStep ==
    \/ \E w \in Workers : \/ StartWorker(w) \/ StartFails(w) \/ SpuriousWakeup(w)
                          \/ TestWait(w) \/ Lock(w) \/ CheckQueue(w) \/ Sleep(w)
                          \/ Take(w) \/ Shut(w) \/ Leave(w)
    \/ \E c \in Clients : Created(c) \/ WaitCall(c) \/ WaitStep(c)
    \/ Ended

LEMMA OtherStepsKeepJobs ==
    ASSUME IInv, OtherStep
    PROVE  /\ UNCHANGED <<jobs, job, queued, ran>>
           /\ \A w \in Workers : pc[w] = "run" => pc'[w] = "run"
<1> USE DEF Goto, poolVars, workVars
<1>1. ASSUME NEW w \in Workers,
             \/ StartWorker(w) \/ StartFails(w) \/ SpuriousWakeup(w)
             \/ TestWait(w) \/ Lock(w) \/ CheckQueue(w) \/ Sleep(w)
             \/ Take(w) \/ Shut(w) \/ Leave(w)
      PROVE  /\ UNCHANGED <<jobs, job, queued, ran>>
             /\ \A v \in Workers : pc[v] = "run" => pc'[v] = "run"
  BY <1>1 DEF IInv, PcOK, StartWorker, StartFails, SpuriousWakeup, TestWait, Lock,
              CheckQueue, Sleep, Take, Shut, Leave
<1>2. ASSUME NEW c \in Clients, Created(c) \/ WaitCall(c) \/ WaitLoops(c) \/ WaitReturns(c)
      PROVE  /\ UNCHANGED <<jobs, job, queued, ran>>
             /\ \A v \in Workers : pc[v] = "run" => pc'[v] = "run"
  BY <1>2, PoolAssumption DEF IInv, PcOK, Created, WaitCall, WaitLoops, WaitReturns
<1>3. ASSUME NEW c \in Clients, WaitSignals(c)
      PROVE  /\ UNCHANGED <<jobs, job, queued, ran>>
             /\ \A v \in Workers : pc[v] = "run" => pc'[v] = "run"
  <2> DEFINE at == [pc EXCEPT ![c] = "count"]
  <2>1. /\ at \in [Workers \cup Clients -> WorkerLabels \cup ClientLabels]
        /\ \A w \in Workers : at[w] = pc[w]
    BY PoolAssumption DEF IInv, PcOK, ClientLabels
  <2>2. pthread_cond_signal(at) BY <1>3 DEF WaitSignals
  <2> HIDE DEF at
  <2>3. \A v \in Workers : pc[v] = "run" => pc'[v] = "run"
    BY <2>1, <2>2, SignalFacts
  <2>4. QED BY <1>3, <2>3 DEF WaitSignals
<1>4. CASE Ended BY <1>4 DEF Ended, vars
<1>5. QED BY <1>1, <1>2, <1>3, <1>4 DEF OtherStep, WaitStep

\* thr_pool_queue, as far as the jobs are concerned.
LEMMA QueueFacts ==
    ASSUME IInv, NEW c \in Clients, NEW j \in Jobs, thr_pool_queue(c, j)
    PROVE  /\ enqueue(j) /\ ~Contains(queued, j) /\ UNCHANGED <<job, ran>>
           /\ \A w \in Workers : pc[w] = "run" => pc'[w] = "run"
           /\ \A i \in Jobs : Contains(queued', i) <=> (i = j \/ Contains(queued, i))
<1>1. /\ pthread_cond_signal(pc)
      /\ pc \in [Workers \cup Clients -> WorkerLabels \cup ClientLabels]
  BY DEF thr_pool_queue, IInv, PcOK
<1>2. \A w \in Workers : pc[w] = "run" => pc'[w] = "run"
  BY <1>1, SignalFacts
<1>3. /\ queued \in Seq(Jobs) /\ Len(queued) \in Nat /\ Len(queued') = Len(queued) + 1
      /\ queued'[Len(queued) + 1] = j
      /\ \A n \in 1 .. Len(queued) : queued'[n] = queued[n]
  BY DEF thr_pool_queue, IInv, TypeOK
<1>4. \A i \in Jobs : Contains(queued', i) <=> (i = j \/ Contains(queued, i))
  BY <1>3 DEF Contains
<1>5. QED BY <1>2, <1>4 DEF thr_pool_queue

\* TakeJob: worker w, which had none, has the one from the tail.
LEMMA TakeFacts ==
    ASSUME IInv, JobsOK, NEW w \in Workers, TakeJob(w)
    PROVE  /\ dequeue /\ jobs \in Seq(Jobs) /\ jobs # <<>> /\ NextJob \in Jobs
           /\ job[w] = NULL /\ job' = [job EXCEPT ![w] = NextJob]
           /\ pc' = [pc EXCEPT ![w] = "run"]
           /\ UNCHANGED <<queued, ran>>
<1>1. pc[w] = "dequeue" /\ jobs \in Seq(Jobs) /\ jobs # <<>>
  BY DEF TakeJob, Goto, IInv, TypeOK, TakeOK
<1>2. NextJob \in Jobs BY <1>1, DequeueFacts
<1>3. job[w] = NULL BY <1>1 DEF JobsOK
<1>4. QED BY <1>1, <1>2, <1>3 DEF TakeJob, Goto

\* Every job stays in one place.
LEMMA JobsNext ==
    ASSUME IInv, JobsOK, [Next]_vars
    PROVE  JobsOK'
<1> USE PoolAssumption
<1>1. CASE OtherStep \/ UNCHANGED vars
  <2>1. /\ UNCHANGED <<jobs, job, queued, ran>>
        /\ \A w \in Workers : pc[w] = "run" => pc'[w] = "run"
    BY <1>1, OtherStepsKeepJobs DEF vars, poolVars, workVars
  <2>2. QED BY <2>1 DEF JobsOK
<1>2. ASSUME NEW c \in Clients, NEW j \in Jobs, thr_pool_queue(c, j)
      PROVE  JobsOK'
  <2>1. /\ enqueue(j) /\ ~Contains(queued, j) /\ UNCHANGED <<job, ran>>
        /\ \A w \in Workers : pc[w] = "run" => pc'[w] = "run"
        /\ \A i \in Jobs : Contains(queued', i) <=> (i = j \/ Contains(queued, i))
    BY <1>2, QueueFacts
  <2>2. /\ jobs \in Seq(Jobs) /\ ran \subseteq Jobs /\ job \in [Workers -> Jobs \cup {NULL}]
        /\ \A n \in 1 .. Len(jobs) : jobs[n] \in Jobs
    BY DEF IInv, TypeOK
  <2>3. /\ jobs'[1] = j
        /\ \A n \in 1 .. Len(jobs') : n = 1 \/ (n - 1 \in 1 .. Len(jobs) /\ jobs'[n] = jobs[n - 1])
    BY <2>1, <2>2, EnqueueReversed
  <2>4. /\ \A n \in 1 .. Len(jobs) : jobs[n] # j
        /\ j \notin ran /\ \A w \in Workers : job[w] # j
    BY <2>1 DEF JobsOK
  <2>5. ASSUME NEW n \in 1 .. Len(jobs')
        PROVE  /\ Contains(queued', jobs'[n]) /\ jobs'[n] \notin ran
               /\ \A w \in Workers : job[w] # jobs'[n]
               /\ \A m \in 1 .. Len(jobs') : jobs'[m] = jobs'[n] => m = n
    <3>1. CASE n = 1
      BY <2>1, <2>3, <2>4, <3>1
    <3>2. CASE n # 1
      <4>1. n - 1 \in 1 .. Len(jobs) /\ jobs'[n] = jobs[n - 1]
        BY <2>3, <3>2
      <4>2. /\ Contains(queued, jobs[n - 1]) /\ jobs[n - 1] \notin ran
            /\ \A w \in Workers : job[w] # jobs[n - 1]
            /\ \A m \in 1 .. Len(jobs) : jobs[m] = jobs[n - 1] => m = n - 1
        BY <4>1 DEF JobsOK
      <4>3. ASSUME NEW m \in 1 .. Len(jobs'), jobs'[m] = jobs'[n] PROVE m = n
        <5>1. jobs'[m] = jobs[n - 1] /\ jobs[n - 1] # j
          BY <2>4, <4>1, <4>3
        <5>2. m # 1
          BY <2>3, <5>1
        <5>3. m - 1 \in 1 .. Len(jobs) /\ jobs[m - 1] = jobs[n - 1]
          BY <2>3, <5>1, <5>2
        <5>4. m - 1 = n - 1
          BY <4>2, <5>3
        <5>5. QED BY <5>4
      <4>4. QED BY <2>1, <2>2, <4>1, <4>2, <4>3
    <3>3. QED BY <3>1, <3>2
  <2>6. QED BY <2>1, <2>2, <2>5 DEF JobsOK
<1>3. ASSUME NEW w \in Workers, TakeJob(w)
      PROVE  JobsOK'
  <2>1. /\ dequeue /\ jobs \in Seq(Jobs) /\ jobs # <<>> /\ NextJob \in Jobs
        /\ job[w] = NULL /\ job' = [job EXCEPT ![w] = NextJob]
        /\ pc' = [pc EXCEPT ![w] = "run"]
        /\ UNCHANGED <<queued, ran>>
    BY <1>3, TakeFacts
  <2>2. /\ Len(jobs) \in 1 .. Len(jobs)
        /\ \A n \in 1 .. Len(jobs') : n \in 1 .. Len(jobs) /\ n # Len(jobs) /\ jobs'[n] = jobs[n]
        /\ NextJob = jobs[Len(jobs)]
    BY <1>3, <2>1, DequeueReversed
  <2>3. /\ Contains(queued, NextJob) /\ NextJob \notin ran
        /\ \A v \in Workers : job[v] # NextJob
        /\ \A n \in 1 .. Len(jobs') : jobs[n] # NextJob
    BY <2>2 DEF JobsOK
  <2>4. /\ job'[w] = NextJob /\ pc'[w] = "run" /\ NextJob # NULL
        /\ \A v \in Workers : v # w => job'[v] = job[v] /\ pc'[v] = pc[v]
    BY <2>1 DEF IInv, TypeOK, PcOK
  <2>5. ASSUME NEW v \in Workers, job'[v] # NULL
        PROVE  /\ pc'[v] = "run"
               /\ Contains(queued', job'[v]) /\ job'[v] \notin ran'
               /\ \A u \in Workers : job'[u] = job'[v] => u = v
    BY <2>1, <2>3, <2>4, <2>5 DEF JobsOK
  <2>6. ASSUME NEW n \in 1 .. Len(jobs')
        PROVE  /\ Contains(queued', jobs'[n]) /\ jobs'[n] \notin ran'
               /\ \A v \in Workers : job'[v] # jobs'[n]
               /\ \A m \in 1 .. Len(jobs') : jobs'[m] = jobs'[n] => m = n
    BY <2>1, <2>2, <2>3, <2>4 DEF JobsOK
  <2>7. \A j \in ran' : Contains(queued', j)
    BY <2>1 DEF JobsOK
  <2>8. QED BY ONLY <2>5, <2>6, <2>7, Zenon DEF JobsOK
<1>4. ASSUME NEW w \in Workers, Run(w)
      PROVE  JobsOK'
  <2>1. /\ ran' = ran \cup {job[w]} /\ job' = [job EXCEPT ![w] = NULL]
        /\ UNCHANGED <<jobs, queued>> /\ job[w] # NULL
        /\ pc' = [pc EXCEPT ![w] = "test"]
    BY <1>4 DEF Run, Goto, poolVars, IInv, PcOK
  <2>2. /\ job'[w] = NULL
        /\ \A v \in Workers : v # w => job'[v] = job[v] /\ pc'[v] = pc[v]
    BY <2>1 DEF IInv, TypeOK, PcOK
  <2>3. /\ Contains(queued, job[w])
        /\ \A v \in Workers : v # w => job[v] # job[w]
        /\ \A n \in 1 .. Len(jobs) : jobs[n] # job[w]
    BY <2>1 DEF JobsOK
  <2>4. ASSUME NEW v \in Workers, job'[v] # NULL
        PROVE  /\ pc'[v] = "run"
               /\ Contains(queued', job'[v]) /\ job'[v] \notin ran'
               /\ \A u \in Workers : job'[u] = job'[v] => u = v
    BY <2>1, <2>2, <2>3, <2>4 DEF JobsOK
  <2>5. ASSUME NEW n \in 1 .. Len(jobs')
        PROVE  /\ Contains(queued', jobs'[n]) /\ jobs'[n] \notin ran'
               /\ \A v \in Workers : job'[v] # jobs'[n]
               /\ \A m \in 1 .. Len(jobs') : jobs'[m] = jobs'[n] => m = n
    <3>1. jobs[n] # NULL BY <2>1 DEF IInv, TypeOK
    <3>2. QED BY <2>1, <2>2, <2>3, <3>1 DEF JobsOK
  <2>6. \A j \in ran' : Contains(queued', j)
    BY <2>1, <2>3 DEF JobsOK
  <2>7. QED BY ONLY <2>4, <2>5, <2>6, Zenon DEF JobsOK
<1>5. QED
  BY <1>1, <1>2, <1>3, <1>4 DEF Next, OtherStep, WorkerStep

\* Each worker runs one job, and no two the same: with one of them idle there
\* are fewer jobs under way than workers.
LEMMA RoomForOneMore ==
    ASSUME JobsOK, NEW w \in Workers, job[w] = NULL
    PROVE  Cardinality(Executing) < Cardinality(Workers)
<1> DEFINE busy == {v \in Workers : job[v] # NULL}
           f == [v \in busy |-> job[v]]
<1>1. f \in Surjection(busy, Executing)
  BY DEF Surjection, Executing
<1>2. f \in Injection(busy, Executing)
  BY <1>1 DEF Surjection, Injection, IsInjective, JobsOK
<1>3. ExistsBijection(busy, Executing)
  BY <1>1, <1>2 DEF ExistsBijection, Bijection
<1> HIDE DEF f
<1>4. busy \subseteq Workers /\ w \notin busy /\ IsFiniteSet(Workers)
  BY PoolAssumption
<1> HIDE DEF busy
<1>5. IsFiniteSet(busy) /\ Cardinality(busy) < Cardinality(Workers)
  <2>1. busy # Workers BY <1>4
  <2>2. QED BY <1>4, <2>1, FS_Subset, FS_CardinalityType
<1>6. Cardinality(Executing) = Cardinality(busy)
  BY <1>3, <1>5, FS_Bijection
<1>7. QED BY <1>5, <1>6

\* One step of the pool is one step of JobPool, or none.
LEMMA StepImplementsJobPool ==
    ASSUME IInv, JobsOK, [Next]_vars
    PROVE  [Abstract!PoolNext]_(Abstract!poolVars)
<1> USE PoolAssumption
<1>1. CASE OtherStep \/ UNCHANGED vars
  <2>1. UNCHANGED <<jobs, job, ran>>
    BY <1>1, OtherStepsKeepJobs DEF vars, poolVars, workVars
  <2>2. QED BY <2>1 DEF Abstract!poolVars, Reverse
<1>2. ASSUME NEW c \in Clients, NEW j \in Jobs, thr_pool_queue(c, j)
      PROVE  Abstract!Submit(j)
  <2>1. enqueue(j) /\ ~Contains(queued, j) /\ UNCHANGED <<job, ran>>
    BY <1>2, QueueFacts
  <2>2. jobs \in Seq(Jobs) BY DEF IInv, TypeOK
  <2>3. Reverse(jobs)' = Append(Reverse(jobs), j)
    BY <2>1, <2>2, EnqueueReversed
  <2>4. j \notin Executing /\ j \notin ran
    BY <2>1 DEF JobsOK, Executing
  <2>5. j \notin Abstract!Pending
    <3>1. \A n \in 1 .. Len(jobs) : jobs[n] # j
      BY <2>1 DEF JobsOK
    <3>2. QED BY <2>2, <3>1 DEF Abstract!Pending, Reverse
  <2>6. QED BY <2>1, <2>3, <2>4, <2>5 DEF Abstract!Submit, Executing
<1>3. ASSUME NEW w \in Workers, TakeJob(w)
      PROVE  Abstract!Begin
  <2>1. /\ dequeue /\ jobs \in Seq(Jobs) /\ jobs # <<>> /\ NextJob \in Jobs
        /\ job[w] = NULL /\ job' = [job EXCEPT ![w] = NextJob]
        /\ UNCHANGED ran
    BY <1>3, TakeFacts
  <2>2. /\ Reverse(jobs) # <<>> /\ Head(Reverse(jobs)) = NextJob
        /\ Reverse(jobs)' = Tail(Reverse(jobs))
    BY <1>3, <2>1, DequeueReversed
  <2>3. Abstract!Cardinality(Executing) < Cardinality(Workers)
    BY <2>1, RoomForOneMore, Zenon DEF Abstract!Cardinality, Cardinality
  <2>4. Executing' = Executing \cup {NextJob}
    BY <2>1 DEF Executing, IInv, TypeOK
  <2>5. QED BY <2>1, <2>2, <2>3, <2>4 DEF Abstract!Begin, Executing
<1>4. ASSUME NEW w \in Workers, Run(w)
      PROVE  job[w] \in Jobs /\ Abstract!End(job[w])
  <2>1. /\ ran' = ran \cup {job[w]} /\ job' = [job EXCEPT ![w] = NULL]
        /\ UNCHANGED jobs /\ job[w] \in Jobs
    BY <1>4 DEF Run, Goto, poolVars, IInv, PcOK
  <2>2. job[w] \in Executing /\ Executing' = Executing \ {job[w]}
    BY <2>1 DEF Executing, IInv, TypeOK, JobsOK
  <2>3. QED BY <2>1, <2>2 DEF Abstract!End, Executing, Reverse
<1>5. \/ OtherStep \/ UNCHANGED vars
      \/ \E c \in Clients, j \in Jobs : thr_pool_queue(c, j)
      \/ \E w \in Workers : TakeJob(w) \/ Run(w)
  BY DEF Next, OtherStep, WorkerStep
<1>6. CASE \E c \in Clients, j \in Jobs : thr_pool_queue(c, j)
  BY <1>2, <1>6, Zenon DEF Abstract!PoolNext
<1>7. CASE \E w \in Workers : TakeJob(w) \/ Run(w)
  <2>1. ASSUME NEW w \in Workers, Run(w) PROVE Abstract!PoolNext
    <3>1. job[w] \in Jobs /\ Abstract!End(job[w]) BY <1>4, <2>1
    <3>2. QED BY <3>1 DEF Abstract!PoolNext, Abstract!End
  <2>2. ASSUME NEW w \in Workers, TakeJob(w) PROVE Abstract!PoolNext
    BY <1>3, <2>2 DEF Abstract!PoolNext
  <2>3. QED BY <1>7, <2>1, <2>2
<1>8. QED BY <1>1, <1>5, <1>6, <1>7

\* The pool is a job pool for any number of workers, clients and jobs: a job is
\* started once, in the order of thr_pool_queue, by a worker that is free.
THEOREM PoolImplementsJobPool == Spec => ImplementsJobPool
<1>1. Init => JobsOK /\ Abstract!PoolInit
  <2> SUFFICES ASSUME Init PROVE JobsOK /\ Abstract!PoolInit OBVIOUS
  <2>1. JobsOK BY PoolAssumption DEF Init, JobsOK
  <2>2. Reverse(jobs) = <<>> BY DEF Init, Reverse
  <2>3. Executing = {} BY DEF Init, Executing
  <2>4. QED BY <2>1, <2>2, <2>3 DEF Init, Abstract!PoolInit, Executing
<1>2. IInv /\ JobsOK /\ [Next]_vars => JobsOK' /\ [Abstract!PoolNext]_(Abstract!poolVars)
  BY JobsNext, StepImplementsJobPool
<1>3. QED
  BY <1>1, <1>2, Invariance, PTL DEF Spec, ImplementsJobPool, Abstract!PoolSpec
=============================================================================
