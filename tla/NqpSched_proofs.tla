-------------------------- MODULE NqpSched_proofs ---------------------------
(***************************************************************************)
(* Proofs about the thread library: NqpThread and NqpRoundRobin, for any   *)
(* number of threads, any capacity of the queue and any program; then      *)
(* NqpMlfq, for any behaviour of the clock, too, and NqpDemos, on either   *)
(* version of the library.                                                 *)
(***************************************************************************)
EXTENDS NqpRoundRobin, NqpMlfq, NqpDemos, CommonLemmas, FiniteSetTheorems, SequenceTheorems

\* The filled part of the queue holds threads, each of them once.
QueueOK ==
    /\ \A i \in Indices : thread_queue[i] \in Threads
    /\ \A i, j \in Indices : thread_queue[i] = thread_queue[j] => i = j

\* Before nqp_sched_start main() has the CPU; from then on the thread at
\* current_index has it, and the policy is one that switches in nqp_yield.
CurrentOK ==
    /\ current_thread = NULL => cpu = Main
    /\ current_thread # NULL =>
         /\ current_index \in Indices
         /\ current_thread = thread_queue[current_index]
         /\ cpu = current_thread
         /\ system_policy # "MLFQ"
    /\ \A t \in Threads : context[t] = t

\* The finished threads are among the created ones, and one of them has the
\* CPU only when all of them are; it is then in nqp_exit.
FinishedOK ==
    /\ finished \subseteq Created
    /\ current_thread = NULL => finished = {}
    /\ current_thread \in finished => Created \subseteq finished
    /\ \A t \in Threads : pc[t] = "exit" <=> t \in finished

\* main() is in nqp_sched_start for good once it has started a thread, and no
\* thread ever is.
MainOK ==
    /\ \A t \in Threads : pc[t] \notin {"start", "after"}
    /\ current_thread # NULL => pc[Main] = "start"
    /\ current_thread = NULL /\ pc[Main] \in {"start", "after"} => num_threads = 0
    /\ pc[Main] # "join"
    /\ pc[Main] = "exit" => Main \in MayExit

\* What FIFO has run to its end is a prefix of the queue, up to current_index.
PrefixOK ==
    system_policy = "FIFO" /\ current_thread # NULL =>
        \A i \in Indices : /\ i < current_index => thread_queue[i] \in finished
                           /\ i > current_index /\ current_thread \notin finished
                                => thread_queue[i] \notin finished

IInv == TypeOK /\ QueueOK /\ CurrentOK /\ FinishedOK /\ MainOK /\ PrefixOK

-----------------------------------------------------------------------------
\* Going round a ring of n entries.
LEMMA RingIndex ==
    ASSUME NEW n \in Nat \ {0}, NEW a \in Nat
    PROVE  /\ a % n \in 0 .. n - 1
           /\ a < n => a % n = a /\ (a + n) % n = a
OBVIOUS

\* What nqp_yield does in a thread: it goes on with the same thread, and then
\* nobody else can run if that one has finished; or it hands the CPU over to a
\* thread that has not.
HandsOver(fin, k) ==
    /\ current_index' = k
    /\ current_thread' = thread_queue[k]
    /\ cpu' = thread_queue[k]
    /\ UNCHANGED scheduler_context
    /\ \A t \in Threads : context'[t] = t
    /\ context' \in [Threads -> Flows]
    /\ thread_queue[k] \notin fin
    /\ system_policy = "FIFO" =>
         /\ current_thread \in fin
         /\ \A i \in Indices : i < k => thread_queue[i] \in fin

\* A yield of a thread goes on with it, or hands the CPU to one unfinished
\* thread of the queue: the next one of the policy.
LEMMA YieldInThread ==
    ASSUME TypeOK, QueueOK, CurrentOK, current_thread # NULL,
           NEW fin \in SUBSET Threads, nqp_yield(fin)
    PROVE  \/ NoSwitch /\ (current_thread \in fin => Created \subseteq fin)
           \/ \E k \in Indices : HandsOver(fin, k)
<1> USE SchedAssumption
<1>1. num_threads \in Nat \ {0} /\ current_index \in 0 .. num_threads - 1
  BY DEF CurrentOK, TypeOK, Indices
<1>2. ASSUME NEW k \in Indices, SwitchTo(k), thread_queue[k] \notin fin,
             system_policy = "FIFO" =>
               /\ current_thread \in fin
               /\ \A i \in Indices : i < k => thread_queue[i] \in fin
      PROVE  HandsOver(fin, k)
  BY <1>2 DEF SwitchTo, swapcontext, HandsOver, TypeOK, QueueOK, CurrentOK, Flows
<1>3. CASE system_policy \in {"TWOTHREADS", "RR"}
  <2>1. YieldRing(fin)
    BY <1>3 DEF nqp_yield
  <2>2. CASE RingDistances(fin) = {}
    <3>1. ASSUME NEW i \in Indices PROVE thread_queue[i] \in fin
      <4> DEFINE d == IF i > current_index THEN i - current_index
                      ELSE (i - current_index) + num_threads
      <4>1. d \in 1 .. num_threads /\ (current_index + d = i \/ current_index + d = i + num_threads)
        BY <1>1 DEF Indices
      <4>2. (current_index + d) % num_threads = i
        BY <4>1, <1>1, RingIndex DEF Indices
      <4>3. QED BY <2>2, <4>1, <4>2 DEF RingDistances
    <3>2. Created \subseteq fin
      BY <3>1 DEF Created
    <3>3. QED BY <2>1, <2>2, <3>2 DEF YieldRing
  <2>3. CASE RingDistances(fin) # {}
    <3>1. Min(RingDistances(fin)) \in RingDistances(fin)
      <4>1. RingDistances(fin) \in SUBSET Nat
        BY DEF RingDistances
      <4>2. QED BY <4>1, <2>3, MinIsLeast
    <3>2. NextInRing(fin) \in Indices /\ thread_queue[NextInRing(fin)] \notin fin
      <4> DEFINE d == Min(RingDistances(fin))
      <4>1. /\ d \in 1 .. num_threads
            /\ thread_queue[(current_index + d) % num_threads] \notin fin
        BY <3>1 DEF RingDistances
      <4> HIDE DEF d
      <4>2. current_index + d \in Nat
        BY <4>1, <1>1
      <4>3. (current_index + d) % num_threads \in Indices
        BY <4>2, <1>1, RingIndex DEF Indices
      <4>4. QED BY <4>1, <4>3 DEF NextInRing, d
    <3>3. CASE thread_queue[NextInRing(fin)] = current_thread
      BY <2>1, <3>2, <3>3 DEF YieldRing
    <3>4. CASE thread_queue[NextInRing(fin)] # current_thread
      <4>1. SwitchTo(NextInRing(fin))
        BY <2>1, <2>3, <3>4 DEF YieldRing
      <4>2. QED BY <4>1, <3>2, <1>2, <1>3
    <3>5. QED BY <3>3, <3>4
  <2>4. QED BY <2>2, <2>3
<1>4. CASE system_policy = "FIFO"
  <2> DEFINE unfinished == {i \in Indices : thread_queue[i] \notin fin}
  <2>1. YieldFifo(fin)
    BY <1>4 DEF nqp_yield
  <2>2. CASE current_thread \notin fin
    BY <2>1, <2>2 DEF YieldFifo
  <2>3. CASE unfinished = {}
    BY <2>1, <2>3 DEF YieldFifo, Created
  <2>4. CASE current_thread \in fin /\ unfinished # {}
    <3>1. unfinished \in SUBSET Nat
      BY <1>1 DEF Indices
    <3>2. Min(unfinished) \in unfinished /\ \A m \in unfinished : Min(unfinished) =< m
      BY <3>1, <2>4, MinIsLeast
    <3>3. SwitchTo(Min(unfinished))
      BY <2>1, <2>4 DEF YieldFifo
    <3>4. \A i \in Indices : i < Min(unfinished) => thread_queue[i] \in fin
      BY <3>1, <3>2 DEF Indices
    <3>5. QED BY <1>2, <2>4, <3>2, <3>3, <3>4
  <2>5. QED BY <2>2, <2>3, <2>4
<1>5. QED BY <1>3, <1>4 DEF CurrentOK, TypeOK, Policies
-----------------------------------------------------------------------------
\* The static variables' first values satisfy the invariant.
LEMMA InitIInv == Init => IInv
<1> SUFFICES ASSUME Init PROVE IInv
  OBVIOUS
<1> USE SchedAssumption, ProgramAssumption DEF Init, SchedInit
<1>1. TypeOK
  BY DEF TypeOK, Flows, Policies, Statuses, Labels
<1>2. QueueOK /\ CurrentOK /\ FinishedOK /\ MainOK /\ PrefixOK
  BY DEF QueueOK, CurrentOK, FinishedOK, MainOK, PrefixOK, Indices, Created, Flows
<1>3. QED BY <1>1, <1>2 DEF IInv

\* The steps that leave the library's variables alone.
LEMMA ProgramStep ==
    ASSUME IInv, UNCHANGED schedVars, TypeOK',
           \A t \in Threads : pc'[t] = "exit" <=> pc[t] = "exit",
           MainOK'
    PROVE  IInv'
BY DEF IInv, schedVars, QueueOK, CurrentOK, FinishedOK, PrefixOK, Indices, Created

\* nqp_thread_create keeps it, with room in the queue and without.
LEMMA CreateIInv ==
    ASSUME IInv, NEW t \in Threads, Create(t)
    PROVE  IInv'
<1> USE SchedAssumption, ProgramAssumption DEF IInv
<1>0. /\ At("task") /\ t \notin Created /\ scheduler_add_thread(t)
      /\ UNCHANGED <<current_index, current_thread, finished, system_policy,
                     context, scheduler_context, cpu, target, calls>>
      /\ pc' = IF num_threads < MAX_THREADS THEN [pc EXCEPT ![t] = "task"] ELSE pc
  BY DEF Create, nqp_thread_create
<1>1. CASE num_threads = MAX_THREADS
  <2>1. /\ status' = "failed" /\ pc' = pc
        /\ UNCHANGED <<thread_queue, num_threads>>
    BY <1>0, <1>1 DEF scheduler_add_thread, TypeOK
  <2>2. QED
    BY <1>0, <2>1 DEF TypeOK, Statuses, QueueOK, CurrentOK, FinishedOK, MainOK,
                      PrefixOK, Indices, Created
<1>2. CASE num_threads < MAX_THREADS
  <2>1. /\ thread_queue' = [thread_queue EXCEPT ![num_threads] = t]
        /\ num_threads' = num_threads + 1
        /\ status' = status
        /\ pc' = [pc EXCEPT ![t] = "task"]
    BY <1>0, <1>2 DEF scheduler_add_thread
  <2>2. num_threads \in 0 .. MAX_THREADS - 1 /\ num_threads \in Nat
    BY <1>2 DEF TypeOK
  <2>3. TypeOK'
    BY <1>0, <2>1, <2>2 DEF TypeOK, Flows, Labels
  <2>4. /\ Indices' = Indices \cup {num_threads}
        /\ num_threads \notin Indices
        /\ Indices \subseteq 0 .. MAX_THREADS - 1
    BY <2>1, <2>2 DEF Indices
  <2>5. /\ thread_queue'[num_threads] = t
        /\ \A i \in Indices : thread_queue'[i] = thread_queue[i]
    BY <2>1, <2>2, <2>4 DEF TypeOK
  <2>6. Created' = Created \cup {t}
    BY <2>4, <2>5 DEF Created
  <2>7. QueueOK'
    BY <1>0, <2>4, <2>5 DEF QueueOK, Created
  <2>8. CurrentOK'
    BY <1>0, <2>4, <2>5 DEF CurrentOK
  <2>9. t \notin finished
    BY <1>0 DEF FinishedOK
  <2>10. FinishedOK'
    <3>1. current_thread # NULL => current_thread \notin finished
      BY <1>0, SchedAssumption DEF At, CurrentOK, FinishedOK, TypeOK, Labels
    <3>2. QED
      BY <1>0, <2>1, <2>6, <2>9, <3>1 DEF FinishedOK, TypeOK, Flows
  <2>11. MainOK'
    BY <1>0, <2>1 DEF MainOK, TypeOK, CurrentOK, Flows, At
  <2>12. PrefixOK'
    BY <1>0, <2>2, <2>4, <2>5, <2>9 DEF PrefixOK, CurrentOK, Indices
  <2>13. QED BY <2>3, <2>7, <2>8, <2>10, <2>11, <2>12
<1>3. num_threads < MAX_THREADS \/ num_threads = MAX_THREADS
  BY DEF TypeOK
<1>4. QED BY <1>1, <1>2, <1>3, Zenon

\* Whatever main() does by itself it does before it has started a thread.
LEMMA MainRunsBeforeStart ==
    ASSUME IInv, cpu = Main
    PROVE  current_thread = NULL
BY SchedAssumption DEF IInv, TypeOK, CurrentOK

\* nqp_sched_init keeps it, for a policy and for what is none.
LEMMA InitSchedIInv ==
    ASSUME IInv, NEW policy, InitSched(policy)
    PROVE  IInv'
<1>1. /\ system_policy' = system_policy \/ system_policy' \in Policies
      /\ status' = status \/ status' = "aborted"
      /\ UNCHANGED <<thread_queue, num_threads, current_index, current_thread,
                     finished, context, scheduler_context, cpu, pc, target>>
      /\ CountCall /\ cpu = Main
  BY DEF InitSched, nqp_sched_init
<1>2. TypeOK'
  BY <1>1, ProgramAssumption DEF IInv, TypeOK, Statuses, CountCall
<1>3. current_thread = NULL
  BY <1>1, MainRunsBeforeStart
<1>4. QED
  BY <1>1, <1>2, <1>3 DEF IInv, QueueOK, CurrentOK, FinishedOK, MainOK, PrefixOK,
                          Indices, Created

\* nqp_sched_start keeps it, with threads in the queue and without.
LEMMA StartIInv ==
    ASSUME IInv, Start
    PROVE  IInv'
<1> USE SchedAssumption, ProgramAssumption
<1>1. /\ At("task") /\ cpu = Main /\ system_policy # "MLFQ"
      /\ pc' = [pc EXCEPT ![cpu] = "start"]
      /\ UNCHANGED <<thread_queue, num_threads, finished, system_policy, context,
                     scheduler_context, status, target, calls>>
  BY DEF Start, nqp_sched_start, Goto
<1>2. current_thread = NULL
  BY <1>1, MainRunsBeforeStart
<1>3. finished = {}
  BY <1>2 DEF IInv, FinishedOK
<1>4. CASE num_threads = 0
  <2>1. UNCHANGED <<current_index, current_thread, cpu>>
    BY <1>4 DEF Start, nqp_sched_start
  <2>2. QED
    BY <1>1, <1>2, <1>3, <1>4, <2>1 DEF IInv, TypeOK, Labels, Flows, QueueOK,
         CurrentOK, FinishedOK, MainOK, PrefixOK, Indices, Created
<1>5. CASE num_threads # 0
  <2>1. 0 \in Indices /\ thread_queue[0] \in Threads
    BY <1>5 DEF IInv, TypeOK, QueueOK, Indices
  <2>2. /\ current_index' = 0
        /\ current_thread' = thread_queue[0]
        /\ cpu' = thread_queue[0]
    BY <1>5, <2>1 DEF Start, nqp_sched_start, IInv, CurrentOK, TypeOK
  <2>3. TypeOK'
    BY <1>1, <2>1, <2>2 DEF IInv, TypeOK, Labels, Flows
  <2>4. QueueOK' /\ CurrentOK'
    BY <1>1, <2>1, <2>2 DEF IInv, QueueOK, CurrentOK, Indices
  <2>5. FinishedOK' /\ MainOK'
    BY <1>1, <1>3, <2>1, <2>2 DEF IInv, TypeOK, FinishedOK, MainOK, Created, Flows
  <2>6. PrefixOK'
    BY <1>3, <1>1, <2>2 DEF PrefixOK, Indices, IInv, TypeOK
  <2>7. QED BY <2>3, <2>4, <2>5, <2>6 DEF IInv
<1>6. QED BY <1>4, <1>5

\* A step that calls nqp_yield, perhaps after marking the current thread.
LEMMA YieldStep ==
    ASSUME IInv, NEW fin,
           finished \subseteq fin,
           fin \subseteq finished \cup ({current_thread} \ {NULL}),
           finished' = fin, nqp_yield(fin),
           UNCHANGED <<thread_queue, num_threads, system_policy, status, target>>,
           calls' \in [Flows -> 0 .. MaxCalls],
           pc' \in [Flows -> Labels],
           \A t \in Threads : pc'[t] = "exit" <=> t \in fin,
           \A t \in Threads : pc'[t] \in {pc[t], "exit"},
           \/ pc'[Main] = pc[Main]
           \/ pc'[Main] = "exit" /\ Main \in MayExit /\ current_thread = NULL
    PROVE  IInv'
<1> USE SchedAssumption DEF IInv
<1>0. fin \in SUBSET Threads /\ fin \subseteq Created
  BY DEF TypeOK, FinishedOK, CurrentOK, Created
<1>1. CASE current_thread = NULL
  <2>1. NoSwitch
    BY <1>1 DEF nqp_yield
  <2>2. fin = {}
    BY <1>1 DEF FinishedOK
  <2>3. TypeOK'
    BY <1>0, <2>1 DEF TypeOK, NoSwitch
  <2>4. QED
    BY <1>1, <2>1, <2>2, <2>3 DEF QueueOK, CurrentOK, FinishedOK, MainOK, PrefixOK,
         Indices, Created, NoSwitch
<1>2. CASE current_thread # NULL
  <2> USE <1>2
  <2>1. CASE NoSwitch /\ (current_thread \in fin => Created \subseteq fin)
    <3>1. TypeOK'
      BY <1>0, <2>1 DEF TypeOK, NoSwitch
    <3>2. QueueOK' /\ CurrentOK' /\ FinishedOK' /\ MainOK'
      BY <1>0, <2>1 DEF QueueOK, CurrentOK, FinishedOK, MainOK, Indices, Created,
           NoSwitch
    <3>3. PrefixOK'
      BY <2>1 DEF PrefixOK, Indices, NoSwitch, CurrentOK, QueueOK
    <3>4. QED BY <3>1, <3>2, <3>3
  <2>2. ASSUME NEW k \in Indices, HandsOver(fin, k)
        PROVE  IInv'
    <3>1. TypeOK'
      BY <1>0, <2>2 DEF TypeOK, HandsOver, QueueOK, Indices, Flows
    <3>2. QueueOK' /\ CurrentOK' /\ FinishedOK' /\ MainOK'
      BY <1>0, <2>2 DEF QueueOK, CurrentOK, FinishedOK, MainOK, Indices, Created,
           HandsOver
    <3>3. PrefixOK'
      <4> SUFFICES ASSUME system_policy = "FIFO", NEW i \in Indices
                   PROVE  /\ i < k => thread_queue[i] \in fin
                          /\ i > k => thread_queue[i] \notin fin
        BY <2>2 DEF PrefixOK, HandsOver, Indices
      <4>1. thread_queue[k] \in Created /\ thread_queue[k] \notin fin
        BY <2>2 DEF Created, HandsOver
      <4>2. current_thread \notin finished
        BY <4>1 DEF FinishedOK
      <4>3. current_index \in Indices /\ current_thread = thread_queue[current_index]
        BY DEF CurrentOK
      <4>4. current_index < k
        BY <2>2, <4>1, <4>3 DEF HandsOver, PrefixOK, Indices, TypeOK
      <4>5. ASSUME i > k PROVE thread_queue[i] \notin fin
        <5>1. i > current_index /\ i # current_index
          BY <4>3, <4>4, <4>5 DEF Indices, TypeOK
        <5>2. thread_queue[i] \notin finished
          BY <5>1, <4>2 DEF PrefixOK
        <5>3. thread_queue[i] # current_thread
          BY <5>1, <4>3 DEF QueueOK
        <5>4. QED BY <5>2, <5>3
      <4>6. QED BY <2>2, <4>5 DEF HandsOver
    <3>4. QED BY <3>1, <3>2, <3>3
  <2>3. QED BY <2>1, <2>2, <1>0, YieldInThread
<1>3. QED BY <1>1, <1>2

\* A yield of a thread, and one in nqp_thread_join, keep it.
LEMMA YieldIInv ==
    ASSUME IInv, Yield \/ JoinYield
    PROVE  IInv'
<1>1. /\ nqp_yield(finished)
      /\ calls' \in [Flows -> 0 .. MaxCalls]
      /\ UNCHANGED <<thread_queue, num_threads, finished, system_policy, status,
                     pc, target>>
  <2>1. /\ nqp_yield(finished)
        /\ UNCHANGED <<thread_queue, num_threads, finished, system_policy, status,
                       pc, target>>
        /\ CountCall \/ UNCHANGED calls
    BY DEF Yield, JoinYield, progVars, CountYield
  <2>2. calls \in [Flows -> 0 .. MaxCalls] /\ MaxCalls \in Nat
    BY ProgramAssumption DEF IInv, TypeOK
  <2>3. CASE CountCall
    <3>1. calls[cpu] < MaxCalls /\ calls' = [calls EXCEPT ![cpu] = calls[cpu] + 1]
      BY <2>3 DEF CountCall
    <3>2. cpu \in Flows => calls[cpu] + 1 \in 0 .. MaxCalls
      BY <2>2, <3>1
    <3>3. calls' \in [Flows -> 0 .. MaxCalls]
      BY ONLY <2>2, <3>1, <3>2
    <3>4. QED BY <2>1, <3>3
  <2>4. QED BY <2>1, <2>2, <2>3
<1>2. QED
  BY <1>1, YieldStep DEF IInv, TypeOK, FinishedOK

\* nqp_exit, called by the program or by thread_wrapper.
LEMMA ExitIInv ==
    ASSUME IInv, ExitCall \/ thread_wrapper
    PROVE  IInv'
<1> USE SchedAssumption
<1> DEFINE fin == finished \cup ({current_thread} \ {NULL})
<1>1. /\ At("task")
      /\ \/ cpu \in MayExit /\ nqp_exit({})
         \/ cpu # Main /\ nqp_exit({cpu})
      /\ pc' = [pc EXCEPT ![cpu] = "exit"]
      /\ UNCHANGED <<target, calls>>
  BY DEF ExitCall, thread_wrapper, Goto
<1>2. cpu # Main => cpu = current_thread
  BY DEF IInv, CurrentOK
<1>3. /\ finished' = fin
      /\ nqp_yield(fin)
      /\ UNCHANGED <<thread_queue, num_threads, system_policy, status>>
  <2>1. CASE nqp_exit({})
    BY <2>1 DEF nqp_exit
  <2>2. CASE cpu # Main /\ nqp_exit({cpu})
    <3>1. finished \cup {cpu} \cup ({current_thread} \ {NULL}) = fin
      BY <1>2, <2>2 DEF IInv, TypeOK, Flows
    <3>2. QED BY <2>2, <3>1 DEF nqp_exit
  <2>3. QED BY <1>1, <2>1, <2>2
<1>4. pc' \in [Flows -> Labels] /\ calls' \in [Flows -> 0 .. MaxCalls]
  BY <1>1 DEF IInv, TypeOK, Labels
<1>5. \A t \in Threads : pc'[t] = "exit" <=> t \in fin
  BY <1>1, <1>2 DEF IInv, TypeOK, FinishedOK, CurrentOK, Flows
<1>6. \A t \in Threads : pc'[t] \in {pc[t], "exit"}
  BY <1>1 DEF IInv, TypeOK
<1>7. \/ pc'[Main] = pc[Main]
      \/ pc'[Main] = "exit" /\ Main \in MayExit /\ current_thread = NULL
  BY <1>1, MainRunsBeforeStart DEF IInv, TypeOK, Flows
<1>8. QED
  <2> HIDE DEF fin
  <2>1. finished \subseteq fin /\ fin \subseteq finished \cup ({current_thread} \ {NULL})
    BY DEF fin
  <2>2. QED BY <1>1, <1>3, <1>4, <1>5, <1>6, <1>7, <2>1, YieldStep

\* The steps of the join loop and of main() that change the program alone.
LEMMA ControlIInv ==
    ASSUME IInv,
           StartReturns \/ JoinReturn \/ (\E t \in Threads : JoinCall(t))
    PROVE  IInv'
<1> USE SchedAssumption, ProgramAssumption
<1>1. /\ UNCHANGED schedVars
      /\ target' \in [Flows -> Threads \cup {NULL}]
      /\ calls' \in [Flows -> 0 .. MaxCalls]
  <2>1. CASE StartReturns \/ JoinReturn
    BY <2>1 DEF StartReturns, JoinReturn, IInv, TypeOK
  <2>2. ASSUME NEW t \in Threads, JoinCall(t)
        PROVE  /\ UNCHANGED schedVars
               /\ target' \in [Flows -> Threads \cup {NULL}]
               /\ calls' \in [Flows -> 0 .. MaxCalls]
    <3>1. UNCHANGED schedVars /\ CountCall /\ target' = [target EXCEPT ![cpu] = t]
      BY <2>2 DEF JoinCall
    <3>2. calls' \in [Flows -> 0 .. MaxCalls]
      BY <3>1 DEF CountCall, IInv, TypeOK
    <3>3. QED BY <3>1, <3>2 DEF IInv, TypeOK
  <2>3. QED BY <2>1, <2>2
<1>2. PICK l \in {"after", "join", "task"} :
         /\ pc' = [pc EXCEPT ![cpu] = l]
         /\ pc[cpu] \in {"start", "join", "task", "after"}
         /\ cpu = Main => \/ pc[Main] = "start" /\ l = "after"
                          \/ pc[Main] = "join"
                          \/ pc[Main] = "after" /\ Created # {}
         /\ cpu # Main => pc[cpu] = "start" \/ l # "after"
  <2>1. CASE StartReturns
    BY <2>1 DEF StartReturns, At, Goto
  <2>2. CASE JoinReturn
    BY <2>2 DEF JoinReturn, At, Goto
  <2>3. CASE \E t \in Threads : JoinCall(t)
    BY <2>3 DEF JoinCall, At, Goto
  <2>4. QED BY <2>1, <2>2, <2>3
<1>3. TypeOK'
  BY <1>1, <1>2 DEF IInv, TypeOK, Labels, schedVars
<1>4. \A t \in Threads : pc'[t] = "exit" <=> pc[t] = "exit"
  BY <1>2 DEF IInv, TypeOK, Flows
<1>5. MainOK'
  <2>1. cpu = Main => pc[Main] = "start" /\ l = "after"
    BY <1>2, MainRunsBeforeStart DEF IInv, MainOK, Created, Indices
  <2>2. cpu = Main => current_thread = NULL
    BY MainRunsBeforeStart
  <2>3. QED
    BY <1>1, <1>2, <2>1, <2>2 DEF MainOK, IInv, TypeOK, Flows, schedVars
<1>6. QED BY <1>1, <1>3, <1>4, <1>5, ProgramStep

\* So do the end of the process and what follows it.
LEMMA EndIInv ==
    ASSUME IInv, ProcessExit \/ UNCHANGED vars
    PROVE  IInv'
<1>1. /\ UNCHANGED <<thread_queue, num_threads, current_index, current_thread,
                     finished, system_policy, context, scheduler_context, cpu,
                     pc, target, calls>>
      /\ status' = status \/ status' = "exited"
  BY DEF ProcessExit, ExitProcess, progVars, vars, schedVars
<1>2. TypeOK'
  BY <1>1 DEF IInv, TypeOK, Statuses
<1>3. QED
  BY <1>1, <1>2 DEF IInv, QueueOK, CurrentOK, FinishedOK, MainOK, PrefixOK,
                    Indices, Created

\* Every step of the library and its program keeps the invariant.
LEMMA NextIInv == IInv /\ [Next]_vars => IInv'
<1> SUFFICES ASSUME IInv, [Next]_vars PROVE IInv'
  OBVIOUS
<1>1. ASSUME NEW t \in Threads, Create(t) PROVE IInv'
  BY <1>1, CreateIInv
<1>2. ASSUME NEW policy \in InitArgs, InitSched(policy) PROVE IInv'
  BY <1>2, InitSchedIInv
<1>3. CASE Start
  BY <1>3, StartIInv
<1>4. CASE Yield \/ JoinYield
  BY <1>4, YieldIInv
<1>5. CASE ExitCall \/ thread_wrapper
  BY <1>5, ExitIInv
<1>6. CASE StartReturns \/ JoinReturn \/ (\E t \in Threads : JoinCall(t))
  BY <1>6, ControlIInv
<1>7. CASE ProcessExit \/ UNCHANGED vars
  BY <1>7, EndIInv
<1>8. QED BY <1>1, <1>2, <1>3, <1>4, <1>5, <1>6, <1>7 DEF Next, ProgramNext, Ended

\* The invariant holds throughout every run of nqp_thread.c.
THEOREM Invariance == Spec => []IInv
BY InitIInv, NextIInv, PTL DEF Spec

\* The library's variables keep their types under every program.
THEOREM TypeCorrect == Spec => []TypeOK
<1>1. IInv => TypeOK
  BY DEF IInv
<1>2. QED BY <1>1, Invariance, PTL

\* The flow on the CPU is the one current_thread and current_index name, and
\* no swapcontext ever resumes one thread in the place of another.
THEOREM ContextsNeverMixedUp == Spec => []ContextIntegrity
<1>1. IInv => ContextIntegrity
  BY DEF IInv, CurrentOK, ContextIntegrity
<1>2. QED BY <1>1, Invariance, PTL

\* Under FIFO no thread is finished before an earlier one.
THEOREM FifoOrderKept == Spec => []FifoOrder
<1>1. IInv => FifoOrder
  <2> SUFFICES ASSUME IInv, system_policy = "FIFO",
                      NEW i \in Indices, NEW j \in Indices,
                      i < j, thread_queue[j] \in finished
               PROVE  thread_queue[i] \in finished
    BY DEF FifoOrder
  <2>1. current_thread # NULL
    BY DEF IInv, FinishedOK
  <2>2. CASE current_thread \in finished
    BY <2>2 DEF IInv, FinishedOK, Created
  <2>3. CASE current_thread \notin finished
    BY <2>1, <2>3 DEF IInv, PrefixOK, CurrentOK, Indices, TypeOK
  <2>4. QED BY <2>2, <2>3
<1>2. QED BY <1>1, Invariance, PTL

-----------------------------------------------------------------------------
\* The queue holds as many threads as it has used entries.
LEMMA CreatedCardinality ==
    ASSUME TypeOK, QueueOK
    PROVE  IsFiniteSet(Created) /\ Cardinality(Created) = num_threads
<1> DEFINE f == [i \in 1 .. num_threads |-> thread_queue[i - 1]]
<1>1. num_threads \in Nat
  BY SchedAssumption DEF TypeOK
<1>2. \A i \in 1 .. num_threads : i - 1 \in Indices
  BY <1>1 DEF Indices
<1>3. \A i \in Indices : i + 1 \in 1 .. num_threads /\ (i + 1) - 1 = i
  BY <1>1 DEF Indices
<1>4. f \in Surjection(1 .. num_threads, Created)
  <2>1. f \in [1 .. num_threads -> Created]
    BY <1>2 DEF Created
  <2>2. ASSUME NEW t \in Created PROVE \E i \in 1 .. num_threads : f[i] = t
    <3>1. PICK j \in Indices : thread_queue[j] = t
      BY DEF Created
    <3>2. QED BY <3>1, <1>3
  <2>3. QED BY <2>1, <2>2 DEF Surjection
<1>5. f \in Injection(1 .. num_threads, Created)
  <2>1. ASSUME NEW i \in 1 .. num_threads, NEW j \in 1 .. num_threads, f[i] = f[j]
        PROVE  i = j
    <3>1. i - 1 = j - 1
      BY <2>1, <1>2 DEF QueueOK
    <3>2. QED BY <3>1, <1>1
  <2>2. QED BY <1>4, <2>1 DEF Surjection, Injection, IsInjective
<1>6. f \in Bijection(1 .. num_threads, Created)
  BY <1>4, <1>5 DEF Bijection
<1>7. QED
  <2> HIDE DEF f
  <2>1. ExistsBijection(1 .. num_threads, Created)
    BY <1>6 DEF ExistsBijection
  <2>2. /\ IsFiniteSet(1 .. num_threads)
        /\ Cardinality(1 .. num_threads) = num_threads
    BY <1>1, FS_Interval
  <2>3. QED BY <2>1, <2>2, FS_Bijection

\* One step of the library is one step of CoopThreads, or none.
LEMMA StepImplementsCoop ==
    ASSUME Main \notin MayExit, InitArgs \subseteq Policies,
           IInv, [Next]_vars
    PROVE  [Coop!CoopNext]_(Coop!coopVars)
<1> USE SchedAssumption
<1>1. ASSUME NEW t \in Threads, Create(t)
      PROVE  Coop!CoopNext
  <2>1. /\ status = "running" /\ t \notin Created /\ scheduler_add_thread(t)
        /\ UNCHANGED <<finished, cpu>>
    BY <1>1 DEF Create, nqp_thread_create, At
  <2>2. (Created \ finished) \cup finished = Created
    BY DEF IInv, FinishedOK
  <2>3. Coop!Cardinality((Created \ finished) \cup finished) = num_threads
    BY <2>2, CreatedCardinality, Zenon DEF IInv, Coop!Cardinality, Cardinality
  <2>4. CASE num_threads < MAX_THREADS
    <3>1. Created' = Created \cup {t} /\ UNCHANGED status
      <4>1. /\ Indices' = Indices \cup {num_threads}
            /\ thread_queue'[num_threads] = t
            /\ \A i \in Indices : thread_queue'[i] = thread_queue[i]
        BY <2>1, <2>4 DEF scheduler_add_thread, IInv, TypeOK, Indices
      <4>2. QED BY <4>1, <2>1, <2>4 DEF Created, scheduler_add_thread
    <3>2. /\ t \notin (Created \ finished) \cup finished
          /\ (Created \ finished)' = (Created \ finished) \cup {t}
      BY <2>1, <3>1 DEF IInv, FinishedOK
    <3>3. Coop!Spawn(t)
      BY <2>1, <2>3, <2>4, <3>1, <3>2 DEF Coop!Spawn
    <3>4. QED BY <2>1, <3>3 DEF Coop!CoopNext
  <2>5. CASE num_threads = MAX_THREADS
    <3>1. status' = "failed" /\ UNCHANGED <<thread_queue, num_threads>>
      BY <2>1, <2>5 DEF scheduler_add_thread
    <3>2. Created' = Created
      BY <3>1 DEF Created, Indices
    <3>3. Coop!Fail
      BY <2>1, <2>3, <2>5, <3>1, <3>2 DEF Coop!Fail
    <3>4. QED BY <2>1, <3>3 DEF Coop!CoopNext
  <2>6. num_threads < MAX_THREADS \/ num_threads = MAX_THREADS
    BY DEF IInv, TypeOK
  <2>7. QED BY <2>4, <2>5, <2>6
<1>2. ASSUME NEW policy \in InitArgs, InitSched(policy)
      PROVE  UNCHANGED Coop!coopVars
  BY <1>2 DEF InitSched, nqp_sched_init, Coop!coopVars, Created, Indices
<1>3. CASE Start
  <2>1. /\ status = "running" /\ cpu = Main
        /\ UNCHANGED <<thread_queue, num_threads, finished, status>>
        /\ cpu' = cpu \/ (num_threads # 0 /\ cpu' = context[thread_queue[0]])
    BY <1>3 DEF Start, At, nqp_sched_start
  <2>2. finished = {}
    BY <2>1, MainRunsBeforeStart DEF IInv, FinishedOK
  <2>3. cpu' \in Created \cup {Main}
    <3>1. num_threads # 0 => 0 \in Indices
      BY DEF IInv, TypeOK, Indices
    <3>2. num_threads # 0 => context[thread_queue[0]] = thread_queue[0]
      BY <3>1 DEF IInv, QueueOK, CurrentOK
    <3>3. QED BY <2>1, <3>1, <3>2 DEF Created
  <2>4. Coop!Dispatch
    BY <2>1, <2>2, <2>3 DEF Coop!Dispatch, Created, Indices
  <2>5. QED BY <2>1, <2>4 DEF Coop!CoopNext
<1>4. CASE Yield \/ JoinYield
  <2>1. /\ status = "running" /\ nqp_yield(finished)
        /\ UNCHANGED <<thread_queue, num_threads, finished, status>>
    BY <1>4 DEF Yield, JoinYield, At
  <2>2. CASE NoSwitch
    BY <2>1, <2>2 DEF NoSwitch, Coop!coopVars, Created, Indices
  <2>3. ASSUME NEW k \in Indices, HandsOver(finished, k)
        PROVE  Coop!CoopNext
    <3>1. cpu' \in Created \ finished
      BY <2>3 DEF HandsOver, Created
    <3>2. Coop!Dispatch
      BY <2>1, <3>1 DEF Coop!Dispatch, Created, Indices
    <3>3. QED BY <2>1, <3>2 DEF Coop!CoopNext
  <2>4. CASE current_thread = NULL
    BY <2>1, <2>2, <2>4 DEF nqp_yield
  <2>5. CASE current_thread # NULL
    BY <2>1, <2>2, <2>3, <2>5, YieldInThread DEF IInv, TypeOK
  <2>6. QED BY <2>4, <2>5
<1>5. CASE ExitCall \/ thread_wrapper
  <2> DEFINE fin == finished \cup {cpu}
  <2>1. /\ status = "running" /\ pc[cpu] = "task" /\ cpu # Main
        /\ nqp_exit({}) \/ nqp_exit({cpu})
    BY <1>5 DEF ExitCall, thread_wrapper, At
  <2>2. cpu \in Threads /\ cpu = current_thread /\ current_thread # NULL
    BY <2>1 DEF IInv, TypeOK, CurrentOK, Flows
  <2>3. /\ finished' = fin /\ nqp_yield(fin)
        /\ UNCHANGED <<thread_queue, num_threads, status>>
    <3>1. /\ finished \cup {cpu} \cup ({current_thread} \ {NULL}) = fin
          /\ finished \cup {} \cup ({current_thread} \ {NULL}) = fin
      BY <2>2
    <3>2. QED BY <2>1, <3>1 DEF nqp_exit
  <2>4. cpu \in Created \ finished
    BY <2>1, <2>2 DEF IInv, FinishedOK, CurrentOK, Created
  <2>5. Created' = Created
    BY <2>3 DEF Created, Indices
  <2>6. cpu' \in Created \ fin \/ (Created \subseteq fin /\ cpu' = cpu)
    <3>1. fin \in SUBSET Threads
      BY <2>2 DEF IInv, TypeOK
    <3> HIDE DEF fin
    <3>2. CASE NoSwitch /\ (current_thread \in fin => Created \subseteq fin)
      BY <2>2, <3>2 DEF NoSwitch, fin
    <3>3. ASSUME NEW k \in Indices, HandsOver(fin, k)
          PROVE  cpu' \in Created \ fin
      BY <3>3 DEF HandsOver, Created
    <3>4. QED BY <2>2, <2>3, <3>1, <3>2, <3>3, YieldInThread DEF IInv
  <2>7. Coop!Finish
    BY <2>3, <2>4, <2>5, <2>6 DEF Coop!Finish
  <2>8. QED BY <2>1, <2>7 DEF Coop!CoopNext
<1>6. CASE StartReturns \/ JoinReturn \/ (\E t \in Threads : JoinCall(t))
  BY <1>6 DEF StartReturns, JoinReturn, JoinCall, schedVars, Coop!coopVars, Created,
              Indices
<1>7. CASE ProcessExit
  <2>1. /\ status = "running" /\ pc[cpu] \in {"exit", "after"}
        /\ UNCHANGED <<thread_queue, num_threads, finished, cpu>>
        /\ status' = "exited"
    BY <1>7 DEF ProcessExit, ExitProcess, At
  <2>2. CASE cpu = Main
    <3>1. num_threads = 0
      BY <2>1, <2>2, MainRunsBeforeStart DEF IInv, MainOK
    <3>2. Created = {}
      BY <3>1 DEF Created, Indices
    <3>3. QED BY <2>1, <3>2 DEF Coop!CoopNext, Coop!Exit, Created, Indices
  <2>3. CASE cpu \in Threads
    <3>1. cpu \in finished /\ cpu = current_thread
      BY <2>1, <2>3 DEF IInv, MainOK, FinishedOK, CurrentOK
    <3>2. Created \ finished = {}
      BY <3>1 DEF IInv, FinishedOK
    <3>3. QED BY <2>1, <3>2 DEF Coop!CoopNext, Coop!Exit, Created, Indices
  <2>4. QED BY <2>2, <2>3 DEF IInv, TypeOK, Flows
<1>8. CASE UNCHANGED vars
  BY <1>8 DEF vars, schedVars, Coop!coopVars, Created, Indices
<1>9. QED
  BY <1>1, <1>2, <1>3, <1>4, <1>5, <1>6, <1>7, <1>8 DEF Next, ProgramNext, Ended

\* For every program that calls nqp_exit only in its threads and initialises
\* the scheduler with a policy, the library is a cooperative scheduler: it runs
\* unfinished threads only, and exits only when there is none.
THEOREM LibraryImplementsCoop ==
    ASSUME Main \notin MayExit, InitArgs \subseteq Policies
    PROVE  Spec => ImplementsCoop
<1>1. Init => Coop!CoopInit
  BY DEF Init, SchedInit, Coop!CoopInit, Created, Indices
<1>2. IInv /\ [Next]_vars => [Coop!CoopNext]_(Coop!coopVars)
  BY StepImplementsCoop
<1>3. QED
  BY <1>1, <1>2, Invariance, PTL DEF Spec, ImplementsCoop, Coop!CoopSpec

-----------------------------------------------------------------------------
(* BypassBound, for threads that are created, yield, join and finish at any *)
(* time, under the policies that go round the queue.                        *)

RingPolicies == {"TWOTHREADS", "RR"}

\* How far the search that starts behind current_index is from entry i: it
\* comes to current_index last.
Distance(i) == IF i <= current_index THEN (i - current_index) + num_threads
                                     ELSE i - current_index

\* A thread that has had a turn since another one waits is further round the
\* ring than that one, and is not reached again before it.
PassedOnce(i, j) ==
    LET n == waited[thread_queue[i]][thread_queue[j]]
    IN  n = 0 \/ (n = 1 /\ Distance(i) < Distance(j))

WaitOK ==
    /\ system_policy \in RingPolicies
    /\ waited \in [Threads -> [Threads -> Nat]]
    /\ \A t \in Threads \ Created :
           waited[t] = Unpassed /\ \A s \in Threads : waited[s][t] = 0
    /\ current_thread = NULL => \A t \in Threads : waited[t] = Unpassed
    /\ current_thread # NULL =>
         /\ waited[current_thread] = Unpassed
         /\ \A i, j \in Indices : thread_queue[i] \notin finished => PassedOnce(i, j)

RRInv == IInv /\ WaitOK

-----------------------------------------------------------------------------
\* Less than two times round a ring of n entries.
LEMMA OnceRound ==
    ASSUME NEW n \in Nat \ {0}, NEW a \in Nat, a < 2 * n
    PROVE  a % n = a \/ (a % n) + n = a
OBVIOUS

\* An entry of the ring is reached from below, or from one round before.
LEMMA RoundTo ==
    ASSUME NEW n \in Nat \ {0}, NEW i \in 0 .. n - 1,
           NEW a \in Nat, NEW d \in Nat, a + d = i \/ a + d = i + n
    PROVE  (a + d) % n = i
<1>1. CASE a + d = i
  BY <1>1
<1>2. CASE a + d = i + n
  BY <1>2
<1>3. QED BY <1>1, <1>2

\* The ring search of nqp_yield hands the CPU to the nearest thread that has
\* not finished, or to none.
LEMMA NearestIsNext ==
    ASSUME TypeOK, QueueOK, CurrentOK, current_thread # NULL,
           system_policy \in RingPolicies,
           NEW fin \in SUBSET Threads, nqp_yield(fin)
    PROVE  \/ NoSwitch
           \/ \E k \in Indices :
                /\ current_index' = k
                /\ current_thread' = thread_queue[k]
                /\ k # current_index
                /\ \A i \in Indices : thread_queue[i] \notin fin
                                        => Distance(k) =< Distance(i)
<1> USE SchedAssumption
<1>1. num_threads \in Nat \ {0} /\ current_index \in 0 .. num_threads - 1
  BY DEF CurrentOK, TypeOK, Indices
<1>2. YieldRing(fin)
  BY DEF nqp_yield, RingPolicies
<1>3. CASE RingDistances(fin) = {} \/ thread_queue[NextInRing(fin)] = current_thread
  BY <1>2, <1>3 DEF YieldRing
<1>4. CASE RingDistances(fin) # {} /\ thread_queue[NextInRing(fin)] # current_thread
  <2> DEFINE d == Min(RingDistances(fin))
             k == NextInRing(fin)
  <2>1. d \in RingDistances(fin) /\ \A m \in RingDistances(fin) : d =< m
    <3>1. RingDistances(fin) \in SUBSET Nat
      BY DEF RingDistances
    <3>2. QED BY <3>1, <1>4, MinIsLeast
  <2>2. d \in 1 .. num_threads /\ k = (current_index + d) % num_threads
    BY <2>1 DEF RingDistances, NextInRing
  <2>3. SwitchTo(k) /\ thread_queue[k] # current_thread
    BY <1>2, <1>4 DEF YieldRing
  <2> HIDE DEF d, k
  <2>4. /\ k \in Indices
        /\ k = current_index + d \/ k = (current_index + d) - num_threads
    <3>1. k \in 0 .. num_threads - 1
      BY <1>1, <2>2, RingIndex
    <3>2. current_index + d \in Nat /\ current_index + d < 2 * num_threads
      BY <1>1, <2>2
    <3>3. k = current_index + d \/ k + num_threads = current_index + d
      BY <1>1, <2>2, <3>2, OnceRound
    <3>4. QED BY <1>1, <2>2, <3>1, <3>3 DEF Indices
  <2>5. k # current_index
    BY <2>3 DEF CurrentOK
  <2>6. Distance(k) = d
    BY <1>1, <2>2, <2>4, <2>5 DEF Distance, Indices
  <2>7. ASSUME NEW i \in Indices, thread_queue[i] \notin fin
        PROVE  d =< Distance(i)
    <3>1. /\ Distance(i) \in 1 .. num_threads
          /\ current_index + Distance(i) = i \/ current_index + Distance(i) = i + num_threads
      BY <1>1, <2>7 DEF Distance, Indices
    <3>2. (current_index + Distance(i)) % num_threads = i
      <4>1. i \in 0 .. num_threads - 1
        BY DEF Indices
      <4>2. current_index \in Nat /\ Distance(i) \in Nat
        BY <1>1, <3>1
      <4>3. QED BY ONLY <1>1, <3>1, <4>1, <4>2, RoundTo, Zenon
    <3>3. Distance(i) \in RingDistances(fin)
      BY <2>7, <3>1, <3>2 DEF RingDistances
    <3>4. QED BY <2>1, <3>3
  <2>8. current_index' = k /\ current_thread' = thread_queue[k]
    BY <2>3 DEF SwitchTo
  <2>9. QED BY <2>4, <2>5, <2>6, <2>7, <2>8
<1>5. QED BY <1>3, <1>4

\* Only the counts of the thread that is given the CPU grow, from 0 to 1.
LEMMA CountGrows ==
    ASSUME waited \in [Threads -> [Threads -> Nat]], CountWait
    PROVE  /\ waited' \in [Threads -> [Threads -> Nat]]
           /\ current_thread' = current_thread => waited' = waited
           /\ current_thread' # current_thread =>
                \A t \in Threads :
                    /\ t \notin Created' \/ t = current_thread' => waited'[t] = Unpassed
                    /\ \A u \in Threads : IF u = current_thread'
                                          THEN waited[t][u] = 0 => waited'[t][u] \in {0, 1}
                                          ELSE waited'[t][u] \in {0, waited[t][u]}
<1> USE SchedAssumption
<1>1. CASE current_thread' = current_thread
  BY <1>1 DEF CountWait
<1>2. CASE current_thread' # current_thread
  <2> DEFINE more(t) == [waited[t] EXCEPT ![current_thread'] = Min({@ + 1, 2})]
  <2>1. waited' = [t \in Threads |->
                      IF t \in (Created \ finished)' \ {current_thread'}
                      THEN more(t) ELSE Unpassed]
    BY <1>2 DEF CountWait
  <2>2. Unpassed \in [Threads -> Nat] /\ \A u \in Threads : Unpassed[u] = 0
    BY DEF Unpassed
  <2>3. ASSUME NEW t \in Threads
        PROVE  /\ more(t) \in [Threads -> Nat]
               /\ \A u \in Threads : IF u = current_thread'
                                     THEN waited[t][u] = 0 => more(t)[u] \in {0, 1}
                                     ELSE more(t)[u] = waited[t][u]
    <3>1. ASSUME NEW n \in Nat
          PROVE  Min({n + 1, 2}) \in Nat /\ (n = 0 => Min({n + 1, 2}) = 1)
      <4>1. {n + 1, 2} \in SUBSET Nat /\ {n + 1, 2} # {}
        OBVIOUS
      <4>2. Min({n + 1, 2}) \in {n + 1, 2} /\ \A m \in {n + 1, 2} : Min({n + 1, 2}) =< m
        BY <4>1, MinIsLeast
      <4>3. QED BY <4>2
    <3>2. waited[t] \in [Threads -> Nat]
      OBVIOUS
    <3>3. QED BY <3>1, <3>2
  <2> HIDE DEF more
  <2>4. ASSUME NEW t \in Threads
        PROVE  /\ waited'[t] \in [Threads -> Nat]
               /\ t \notin Created' \/ t = current_thread' => waited'[t] = Unpassed
               /\ \A u \in Threads : IF u = current_thread'
                                     THEN waited[t][u] = 0 => waited'[t][u] \in {0, 1}
                                     ELSE waited'[t][u] \in {0, waited[t][u]}
    <3>1. CASE t \in (Created \ finished)' \ {current_thread'}
      BY <2>1, <2>3, <3>1
    <3>2. CASE t \notin (Created \ finished)' \ {current_thread'}
      BY <2>1, <2>2, <3>2
    <3>3. QED BY <3>1, <3>2
  <2>5. waited' \in [Threads -> [Threads -> Nat]]
    BY <2>1, <2>4
  <2>6. QED BY <1>2, <2>4, <2>5
<1>3. QED BY <1>1, <1>2

-----------------------------------------------------------------------------
\* A step that gives nobody else the CPU and adds no thread keeps the counts.
LEMMA NoDispatchWaitOK ==
    ASSUME RRInv, CountWait, FinishedOK',
           UNCHANGED <<thread_queue, num_threads, current_index, current_thread>>,
           finished \subseteq finished', system_policy' \in RingPolicies
    PROVE  WaitOK'
<1>1. waited' = waited
  BY CountGrows DEF RRInv, WaitOK
<1>2. QED BY <1>1 DEF RRInv, WaitOK, PassedOnce, Indices, Created, Distance

\* A step in which a thread calls nqp_yield, perhaps after marking itself.
LEMMA YieldWaitOK ==
    ASSUME RRInv, IInv', CountWait, current_thread # NULL,
           NEW fin \in SUBSET Threads, finished \subseteq fin, finished' = fin,
           nqp_yield(fin),
           UNCHANGED <<thread_queue, num_threads, system_policy>>
    PROVE  WaitOK'
<1> USE SchedAssumption
<1>1. num_threads \in Nat \ {0} /\ current_index \in Indices /\ current_index \in Nat
  BY DEF RRInv, IInv, CurrentOK, TypeOK, Indices
<1>2. CASE NoSwitch
  BY <1>2, NoDispatchWaitOK DEF NoSwitch, RRInv, WaitOK, IInv
<1>3. ASSUME NEW k \in Indices,
             current_index' = k, current_thread' = thread_queue[k], k # current_index,
             \A i \in Indices : thread_queue[i] \notin fin => Distance(k) =< Distance(i)
      PROVE  WaitOK'
  <2>1. /\ Indices' = Indices /\ Created' = Created
        /\ thread_queue' = thread_queue /\ num_threads' = num_threads
        /\ \A i \in Indices : thread_queue[i] \in Threads
    BY DEF Indices, Created, RRInv, IInv, QueueOK
  <2>2. current_thread' # current_thread /\ current_thread' \in Threads
    BY <1>1, <1>3, <2>1 DEF RRInv, IInv, CurrentOK, QueueOK
  <2>3. /\ waited' \in [Threads -> [Threads -> Nat]]
        /\ \A t \in Threads :
              /\ t \notin Created \/ t = current_thread' => waited'[t] = Unpassed
              /\ \A u \in Threads : IF u = current_thread'
                                    THEN waited[t][u] = 0 => waited'[t][u] \in {0, 1}
                                    ELSE waited'[t][u] \in {0, waited[t][u]}
    BY <2>1, <2>2, CountGrows DEF RRInv, WaitOK
  <2>4. ASSUME NEW i \in Indices, NEW j \in Indices, thread_queue[i] \notin fin
        PROVE  PassedOnce(i, j)'
    <3> DEFINE t == thread_queue[i]
               u == thread_queue[j]
    <3>1. t \in Threads /\ u \in Threads /\ (u = current_thread' <=> j = k)
      BY <1>3, <2>1 DEF RRInv, IInv, QueueOK
    <3>2. SUFFICES waited'[t][u] = 0 \/ (waited'[t][u] = 1 /\ Distance(i)' < Distance(j)')
      BY <2>1 DEF PassedOnce
    <3>3. waited[t][u] = 0 \/ (waited[t][u] = 1 /\ Distance(i) < Distance(j))
      BY <2>4 DEF RRInv, WaitOK, PassedOnce
    <3>4. CASE i = k
      BY <1>3, <2>3, <3>1, <3>4 DEF Unpassed
    <3>5. CASE i # k
      <4>1. /\ Distance(k) =< Distance(i)
            /\ Distance(k) = IF k <= current_index THEN (k - current_index) + num_threads
                                                   ELSE k - current_index
            /\ Distance(i) = IF i <= current_index THEN (i - current_index) + num_threads
                                                   ELSE i - current_index
            /\ Distance(j) = IF j <= current_index THEN (j - current_index) + num_threads
                                                   ELSE j - current_index
        BY <1>3, <2>4 DEF Distance
      <4>2. /\ Distance(i)' = IF i <= k THEN (i - k) + num_threads ELSE i - k
            /\ Distance(j)' = IF j <= k THEN (j - k) + num_threads ELSE j - k
        BY <1>3, <2>1 DEF Distance
      <4>3. /\ i \in 0 .. num_threads - 1 /\ j \in 0 .. num_threads - 1
            /\ k \in 0 .. num_threads - 1 /\ current_index \in 0 .. num_threads - 1
        BY <1>1 DEF Indices
      <4>4. CASE j = k
        <5>1. waited[t][u] = 0
          BY <1>1, <3>3, <4>1, <4>4
        <5>2. waited'[t][u] \in {0, 1}
          BY <2>3, <3>1, <4>4, <5>1
        <5>3. Distance(i)' < Distance(j)'
          BY <1>1, <3>5, <4>2, <4>3, <4>4
        <5>4. QED BY <5>2, <5>3
      <4>5. CASE j # k
        <5>1. waited'[t][u] \in {0, waited[t][u]}
          BY <2>3, <3>1, <4>5
        <5>2. CASE waited[t][u] = 0
          BY <5>1, <5>2
        <5>3. CASE waited[t][u] = 1 /\ Distance(i) < Distance(j)
          <6>1. Distance(i)' < Distance(j)'
            BY <1>1, <1>3, <3>5, <4>1, <4>2, <4>3, <4>5, <5>3
          <6>2. QED BY <5>1, <5>3, <6>1
        <5>4. QED BY <3>3, <5>2, <5>3
      <4>6. QED BY <4>4, <4>5
    <3>6. QED BY <3>4, <3>5
  <2>5. system_policy' \in RingPolicies /\ current_thread' # NULL
    BY <2>2 DEF RRInv, WaitOK
  <2>6. ASSUME NEW t \in Threads \ Created
        PROVE  waited'[t] = Unpassed /\ \A s \in Threads : waited'[s][t] = 0
    <3>1. t # current_thread'
      BY <1>3 DEF Created
    <3>2. \A s \in Threads : waited[s][t] = 0
      BY DEF RRInv, WaitOK
    <3>3. QED BY <2>3, <3>1, <3>2
  <2>7. QED BY <2>1, <2>2, <2>3, <2>4, <2>5, <2>6 DEF WaitOK
<1>4. QED
  BY <1>2, <1>3, NearestIsNext DEF RRInv, IInv, WaitOK

\* A new thread stands at the end of the queue: it has not waited, nobody has
\* waited for it, and the others are round the ring in the order they were.
LEMMA CreateWaitOK ==
    ASSUME RRInv, IInv', CountWait, NEW t \in Threads, Create(t)
    PROVE  WaitOK'
<1> USE SchedAssumption
<1>1. /\ t \notin Created /\ scheduler_add_thread(t)
      /\ UNCHANGED <<current_index, current_thread, finished, system_policy>>
  BY DEF Create, nqp_thread_create
<1>2. waited' = waited
  BY <1>1, CountGrows DEF RRInv, WaitOK
<1>3. CASE ~ (num_threads < MAX_THREADS)
  <2>1. UNCHANGED <<thread_queue, num_threads>>
    BY <1>1, <1>3 DEF scheduler_add_thread
  <2>2. QED BY <1>1, <2>1, NoDispatchWaitOK DEF RRInv, WaitOK, IInv
<1>4. CASE num_threads < MAX_THREADS
  <2>1. /\ thread_queue' = [thread_queue EXCEPT ![num_threads] = t]
        /\ num_threads' = num_threads + 1 /\ num_threads \in Nat
    BY <1>1, <1>4 DEF scheduler_add_thread, RRInv, IInv, TypeOK
  <2>2. /\ Indices' = Indices \cup {num_threads}
        /\ thread_queue'[num_threads] = t
        /\ \A i \in Indices : thread_queue'[i] = thread_queue[i]
    <3>1. num_threads \in 0 .. MAX_THREADS - 1 /\ MAX_THREADS \in Nat
      BY <1>4 DEF RRInv, IInv, TypeOK
    <3>2. /\ Indices' = Indices \cup {num_threads} /\ num_threads \notin Indices
          /\ Indices \subseteq 0 .. MAX_THREADS - 1
      BY <2>1, <3>1 DEF Indices
    <3>3. QED BY <2>1, <3>1, <3>2 DEF RRInv, IInv, TypeOK
  <2>3. Created' = Created \cup {t}
    BY <2>2 DEF Created
  <2>4. waited[t] = Unpassed /\ \A s \in Threads : waited[s][t] = 0
    BY <1>1 DEF RRInv, WaitOK
  <2>5. ASSUME current_thread # NULL, NEW i \in Indices', NEW j \in Indices',
               thread_queue'[i] \notin finished
        PROVE  PassedOnce(i, j)'
    <3>1. current_index \in 0 .. num_threads - 1
      BY <2>5 DEF RRInv, IInv, CurrentOK, Indices
    <3>2. SUFFICES LET n == waited[thread_queue'[i]][thread_queue'[j]]
                   IN  n = 0 \/ (n = 1 /\ Distance(i)' < Distance(j)')
      BY <1>2 DEF PassedOnce
    <3>3. \A e \in Indices : thread_queue[e] \in Threads
      BY DEF RRInv, IInv, QueueOK
    <3>4. CASE i = num_threads
      <4>1. thread_queue'[j] \in Threads
        BY <2>2, <3>3
      <4>2. QED BY <2>2, <2>4, <3>4, <4>1 DEF Unpassed
    <3>5. CASE j = num_threads /\ i # num_threads
      <4>1. i \in Indices /\ thread_queue'[i] \in Threads
        BY <2>2, <3>3, <3>5
      <4>2. QED BY <2>2, <2>4, <3>5, <4>1
    <3>6. CASE i # num_threads /\ j # num_threads
      <4>1. i \in Indices /\ j \in Indices
        BY <2>2, <3>6
      <4>2. thread_queue'[i] = thread_queue[i] /\ thread_queue'[j] = thread_queue[j]
        BY <2>2, <4>1
      <4>3. LET n == waited[thread_queue[i]][thread_queue[j]]
            IN  n = 0 \/ (n = 1 /\ Distance(i) < Distance(j))
        BY <2>5, <4>1, <4>2 DEF RRInv, WaitOK, PassedOnce
      <4>4. Distance(i) < Distance(j) => Distance(i)' < Distance(j)'
        <5>1. /\ Distance(i)' = IF i <= current_index THEN (i - current_index) + num_threads'
                                                      ELSE i - current_index
              /\ Distance(j)' = IF j <= current_index THEN (j - current_index) + num_threads'
                                                      ELSE j - current_index
          BY <1>1 DEF Distance
        <5>2. i \in 0 .. num_threads - 1 /\ j \in 0 .. num_threads - 1
          BY <4>1 DEF Indices
        <5>3. QED BY <2>1, <3>1, <5>1, <5>2 DEF Distance
      <4>5. QED BY <4>2, <4>3, <4>4
    <3>7. QED BY <3>4, <3>5, <3>6
  <2>6. QED
    BY <1>1, <1>2, <2>3, <2>5 DEF RRInv, WaitOK
<1>5. QED BY <1>3, <1>4

\* nqp_sched_start gives entry 0 the CPU: all others wait for it once.
LEMMA StartWaitOK ==
    ASSUME RRInv, IInv', CountWait, Start
    PROVE  WaitOK'
<1> USE SchedAssumption
<1>1. /\ cpu = Main
      /\ UNCHANGED <<thread_queue, num_threads, finished, system_policy>>
  BY DEF Start, nqp_sched_start
<1>2. current_thread = NULL
  BY <1>1, MainRunsBeforeStart DEF RRInv
<1>3. CASE num_threads = 0
  <2>1. UNCHANGED <<current_index, current_thread>>
    BY <1>3 DEF Start, nqp_sched_start
  <2>2. QED BY <1>1, <2>1, NoDispatchWaitOK DEF RRInv, WaitOK, IInv
<1>4. CASE num_threads # 0
  <2>1. /\ 0 \in Indices /\ thread_queue[0] \in Threads
        /\ num_threads \in Nat \ {0}
    BY <1>4 DEF RRInv, IInv, TypeOK, QueueOK, Indices
  <2>2. current_index' = 0 /\ current_thread' = thread_queue[0]
    BY <1>4 DEF Start, nqp_sched_start
  <2>3. current_thread' # current_thread
    BY <1>2, <2>1, <2>2
  <2>4. /\ Indices' = Indices /\ Created' = Created
        /\ \A i \in Indices : thread_queue[i] \in Threads
    BY <1>1 DEF Indices, Created, RRInv, IInv, QueueOK
  <2>5. /\ waited' \in [Threads -> [Threads -> Nat]]
        /\ \A t \in Threads :
              /\ t \notin Created \/ t = thread_queue[0] => waited'[t] = Unpassed
              /\ \A u \in Threads : IF u = thread_queue[0] THEN waited'[t][u] \in {0, 1}
                                                          ELSE waited'[t][u] = 0
    <3>1. /\ waited' \in [Threads -> [Threads -> Nat]]
          /\ \A t \in Threads :
                /\ t \notin Created' \/ t = current_thread' => waited'[t] = Unpassed
                /\ \A u \in Threads : IF u = current_thread'
                                      THEN waited[t][u] = 0 => waited'[t][u] \in {0, 1}
                                      ELSE waited'[t][u] \in {0, waited[t][u]}
      BY <2>3, CountGrows DEF RRInv, WaitOK
    <3>2. \A t \in Threads, u \in Threads : waited[t][u] = 0
      BY <1>2 DEF RRInv, WaitOK, Unpassed
    <3>3. QED BY <2>2, <2>4, <3>1, <3>2
  <2>6. ASSUME NEW i \in Indices, NEW j \in Indices
        PROVE  PassedOnce(i, j)'
    <3>1. SUFFICES LET n == waited'[thread_queue[i]][thread_queue[j]]
                   IN  n = 0 \/ (n = 1 /\ Distance(i)' < Distance(j)')
      BY <1>1 DEF PassedOnce
    <3>2. thread_queue[i] \in Threads /\ thread_queue[j] \in Threads
      BY <2>4
    <3>3. CASE i = 0
      BY <2>5, <3>2, <3>3 DEF Unpassed
    <3>4. CASE j # 0
      <4>1. thread_queue[j] # thread_queue[0]
        BY <2>1, <3>4 DEF RRInv, IInv, QueueOK
      <4>2. QED BY <2>5, <3>2, <4>1
    <3>5. CASE i # 0 /\ j = 0
      <4>1. waited'[thread_queue[i]][thread_queue[j]] \in {0, 1}
        BY <2>5, <3>2, <3>5
      <4>2. Distance(i)' = i /\ Distance(j)' = num_threads /\ i \in 0 .. num_threads - 1
        BY <1>1, <2>1, <2>2, <3>5 DEF Distance, Indices
      <4>3. QED BY <2>1, <4>1, <4>2
    <3>6. QED BY <3>3, <3>4, <3>5
  <2>7. ASSUME NEW t \in Threads \ Created
        PROVE  waited'[t] = Unpassed /\ \A s \in Threads : waited'[s][t] = 0
    <3>1. t # thread_queue[0]
      BY <2>1 DEF Created
    <3>2. QED BY <2>5, <3>1
  <2>8. QED
    BY <1>1, <2>1, <2>2, <2>4, <2>5, <2>6, <2>7 DEF WaitOK, RRInv
<1>5. QED BY <1>3, <1>4

\* Every step keeps the counts and the ring in agreement.
LEMMA RRNextInv ==
    ASSUME InitArgs \subseteq RingPolicies, RRInv, [RRNext]_<<vars, waited>>
    PROVE  RRInv'
<1> USE SchedAssumption
<1>1. IInv'
  BY NextIInv DEF RRInv, RRNext
<1>2. CASE UNCHANGED <<vars, waited>>
  BY <1>1, <1>2 DEF RRInv, WaitOK, PassedOnce, vars, schedVars, Indices, Created, Distance
<1>3. CASE RRNext
  <2>1. Next /\ CountWait
    BY <1>3 DEF RRNext
  <2> SUFFICES WaitOK'
    BY <1>1 DEF RRInv
  <2>2. ASSUME NEW t \in Threads, Create(t) PROVE WaitOK'
    BY <1>1, <2>1, <2>2, CreateWaitOK
  <2>3. ASSUME NEW policy \in InitArgs, InitSched(policy) PROVE WaitOK'
    <3>1. /\ system_policy' = policy \/ system_policy' = system_policy
          /\ UNCHANGED <<thread_queue, num_threads, current_index, current_thread, finished>>
      BY <2>3 DEF InitSched, nqp_sched_init
    <3>2. QED BY <1>1, <2>1, <3>1, NoDispatchWaitOK DEF RRInv, WaitOK, IInv
  <2>4. CASE Start
    BY <1>1, <2>1, <2>4, StartWaitOK
  <2>5. CASE Yield \/ JoinYield
    <3>1. /\ nqp_yield(finished)
          /\ UNCHANGED <<thread_queue, num_threads, finished, system_policy>>
      BY <2>5 DEF Yield, JoinYield
    <3>2. CASE current_thread = NULL
      BY <1>1, <2>1, <3>1, <3>2, NoDispatchWaitOK
         DEF nqp_yield, NoSwitch, RRInv, WaitOK, IInv
    <3>3. CASE current_thread # NULL
      BY <1>1, <2>1, <3>1, <3>3, YieldWaitOK DEF RRInv, IInv, TypeOK
    <3>4. QED BY <3>2, <3>3
  <2>6. CASE ExitCall \/ thread_wrapper
    <3>1. PICK also \in SUBSET Flows : nqp_exit(also) /\ (also = {} \/ (cpu # Main /\ also = {cpu}))
      BY <2>6 DEF ExitCall, thread_wrapper, RRInv, IInv, TypeOK
    <3> DEFINE fin == finished \cup also \cup ({current_thread} \ {NULL})
    <3>2. /\ finished' = fin /\ nqp_yield(fin)
          /\ UNCHANGED <<thread_queue, num_threads, system_policy>>
      BY <3>1 DEF nqp_exit
    <3>3. fin \in SUBSET Threads /\ finished \subseteq fin
      BY <3>1 DEF RRInv, IInv, TypeOK, Flows
    <3> HIDE DEF fin
    <3>4. CASE current_thread = NULL
      BY <1>1, <2>1, <3>2, <3>3, <3>4, NoDispatchWaitOK
         DEF nqp_yield, NoSwitch, RRInv, WaitOK, IInv
    <3>5. CASE current_thread # NULL
      BY <1>1, <2>1, <3>2, <3>3, <3>5, YieldWaitOK
    <3>6. QED BY <3>4, <3>5
  <2>7. CASE \/ StartReturns \/ JoinReturn \/ ProcessExit \/ Ended
             \/ \E t \in Threads : JoinCall(t)
    <3>1. UNCHANGED <<thread_queue, num_threads, current_index, current_thread,
                      finished, system_policy>>
      BY <2>7 DEF StartReturns, JoinReturn, ProcessExit, ExitProcess, Ended, JoinCall,
                  vars, schedVars
    <3>2. QED BY <1>1, <2>1, <3>1, NoDispatchWaitOK DEF RRInv, WaitOK, IInv
  <2>8. QED BY <2>1, <2>2, <2>3, <2>4, <2>5, <2>6, <2>7 DEF Next, ProgramNext
<1>4. QED BY <1>2, <1>3

\* For any number of threads and any program that chooses TWOTHREADS or RR: the
\* ring search of nqp_yield gives no thread a second turn while another one
\* waits for its first, whatever is created or finishes meanwhile.
THEOREM NobodyIsBypassed ==
    ASSUME InitArgs \subseteq RingPolicies
    PROVE  RRSpec => []BypassBound
<1> USE SchedAssumption
<1>1. RRInit => RRInv
  <2>1. RRInit => IInv
    BY InitIInv DEF RRInit
  <2>2. RRInit => WaitOK
    BY DEF RRInit, Init, SchedInit, WaitOK, RingPolicies, Unpassed
  <2>3. QED BY <2>1, <2>2 DEF RRInv
<1>2. RRInv /\ [RRNext]_<<vars, waited>> => RRInv'
  BY RRNextInv
<1>3. RRInv => BypassBound
  <2> SUFFICES ASSUME RRInv, NEW t \in Created \ finished, NEW u \in Threads
               PROVE  waited[t][u] <= 1
    BY DEF BypassBound
  <2>1. PICK i \in Indices : thread_queue[i] = t
    BY DEF Created
  <2>2. t \in Threads
    BY <2>1 DEF RRInv, IInv, QueueOK
  <2>3. CASE current_thread = NULL \/ u \notin Created
    <3>1. waited[t][u] = 0
      BY <2>2, <2>3 DEF RRInv, WaitOK, Unpassed
    <3>2. QED BY <3>1
  <2>4. CASE current_thread # NULL /\ u \in Created
    <3>1. PICK j \in Indices : thread_queue[j] = u
      BY <2>4 DEF Created
    <3>2. PassedOnce(i, j)
      BY <2>1, <2>4 DEF RRInv, WaitOK
    <3>3. waited[t][u] = 0 \/ waited[t][u] = 1
      BY <2>1, <3>1, <3>2 DEF PassedOnce
    <3>4. QED BY <3>3
  <2>5. QED BY <2>3, <2>4
<1>4. QED
  BY <1>1, <1>2, <1>3, PTL DEF RRSpec

-----------------------------------------------------------------------------
(***************************************************************************)
(* NqpMlfq.                                                                *)
(***************************************************************************)
(***************************************************************************)
(* The books of the queues Q, when the threads of made exist and           *)
(* those of fin have finished.                                             *)
(***************************************************************************)
Slot(Q, q, i) == q \in Levels /\ i \in 1 .. Len(Q[q])

\* Every entry is a thread that has been created.
HoldsOnly(Q, made) == \A q, i : Slot(Q, q, i) => Q[q][i] \in made

\* An unfinished thread has one entry at most.
Once(Q, fin) ==
    \A q, r, i, j :
        /\ Slot(Q, q, i) /\ Slot(Q, r, j)
        /\ Q[q][i] = Q[r][j] /\ Q[q][i] \notin fin
        => q = r /\ i = j

\* In a lower queue no thread has two, finished or not.
LowerDistinct(Q) ==
    \A q, i, j : /\ q # 0 /\ Slot(Q, q, i) /\ Slot(Q, q, j) /\ Q[q][i] = Q[q][j]
                 => i = j

\* The threads that a boost would move, and the room there is for them.
Below(Q, fin) == {t \in Threads \ fin : \E q, i : q # 0 /\ Slot(Q, q, i) /\ Q[q][i] = t}
BoostFits(Q, fin) == Len(Q[0]) + Cardinality(Below(Q, fin)) <= MAX_THREADS

Books(Q, fin, made) ==
    /\ Q \in [Levels -> Seq(Threads)]
    /\ HoldsOnly(Q, made) /\ Once(Q, fin) /\ LowerDistinct(Q)
    /\ BoostFits(Q, fin)

Queued(Q, t) == \E q, i : Slot(Q, q, i) /\ Q[q][i] = t

(***************************************************************************)
(* The inductive invariant: until the loop is entered what is shown above; *)
(* from then on the books, and what each step of the loop relies on.       *)
(***************************************************************************)
Idle ==
    /\ IInv
    /\ mlfq_queues = [q \in Levels |-> <<>>]
    /\ rr_indices = [q \in Levels |-> 0]
    /\ picked = NothingPicked /\ loop = "off" /\ enqueued = {}

LibraryOK ==
    /\ TypeOK /\ QueueOK
    /\ system_policy = "MLFQ"
    /\ finished \subseteq Created
    /\ \A t \in Threads : context[t] = t

LoopTypeOK ==
    /\ rr_indices \in [Levels -> 0 .. MAX_THREADS - 1]
    /\ elapsed \in Int /\ settings \in 0 .. MaxSettings
    /\ picked \in [level : Levels, idx : 0 .. MAX_THREADS - 1,
                   next : Threads \cup {NULL}]
    /\ loop \in {"off", "top", "pick", "charge"}

\* main() is in the loop, or has nothing left to wait for.
OffOK ==
    /\ loop # "off" => pc[Main] = "start"
    /\ loop = "off" =>
           /\ cpu = Main /\ pc[Main] \in {"after", "join"}
           /\ \A t \in Threads : Queued(mlfq_queues, t) => t \in finished
           /\ enqueued \subseteq finished

\* A thread has the CPU only while its slice is to be charged.
TurnOK ==
    /\ loop # "charge" => cpu = Main
    /\ loop = "charge" =>
           /\ scheduler_context = Main /\ cpu \in {Main, current_thread}
           /\ current_thread = picked.next /\ picked.next \in Threads
           /\ \A q, i : Slot(mlfq_queues, q, i) =>
                  (mlfq_queues[q][i] = picked.next
                       <=> q = picked.level /\ i = picked.idx + 1)
           /\ Slot(mlfq_queues, picked.level, picked.idx + 1)

QueuesOK ==
    /\ Books(mlfq_queues, finished, Created)
    /\ enqueued \subseteq Created
    /\ loop # "off" => \A t \in enqueued \ finished : Queued(mlfq_queues, t)

Looping == LibraryOK /\ LoopTypeOK /\ OffOK /\ TurnOK /\ QueuesOK

MInv == (settings \in 0 .. MaxSettings /\ elapsed \in Int /\ Idle) \/ Looping

-----------------------------------------------------------------------------
\* D is Q with its entries moved: each entry of D comes from one of Q, no two
\* from the same.
MovedFrom(D, Q, lev, pos) ==
    /\ \A q, i : Slot(D, q, i) =>
           Slot(Q, lev[q][i], pos[q][i]) /\ D[q][i] = Q[lev[q][i]][pos[q][i]]
    /\ \A q, r, i, j :
           /\ Slot(D, q, i) /\ Slot(D, r, j)
           /\ lev[q][i] = lev[r][j] /\ pos[q][i] = pos[r][j]
           => q = r /\ i = j

\* Such a move invents no entry and doubles none.
LEMMA MovedEntries ==
    ASSUME NEW Q, NEW D, NEW fin, NEW made, NEW lev, NEW pos,
           HoldsOnly(Q, made), Once(Q, fin), MovedFrom(D, Q, lev, pos)
    PROVE  HoldsOnly(D, made) /\ Once(D, fin)
<1>1. HoldsOnly(D, made)
  BY DEF HoldsOnly, MovedFrom
<1>2. ASSUME NEW q, NEW r, NEW i, NEW j,
             Slot(D, q, i), Slot(D, r, j), D[q][i] = D[r][j], D[q][i] \notin fin
      PROVE  q = r /\ i = j
  <2>1. /\ Slot(Q, lev[q][i], pos[q][i]) /\ D[q][i] = Q[lev[q][i]][pos[q][i]]
        /\ Slot(Q, lev[r][j], pos[r][j]) /\ D[r][j] = Q[lev[r][j]][pos[r][j]]
    BY <1>2, Zenon DEF MovedFrom
  <2>2. lev[q][i] = lev[r][j] /\ pos[q][i] = pos[r][j]
    <3> DEFINE a == lev[q][i]  b == lev[r][j]  m == pos[q][i]  n == pos[r][j]
    <3>1. Slot(Q, a, m) /\ Slot(Q, b, n) /\ Q[a][m] = Q[b][n] /\ Q[a][m] \notin fin
      BY <1>2, <2>1, Zenon
    <3> HIDE DEF a, b, m, n
    <3>2. a = b /\ m = n
      BY <3>1 DEF Once
    <3>3. QED BY <3>2 DEF a, b, m, n
  <2>3. QED BY <1>2, <2>2, Zenon DEF MovedFrom
<1>3. QED BY <1>1, <1>2 DEF Once

\* The books stay right when more threads exist or have finished.
LEMMA BooksGrow ==
    ASSUME NEW Q, NEW fin, NEW made, Books(Q, fin, made), IsFiniteSet(made),
           NEW fin2, fin \subseteq fin2, NEW made2, made \subseteq made2
    PROVE  Books(Q, fin2, made2)
<1>1. HoldsOnly(Q, made2) /\ Once(Q, fin2)
  BY DEF Books, HoldsOnly, Once
<1>2. IsFiniteSet(Below(Q, fin))
  <2>1. Below(Q, fin) \subseteq made
    BY DEF Below, Books, HoldsOnly
  <2>2. QED BY <2>1, FS_Subset
<1>3. Below(Q, fin2) \subseteq Below(Q, fin)
  BY DEF Below
<1>4. /\ Cardinality(Below(Q, fin)) \in Nat /\ Cardinality(Below(Q, fin2)) \in Nat
      /\ Cardinality(Below(Q, fin2)) <= Cardinality(Below(Q, fin))
  BY <1>2, <1>3, FS_Subset, FS_CardinalityType
<1>5. Len(Q[0]) \in Nat
  BY LenProperties DEF Books, Levels, NUM_QUEUES
<1>6. BoostFits(Q, fin2)
  BY <1>4, <1>5, SchedAssumption DEF Books, BoostFits
<1>7. QED BY <1>1, <1>6 DEF Books

\* No queue outgrows its MAX_THREADS entries, and the lower ones hold no more
\* than there are threads.
LEMMA BooksBound ==
    ASSUME NEW Q, NEW fin, NEW made, Books(Q, fin, made), IsFiniteSet(made),
           NEW q \in Levels
    PROVE  /\ Len(Q[q]) \in Nat
           /\ q # 0 => Len(Q[q]) <= Cardinality(made)
           /\ q = 0 => Len(Q[q]) <= MAX_THREADS
           /\ Cardinality(made) \in Nat
<1>1. Q[q] \in Seq(Threads) /\ Len(Q[q]) \in Nat
  BY LenProperties DEF Books
<1>2. Cardinality(made) \in Nat
  BY FS_CardinalityType
<1>3. ASSUME q # 0 PROVE Len(Q[q]) <= Cardinality(made)
  <2> DEFINE S == 1 .. Len(Q[q])
             f == [i \in S |-> Q[q][i]]
  <2>1. f \in Injection(S, made)
    <3>1. \A i \in S : Slot(Q, q, i)
      BY DEF Slot
    <3>2. f \in [S -> made]
      BY <3>1 DEF Books, HoldsOnly
    <3>3. \A i, j \in S : f[i] = f[j] => i = j
      BY <3>1, <1>3 DEF Books, LowerDistinct
    <3>4. QED BY <3>2, <3>3 DEF Injection, IsInjective
  <2>2. Cardinality(S) = Len(Q[q])
    BY <1>1, FS_Interval
  <2> HIDE DEF f, S
  <2>3. Cardinality(S) <= Cardinality(made)
    BY <2>1, FS_Injection
  <2>4. QED BY <2>2, <2>3
<1>4. ASSUME q = 0 PROVE Len(Q[q]) <= MAX_THREADS
  <2>1. Below(Q, fin) \subseteq made
    BY DEF Below, Books, HoldsOnly
  <2>2. Cardinality(Below(Q, fin)) \in Nat
    BY <2>1, FS_Subset, FS_CardinalityType
  <2>3. QED BY <1>1, <1>4, <2>2, SchedAssumption DEF Books, BoostFits
<1>5. QED BY <1>1, <1>2, <1>3, <1>4

\* RemoveAt: the entries of a queue without entry idx, the last one in its place.
PlaceIn(n, idx, i) == IF i = idx + 1 THEN n ELSE i

\* Removing entry idx of n moves the other entries to distinct places, and
\* leaves out none.
LEMMA PlaceInBijective ==
    ASSUME NEW n \in Nat, NEW idx \in 0 .. n - 1
    PROVE  /\ \A i \in 1 .. n - 1 : PlaceIn(n, idx, i) \in (1 .. n) \ {idx + 1}
           /\ \A i, j \in 1 .. n - 1 : PlaceIn(n, idx, i) = PlaceIn(n, idx, j) => i = j
           /\ \A k \in (1 .. n) \ {idx + 1} : \E i \in 1 .. n - 1 : PlaceIn(n, idx, i) = k
<1>1. \A i \in 1 .. n - 1 : PlaceIn(n, idx, i) \in (1 .. n) \ {idx + 1}
  BY DEF PlaceIn
<1>2. \A i, j \in 1 .. n - 1 : PlaceIn(n, idx, i) = PlaceIn(n, idx, j) => i = j
  BY DEF PlaceIn
<1>3. ASSUME NEW k \in (1 .. n) \ {idx + 1}
      PROVE  \E i \in 1 .. n - 1 : PlaceIn(n, idx, i) = k
  <2>1. CASE k = n
    <3>1. idx + 1 \in 1 .. n - 1
      BY <2>1
    <3>2. PlaceIn(n, idx, idx + 1) = k
      BY <2>1 DEF PlaceIn
    <3>3. QED BY <3>1, <3>2
  <2>2. CASE k # n
    <3>1. k \in 1 .. n - 1
      BY <2>2
    <3>2. PlaceIn(n, idx, k) = k
      BY DEF PlaceIn
    <3>3. QED BY <3>1, <3>2
  <2>3. QED BY <2>1, <2>2
<1>4. QED BY <1>1, <1>2, <1>3

\* Removing entry idx leaves every other entry, at its place or at idx.
LEMMA RemoveAtEntries ==
    ASSUME NEW queue \in Seq(Threads), NEW idx \in 0 .. Len(queue) - 1
    PROVE  /\ RemoveAt(queue, idx) \in Seq(Threads)
           /\ Len(RemoveAt(queue, idx)) = Len(queue) - 1
           /\ \A i \in 1 .. Len(queue) - 1 :
                  RemoveAt(queue, idx)[i] = queue[PlaceIn(Len(queue), idx, i)]
<1> DEFINE n == Len(queue)
           r == RemoveAt(queue, idx)
<1>1. n \in Nat /\ queue \in [1 .. n -> Threads] /\ n - 1 \in Nat
  BY LenProperties
<1>2. \A i \in 1 .. n - 1 : r[i] = queue[PlaceIn(n, idx, i)]
  BY <1>1 DEF RemoveAt, PlaceIn
<1>3. \A i \in 1 .. n - 1 : PlaceIn(n, idx, i) \in 1 .. n
  BY <1>1, PlaceInBijective
<1>4. r \in [1 .. n - 1 -> Threads]
  <2>1. \A i \in 1 .. n - 1 : r[i] \in Threads
    BY <1>1, <1>2, <1>3
  <2>2. QED BY <2>1 DEF RemoveAt
<1>5. r \in Seq(Threads) /\ Len(r) = n - 1
  <2> HIDE DEF r, n
  <2> QED BY <1>1, <1>4
<1>6. QED BY <1>2, <1>5

\* The levels, and the queues as sequences.
LEMMA QueueFacts ==
    ASSUME NEW Q \in [Levels -> Seq(Threads)]
    PROVE  /\ Levels = {0, 1, 2}
           /\ \A q \in Levels : Q[q] \in Seq(Threads) /\ Len(Q[q]) \in Nat
           /\ \A q, i : Slot(Q, q, i) => Q[q][i] \in Threads
<1>1. Levels = {0, 1, 2}
  BY DEF Levels, NUM_QUEUES
<1>2. \A q \in Levels : /\ Q[q] \in Seq(Threads) /\ Len(Q[q]) \in Nat
                        /\ Q[q] \in [1 .. Len(Q[q]) -> Threads]
  BY LenProperties
<1>3. QED BY <1>1, <1>2 DEF Slot

\* The removal of a finished thread keeps the books and loses no unfinished one.
LEMMA RemovedBooks ==
    ASSUME NEW Q, NEW fin, NEW made, Books(Q, fin, made), IsFiniteSet(made),
           NEW l \in Levels, NEW idx \in 0 .. Len(Q[l]) - 1, Q[l][idx + 1] \in fin,
           NEW D \in [Levels -> Seq(Threads)],
           D[l] = RemoveAt(Q[l], idx), \A q \in Levels \ {l} : D[q] = Q[q]
    PROVE  /\ Books(D, fin, made)
           /\ \A t : t \notin fin /\ Queued(Q, t) => Queued(D, t)
<1> DEFINE n == Len(Q[l])
           lev == [q \in Levels |-> [i \in Nat |-> q]]
           pos == [q \in Levels |-> [i \in Nat |-> IF q = l THEN PlaceIn(n, idx, i) ELSE i]]
<1>1. Q \in [Levels -> Seq(Threads)] /\ n \in Nat
  BY QueueFacts DEF Books
<1>2. /\ Len(D[l]) = n - 1
      /\ \A q \in Levels : q # l => D[q] = Q[q]
      /\ \A i \in 1 .. n - 1 : D[l][i] = Q[l][PlaceIn(n, idx, i)]
  BY <1>1, RemoveAtEntries
<1>3. /\ \A i \in 1 .. n - 1 : PlaceIn(n, idx, i) \in (1 .. n) \ {idx + 1}
      /\ \A i, j \in 1 .. n - 1 : PlaceIn(n, idx, i) = PlaceIn(n, idx, j) => i = j
      /\ \A k \in (1 .. n) \ {idx + 1} : \E i \in 1 .. n - 1 : PlaceIn(n, idx, i) = k
  BY <1>1, PlaceInBijective
<1> HIDE DEF n
<1>4. ASSUME NEW q, NEW i, Slot(D, q, i)
      PROVE  /\ lev[q][i] = q /\ Slot(Q, q, pos[q][i]) /\ D[q][i] = Q[q][pos[q][i]]
             /\ q # l => pos[q][i] = i
             /\ q = l => i \in 1 .. n - 1 /\ pos[q][i] = PlaceIn(n, idx, i)
  <2>1. q \in Levels /\ i \in Nat
    BY <1>4, <1>2, QueueFacts DEF Slot
  <2>2. /\ lev[q][i] = q
        /\ pos[q][i] = IF q = l THEN PlaceIn(n, idx, i) ELSE i
    BY <2>1
  <2>3. CASE q = l
    <3>1. i \in 1 .. n - 1
      BY <1>2, <1>4, <2>3 DEF Slot
    <3>2. PlaceIn(n, idx, i) \in 1 .. n
      BY <3>1, <1>3
    <3>3. QED BY <2>1, <2>2, <2>3, <3>1, <3>2, <1>2 DEF Slot, n
  <2>4. CASE q # l
    BY <2>1, <2>2, <2>4, <1>2, <1>4 DEF Slot
  <2>5. QED BY <2>3, <2>4
<1> HIDE DEF lev, pos
<1>5. ASSUME NEW q, NEW i, NEW j, Slot(D, q, i), Slot(D, q, j), pos[q][i] = pos[q][j]
      PROVE  i = j
  <2>1. CASE q = l
    BY <2>1, <1>3, <1>4, <1>5
  <2>2. CASE q # l
    BY <2>2, <1>4, <1>5
  <2>3. QED BY <2>1, <2>2
<1>6. HoldsOnly(D, made) /\ Once(D, fin)
  <2>1. HoldsOnly(Q, made) /\ Once(Q, fin)
    BY DEF Books
  <2>2. MovedFrom(D, Q, lev, pos)
    <3>1. \A q, i : Slot(D, q, i) =>
             Slot(Q, lev[q][i], pos[q][i]) /\ D[q][i] = Q[lev[q][i]][pos[q][i]]
      BY <1>4
    <3>2. ASSUME NEW q, NEW r, NEW i, NEW j, Slot(D, q, i), Slot(D, r, j),
                 lev[q][i] = lev[r][j], pos[q][i] = pos[r][j]
          PROVE  q = r /\ i = j
      <4>1. q = r
        BY <1>4, <3>2
      <4>2. QED BY <4>1, <3>2, <1>5
    <3>3. QED BY <3>1, <3>2 DEF MovedFrom
  <2>3. QED BY <2>1, <2>2, MovedEntries, Zenon
<1>7. LowerDistinct(D)
  <2> SUFFICES ASSUME NEW q, NEW i, NEW j, q # 0, Slot(D, q, i), Slot(D, q, j),
                      D[q][i] = D[q][j]
               PROVE  i = j
    BY DEF LowerDistinct
  <2>1. /\ Slot(Q, q, pos[q][i]) /\ Slot(Q, q, pos[q][j])
        /\ Q[q][pos[q][i]] = Q[q][pos[q][j]]
    BY <1>4
  <2>2. pos[q][i] = pos[q][j]
    BY <2>1 DEF Books, LowerDistinct
  <2>3. QED BY <2>2, <1>5
<1>8. BoostFits(D, fin)
  <2>1. Below(D, fin) \subseteq Below(Q, fin)
    <3> SUFFICES ASSUME NEW t \in Below(D, fin) PROVE t \in Below(Q, fin)
      OBVIOUS
    <3>1. PICK q, i : q # 0 /\ Slot(D, q, i) /\ D[q][i] = t
      BY DEF Below
    <3>2. Slot(Q, q, pos[q][i]) /\ Q[q][pos[q][i]] = t
      BY <3>1, <1>4
    <3>3. QED BY <3>1, <3>2 DEF Below
  <2>2. Below(Q, fin) \subseteq made
    BY DEF Below, Books, HoldsOnly
  <2>3. /\ Cardinality(Below(Q, fin)) \in Nat /\ Cardinality(Below(D, fin)) \in Nat
        /\ Cardinality(Below(D, fin)) <= Cardinality(Below(Q, fin))
    BY <2>1, <2>2, FS_Subset, FS_CardinalityType
  <2>4. Len(D[0]) \in Nat /\ Len(Q[0]) \in Nat /\ Len(D[0]) <= Len(Q[0])
    <3>1. Len(D[0]) \in Nat /\ Len(Q[0]) \in Nat
      BY <1>1, <1>2, QueueFacts
    <3>2. CASE l = 0
      BY <3>1, <3>2, <1>2 DEF n
    <3>3. CASE l # 0
      BY <3>1, <3>3, <1>2, QueueFacts, <1>1
    <3>4. QED BY <3>2, <3>3
  <2>5. QED BY <2>3, <2>4, SchedAssumption DEF Books, BoostFits
<1>9. ASSUME NEW t, t \notin fin, Queued(Q, t)
      PROVE  Queued(D, t)
  <2>1. PICK q, k : Slot(Q, q, k) /\ Q[q][k] = t
    BY <1>9 DEF Queued
  <2>2. CASE q = l
    <3>1. k \in (1 .. n) \ {idx + 1}
      BY <1>9, <2>1, <2>2 DEF Slot, n
    <3>2. PICK i \in 1 .. n - 1 : PlaceIn(n, idx, i) = k
      BY <3>1, <1>3
    <3>3. Slot(D, l, i) /\ D[l][i] = t
      BY <2>1, <2>2, <3>2, <1>2 DEF Slot
    <3>4. QED BY <3>3 DEF Queued
  <2>3. CASE q # l
    <3>1. Slot(D, q, k) /\ D[q][k] = t
      BY <2>1, <2>3, <1>2 DEF Slot
    <3>2. QED BY <3>1 DEF Queued
  <2>4. QED BY <2>2, <2>3
<1>10. QED BY <1>2, <1>6, <1>7, <1>8, <1>9 DEF Books

\* Entry idx of queue l, and no other, is that of t.
OnlyAt(Q, l, idx, t) ==
    \A q, i : Slot(Q, q, i) => (Q[q][i] = t <=> q = l /\ i = idx + 1)

\* The demotion of a thread that has one entry keeps the books and loses nobody.
LEMMA DemotedBooks ==
    ASSUME NEW Q, NEW fin, NEW made, Books(Q, fin, made), IsFiniteSet(made),
           NEW l \in {0, 1}, NEW idx \in 0 .. Len(Q[l]) - 1, NEW t,
           OnlyAt(Q, l, idx, t),
           NEW D \in [Levels -> Seq(Threads)],
           D[l] = RemoveAt(Q[l], idx), D[l + 1] = Append(Q[l + 1], t),
           \A q \in Levels \ {l, l + 1} : D[q] = Q[q]
    PROVE  /\ Books(D, fin, made)
           /\ \A u : Queued(Q, u) => Queued(D, u)
<1> USE DEF OnlyAt
<1> DEFINE n == Len(Q[l])
           m == Len(Q[l + 1])
           Down(q, i) == q = l + 1 /\ i = m + 1
           lev == [q \in Levels |-> [i \in Nat |-> IF Down(q, i) THEN l ELSE q]]
           pos == [q \in Levels |-> [i \in Nat |->
                      IF Down(q, i) THEN idx + 1
                      ELSE IF q = l THEN PlaceIn(n, idx, i) ELSE i]]
<1>1. /\ Q \in [Levels -> Seq(Threads)] /\ n \in Nat /\ m \in Nat
      /\ l \in Levels /\ l + 1 \in Levels /\ l + 1 # l /\ l + 1 # 0
  BY QueueFacts DEF Books
<1>2. Slot(Q, l, idx + 1) /\ Q[l][idx + 1] = t
  <2>1. idx + 1 \in 1 .. n
    BY <1>1
  <2>2. Slot(Q, l, idx + 1)
    BY <1>1, <2>1 DEF Slot
  <2>3. QED BY <2>2
<1>3. t \in Threads
  BY <1>1, <1>2, QueueFacts
<1>4. /\ Len(D[l]) = n - 1 /\ Len(D[l + 1]) = m + 1
      /\ \A i \in 1 .. n - 1 : D[l][i] = Q[l][PlaceIn(n, idx, i)]
      /\ \A i \in 1 .. m : D[l + 1][i] = Q[l + 1][i]
      /\ D[l + 1][m + 1] = t
  <2>1. Len(D[l]) = n - 1 /\ \A i \in 1 .. n - 1 : D[l][i] = Q[l][PlaceIn(n, idx, i)]
    BY <1>1, RemoveAtEntries
  <2>2. /\ Len(D[l + 1]) = m + 1 /\ D[l + 1][m + 1] = t
        /\ \A i \in 1 .. m : D[l + 1][i] = Q[l + 1][i]
    BY <1>1, <1>3, AppendProperties
  <2>3. QED BY <2>1, <2>2
<1>5. /\ \A i \in 1 .. n - 1 : PlaceIn(n, idx, i) \in (1 .. n) \ {idx + 1}
      /\ \A i, j \in 1 .. n - 1 : PlaceIn(n, idx, i) = PlaceIn(n, idx, j) => i = j
      /\ \A k \in (1 .. n) \ {idx + 1} : \E i \in 1 .. n - 1 : PlaceIn(n, idx, i) = k
  BY <1>1, PlaceInBijective
<1>6. ASSUME NEW q, NEW i, Slot(D, q, i)
      PROVE  /\ Slot(Q, lev[q][i], pos[q][i]) /\ D[q][i] = Q[lev[q][i]][pos[q][i]]
             /\ Down(q, i) => lev[q][i] = l /\ pos[q][i] = idx + 1
             /\ ~Down(q, i) => lev[q][i] = q /\ (q = l => pos[q][i] # idx + 1)
             /\ ~Down(q, i) /\ q # l => pos[q][i] = i
             /\ q = l => i \in 1 .. n - 1 /\ pos[q][i] = PlaceIn(n, idx, i)
  <2>1. q \in Levels /\ i \in Nat /\ i \in 1 .. Len(D[q])
    BY <1>6, QueueFacts DEF Slot
  <2>2. /\ lev[q][i] = IF Down(q, i) THEN l ELSE q
        /\ pos[q][i] = IF Down(q, i) THEN idx + 1
                       ELSE IF q = l THEN PlaceIn(n, idx, i) ELSE i
    BY <2>1
  <2> HIDE DEF lev, pos, n, m
  <2>3. CASE q = l
    <3>1. i \in 1 .. n - 1 /\ ~Down(q, i)
      BY <1>1, <1>4, <2>1, <2>3
    <3>2. PlaceIn(n, idx, i) \in (1 .. n) \ {idx + 1}
      BY <3>1, <1>5
    <3>3. QED BY <1>1, <1>4, <2>2, <2>3, <3>1, <3>2 DEF Slot, n
  <2>4. CASE q = l + 1
    <3>1. i \in 1 .. m + 1 /\ q # l
      BY <1>1, <1>4, <2>1, <2>4
    <3>2. CASE i = m + 1
      <4>1. Down(q, i) /\ D[q][i] = t
        BY <1>4, <2>4, <3>2
      <4>2. QED BY <1>2, <2>2, <3>1, <4>1
    <3>3. CASE i # m + 1
      <4>1. ~Down(q, i) /\ i \in 1 .. m
        BY <1>1, <3>1, <3>3
      <4>2. Slot(Q, q, i) /\ D[q][i] = Q[q][i]
        BY <1>1, <1>4, <2>4, <4>1 DEF Slot, m
      <4>3. QED BY <2>2, <3>1, <4>1, <4>2
    <3>4. QED BY <3>2, <3>3
  <2>5. CASE q \notin {l, l + 1}
    <3>1. D[q] = Q[q] /\ ~Down(q, i)
      BY <2>1, <2>5
    <3>2. Slot(Q, q, i)
      BY <2>1, <3>1 DEF Slot
    <3>3. QED BY <2>2, <2>5, <3>1, <3>2
  <2>6. QED BY <2>3, <2>4, <2>5
<1> HIDE DEF lev, pos, n, m
<1>7. ASSUME NEW q, NEW r, NEW i, NEW j, Slot(D, q, i), Slot(D, r, j),
             lev[q][i] = lev[r][j], pos[q][i] = pos[r][j]
      PROVE  q = r /\ i = j
  <2>1. CASE Down(q, i)
    <3>1. Down(r, j)
      BY <2>1, <1>6, <1>7
    <3>2. QED BY <2>1, <3>1
  <2>2. CASE ~Down(q, i)
    <3>1. ~Down(r, j)
      BY <2>2, <1>6, <1>7
    <3>2. q = r
      BY <2>2, <3>1, <1>6, <1>7
    <3>3. CASE q = l
      BY <3>2, <3>3, <1>5, <1>6, <1>7
    <3>4. CASE q # l
      BY <2>2, <3>1, <3>2, <3>4, <1>6, <1>7
    <3>5. QED BY <3>2, <3>3, <3>4
  <2>3. QED BY <2>1, <2>2
<1>8. HoldsOnly(D, made) /\ Once(D, fin)
  <2>1. HoldsOnly(Q, made) /\ Once(Q, fin)
    BY DEF Books
  <2>2. MovedFrom(D, Q, lev, pos)
    <3>1. \A q, i : Slot(D, q, i) =>
             Slot(Q, lev[q][i], pos[q][i]) /\ D[q][i] = Q[lev[q][i]][pos[q][i]]
      BY <1>6
    <3>2. QED BY <3>1, <1>7 DEF MovedFrom
  <2>3. QED BY <2>1, <2>2, MovedEntries, Zenon
<1>9. LowerDistinct(D)
  <2> SUFFICES ASSUME NEW q, NEW i, NEW j, q # 0, Slot(D, q, i), Slot(D, q, j),
                      D[q][i] = D[q][j]
               PROVE  i = j
    BY DEF LowerDistinct
  <2>1. /\ Slot(Q, lev[q][i], pos[q][i]) /\ Slot(Q, lev[q][j], pos[q][j])
        /\ Q[lev[q][i]][pos[q][i]] = Q[lev[q][j]][pos[q][j]]
        /\ D[q][i] = Q[lev[q][i]][pos[q][i]]
    BY <1>6
  <2>2. /\ D[q][i] = t <=> lev[q][i] = l /\ pos[q][i] = idx + 1
        /\ D[q][j] = t <=> lev[q][j] = l /\ pos[q][j] = idx + 1
    BY ONLY OnlyAt(Q, l, idx, t), <2>1, D[q][i] = D[q][j]
  <2>3. CASE D[q][i] = t
    <3>1. lev[q][i] = lev[q][j] /\ pos[q][i] = pos[q][j]
      BY <2>2, <2>3
    <3>2. QED BY <3>1, <1>7
  <2>4. CASE D[q][i] # t
    <3>1. ~Down(q, i) /\ ~Down(q, j)
      BY <2>2, <2>4, <1>6
    <3>2. lev[q][i] = q /\ lev[q][j] = q
      BY <3>1, <1>6
    <3>3. pos[q][i] = pos[q][j]
      BY <2>1, <3>2 DEF Books, LowerDistinct
    <3>4. QED BY <3>2, <3>3, <1>7
  <2>5. QED BY <2>3, <2>4
<1>10. ASSUME NEW u, Queued(Q, u)
       PROVE  Queued(D, u)
  <2>1. PICK q, k : Slot(Q, q, k) /\ Q[q][k] = u
    BY <1>10 DEF Queued
  <2>2. CASE u = t
    <3>1. Slot(D, l + 1, m + 1) /\ D[l + 1][m + 1] = u
      BY <2>2, <1>1, <1>4 DEF Slot
    <3>2. QED BY <3>1 DEF Queued
  <2>3. CASE u # t /\ q = l
    <3>1. k \in (1 .. n) \ {idx + 1}
      BY <1>2, <2>1, <2>3 DEF Slot, n
    <3>2. PICK i \in 1 .. n - 1 : PlaceIn(n, idx, i) = k
      BY <3>1, <1>5
    <3>3. Slot(D, l, i) /\ D[l][i] = u
      BY <2>1, <2>3, <3>2, <1>1, <1>4 DEF Slot
    <3>4. QED BY <3>3 DEF Queued
  <2>4. CASE u # t /\ q = l + 1
    <3>1. k \in 1 .. m
      BY <2>1, <2>4 DEF Slot, m
    <3>2. k \in 1 .. Len(D[l + 1]) /\ D[l + 1][k] = u
      BY <2>1, <2>4, <3>1, <1>1, <1>4 DEF m
    <3>3. QED BY <2>4, <3>2, <1>1 DEF Queued, Slot
  <2>5. CASE q \notin {l, l + 1}
    <3>1. Slot(D, q, k) /\ D[q][k] = u
      BY <2>1, <2>5 DEF Slot
    <3>2. QED BY <3>1 DEF Queued
  <2>6. QED BY <2>2, <2>3, <2>4, <2>5
<1>11. BoostFits(D, fin)
  <2>1. Below(D, fin) \subseteq Below(Q, fin) \cup {t}
    <3> SUFFICES ASSUME NEW u \in Below(D, fin), u # t PROVE u \in Below(Q, fin)
      OBVIOUS
    <3>1. PICK q, i : q # 0 /\ Slot(D, q, i) /\ D[q][i] = u
      BY DEF Below
    <3>2. Slot(Q, lev[q][i], pos[q][i]) /\ Q[lev[q][i]][pos[q][i]] = u
      BY <3>1, <1>6
    <3>3. lev[q][i] = q
      <4>1. ~Down(q, i)
        BY <3>1, <3>2, <1>2, <1>6
      <4>2. QED BY <3>1, <4>1, <1>6
    <3>4. QED BY <3>1, <3>2, <3>3 DEF Below
  <2>2. l = 1 => Below(D, fin) \subseteq Below(Q, fin)
    <3> SUFFICES ASSUME l = 1, t \in Below(D, fin) PROVE t \in Below(Q, fin)
      BY <2>1
    <3>1. QED BY <1>2 DEF Below
  <2>3. Below(Q, fin) \subseteq made
    BY DEF Below, Books, HoldsOnly
  <2>4. IsFiniteSet(Below(Q, fin)) /\ Cardinality(Below(Q, fin)) \in Nat
    BY <2>3, FS_Subset, FS_CardinalityType
  <2>5. /\ IsFiniteSet(Below(Q, fin) \cup {t})
        /\ Cardinality(Below(Q, fin) \cup {t}) \in Nat
        /\ Cardinality(Below(Q, fin) \cup {t}) <= Cardinality(Below(Q, fin)) + 1
    <3>1. /\ IsFiniteSet(Below(Q, fin) \cup {t})
          /\ Cardinality(Below(Q, fin) \cup {t}) =
               IF t \in Below(Q, fin) THEN Cardinality(Below(Q, fin))
               ELSE Cardinality(Below(Q, fin)) + 1
      BY <2>4, FS_AddElement
    <3>2. QED BY <2>4, <3>1
  <2>6. /\ Cardinality(Below(D, fin)) \in Nat
        /\ Cardinality(Below(D, fin)) <= Cardinality(Below(Q, fin)) + 1
        /\ l = 1 => Cardinality(Below(D, fin)) <= Cardinality(Below(Q, fin))
    <3>1. /\ IsFiniteSet(Below(D, fin))
          /\ Cardinality(Below(D, fin)) <= Cardinality(Below(Q, fin) \cup {t})
      BY <2>1, <2>5, FS_Subset
    <3>2. Cardinality(Below(D, fin)) \in Nat
      BY <3>1, FS_CardinalityType
    <3>3. l = 1 => Cardinality(Below(D, fin)) <= Cardinality(Below(Q, fin))
      BY <2>2, <2>4, FS_Subset
    <3>4. QED BY <2>4, <2>5, <3>1, <3>2, <3>3
  <2>7. /\ Len(D[0]) \in Nat /\ Len(Q[0]) \in Nat
        /\ l = 0 => Len(D[0]) = Len(Q[0]) - 1
        /\ l = 1 => Len(D[0]) = Len(Q[0])
    <3>1. Len(D[0]) \in Nat /\ Len(Q[0]) \in Nat
      BY <1>1, QueueFacts
    <3>2. l = 1 => D[0] = Q[0]
      BY <1>1, QueueFacts
    <3>3. QED BY <3>1, <3>2, <1>4 DEF n
  <2>8. Len(Q[0]) + Cardinality(Below(Q, fin)) <= MAX_THREADS
    BY DEF Books, BoostFits
  <2>9. Len(D[0]) + Cardinality(Below(D, fin)) <= Len(Q[0]) + Cardinality(Below(Q, fin))
    <3>1. CASE l = 0
      BY <2>4, <2>6, <2>7, <3>1
    <3>2. CASE l = 1
      BY <2>4, <2>6, <2>7, <3>2
    <3>3. QED BY <3>1, <3>2
  <2>10. QED BY <2>4, <2>6, <2>7, <2>8, <2>9, SchedAssumption DEF BoostFits
<1>12. QED BY <1>8, <1>9, <1>10, <1>11 DEF Books

\* u holds the unfinished threads among the first m of queue, each entry once:
\* its entry k is entry h[k] of queue.
TakenFrom(u, queue, m, h) ==
    /\ u \in Seq(Threads)
    /\ \A k \in 1 .. Len(u) :
           h[k] \in 1 .. m /\ u[k] = queue[h[k]] /\ u[k] \notin finished
    /\ \A k, l \in 1 .. Len(u) : h[k] = h[l] => k = l
    /\ \A i \in 1 .. m : queue[i] \notin finished => \E k \in 1 .. Len(u) : h[k] = i

\* UnfinishedOf takes the unfinished threads from a queue, each entry once.
LEMMA UnfinishedEntries ==
    ASSUME NEW queue \in Seq(Threads)
    PROVE  \E h : TakenFrom(UnfinishedOf(queue), queue, Len(queue), h)
<1> DEFINE n == Len(queue)
           S == Seq(Threads)
           Body(f) == [j \in 0 .. n |->
                         IF j = 0 THEN <<>>
                         ELSE IF queue[j] \in finished THEN f[j - 1]
                         ELSE Append(f[j - 1], queue[j])]
           upTo == CHOOSE f : f = Body(f)
           step == [j \in 1 .. n |-> [u \in S |-> IF queue[j] \in finished THEN u
                                                  ELSE Append(u, queue[j])]]
<1>1. n \in Nat /\ queue \in [1 .. n -> Threads]
  BY LenProperties
<1>2. upTo = Body(upTo)
  <2>1. step \in [1 .. n -> [S -> S]]
    BY <1>1, AppendProperties
  <2>2. <<>> \in S
    BY EmptySeq
  <2>3. PICK F \in [0 .. n -> S] :
            F[0] = <<>> /\ \A j \in 1 .. n : F[j] = step[j][F[j - 1]]
    <3>1. \E F \in [0 .. n -> S] : Solves(F, n, <<>>, step)
      <4> HIDE DEF step, n, S
      <4> QED BY <2>1, <2>2, <1>1, RecursionHasSolution
    <3> HIDE DEF step
    <3>2. QED BY <3>1 DEF Solves
  <2>4. \A j \in 1 .. n : F[j] = IF queue[j] \in finished THEN F[j - 1]
                                 ELSE Append(F[j - 1], queue[j])
    <3> SUFFICES ASSUME NEW j \in 1 .. n
                 PROVE  F[j] = IF queue[j] \in finished THEN F[j - 1]
                               ELSE Append(F[j - 1], queue[j])
      OBVIOUS
    <3>1. j - 1 \in 0 .. n
      BY <1>1
    <3>2. F[j - 1] \in S
      BY <2>3, <3>1
    <3>3. QED BY <2>3, <3>2
  <2>5. F = Body(F)
    <3>1. ASSUME NEW j \in 0 .. n
          PROVE  F[j] = Body(F)[j]
      <4>1. CASE j = 0
        BY <2>3, <4>1
      <4>2. CASE j # 0
        <5>1. j \in 1 .. n
          BY <4>2
        <5>2. QED BY <2>4, <4>2, <5>1
      <4>3. QED BY <4>1, <4>2
    <3>2. QED BY <3>1
  <2> HIDE DEF Body
  <2>6. QED BY <2>5
<1>3. UnfinishedOf(queue) = upTo[n]
  BY DEF UnfinishedOf
<1> HIDE DEF upTo, n
<1>4. /\ upTo[0] = <<>>
      /\ \A j \in 1 .. n : upTo[j] = IF queue[j] \in finished THEN upTo[j - 1]
                                     ELSE Append(upTo[j - 1], queue[j])
  <2>1. ASSUME NEW j \in 0 .. n
        PROVE  upTo[j] = IF j = 0 THEN <<>>
                         ELSE IF queue[j] \in finished THEN upTo[j - 1]
                         ELSE Append(upTo[j - 1], queue[j])
    BY <1>2
  <2>2. 0 \in 0 .. n /\ \A j \in 1 .. n : j \in 0 .. n /\ j # 0
    BY <1>1
  <2>3. QED BY <2>1, <2>2
<1> DEFINE A == {m \in 0 .. n : \E h : TakenFrom(upTo[m], queue, m, h)}
<1>5. 0 \in A
  <2>1. TakenFrom(<<>>, queue, 0, <<>>)
    BY EmptySeq DEF TakenFrom
  <2>2. QED BY <2>1, <1>4, <1>1
<1>6. ASSUME NEW m \in 0 .. n - 1, m \in A
      PROVE  m + 1 \in A
  <2>1. PICK h : TakenFrom(upTo[m], queue, m, h)
    BY <1>6
  <2> DEFINE u == upTo[m]
             t == queue[m + 1]
             g == [k \in 1 .. Len(u) + 1 |-> IF k = Len(u) + 1 THEN m + 1 ELSE h[k]]
  <2>2. m + 1 \in 1 .. n /\ m + 1 \in 0 .. n /\ (m + 1) - 1 = m /\ t \in Threads
    BY <1>1
  <2>3. upTo[m + 1] = IF t \in finished THEN u ELSE Append(u, t)
    BY <1>4, <2>2
  <2> HIDE DEF u
  <2>4. TakenFrom(u, queue, m, h)
    BY <2>1 DEF u
  <2>5. CASE t \in finished
    <3>1. TakenFrom(u, queue, m + 1, h)
      BY <2>4, <2>5 DEF TakenFrom
    <3>2. QED BY <3>1, <2>2, <2>3, <2>5
  <2>6. CASE t \notin finished
    <3>1. /\ Append(u, t) \in Seq(Threads) /\ Len(u) \in Nat
          /\ Len(Append(u, t)) = Len(u) + 1 /\ Append(u, t)[Len(u) + 1] = t
          /\ \A k \in 1 .. Len(u) : Append(u, t)[k] = u[k]
      BY <2>2, <2>4, AppendProperties, LenProperties DEF TakenFrom
    <3>2. g[Len(u) + 1] = m + 1 /\ \A k \in 1 .. Len(u) : g[k] = h[k]
      BY <3>1
    <3>3. \A k \in 1 .. Len(u) + 1 : k # Len(u) + 1 => k \in 1 .. Len(u)
      BY <3>1
    <3> DEFINE v == Append(u, t)
    <3> HIDE DEF v, g
    <3>4. ASSUME NEW k \in 1 .. Len(v)
          PROVE  g[k] \in 1 .. m + 1 /\ v[k] = queue[g[k]] /\ v[k] \notin finished
      <4>1. CASE k = Len(u) + 1
        BY <3>1, <3>2, <4>1, <2>6 DEF v
      <4>2. CASE k # Len(u) + 1
        <5>1. k \in 1 .. Len(u)
          BY <3>1, <3>3, <4>2 DEF v
        <5>2. h[k] \in 1 .. m /\ u[k] = queue[h[k]] /\ u[k] \notin finished
          BY <2>4, <5>1 DEF TakenFrom
        <5>3. QED BY <3>1, <3>2, <5>1, <5>2 DEF v
      <4>3. QED BY <4>1, <4>2
    <3>5. ASSUME NEW k \in 1 .. Len(v), NEW l \in 1 .. Len(v), g[k] = g[l]
          PROVE  k = l
      <4>1. \A o \in 1 .. Len(u) : h[o] \in 1 .. m /\ h[o] # m + 1
        BY <2>4 DEF TakenFrom
      <4>2. Len(v) = Len(u) + 1
        BY <3>1 DEF v
      <4>3. CASE k = Len(u) + 1 \/ l = Len(u) + 1
        BY <3>2, <3>3, <3>5, <4>1, <4>2, <4>3
      <4>4. CASE k # Len(u) + 1 /\ l # Len(u) + 1
        BY <2>4, <3>2, <3>3, <3>5, <4>2, <4>4 DEF TakenFrom
      <4>5. QED BY <4>3, <4>4
    <3>6. ASSUME NEW i \in 1 .. m + 1, queue[i] \notin finished
          PROVE  \E k \in 1 .. Len(v) : g[k] = i
      <4>1. CASE i = m + 1
        <5>1. Len(u) + 1 \in 1 .. Len(v)
          BY <3>1 DEF v
        <5>2. QED BY <3>2, <4>1, <5>1
      <4>2. CASE i # m + 1
        <5>1. i \in 1 .. m
          BY <4>2
        <5>2. PICK k \in 1 .. Len(u) : h[k] = i
          BY <2>4, <3>6, <5>1 DEF TakenFrom
        <5>3. k \in 1 .. Len(v)
          BY <3>1 DEF v
        <5>4. QED BY <3>2, <5>2, <5>3
      <4>3. QED BY <4>1, <4>2
    <3>7. TakenFrom(v, queue, m + 1, g)
      BY <3>1, <3>4, <3>5, <3>6 DEF v, TakenFrom
    <3>8. QED BY <3>7, <2>2, <2>3, <2>6 DEF v
  <2>7. QED BY <2>5, <2>6
<1>7. n \in A
  <2> HIDE DEF A
  <2>1. \A m \in 0 .. n : m \in A
    BY <1>1, <1>5, <1>6, SetInduction
  <2>2. QED BY <1>1, <2>1
<1>8. \E h : TakenFrom(UnfinishedOf(queue), queue, n, h)
  <2> QED BY <1>3, <1>7
<1>9. QED BY <1>8 DEF n

\* The boost keeps the books: queue 0 has room for whom it moves there, and it
\* loses no unfinished thread.
LEMMA BoostedBooks ==
    ASSUME NEW made, Books(mlfq_queues, finished, made), IsFiniteSet(made)
    PROVE  /\ Books(Boosted, finished, made)
           /\ \A t : t \notin finished /\ Queued(mlfq_queues, t) => Queued(Boosted, t)
<1> DEFINE Q == mlfq_queues
           u1 == UnfinishedOf(Q[1])
           u2 == UnfinishedOf(Q[2])
           n0 == Len(Q[0])
           m1 == Len(u1)
           m2 == Len(u2)
<1>1. /\ Q \in [Levels -> Seq(Threads)] /\ Levels = {0, 1, 2}
      /\ Q[0] \in Seq(Threads) /\ Q[1] \in Seq(Threads) /\ Q[2] \in Seq(Threads)
      /\ n0 \in Nat
  BY QueueFacts DEF Books
<1>2. PICK h1 : /\ u1 \in Seq(Threads) /\ m1 \in Nat
                /\ \A k \in 1 .. m1 : /\ h1[k] \in 1 .. Len(Q[1])
                                      /\ u1[k] = Q[1][h1[k]] /\ u1[k] \notin finished
                /\ \A k, l \in 1 .. m1 : h1[k] = h1[l] => k = l
                /\ \A i \in 1 .. Len(Q[1]) : Q[1][i] \notin finished =>
                       \E k \in 1 .. m1 : h1[k] = i
  <2>1. PICK h : TakenFrom(u1, Q[1], Len(Q[1]), h)
    BY <1>1, UnfinishedEntries
  <2>2. QED BY <2>1, LenProperties DEF TakenFrom
<1>3. PICK h2 : /\ u2 \in Seq(Threads) /\ m2 \in Nat
                /\ \A k \in 1 .. m2 : /\ h2[k] \in 1 .. Len(Q[2])
                                      /\ u2[k] = Q[2][h2[k]] /\ u2[k] \notin finished
                /\ \A k, l \in 1 .. m2 : h2[k] = h2[l] => k = l
                /\ \A i \in 1 .. Len(Q[2]) : Q[2][i] \notin finished =>
                       \E k \in 1 .. m2 : h2[k] = i
  <2>1. PICK h : TakenFrom(u2, Q[2], Len(Q[2]), h)
    BY <1>1, UnfinishedEntries
  <2>2. QED BY <2>1, LenProperties DEF TakenFrom
<1> HIDE DEF u1, u2
<1> DEFINE D == Boosted
<1>4. /\ D \in [Levels -> Seq(Threads)]
      /\ Len(D[0]) = n0 + m1 + m2 /\ Len(D[1]) = 0 /\ Len(D[2]) = 0
      /\ \A i \in 1 .. n0 : D[0][i] = Q[0][i]
      /\ \A k \in 1 .. m1 : D[0][n0 + k] = u1[k]
      /\ \A k \in 1 .. m2 : D[0][n0 + m1 + k] = u2[k]
  <2>1. /\ D[0] = (Q[0] \o u1) \o u2 /\ D[1] = <<>> /\ D[2] = <<>>
        /\ D = [q \in Levels |-> IF q = 0 THEN (Q[0] \o u1) \o u2 ELSE <<>>]
    BY <1>1 DEF Boosted, u1, u2
  <2> DEFINE a == Q[0] \o u1
  <2>2. /\ a \in Seq(Threads) /\ Len(a) = n0 + m1
        /\ \A i \in 1 .. n0 + m1 : a[i] = IF i <= n0 THEN Q[0][i] ELSE u1[i - n0]
    BY <1>1, <1>2, ConcatProperties
  <2>3. /\ a \o u2 \in Seq(Threads) /\ Len(a \o u2) = n0 + m1 + m2
        /\ \A i \in 1 .. n0 + m1 + m2 :
              (a \o u2)[i] = IF i <= n0 + m1 THEN a[i] ELSE u2[i - (n0 + m1)]
    <3> HIDE DEF a
    <3>1. u2 \in Seq(Threads) /\ Len(u2) = m2
      BY <1>3
    <3>2. a \in Seq(Threads) /\ Len(a) = n0 + m1
      BY <2>2
    <3> HIDE DEF n0, m1, m2
    <3>3. /\ a \o u2 \in Seq(Threads) /\ Len(a \o u2) = Len(a) + Len(u2)
          /\ \A i \in 1 .. Len(a) + Len(u2) :
                (a \o u2)[i] = IF i <= Len(a) THEN a[i] ELSE u2[i - Len(a)]
      BY ONLY <3>1, <3>2, ConcatProperties, Zenon
    <3>4. QED BY ONLY <3>1, <3>2, <3>3
  <2>4. D \in [Levels -> Seq(Threads)] /\ Len(D[1]) = 0 /\ Len(D[2]) = 0
    <3> HIDE DEF D, a
    <3> QED BY <2>1, <2>3, EmptySeq DEF a
  <2> HIDE DEF D, a
  <2>5. D[0] = a \o u2
    BY <2>1 DEF a
  <2>6. ASSUME NEW i \in 1 .. n0 PROVE D[0][i] = Q[0][i]
    <3>1. i \in 1 .. n0 + m1 /\ i \in 1 .. n0 + m1 + m2 /\ i <= n0 /\ i <= n0 + m1
      BY <1>1, <1>2, <1>3
    <3>2. QED BY <2>2, <2>3, <2>5, <3>1
  <2>7. ASSUME NEW k \in 1 .. m1 PROVE D[0][n0 + k] = u1[k]
    <3>1. /\ n0 + k \in 1 .. n0 + m1 /\ n0 + k \in 1 .. n0 + m1 + m2
          /\ ~(n0 + k <= n0) /\ n0 + k <= n0 + m1 /\ (n0 + k) - n0 = k
      BY <1>1, <1>2, <1>3
    <3>2. QED BY <2>2, <2>3, <2>5, <3>1
  <2>8. ASSUME NEW k \in 1 .. m2 PROVE D[0][n0 + m1 + k] = u2[k]
    <3>1. /\ n0 + m1 + k \in 1 .. n0 + m1 + m2
          /\ ~(n0 + m1 + k <= n0 + m1) /\ (n0 + m1 + k) - (n0 + m1) = k
      BY <1>1, <1>2, <1>3
    <3>2. QED BY <2>3, <2>5, <3>1
  <2>9. QED BY <2>3, <2>4, <2>5, <2>6, <2>7, <2>8
<1> DEFINE lev == [q \in Levels |-> [i \in Nat |->
                     IF i <= n0 THEN 0 ELSE IF i <= n0 + m1 THEN 1 ELSE 2]]
           pos == [q \in Levels |-> [i \in Nat |->
                     IF i <= n0 THEN i ELSE IF i <= n0 + m1 THEN h1[i - n0]
                     ELSE h2[i - (n0 + m1)]]]
<1> HIDE DEF D, Q, n0, m1, m2
<1>5. ASSUME NEW q, NEW i, Slot(D, q, i)
      PROVE  /\ q = 0 /\ i \in 1 .. n0 + m1 + m2
             /\ \/ i \in 1 .. n0
                \/ \E k \in 1 .. m1 : i = n0 + k
                \/ \E k \in 1 .. m2 : i = n0 + m1 + k
  <2>1. q = 0 /\ i \in 1 .. n0 + m1 + m2
    BY <1>1, <1>4, <1>5 DEF Slot
  <2>2. CASE i > n0 /\ i <= n0 + m1
    <3>1. i - n0 \in 1 .. m1 /\ i = n0 + (i - n0)
      BY <1>1, <1>2, <1>3, <2>1, <2>2
    <3>2. QED BY <2>1, <3>1
  <2>3. CASE i > n0 + m1
    <3>1. i - (n0 + m1) \in 1 .. m2 /\ i = n0 + m1 + (i - (n0 + m1))
      BY <1>1, <1>2, <1>3, <2>1, <2>3
    <3>2. QED BY <2>1, <3>1
  <2>4. CASE i <= n0
    BY <1>1, <1>2, <1>3, <2>1, <2>4
  <2>5. QED BY <1>1, <1>2, <1>3, <2>1, <2>2, <2>3, <2>4
<1>6. /\ \A i \in 1 .. n0 : lev[0][i] = 0 /\ pos[0][i] = i
      /\ \A k \in 1 .. m1 : lev[0][n0 + k] = 1 /\ pos[0][n0 + k] = h1[k]
      /\ \A k \in 1 .. m2 : lev[0][n0 + m1 + k] = 2 /\ pos[0][n0 + m1 + k] = h2[k]
  <2>1. ASSUME NEW i \in 1 .. n0 PROVE lev[0][i] = 0 /\ pos[0][i] = i
    BY <1>1
  <2>2. ASSUME NEW k \in 1 .. m1 PROVE lev[0][n0 + k] = 1 /\ pos[0][n0 + k] = h1[k]
    <3>1. n0 + k \in Nat /\ ~(n0 + k <= n0) /\ n0 + k <= n0 + m1 /\ (n0 + k) - n0 = k
      BY <1>1, <1>2
    <3>2. QED BY <1>1, <3>1
  <2>3. ASSUME NEW k \in 1 .. m2
        PROVE  lev[0][n0 + m1 + k] = 2 /\ pos[0][n0 + m1 + k] = h2[k]
    <3>1. /\ n0 + m1 + k \in Nat /\ ~(n0 + m1 + k <= n0) /\ ~(n0 + m1 + k <= n0 + m1)
          /\ (n0 + m1 + k) - (n0 + m1) = k
      BY <1>1, <1>2, <1>3
    <3>2. QED BY <1>1, <3>1
  <2>4. QED BY <2>1, <2>2, <2>3
<1> HIDE DEF lev, pos
<1> DEFINE Stays(i) == /\ i \in 1 .. n0 /\ lev[0][i] = 0 /\ pos[0][i] = i
                       /\ D[0][i] = Q[0][i]
           Moves1(i, k) == /\ k \in 1 .. m1 /\ i = n0 + k /\ lev[0][i] = 1
                           /\ pos[0][i] = h1[k] /\ D[0][i] = u1[k]
           Moves2(i, k) == /\ k \in 1 .. m2 /\ i = n0 + m1 + k /\ lev[0][i] = 2
                           /\ pos[0][i] = h2[k] /\ D[0][i] = u2[k]
<1>7. ASSUME NEW i, Slot(D, 0, i)
      PROVE  Stays(i) \/ (\E k : Moves1(i, k)) \/ (\E k : Moves2(i, k))
  <2>1. ASSUME i \in 1 .. n0 PROVE Stays(i)
    BY <1>4, <1>6, <2>1
  <2>2. ASSUME NEW k \in 1 .. m1, i = n0 + k PROVE Moves1(i, k)
    BY <1>4, <1>6, <2>2
  <2>3. ASSUME NEW k \in 1 .. m2, i = n0 + m1 + k PROVE Moves2(i, k)
    BY <1>4, <1>6, <2>3
  <2> HIDE DEF Stays, Moves1, Moves2
  <2>4. \/ i \in 1 .. n0
        \/ \E k \in 1 .. m1 : i = n0 + k
        \/ \E k \in 1 .. m2 : i = n0 + m1 + k
    BY <1>5, <1>7
  <2>5. CASE \E k \in 1 .. m1 : i = n0 + k
    <3>1. PICK k \in 1 .. m1 : i = n0 + k
      BY <2>5
    <3>2. Moves1(i, k)
      BY <2>2, <3>1
    <3>3. QED BY <3>2
  <2>6. CASE \E k \in 1 .. m2 : i = n0 + m1 + k
    <3>1. PICK k \in 1 .. m2 : i = n0 + m1 + k
      BY <2>6
    <3>2. Moves2(i, k)
      BY <2>3, <3>1
    <3>3. QED BY <3>2
  <2>7. QED BY <2>1, <2>4, <2>5, <2>6
<1>8. ASSUME NEW i, NEW j, Slot(D, 0, i), Slot(D, 0, j),
             lev[0][i] = lev[0][j], pos[0][i] = pos[0][j]
      PROVE  i = j
  <2> HIDE DEF Stays, Moves1, Moves2
  <2>1. Stays(j) \/ (\E k : Moves1(j, k)) \/ (\E k : Moves2(j, k))
    BY <1>7, <1>8
  <2> USE DEF Stays, Moves1, Moves2
  <2>2. CASE Stays(i)
    <3>1. Stays(j)
      BY <1>8, <2>1, <2>2
    <3>2. QED BY <1>8, <2>2, <3>1
  <2>3. ASSUME NEW k, Moves1(i, k)
        PROVE  i = j
    <3>1. PICK l : Moves1(j, l)
      BY <1>8, <2>1, <2>3
    <3>2. k = l
      BY <1>2, <1>8, <2>3, <3>1
    <3>3. QED BY <2>3, <3>1, <3>2
  <2>4. ASSUME NEW k, Moves2(i, k)
        PROVE  i = j
    <3>1. PICK l : Moves2(j, l)
      BY <1>8, <2>1, <2>4
    <3>2. k = l
      BY <1>3, <1>8, <2>4, <3>1
    <3>3. QED BY <2>4, <3>1, <3>2
  <2>5. QED
    <3> HIDE DEF Stays, Moves1, Moves2
    <3> QED BY <1>7, <1>8, <2>2, <2>3, <2>4
<1>9. ASSUME NEW q, NEW i, Slot(D, q, i)
       PROVE  Slot(Q, lev[q][i], pos[q][i]) /\ D[q][i] = Q[lev[q][i]][pos[q][i]]
  <2>1. q = 0 /\ Slot(D, 0, i)
    BY <1>5, <1>9
  <2>2. CASE Stays(i)
    BY <1>1, <2>1, <2>2 DEF Slot, n0
  <2>3. ASSUME NEW k, Moves1(i, k)
        PROVE  Slot(Q, lev[0][i], pos[0][i]) /\ D[0][i] = Q[lev[0][i]][pos[0][i]]
    <3>1. h1[k] \in 1 .. Len(Q[1]) /\ u1[k] = Q[1][h1[k]]
      BY <1>2, <2>3
    <3>2. QED BY <1>1, <2>3, <3>1 DEF Slot
  <2>4. ASSUME NEW k, Moves2(i, k)
        PROVE  Slot(Q, lev[0][i], pos[0][i]) /\ D[0][i] = Q[lev[0][i]][pos[0][i]]
    <3>1. h2[k] \in 1 .. Len(Q[2]) /\ u2[k] = Q[2][h2[k]]
      BY <1>3, <2>4
    <3>2. QED BY <1>1, <2>4, <3>1 DEF Slot
  <2>5. QED
    <3> HIDE DEF Stays, Moves1, Moves2
    <3> QED BY <1>7, <2>1, <2>2, <2>3, <2>4
<1> HIDE DEF Stays, Moves1, Moves2
<1>10. HoldsOnly(D, made) /\ Once(D, finished)
  <2>1. HoldsOnly(Q, made) /\ Once(Q, finished)
    BY DEF Books, Q
  <2>2. MovedFrom(D, Q, lev, pos)
    <3>1. \A q, i : Slot(D, q, i) =>
             Slot(Q, lev[q][i], pos[q][i]) /\ D[q][i] = Q[lev[q][i]][pos[q][i]]
      BY <1>9
    <3>2. ASSUME NEW q, NEW r, NEW i, NEW j, Slot(D, q, i), Slot(D, r, j),
                 lev[q][i] = lev[r][j], pos[q][i] = pos[r][j]
          PROVE  q = r /\ i = j
      <4>1. q = 0 /\ r = 0
        BY <1>5, <3>2
      <4>2. QED BY <4>1, <3>2, <1>8
    <3>3. QED BY <3>1, <3>2 DEF MovedFrom
  <2>3. QED BY <2>1, <2>2, MovedEntries, Zenon
<1>11. LowerDistinct(D)
  BY <1>5 DEF LowerDistinct
<1>12. ASSUME NEW t, t \notin finished, Queued(Q, t)
       PROVE  Queued(D, t)
  <2>1. PICK q, i : Slot(Q, q, i) /\ Q[q][i] = t
    BY <1>12 DEF Queued
  <2>2. SUFFICES \E j \in 1 .. n0 + m1 + m2 : D[0][j] = t
    BY <1>1, <1>4 DEF Queued, Slot
  <2>3. CASE q = 0
    <3>1. i \in 1 .. n0 /\ i \in 1 .. n0 + m1 + m2
      BY <1>1, <1>2, <1>3, <2>1, <2>3 DEF Slot, n0
    <3>2. QED BY <1>4, <2>1, <2>3, <3>1
  <2>4. CASE q = 1
    <3>1. PICK k \in 1 .. m1 : h1[k] = i
      BY <1>2, <1>12, <2>1, <2>4 DEF Slot
    <3>2. n0 + k \in 1 .. n0 + m1 + m2
      BY <1>1, <1>2, <1>3
    <3>3. D[0][n0 + k] = u1[k] /\ u1[k] = Q[1][h1[k]]
      BY <1>2, <1>4
    <3>4. D[0][n0 + k] = t
      BY <2>1, <2>4, <3>1, <3>3
    <3>5. QED BY <3>2, <3>4
  <2>5. CASE q = 2
    <3>1. PICK k \in 1 .. m2 : h2[k] = i
      BY <1>3, <1>12, <2>1, <2>5 DEF Slot
    <3>2. n0 + m1 + k \in 1 .. n0 + m1 + m2
      BY <1>1, <1>2, <1>3
    <3>3. D[0][n0 + m1 + k] = u2[k] /\ u2[k] = Q[2][h2[k]]
      BY <1>3, <1>4
    <3>4. D[0][n0 + m1 + k] = t
      BY <2>1, <2>5, <3>1, <3>3
    <3>5. QED BY <3>2, <3>4
  <2>6. QED BY <1>1, <2>1, <2>3, <2>4, <2>5 DEF Slot
<1>13. BoostFits(D, finished)
  <2>1. Below(D, finished) = {}
    BY <1>5 DEF Below
  <2>2. Cardinality(Below(D, finished)) = 0
    BY <2>1, FS_EmptySet
  <2>3. Below(Q, finished) \subseteq made
    BY DEF Below, Books, HoldsOnly, Q
  <2>4. IsFiniteSet(Below(Q, finished)) /\ Cardinality(Below(Q, finished)) \in Nat
    BY <2>3, FS_Subset, FS_CardinalityType
  <2> DEFINE g == [k \in 1 .. m1 + m2 |-> IF k <= m1 THEN u1[k] ELSE u2[k - m1]]
  <2>5. ASSUME NEW k \in 1 .. m1 + m2
        PROVE  D[0][n0 + k] = g[k] /\ Slot(D, 0, n0 + k) /\ g[k] \in Below(Q, finished)
    <3>1. Slot(D, 0, n0 + k)
      BY <1>1, <1>2, <1>3, <1>4 DEF Slot
    <3>2. CASE k <= m1
      <4>1. k \in 1 .. m1 /\ g[k] = u1[k]
        BY <1>2, <1>3, <3>2
      <4>2. u1[k] \in Threads /\ Slot(Q, 1, h1[k]) /\ Q[1][h1[k]] = u1[k] /\ u1[k] \notin finished
        BY <1>1, <1>2, <4>1, QueueFacts DEF Slot
      <4>3. g[k] \in Below(Q, finished)
        BY <4>1, <4>2 DEF Below
      <4>4. QED BY <1>4, <3>1, <4>1, <4>3
    <3>3. CASE ~(k <= m1)
      <4>1. k - m1 \in 1 .. m2 /\ g[k] = u2[k - m1] /\ n0 + k = n0 + m1 + (k - m1)
        BY <1>1, <1>2, <1>3, <3>3
      <4> DEFINE l == k - m1
      <4>2. l \in 1 .. m2 /\ g[k] = u2[l] /\ n0 + k = n0 + m1 + l
        BY <4>1
      <4> HIDE DEF l
      <4>3. u2[l] \in Threads /\ Slot(Q, 2, h2[l]) /\ Q[2][h2[l]] = u2[l] /\ u2[l] \notin finished
        BY <1>1, <1>3, <4>2, QueueFacts DEF Slot
      <4>4. g[k] \in Below(Q, finished)
        BY <4>2, <4>3 DEF Below
      <4>5. QED BY <1>4, <3>1, <4>2, <4>4
    <3>4. QED BY <3>2, <3>3
  <2>6. g \in Injection(1 .. m1 + m2, Below(Q, finished))
    <3>1. g \in [1 .. m1 + m2 -> Below(Q, finished)]
      BY <2>5
    <3> HIDE DEF g
    <3>2. ASSUME NEW k \in 1 .. m1 + m2, NEW l \in 1 .. m1 + m2, g[k] = g[l]
          PROVE  k = l
      <4>1. g[k] \notin finished
        BY <2>5 DEF Below
      <4>2. n0 + k = n0 + l
        BY <2>5, <3>2, <4>1, <1>10 DEF Once
      <4>3. QED BY <4>2, <1>1, <1>2, <1>3
    <3>3. QED BY <3>1, <3>2 DEF Injection, IsInjective
  <2>7. m1 + m2 <= Cardinality(Below(Q, finished))
    <3> HIDE DEF g
    <3>1. Cardinality(1 .. m1 + m2) <= Cardinality(Below(Q, finished))
      BY <2>4, <2>6, FS_Injection
    <3>2. Cardinality(1 .. m1 + m2) = m1 + m2
      <4>1. m1 + m2 \in Nat
        BY <1>2, <1>3
      <4>2. QED BY <4>1, FS_Interval
    <3>3. QED BY <3>1, <3>2
  <2>8. n0 + Cardinality(Below(Q, finished)) <= MAX_THREADS
    BY DEF Books, BoostFits, Q, n0
  <2>9. QED BY <1>1, <1>2, <1>3, <1>4, <2>2, <2>4, <2>7, <2>8, SchedAssumption DEF BoostFits
<1>14. QED BY <1>4, <1>10, <1>11, <1>12, <1>13 DEF Books, D, Q

\* What the fill loop appends to queue 0.
LEMMA FillEntries ==
    ASSUME TypeOK, QueueOK, NEW queue \in Seq(Threads)
    PROVE  LET n == Len(queue)
               d == queue \o [i \in 1 .. num_threads |-> thread_queue[i - 1]]
           IN  /\ d \in Seq(Threads) /\ Len(d) = n + num_threads
               /\ \A i \in 1 .. n + num_threads :
                      d[i] = IF i <= n THEN queue[i] ELSE thread_queue[i - n - 1]
<1> DEFINE fill == [i \in 1 .. num_threads |-> thread_queue[i - 1]]
           n == Len(queue)
<1>1. num_threads \in Nat /\ n \in Nat
  BY LenProperties DEF TypeOK
<1>2. fill \in [1 .. num_threads -> Threads]
  <2>1. \A i \in 1 .. num_threads : i - 1 \in Indices
    BY <1>1 DEF Indices
  <2>2. QED BY <2>1 DEF QueueOK
<1>3. fill \in Seq(Threads) /\ Len(fill) = num_threads
  <2> HIDE DEF fill
  <2> QED BY <1>1, <1>2
<1>4. \A i \in 1 .. n + num_threads : ~(i <= n) =>
          i - n \in 1 .. num_threads /\ fill[i - n] = thread_queue[i - n - 1]
  <2>1. \A i \in 1 .. n + num_threads : ~(i <= n) => i - n \in 1 .. num_threads
    BY <1>1
  <2>2. QED BY <2>1
<1>5. /\ queue \o fill \in Seq(Threads) /\ Len(queue \o fill) = n + num_threads
      /\ \A i \in 1 .. n + num_threads :
             (queue \o fill)[i] = IF i <= n THEN queue[i] ELSE fill[i - n]
  <2> HIDE DEF fill
  <2> QED BY <1>3, ConcatProperties
<1> HIDE DEF fill
<1>6. QED BY <1>4, <1>5 DEF fill

\* The fill of queue 0, when every thread that is still in a queue has
\* finished: the books are right, and every thread has an entry.
LEMMA StartedBooks ==
    ASSUME TypeOK, QueueOK, Books(mlfq_queues, finished, Created),
           \A t : Queued(mlfq_queues, t) => t \in finished,
           Len(mlfq_queues[0]) + num_threads <= MAX_THREADS,
           NEW D \in [Levels -> Seq(Threads)],
           Len(D[0]) = Len(mlfq_queues[0]) + num_threads,
           \A i \in 1 .. Len(mlfq_queues[0]) + num_threads :
               D[0][i] = IF i <= Len(mlfq_queues[0]) THEN mlfq_queues[0][i]
                         ELSE thread_queue[i - Len(mlfq_queues[0]) - 1],
           \A q \in Levels \ {0} : D[q] = mlfq_queues[q]
    PROVE  /\ Books(D, finished, Created)
           /\ \A t \in Created : Queued(D, t)
<1> DEFINE Q == mlfq_queues
           n == Len(Q[0])
           m == num_threads
<1>1. /\ Q \in [Levels -> Seq(Threads)] /\ Levels = {0, 1, 2}
      /\ n \in Nat /\ m \in Nat
  <2>1. Q \in [Levels -> Seq(Threads)]
    BY DEF Books
  <2>2. Levels = {0, 1, 2} /\ n \in Nat
    BY <2>1, QueueFacts
  <2>3. m \in Nat
    BY SchedAssumption DEF TypeOK
  <2>4. QED BY <2>1, <2>2, <2>3
<1>2. \A i \in 1 .. m : i - 1 \in Indices
  BY <1>1 DEF Indices
<1>3. /\ Len(D[0]) = n + m
      /\ \A q \in Levels : q # 0 => D[q] = Q[q]
      /\ \A i \in 1 .. n + m : D[0][i] = IF i <= n THEN Q[0][i] ELSE thread_queue[i - n - 1]
  OBVIOUS
<1> HIDE DEF Q, n, m
<1>4. ASSUME NEW q, NEW i, Slot(D, q, i)
      PROVE  \/ Slot(Q, q, i) /\ D[q][i] = Q[q][i] /\ D[q][i] \in finished
             \/ /\ q = 0 /\ i \in n + 1 .. n + m /\ i - n - 1 \in Indices
                /\ D[q][i] = thread_queue[i - n - 1]
  <2>1. CASE q = 0 /\ ~(i <= n)
    <3>1. i \in n + 1 .. n + m /\ i \in 1 .. n + m
      BY <1>1, <1>3, <1>4, <2>1 DEF Slot
    <3>2. i - n \in 1 .. m
      BY <1>1, <3>1
    <3>3. QED BY <1>2, <1>3, <2>1, <3>1, <3>2
  <2>2. CASE ~(q = 0 /\ ~(i <= n))
    <3>0. q \in Levels /\ i \in 1 .. Len(D[q])
      BY <1>4 DEF Slot
    <3>1. Slot(Q, q, i) /\ D[q][i] = Q[q][i]
      <4>1. CASE q = 0
        <5>1. i \in 1 .. n + m /\ i <= n
          BY <1>3, <2>2, <3>0, <4>1
        <5>2. i \in 1 .. n /\ D[0][i] = Q[0][i]
          BY <1>1, <1>3, <5>1
        <5>3. QED BY <1>1, <4>1, <5>2 DEF Slot, n
      <4>2. CASE q # 0
        BY <1>3, <3>0, <4>2 DEF Slot
      <4>3. QED BY <4>1, <4>2
    <3>2. Q[q][i] \in finished
      BY <3>1 DEF Queued, Q
    <3>3. QED BY <3>1, <3>2
  <2>3. QED BY <2>1, <2>2
<1>5. HoldsOnly(D, Created)
  <2>1. HoldsOnly(Q, Created)
    BY DEF Books, Q
  <2>2. \A i \in Indices : thread_queue[i] \in Created
    BY DEF Created
  <2>3. QED BY <1>4, <2>1, <2>2 DEF HoldsOnly
<1>6. Once(D, finished)
  <2> SUFFICES ASSUME NEW q, NEW r, NEW i, NEW j, Slot(D, q, i), Slot(D, r, j),
                      D[q][i] = D[r][j], D[q][i] \notin finished
               PROVE  q = r /\ i = j
    BY DEF Once
  <2>1. /\ q = 0 /\ i \in n + 1 .. n + m /\ i - n - 1 \in Indices
        /\ D[q][i] = thread_queue[i - n - 1]
    BY <1>4
  <2>2. /\ r = 0 /\ j \in n + 1 .. n + m /\ j - n - 1 \in Indices
        /\ D[r][j] = thread_queue[j - n - 1]
    BY <1>4
  <2>3. i - n - 1 = j - n - 1
    BY <2>1, <2>2 DEF QueueOK
  <2>4. QED BY <1>1, <2>1, <2>2, <2>3
<1>7. LowerDistinct(D)
  <2>1. LowerDistinct(Q)
    BY DEF Books, Q
  <2>2. QED BY <1>4, <2>1 DEF LowerDistinct
<1>8. BoostFits(D, finished)
  <2>1. Below(D, finished) = {}
    BY <1>4 DEF Below
  <2>2. Cardinality(Below(D, finished)) = 0
    BY <2>1, FS_EmptySet
  <2>3. QED BY <1>1, <1>3, <2>2, SchedAssumption DEF BoostFits, n, m, Q
<1>9. ASSUME NEW t \in Created PROVE Queued(D, t)
  <2>1. PICK k \in Indices : thread_queue[k] = t
    BY DEF Created
  <2> DEFINE i == n + k + 1
  <2>2. i \in 1 .. n + m /\ ~(i <= n) /\ i - n - 1 = k
    BY <1>1 DEF Indices, m
  <2>3. D[0][i] = t
    BY <1>3, <2>1, <2>2
  <2> HIDE DEF i
  <2>4. Slot(D, 0, i)
    BY <1>1, <1>3, <2>2 DEF Slot
  <2>5. QED BY <2>3, <2>4 DEF Queued
<1>10. QED BY <1>3, <1>5, <1>6, <1>7, <1>8, <1>9 DEF Books

\* Empty queues are in order.
LEMMA EmptyBooks ==
    ASSUME mlfq_queues = [q \in Levels |-> <<>>]
    PROVE  /\ Books(mlfq_queues, finished, Created)
           /\ \A t : ~Queued(mlfq_queues, t)
<1>1. \A q \in Levels : mlfq_queues[q] = <<>> /\ Len(mlfq_queues[q]) = 0
  OBVIOUS
<1>2. mlfq_queues \in [Levels -> Seq(Threads)]
  BY EmptySeq
<1>3. \A q, i : ~Slot(mlfq_queues, q, i)
  BY <1>1 DEF Slot
<1>4. Cardinality(Below(mlfq_queues, finished)) = 0
  <2>1. Below(mlfq_queues, finished) = {}
    BY <1>3 DEF Below
  <2>2. QED BY <2>1, FS_EmptySet
<1>5. Len(mlfq_queues[0]) = 0
  BY <1>1 DEF Levels, NUM_QUEUES
<1>6. BoostFits(mlfq_queues, finished)
  BY <1>4, <1>5, SchedAssumption DEF BoostFits
<1>7. QED
  BY <1>2, <1>3, <1>6 DEF Books, HoldsOnly, Once, LowerDistinct, Queued

-----------------------------------------------------------------------------
\* The library under MLFQ: what a thread, or main() outside the loop, may do.
LibraryMoves ==
    /\ TypeOK' /\ QueueOK'
    /\ system_policy' = system_policy
    /\ finished \subseteq finished' /\ finished' \subseteq Created'
    /\ Created \subseteq Created'
    /\ \A t \in Threads : context'[t] = t
    /\ UNCHANGED <<current_thread, scheduler_context>>
    /\ cpu' \in {cpu, Main}
    /\ pc'[Main] = pc[Main] \/ {pc[Main], pc'[Main]} \subseteq {"after", "join"}

\* Whoever calls the library is main() after the loop, or the current thread.
LEMMA WhoRuns ==
    ASSUME Looping
    PROVE  \/ cpu = Main /\ loop # "off" /\ pc[cpu] = "start"
           \/ cpu = Main /\ loop = "off" /\ pc[cpu] \in {"after", "join"}
           \/ /\ cpu = current_thread /\ cpu \in Threads /\ cpu # Main
              /\ loop = "charge" /\ scheduler_context = Main
BY SchedAssumption DEF Looping, OffOK, TurnOK, LoopTypeOK

\* A thread creates another one while the loop runs.
LEMMA CreateMoves ==
    ASSUME Looping, NEW t \in Threads, Create(t)
    PROVE  LibraryMoves
<1> USE SchedAssumption
<1>1. /\ At("task") /\ t \notin Created /\ scheduler_add_thread(t)
      /\ UNCHANGED <<current_index, current_thread, finished, system_policy,
                     context, scheduler_context, cpu, target, calls>>
      /\ pc' = IF num_threads < MAX_THREADS THEN [pc EXCEPT ![t] = "task"] ELSE pc
  BY DEF Create, nqp_thread_create
<1>2. LibraryOK
  BY DEF Looping
<1>3. CASE num_threads = MAX_THREADS
  <2>1. /\ status' = "failed" /\ pc' = pc
        /\ UNCHANGED <<thread_queue, num_threads>>
    BY <1>1, <1>3 DEF scheduler_add_thread
  <2>2. QED
    BY <1>1, <1>2, <2>1 DEF LibraryOK, LibraryMoves, TypeOK, Statuses, QueueOK,
                            Indices, Created
<1>4. CASE num_threads < MAX_THREADS
  <2>1. /\ thread_queue' = [thread_queue EXCEPT ![num_threads] = t]
        /\ num_threads' = num_threads + 1
        /\ status' = status
        /\ pc' = [pc EXCEPT ![t] = "task"]
    BY <1>1, <1>4 DEF scheduler_add_thread
  <2>2. num_threads \in 0 .. MAX_THREADS - 1 /\ num_threads \in Nat
    BY <1>2, <1>4 DEF LibraryOK, TypeOK
  <2>3. TypeOK'
    BY <1>1, <1>2, <2>1, <2>2 DEF LibraryOK, TypeOK, Flows, Labels
  <2>4. /\ Indices' = Indices \cup {num_threads}
        /\ num_threads \notin Indices
        /\ Indices \subseteq 0 .. MAX_THREADS - 1
    BY <2>1, <2>2 DEF Indices
  <2>5. /\ thread_queue'[num_threads] = t
        /\ \A i \in Indices : thread_queue'[i] = thread_queue[i]
    BY <1>2, <2>1, <2>2, <2>4 DEF LibraryOK, TypeOK
  <2>6. Created' = Created \cup {t}
    BY <2>4, <2>5 DEF Created
  <2>7. QueueOK'
    BY <1>1, <1>2, <2>4, <2>5 DEF LibraryOK, QueueOK, Created
  <2>8. pc'[Main] = pc[Main]
    BY <1>2, <2>1 DEF LibraryOK, TypeOK, Flows
  <2>9. QED BY <1>1, <1>2, <2>3, <2>6, <2>7, <2>8 DEF LibraryOK, LibraryMoves
<1>5. num_threads < MAX_THREADS \/ num_threads = MAX_THREADS
  BY <1>2 DEF LibraryOK, TypeOK
<1>6. QED BY <1>3, <1>4, <1>5

\* A thread gives the CPU back to the loop, perhaps after it has been marked.
LEMMA YieldMoves ==
    ASSUME Looping, NEW fin, nqp_yield(fin), cpu # Main,
           finished \subseteq finished', finished' \subseteq finished \cup {cpu},
           pc' \in [Flows -> Labels], pc'[Main] = pc[Main],
           calls' \in [Flows -> 0 .. MaxCalls],
           UNCHANGED <<thread_queue, num_threads, system_policy, status, target>>
    PROVE  LibraryMoves
<1> USE SchedAssumption
<1>1. LibraryOK
  BY DEF Looping
<1>2. /\ cpu = current_thread /\ cpu \in Threads /\ scheduler_context = Main
      /\ cpu \in Created
  <2>1. /\ cpu = current_thread /\ cpu \in Threads /\ scheduler_context = Main
        /\ loop = "charge"
    BY WhoRuns
  <2>2. cpu = mlfq_queues[picked.level][picked.idx + 1]
    BY <2>1 DEF Looping, TurnOK
  <2>3. QED BY <2>1, <2>2 DEF Looping, TurnOK, QueuesOK, Books, HoldsOnly
<1>3. YieldMlfq
  BY <1>1, <1>2 DEF nqp_yield, LibraryOK
<1>4. /\ context' = [context EXCEPT ![current_thread] = cpu]
      /\ cpu' = Main
      /\ UNCHANGED <<current_index, current_thread, scheduler_context>>
  BY <1>2, <1>3 DEF YieldMlfq, swap_to_scheduler
<1>5. context' \in [Threads -> Flows] /\ \A t \in Threads : context'[t] = t
  BY <1>1, <1>2, <1>4 DEF LibraryOK, TypeOK, Flows
<1>6. Created' = Created /\ QueueOK'
  BY <1>1 DEF Created, Indices, LibraryOK, QueueOK
<1>7. TypeOK'
  <2>1. finished' \subseteq Threads /\ cpu' \in Flows
    BY <1>1, <1>2, <1>4 DEF LibraryOK, TypeOK, Flows
  <2>2. QED BY <1>1, <1>4, <1>5, <2>1 DEF LibraryOK, TypeOK
<1>8. QED BY <1>1, <1>2, <1>4, <1>5, <1>6, <1>7 DEF LibraryMoves, LibraryOK

\* The steps of the program that call nqp_yield.
LEMMA YieldsMove ==
    ASSUME Looping, Yield \/ JoinYield \/ ExitCall \/ thread_wrapper
    PROVE  LibraryMoves
<1> USE SchedAssumption
<1>1. cpu # Main
  BY WhoRuns DEF Yield, JoinYield, ExitCall, thread_wrapper, At
<1>2. cpu = current_thread /\ cpu \in Threads
  BY <1>1, WhoRuns
<1>3. LibraryOK
  BY DEF Looping
<1>4. CASE Yield \/ JoinYield
  <2>1. /\ nqp_yield(finished)
        /\ calls' \in [Flows -> 0 .. MaxCalls]
        /\ UNCHANGED <<thread_queue, num_threads, finished, system_policy, status,
                       pc, target>>
    <3>1. calls \in [Flows -> 0 .. MaxCalls] /\ MaxCalls \in Nat
      BY <1>3, ProgramAssumption DEF LibraryOK, TypeOK
    <3>2. CASE Yield
      <4>1. calls' = calls \/ CountCall
        BY <3>2 DEF Yield, CountYield
      <4>2. calls' \in [Flows -> 0 .. MaxCalls]
        BY <3>1, <4>1 DEF CountCall
      <4>3. QED BY <3>2, <4>2 DEF Yield
    <3>3. CASE JoinYield
      BY <3>1, <3>3 DEF JoinYield, progVars
    <3>4. QED BY <1>4, <3>2, <3>3
  <2>2. pc' \in [Flows -> Labels]
    BY <1>3, <2>1 DEF LibraryOK, TypeOK
  <2>3. QED BY <1>1, <2>1, <2>2, YieldMoves
<1>5. CASE ExitCall \/ thread_wrapper
  <2>1. /\ nqp_exit({}) \/ nqp_exit({cpu})
        /\ pc' = [pc EXCEPT ![cpu] = "exit"]
        /\ UNCHANGED <<target, calls>>
    BY <1>5 DEF ExitCall, thread_wrapper, Goto
  <2>2. /\ finished' = finished \cup {cpu}
        /\ \E fin : nqp_yield(fin)
        /\ UNCHANGED <<thread_queue, num_threads, system_policy, status>>
    <3>1. CASE nqp_exit({})
      <4>1. finished \cup {} \cup ({current_thread} \ {NULL}) = finished \cup {cpu}
        BY <1>2
      <4>2. QED BY <3>1, <4>1 DEF nqp_exit
    <3>2. CASE nqp_exit({cpu})
      <4>1. finished \cup {cpu} \cup ({current_thread} \ {NULL}) = finished \cup {cpu}
        BY <1>2
      <4>2. QED BY <3>2, <4>1 DEF nqp_exit
    <3>3. QED BY <2>1, <3>1, <3>2
  <2>3. /\ pc' \in [Flows -> Labels] /\ pc'[Main] = pc[Main]
        /\ calls' \in [Flows -> 0 .. MaxCalls]
    BY <1>1, <1>3, <2>1 DEF LibraryOK, TypeOK, Labels, Flows
  <2>4. PICK fin : nqp_yield(fin)
    BY <2>2
  <2>5. QED BY <1>1, <2>1, <2>2, <2>3, <2>4, YieldMoves
<1>6. QED BY <1>4, <1>5

\* The joins that do not yield, the end of the process, and what follows it.
LEMMA ControlMoves ==
    ASSUME Looping,
           JoinReturn \/ ProcessExit \/ UNCHANGED vars \/ (\E t \in Threads : JoinCall(t))
    PROVE  LibraryMoves
<1> USE SchedAssumption, ProgramAssumption
<1>1. LibraryOK
  BY DEF Looping
<1>2. CASE ProcessExit \/ UNCHANGED vars
  <2>1. /\ UNCHANGED <<thread_queue, num_threads, current_index, current_thread,
                       finished, system_policy, context, scheduler_context, cpu,
                       pc, target, calls>>
        /\ status' = status \/ status' = "exited"
    BY <1>2 DEF ProcessExit, ExitProcess, progVars, vars, schedVars
  <2>2. QED
    BY <1>1, <2>1 DEF LibraryOK, LibraryMoves, TypeOK, Statuses, QueueOK, Indices, Created
<1>3. CASE JoinReturn \/ (\E t \in Threads : JoinCall(t))
  <2>1. PICK l \in {"after", "join", "task"} :
           /\ pc' = [pc EXCEPT ![cpu] = l]
           /\ cpu = Main => l \in {"after", "join"} /\ pc[cpu] \in {"after", "join"}
    BY <1>3 DEF JoinReturn, JoinCall, At, Goto
  <2>2. /\ UNCHANGED schedVars
        /\ target' \in [Flows -> Threads \cup {NULL}]
        /\ calls' \in [Flows -> 0 .. MaxCalls]
    <3>1. CASE JoinReturn
      BY <1>1, <3>1 DEF JoinReturn, LibraryOK, TypeOK
    <3>2. ASSUME NEW t \in Threads, JoinCall(t)
          PROVE  /\ UNCHANGED schedVars
                 /\ target' \in [Flows -> Threads \cup {NULL}]
                 /\ calls' \in [Flows -> 0 .. MaxCalls]
      <4>1. UNCHANGED schedVars /\ CountCall /\ target' = [target EXCEPT ![cpu] = t]
        BY <3>2 DEF JoinCall
      <4>2. calls' \in [Flows -> 0 .. MaxCalls]
        BY <1>1, <4>1 DEF CountCall, LibraryOK, TypeOK
      <4>3. QED BY <1>1, <4>1, <4>2 DEF LibraryOK, TypeOK
    <3>3. QED BY <1>3, <3>1, <3>2
  <2>3. pc' \in [Flows -> Labels]
    BY <1>1, <2>1 DEF LibraryOK, TypeOK, Labels
  <2>4. pc'[Main] = pc[Main] \/ {pc[Main], pc'[Main]} \subseteq {"after", "join"}
    BY <1>1, <2>1 DEF LibraryOK, TypeOK, Flows
  <2>5. TypeOK' /\ QueueOK'
    BY <1>1, <2>2, <2>3 DEF LibraryOK, TypeOK, QueueOK, Indices, schedVars
  <2>6. Created' = Created /\ finished' = finished /\ context' = context /\ cpu' = cpu
    BY <2>2 DEF Created, Indices, schedVars
  <2>7. QED
    BY <1>1, <2>2, <2>4, <2>5, <2>6 DEF LibraryOK, LibraryMoves, schedVars
<1>4. QED BY <1>2, <1>3

\* So the library makes no other step once the loop has been entered.
LEMMA NextMoves ==
    ASSUME Looping, [Next]_vars
    PROVE  LibraryMoves
<1>1. ~Start /\ ~StartReturns
  BY DEF Looping, LibraryOK, Start, nqp_sched_start, StartReturns
<1>2. ASSUME NEW policy, InitSched(policy) PROVE FALSE
  BY <1>2, WhoRuns DEF InitSched, At
<1>3. ASSUME NEW t \in Threads, Create(t) PROVE LibraryMoves
  BY <1>3, CreateMoves
<1>4. CASE Yield \/ JoinYield \/ ExitCall \/ thread_wrapper
  BY <1>4, YieldsMove
<1>5. CASE JoinReturn \/ ProcessExit \/ UNCHANGED vars \/ (\E t \in Threads : JoinCall(t))
  BY <1>5, ControlMoves
<1>6. QED BY <1>1, <1>2, <1>3, <1>4, <1>5 DEF Next, ProgramNext, Ended

\* And none of its steps disturbs the loop.
LEMMA MovesLooping ==
    ASSUME Looping, LibraryMoves, UNCHANGED mlfqVars
    PROVE  Looping'
<1>1. LibraryOK'
  BY DEF LibraryMoves, LibraryOK, Looping
<1>2. LoopTypeOK'
  BY DEF LoopTypeOK, Looping, mlfqVars, clockVars
<1>3. OffOK'
  BY DEF OffOK, TurnOK, Looping, mlfqVars, startVars, LibraryMoves, Queued, Slot
<1>4. TurnOK'
  BY DEF TurnOK, Looping, mlfqVars, LibraryMoves, Slot
<1>5. QueuesOK'
  <2>1. IsFiniteSet(Created)
    BY CreatedCardinality DEF Looping, LibraryOK
  <2>2. Books(mlfq_queues, finished', Created')
    BY <2>1, BooksGrow DEF Looping, QueuesOK, LibraryMoves
  <2>3. mlfq_queues' = mlfq_queues /\ loop' = loop /\ enqueued' = enqueued
    BY DEF mlfqVars, startVars
  <2>4. Books(mlfq_queues', finished', Created')
    BY <2>2, <2>3
  <2>5. QED
    BY <2>3, <2>4 DEF Looping, QueuesOK, LibraryMoves, Books, Queued, Slot,
       HoldsOnly, Once, LowerDistinct, BoostFits, Below
<1>6. QED BY <1>1, <1>2, <1>3, <1>4, <1>5 DEF Looping
-----------------------------------------------------------------------------
\* Every queue fits its array.
LEMMA SizesBound ==
    ASSUME LibraryOK, Books(mlfq_queues, finished, Created)
    PROVE  /\ IsFiniteSet(Created)
           /\ \A q \in Levels : size(q) \in Nat /\ size(q) <= MAX_THREADS
<1>1. IsFiniteSet(Created) /\ Cardinality(Created) = num_threads
  BY CreatedCardinality DEF LibraryOK
<1>2. num_threads \in Nat /\ num_threads <= MAX_THREADS
  BY SchedAssumption DEF LibraryOK, TypeOK
<1>3. ASSUME NEW q \in Levels
      PROVE  size(q) \in Nat /\ size(q) <= MAX_THREADS
  <2>1. /\ Len(mlfq_queues[q]) \in Nat
        /\ q # 0 => Len(mlfq_queues[q]) <= Cardinality(Created)
        /\ q = 0 => Len(mlfq_queues[q]) <= MAX_THREADS
    BY <1>1, BooksBound
  <2>2. QED BY <1>1, <1>2, <2>1, SchedAssumption DEF size
<1>4. QED BY <1>1, <1>3

\* The entry whose turn it is, of the first queue that is not empty.
LEMMA PickedEntry ==
    ASSUME Looping, NonEmpty # {}
    PROVE  /\ Picked \in [level : Levels, idx : 0 .. MAX_THREADS - 1, next : Threads]
           /\ Picked.level \in Levels /\ size(Picked.level) \in Nat \ {0}
           /\ size(Picked.level) <= MAX_THREADS
           /\ Picked.idx \in 0 .. size(Picked.level) - 1
           /\ Picked.next = mlfq_queues[Picked.level][Picked.idx + 1]
           /\ Slot(mlfq_queues, Picked.level, Picked.idx + 1)
           /\ Picked.next \in Threads
<1> DEFINE l == Min(NonEmpty)
           i == rr_indices[l] % size(l)
<1>1. Levels = {0, 1, 2} /\ NonEmpty \in SUBSET Nat
  BY DEF Levels, NUM_QUEUES, NonEmpty
<1>2. l \in NonEmpty
  BY <1>1, MinIsLeast
<1>3. LibraryOK /\ Books(mlfq_queues, finished, Created) /\ LoopTypeOK
  BY DEF Looping, QueuesOK
<1>4. l \in Levels /\ size(l) \in Nat \ {0} /\ size(l) <= MAX_THREADS
  BY <1>2, <1>3, SizesBound DEF NonEmpty
<1>5. rr_indices[l] \in Nat
  BY <1>3, <1>4 DEF LoopTypeOK
<1> HIDE DEF l
<1>6. i \in 0 .. size(l) - 1
  BY <1>4, <1>5, RingIndex
<1>7. Picked = [level |-> l, idx |-> i, next |-> mlfq_queues[l][i + 1]]
  BY DEF Picked, l
<1> HIDE DEF i
<1>8. i \in 0 .. MAX_THREADS - 1 /\ i + 1 \in 1 .. size(l)
  BY <1>4, <1>6, SchedAssumption
<1>9. Slot(mlfq_queues, l, i + 1)
  BY <1>4, <1>8 DEF Slot, size
<1>10. mlfq_queues[l][i + 1] \in Threads
  BY <1>3, <1>9, QueueFacts DEF Books
<1>11. QED BY <1>4, <1>6, <1>7, <1>8, <1>9, <1>10

\* The turn of a queue stays within its entries.
LEMMA TurnAdvances ==
    ASSUME Looping, NonEmpty # {}, AdvanceTurn
    PROVE  rr_indices' \in [Levels -> 0 .. MAX_THREADS - 1]
<1> DEFINE l == Picked.level
<1>1. l \in Levels /\ size(l) \in Nat \ {0} /\ size(l) <= MAX_THREADS
  BY PickedEntry
<1>2. rr_indices \in [Levels -> 0 .. MAX_THREADS - 1]
  BY DEF Looping, LoopTypeOK
<1>3. rr_indices' = [rr_indices EXCEPT ![l] = (rr_indices[l] + 1) % size(l)]
  BY DEF AdvanceTurn
<1> HIDE DEF l
<1>4. (rr_indices[l] + 1) % size(l) \in 0 .. MAX_THREADS - 1
  <2>1. rr_indices[l] + 1 \in Nat
    BY <1>1, <1>2
  <2>2. (rr_indices[l] + 1) % size(l) \in 0 .. size(l) - 1
    BY <1>1, <2>1, RingIndex
  <2>3. QED BY <1>1, <2>2, SchedAssumption
<1>5. QED BY <1>2, <1>3, <1>4

\* A step of the loop that leaves the library and its program alone.
LEMMA LibraryUnchanged ==
    ASSUME Looping, UNCHANGED vars
    PROVE  /\ LibraryOK' /\ Created' = Created
           /\ UNCHANGED <<finished, cpu, pc, current_thread, scheduler_context>>
BY DEF Looping, LibraryOK, TypeOK, QueueOK, Indices, Created, vars, schedVars, progVars

\* nqp_sched_start fills queue 0 and enters the loop.
LEMMA StartMlfqKeeps ==
    ASSUME MInv, StartMlfq
    PROVE  Looping'
<1> USE SchedAssumption
<1>1. /\ At("task") \/ At("after")
      /\ cpu = Main /\ system_policy = "MLFQ"
      /\ num_threads > 0 /\ size(0) + num_threads <= MAX_THREADS
      /\ mlfq_queues' = [mlfq_queues EXCEPT ![0] =
                          mlfq_queues[0] \o [i \in 1 .. num_threads |-> thread_queue[i - 1]]]
      /\ elapsed' = 0 /\ loop' = "top" /\ enqueued' = Created
      /\ pc' = [pc EXCEPT ![cpu] = "start"]
      /\ UNCHANGED <<schedVars, target, calls, rr_indices, settings, picked>>
  BY DEF StartMlfq, CallsStart, Goto
<1>2. /\ LibraryOK /\ Books(mlfq_queues, finished, Created)
      /\ \A t \in Threads : Queued(mlfq_queues, t) => t \in finished
      /\ LoopTypeOK
  <2>1. CASE Looping
    <3>1. loop = "off"
      BY <1>1, <2>1, WhoRuns DEF At
    <3>2. QED BY <2>1, <3>1 DEF Looping, OffOK, QueuesOK
  <2>2. CASE Idle /\ settings \in 0 .. MaxSettings /\ elapsed \in Int
    <3>1. LibraryOK
      BY <1>1, <2>2 DEF Idle, IInv, LibraryOK, CurrentOK, FinishedOK
    <3>2. Books(mlfq_queues, finished, Created) /\ \A t : ~Queued(mlfq_queues, t)
      BY <2>2, EmptyBooks DEF Idle
    <3>3. LoopTypeOK
      BY <2>2 DEF Idle, LoopTypeOK, NothingPicked, Levels, NUM_QUEUES
    <3>4. QED BY <3>1, <3>2, <3>3
  <2>3. QED BY <2>1, <2>2 DEF MInv
<1>3. \A t : Queued(mlfq_queues, t) => t \in finished
  BY <1>2, QueueFacts DEF Queued, Books
<1> DEFINE n == Len(mlfq_queues[0])
<1>4. /\ mlfq_queues \in [Levels -> Seq(Threads)] /\ Levels = {0, 1, 2}
      /\ mlfq_queues[0] \in Seq(Threads)
  BY <1>2, QueueFacts DEF Books
<1>5. /\ mlfq_queues' \in [Levels -> Seq(Threads)]
      /\ Len(mlfq_queues'[0]) = n + num_threads
      /\ \A i \in 1 .. n + num_threads :
             mlfq_queues'[0][i] = IF i <= n THEN mlfq_queues[0][i]
                                  ELSE thread_queue[i - n - 1]
      /\ \A q \in Levels \ {0} : mlfq_queues'[q] = mlfq_queues[q]
  <2> DEFINE d == mlfq_queues[0] \o [i \in 1 .. num_threads |-> thread_queue[i - 1]]
  <2>1. /\ d \in Seq(Threads) /\ Len(d) = n + num_threads
        /\ \A i \in 1 .. n + num_threads :
               d[i] = IF i <= n THEN mlfq_queues[0][i] ELSE thread_queue[i - n - 1]
    BY <1>2, <1>4, FillEntries DEF LibraryOK
  <2>2. mlfq_queues' = [mlfq_queues EXCEPT ![0] = d]
    BY <1>1
  <2> HIDE DEF d
  <2>3. QED BY <1>4, <2>1, <2>2
<1>6. Books(mlfq_queues', finished, Created) /\ \A t \in Created : Queued(mlfq_queues', t)
  <2>1. TypeOK /\ QueueOK /\ Books(mlfq_queues, finished, Created)
        /\ Len(mlfq_queues[0]) + num_threads <= MAX_THREADS
    BY <1>1, <1>2 DEF LibraryOK, size
  <2>2. QED BY <1>3, <1>5, <2>1, StartedBooks
<1>7. LibraryOK' /\ Created' = Created /\ finished' = finished /\ cpu' = cpu
  BY <1>1, <1>2 DEF LibraryOK, TypeOK, QueueOK, Indices, Created, schedVars, Labels, Flows
<1>8. LoopTypeOK'
  BY <1>1, <1>2 DEF LoopTypeOK
<1>9. OffOK' /\ TurnOK'
  BY <1>1, <1>2, <1>7 DEF OffOK, TurnOK, LibraryOK, TypeOK, Flows
<1>10. QueuesOK'
  <2>1. Books(mlfq_queues', finished', Created')
    BY <1>6, <1>7
  <2>2. \A t \in Created : Queued(mlfq_queues', t)
    BY <1>6
  <2>3. QED
    BY <1>1, <1>7, <2>1, <2>2 DEF QueuesOK, Books, Queued, Slot,
       HoldsOnly, Once, LowerDistinct, BoostFits, Below
<1>11. QED BY <1>7, <1>8, <1>9, <1>10 DEF Looping

\* The other outcomes of nqp_sched_start, and the resumption of its frame.
LEMMA NoStartKeeps ==
    ASSUME MInv, StartOverrun \/ StartEmpty \/ ResumeReturnedFrame
    PROVE  MInv'
<1> USE SchedAssumption
<1>1. CASE StartOverrun \/ ResumeReturnedFrame
  <2>1. /\ status' = "undefined"
        /\ UNCHANGED <<thread_queue, num_threads, current_index, current_thread,
                       finished, system_policy, context, scheduler_context, cpu,
                       pc, target, calls, mlfqVars>>
    BY <1>1 DEF StartOverrun, ResumeReturnedFrame, progVars
  <2>2. CASE Looping
    <3>1. LibraryMoves
      BY <2>1, <2>2 DEF LibraryMoves, Looping, LibraryOK, TypeOK, Statuses, QueueOK,
                        Indices, Created
    <3>2. QED BY <2>1, <2>2, <3>1, MovesLooping DEF MInv
  <2>3. CASE Idle /\ settings \in 0 .. MaxSettings /\ elapsed \in Int
    <3>1. IInv'
      BY <2>1, <2>3 DEF Idle, IInv, TypeOK, Statuses, QueueOK, CurrentOK, FinishedOK,
                        MainOK, PrefixOK, Indices, Created
    <3>2. QED
      BY <2>1, <2>3, <3>1 DEF MInv, Idle, mlfqVars, clockVars, startVars
  <2>4. QED BY <2>2, <2>3 DEF MInv
<1>2. CASE StartEmpty
  <2>1. /\ At("task") \/ At("after")
        /\ cpu = Main /\ num_threads = 0
        /\ pc' = [pc EXCEPT ![cpu] = "after"]
        /\ UNCHANGED <<schedVars, target, calls, mlfq_queues, rr_indices, clockVars,
                       picked, loop, enqueued>>
    BY <1>2 DEF StartEmpty, CallsStart, Goto
  <2>2. CASE Looping
    <3>1. loop = "off"
      BY <2>1, <2>2, WhoRuns DEF At
    <3>2. LibraryOK' /\ Created' = Created
      BY <2>1, <2>2 DEF Looping, LibraryOK, TypeOK, QueueOK, Indices, Created,
                        schedVars, Labels, Flows
    <3>3. LoopTypeOK'
      BY <2>1, <2>2 DEF Looping, LoopTypeOK, clockVars
    <3>4. pc'[Main] = "after"
      BY <2>1, <2>2 DEF Looping, LibraryOK, TypeOK, Flows
    <3>5. OffOK' /\ TurnOK'
      BY <2>1, <2>2, <3>1, <3>4 DEF Looping, OffOK, TurnOK, Queued, Slot, schedVars
    <3>6. QueuesOK'
      BY <2>1, <2>2, <3>1, <3>2 DEF Looping, QueuesOK, Books, Queued, Slot, HoldsOnly,
         Once, LowerDistinct, BoostFits, Below, schedVars
    <3>7. QED BY <3>2, <3>3, <3>5, <3>6 DEF Looping, MInv
  <2>3. CASE Idle /\ settings \in 0 .. MaxSettings /\ elapsed \in Int
    <3>1. IInv
      BY <2>3 DEF Idle
    <3>2. current_thread = NULL
      BY <2>1, <3>1, MainRunsBeforeStart
    <3>3. TypeOK' /\ MainOK'
      BY <2>1, <3>1, <3>2 DEF IInv, TypeOK, MainOK, Labels, Flows, schedVars
    <3>4. \A t \in Threads : pc'[t] = "exit" <=> pc[t] = "exit"
      BY <2>1, <3>1 DEF IInv, TypeOK, Flows
    <3>5. IInv'
      BY <2>1, <3>1, <3>3, <3>4, ProgramStep
    <3>6. QED BY <2>1, <2>3, <3>5 DEF MInv, Idle, clockVars
  <2>4. QED BY <2>2, <2>3 DEF MInv
<1>3. QED BY <1>1, <1>2

\* The loop ends with every thread done, or with every queue empty.
LEMMA EndsKeep ==
    ASSUME Looping, AllThreadsDone \/ NothingRunnable
    PROVE  Looping'
<1> USE SchedAssumption
<1>1. /\ cpu = Main /\ loop # "off" /\ loop' = "off"
      /\ pc' = [pc EXCEPT ![cpu] = "after"]
      /\ elapsed' = 0
      /\ UNCHANGED <<schedVars, target, calls, mlfq_queues, rr_indices, settings,
                     picked, startVars>>
  BY DEF AllThreadsDone, NothingRunnable, InLoop, LeaveLoop, Goto
<1>2. LibraryOK' /\ Created' = Created
  BY <1>1 DEF Looping, LibraryOK, TypeOK, QueueOK, Indices, Created, schedVars,
              Labels, Flows
<1>3. pc'[Main] = "after"
  BY <1>1 DEF Looping, LibraryOK, TypeOK, Flows
<1>4. LoopTypeOK'
  BY <1>1 DEF Looping, LoopTypeOK
<1>5. /\ \A t \in Threads : Queued(mlfq_queues, t) => t \in finished
      /\ enqueued \subseteq finished
  <2>1. CASE AllThreadsDone
    <3>1. Created \subseteq finished
      BY <2>1 DEF AllThreadsDone, AllDone
    <3>2. QED BY <3>1 DEF Looping, QueuesOK, Books, HoldsOnly, Queued
  <2>2. CASE NothingRunnable
    <3>1. \A q \in Levels : ~(size(q) > 0)
      BY <2>2 DEF NothingRunnable, NonEmpty
    <3>2. \A q \in Levels : size(q) \in Nat
      BY SizesBound DEF Looping, QueuesOK
    <3>3. \A q, i : ~Slot(mlfq_queues, q, i)
      BY <3>1, <3>2 DEF Slot, size
    <3>4. QED BY <1>1, <3>3 DEF Looping, QueuesOK, Queued
  <2>3. QED BY <2>1, <2>2
<1>6. OffOK' /\ TurnOK'
  BY <1>1, <1>3, <1>5 DEF OffOK, TurnOK, Queued, Slot, schedVars, startVars
<1>7. QueuesOK'
  BY <1>1, <1>2 DEF Looping, QueuesOK, Books, Queued, Slot, HoldsOnly,
     Once, LowerDistinct, BoostFits, Below, schedVars, startVars
<1>8. QED BY <1>2, <1>4, <1>6, <1>7 DEF Looping

\* The boost loses no unfinished thread, and fits.
LEMMA BoostKeeps ==
    ASSUME Looping, Boost
    PROVE  Looping'
<1> USE SchedAssumption
<1>1. /\ cpu = Main /\ loop = "top" /\ loop' = "pick"
      /\ mlfq_queues' = Boosted
      /\ rr_indices' = [q \in Levels |-> IF q = 0 THEN rr_indices[0] ELSE 0]
      /\ elapsed' = 0
      /\ UNCHANGED vars
      /\ UNCHANGED <<settings, picked, startVars>>
  BY DEF Boost, InLoop
<1>2. /\ LibraryOK' /\ Created' = Created
      /\ UNCHANGED <<finished, cpu, pc, current_thread, scheduler_context>>
  BY <1>1, LibraryUnchanged
<1>3. Books(mlfq_queues, finished, Created) /\ IsFiniteSet(Created)
  BY SizesBound DEF Looping, QueuesOK
<1>4. /\ Books(Boosted, finished, Created)
      /\ \A t : t \notin finished /\ Queued(mlfq_queues, t) => Queued(Boosted, t)
  BY <1>3, BoostedBooks
<1>5. LoopTypeOK'
  <2>1. rr_indices \in [Levels -> 0 .. MAX_THREADS - 1] /\ 0 \in Levels
    BY DEF Looping, LoopTypeOK, Levels, NUM_QUEUES
  <2>2. rr_indices' \in [Levels -> 0 .. MAX_THREADS - 1]
    BY <1>1, <2>1
  <2>3. QED BY <1>1, <2>2 DEF Looping, LoopTypeOK
<1>6. OffOK' /\ TurnOK'
  BY <1>1, <1>2 DEF Looping, OffOK, TurnOK
<1>7. QueuesOK'
  <2>1. Books(mlfq_queues', finished', Created')
    BY <1>1, <1>2, <1>4
  <2>2. enqueued' = enqueued /\ enqueued \subseteq Created
    BY <1>1 DEF startVars, Looping, QueuesOK
  <2>3. \A t \in enqueued \ finished : Queued(mlfq_queues', t)
    BY <1>1, <1>4 DEF Looping, QueuesOK
  <2>4. /\ Books(mlfq_queues, finished, Created)'
        /\ (\A t \in enqueued \ finished : Queued(mlfq_queues, t))'
    BY <1>2, <2>1, <2>2, <2>3 DEF Books, Queued, Slot,
       HoldsOnly, Once, LowerDistinct, BoostFits, Below
  <2>5. QED BY <1>2, <2>2, <2>4 DEF QueuesOK
<1>8. QED BY <1>2, <1>5, <1>6, <1>7 DEF Looping

\* No boost is due.
LEMMA NoBoostKeeps ==
    ASSUME Looping, NoBoost
    PROVE  Looping'
<1>1. /\ cpu = Main /\ loop = "top" /\ loop' = "pick"
      /\ UNCHANGED vars
      /\ UNCHANGED <<mlfq_queues, rr_indices, clockVars, picked, startVars>>
  BY DEF NoBoost, InLoop
<1>2. /\ LibraryOK' /\ Created' = Created
      /\ UNCHANGED <<finished, cpu, pc, current_thread, scheduler_context>>
  BY <1>1, LibraryUnchanged
<1>3. LoopTypeOK'
  BY <1>1 DEF Looping, LoopTypeOK, clockVars
<1>4. OffOK' /\ TurnOK'
  BY <1>1, <1>2 DEF Looping, OffOK, TurnOK
<1>5. QueuesOK'
  BY <1>1, <1>2 DEF Looping, QueuesOK, Books, Queued, Slot, HoldsOnly,
     Once, LowerDistinct, BoostFits, Below, startVars
<1>6. QED BY <1>2, <1>3, <1>4, <1>5 DEF Looping

\* A finished thread leaves its queue.
LEMMA DropFinishedKeeps ==
    ASSUME Looping, DropFinished
    PROVE  Looping'
<1> USE SchedAssumption
<1> DEFINE l == Picked.level
           idx == Picked.idx
           D == mlfq_queues'
<1>1. /\ cpu = Main /\ loop = "pick" /\ loop' = "top"
      /\ NonEmpty # {} /\ Picked.next \in finished
      /\ mlfq_queues' = [mlfq_queues EXCEPT ![l] = RemoveAt(mlfq_queues[l], idx)]
      /\ AdvanceTurn
      /\ UNCHANGED vars
      /\ UNCHANGED <<clockVars, picked, startVars>>
  BY DEF DropFinished, InLoop
<1>2. /\ LibraryOK' /\ Created' = Created
      /\ UNCHANGED <<finished, cpu, pc, current_thread, scheduler_context>>
  BY <1>1, LibraryUnchanged
<1>3. Books(mlfq_queues, finished, Created) /\ IsFiniteSet(Created)
  BY SizesBound DEF Looping, QueuesOK
<1>4. /\ l \in Levels /\ idx \in 0 .. Len(mlfq_queues[l]) - 1
      /\ mlfq_queues[l][idx + 1] \in finished
  BY <1>1, PickedEntry DEF size
<1>5. mlfq_queues \in [Levels -> Seq(Threads)] /\ mlfq_queues[l] \in Seq(Threads)
  BY <1>3, <1>4 DEF Books
<1>6. rr_indices' \in [Levels -> 0 .. MAX_THREADS - 1]
  BY <1>1, TurnAdvances
<1> HIDE DEF l, idx
<1>7. /\ D \in [Levels -> Seq(Threads)]
      /\ D[l] = RemoveAt(mlfq_queues[l], idx)
      /\ \A q \in Levels \ {l} : D[q] = mlfq_queues[q]
  <2>1. RemoveAt(mlfq_queues[l], idx) \in Seq(Threads)
    BY <1>4, <1>5, RemoveAtEntries
  <2>2. QED BY <1>1, <1>4, <1>5, <2>1
<1> HIDE DEF D
<1>8. /\ Books(D, finished, Created)
      /\ \A t : t \notin finished /\ Queued(mlfq_queues, t) => Queued(D, t)
  BY <1>3, <1>4, <1>7, RemovedBooks
<1>9. LoopTypeOK'
  BY <1>1, <1>6 DEF Looping, LoopTypeOK, clockVars
<1>10. OffOK' /\ TurnOK'
  BY <1>1, <1>2 DEF Looping, OffOK, TurnOK
<1>11. QueuesOK'
  <2>1. enqueued' = enqueued /\ enqueued \subseteq Created
    BY <1>1 DEF startVars, Looping, QueuesOK
  <2>2. \A t \in enqueued \ finished : Queued(D, t)
    BY <1>1, <1>8 DEF Looping, QueuesOK
  <2>3. /\ Books(mlfq_queues, finished, Created)'
        /\ (\A t \in enqueued \ finished : Queued(mlfq_queues, t))'
    BY <1>2, <1>8, <2>1, <2>2 DEF Books, Queued, Slot,
       HoldsOnly, Once, LowerDistinct, BoostFits, Below, D
  <2>4. QED BY <1>2, <2>1, <2>3 DEF QueuesOK
<1>12. QED BY <1>2, <1>9, <1>10, <1>11 DEF Looping

\* The loop gives the CPU to the thread whose turn it is.
LEMMA DispatchKeeps ==
    ASSUME Looping, Dispatch
    PROVE  Looping'
<1> USE SchedAssumption
<1>1. /\ cpu = Main /\ loop = "pick" /\ loop' = "charge"
      /\ NonEmpty # {} /\ Picked.next \notin finished
      /\ picked' = Picked /\ AdvanceTurn
      /\ current_thread' = Picked.next
      /\ swap_to_thread(Picked.next)
      /\ UNCHANGED <<thread_queue, num_threads, current_index, finished,
                     system_policy, status, progVars, mlfq_queues, clockVars, startVars>>
  BY DEF Dispatch, InLoop
<1>2. /\ Picked \in [level : Levels, idx : 0 .. MAX_THREADS - 1, next : Threads]
      /\ Picked.next = mlfq_queues[Picked.level][Picked.idx + 1]
      /\ Slot(mlfq_queues, Picked.level, Picked.idx + 1)
      /\ Picked.next \in Threads /\ Picked.level \in Levels
      /\ Picked.idx \in Int
  BY <1>1, PickedEntry
<1>3. /\ scheduler_context' = Main /\ cpu' = Picked.next /\ context' = context
  BY <1>1, <1>2 DEF swap_to_thread, Looping, LibraryOK
<1>4. LibraryOK' /\ Created' = Created
  BY <1>1, <1>2, <1>3 DEF Looping, LibraryOK, TypeOK, QueueOK, Indices, Created,
     progVars, Flows
<1>5. rr_indices' \in [Levels -> 0 .. MAX_THREADS - 1]
  BY <1>1, TurnAdvances
<1>6. LoopTypeOK'
  BY <1>1, <1>2, <1>5 DEF Looping, LoopTypeOK, clockVars
<1>7. OffOK'
  BY <1>1 DEF Looping, OffOK, progVars
<1>8. \A q, i : Slot(mlfq_queues, q, i) =>
          (mlfq_queues[q][i] = Picked.next <=> q = Picked.level /\ i = Picked.idx + 1)
  BY <1>1, <1>2 DEF Looping, QueuesOK, Books, Once
<1>9. TurnOK'
  <2>1. mlfq_queues' = mlfq_queues
    BY <1>1
  <2>2. \A q, i : Slot(mlfq_queues, q, i)' = Slot(mlfq_queues, q, i)
    BY <2>1 DEF Slot
  <2>3. QED BY <1>1, <1>2, <1>3, <1>8, <2>1, <2>2 DEF TurnOK, Slot
<1>10. QueuesOK'
  BY <1>1, <1>4 DEF Looping, QueuesOK, Books, Queued, Slot, HoldsOnly,
     Once, LowerDistinct, BoostFits, Below, startVars
<1>11. QED BY <1>4, <1>6, <1>7, <1>9, <1>10 DEF Looping

\* A slice is charged to the thread that ran it.
LEMMA ChargeKeeps ==
    ASSUME Looping, ChargeInTime \/ ChargeSet
    PROVE  Looping'
<1> USE SchedAssumption
<1> DEFINE l == picked.level
           idx == picked.idx
           t == picked.next
           D == mlfq_queues'
<1>1. PICK d \in Int : Charge(d) /\ settings' \in 0 .. MaxSettings
  <2>1. settings \in 0 .. MaxSettings
    BY DEF Looping, LoopTypeOK
  <2>2. CASE ChargeInTime
    BY <2>1, <2>2, MlfqAssumption DEF ChargeInTime
  <2>3. CASE ChargeSet
    <3>1. PICK e \in SliceLengths, s \in ClockSettings : Charge(e + s)
      BY <2>3 DEF ChargeSet
    <3>2. e + s \in Int
      BY MlfqAssumption
    <3>3. settings' \in 0 .. MaxSettings
      BY <2>1, <2>3, MlfqAssumption DEF ChargeSet
    <3>4. QED BY <3>1, <3>2, <3>3
  <2>4. QED BY <2>2, <2>3
<1>2. /\ cpu = Main /\ loop = "charge" /\ loop' = "top"
      /\ Demote(d) \/ Keep(d)
      /\ elapsed' = elapsed + d
      /\ UNCHANGED vars
      /\ UNCHANGED <<rr_indices, picked, startVars>>
  BY <1>1 DEF Charge, InLoop
<1>3. /\ LibraryOK' /\ Created' = Created
      /\ UNCHANGED <<finished, cpu, pc, current_thread, scheduler_context>>
  BY <1>2, LibraryUnchanged
<1>4. Books(mlfq_queues, finished, Created) /\ IsFiniteSet(Created)
  BY SizesBound DEF Looping, QueuesOK
<1>5. /\ l \in Levels /\ idx \in 0 .. MAX_THREADS - 1 /\ t \in Threads
      /\ OnlyAt(mlfq_queues, l, idx, t)
      /\ Slot(mlfq_queues, l, idx + 1)
  BY <1>2 DEF Looping, LoopTypeOK, TurnOK, OnlyAt
<1>6. mlfq_queues \in [Levels -> Seq(Threads)]
  BY <1>4 DEF Books
<1> HIDE DEF l, idx, t
<1>7. /\ Books(D, finished, Created)
      /\ \A u : Queued(mlfq_queues, u) => Queued(D, u)
  <2>1. CASE Keep(d)
    BY <1>4, <2>1 DEF Keep
  <2>2. CASE Demote(d)
    <3>1. /\ l < NUM_QUEUES - 1
          /\ D = [mlfq_queues EXCEPT ![l] = RemoveAt(mlfq_queues[l], idx),
                                     ![l + 1] = Append(mlfq_queues[l + 1], t)]
      <4>1. l \in {0, 1, 2} /\ l \in Levels /\ l < NUM_QUEUES - 1
        BY <1>5, <2>2 DEF Levels, NUM_QUEUES, Demote, l
      <4>2. l + 1 \in Levels /\ l # l + 1
        BY <4>1 DEF Levels, NUM_QUEUES
      <4>3. D = [mlfq_queues EXCEPT ![l] = RemoveAt(@, idx), ![l + 1] = Append(@, t)]
        BY <2>2 DEF Demote, l, idx, t
      <4>4. QED BY <1>6, <4>1, <4>2, <4>3
    <3>2. l \in {0, 1} /\ l \in Levels /\ l + 1 \in Levels /\ l # l + 1
      BY <1>5, <3>1 DEF Levels, NUM_QUEUES
    <3>3. Len(mlfq_queues[l]) \in Nat /\ mlfq_queues[l] \in Seq(Threads)
          /\ mlfq_queues[l + 1] \in Seq(Threads)
      BY <1>6, <3>2
    <3>4. idx \in 0 .. Len(mlfq_queues[l]) - 1
      BY <1>5, <3>3 DEF Slot
    <3>5. /\ RemoveAt(mlfq_queues[l], idx) \in Seq(Threads)
          /\ Append(mlfq_queues[l + 1], t) \in Seq(Threads)
      BY <1>5, <3>3, <3>4, RemoveAtEntries
    <3>6. /\ D \in [Levels -> Seq(Threads)]
          /\ D[l] = RemoveAt(mlfq_queues[l], idx)
          /\ D[l + 1] = Append(mlfq_queues[l + 1], t)
          /\ \A q \in Levels \ {l, l + 1} : D[q] = mlfq_queues[q]
      BY <1>6, <3>1, <3>2, <3>5
    <3> HIDE DEF D
    <3>7. t \in Threads /\ OnlyAt(mlfq_queues, l, idx, t)
      BY <1>5
    <3>8. QED BY <1>4, <3>2, <3>4, <3>6, <3>7, DemotedBooks
  <2>3. QED BY <1>2, <2>1, <2>2
<1> HIDE DEF D
<1>8. LoopTypeOK'
  BY <1>1, <1>2 DEF Looping, LoopTypeOK
<1>9. OffOK' /\ TurnOK'
  BY <1>2, <1>3 DEF Looping, OffOK, TurnOK
<1>10. QueuesOK'
  <2>1. enqueued' = enqueued /\ enqueued \subseteq Created
    BY <1>2 DEF startVars, Looping, QueuesOK
  <2>2. \A u \in enqueued \ finished : Queued(D, u)
    BY <1>2, <1>7 DEF Looping, QueuesOK
  <2>3. /\ Books(mlfq_queues, finished, Created)'
        /\ (\A u \in enqueued \ finished : Queued(mlfq_queues, u))'
    BY <1>3, <1>7, <2>1, <2>2 DEF Books, Queued, Slot,
       HoldsOnly, Once, LowerDistinct, BoostFits, Below, D
  <2>4. QED BY <1>3, <2>1, <2>3 DEF QueuesOK
<1>11. QED BY <1>3, <1>8, <1>9, <1>10 DEF Looping

-----------------------------------------------------------------------------
\* The invariant holds initially.
LEMMA InitMInv == MlfqInit => MInv
<1> SUFFICES ASSUME MlfqInit PROVE MInv
  OBVIOUS
<1>1. IInv
  BY InitIInv DEF MlfqInit
<1>2. QED BY <1>1, MlfqAssumption DEF MlfqInit, MInv, Idle

\* It is inductive: every step of the loop, and every step of the program while
\* the loop waits for it, keeps the invariant.
LEMMA NextMInv == MInv /\ [MlfqNext]_allVars => MInv'
<1> SUFFICES ASSUME MInv, [MlfqNext]_allVars PROVE MInv'
  OBVIOUS
<1>1. CASE StartMlfq
  BY <1>1, StartMlfqKeeps DEF MInv
<1>2. CASE StartOverrun \/ StartEmpty \/ ResumeReturnedFrame
  BY <1>2, NoStartKeeps
<1>3. ASSUME \/ AllThreadsDone \/ Boost \/ NoBoost \/ NothingRunnable
             \/ DropFinished \/ Dispatch \/ ChargeInTime \/ ChargeSet
      PROVE  MInv'
  <2>1. loop # "off"
    <3>1. CASE AllThreadsDone \/ NothingRunnable \/ Boost \/ NoBoost
      BY <3>1 DEF AllThreadsDone, NothingRunnable, Boost, NoBoost, InLoop
    <3>2. CASE DropFinished \/ Dispatch
      BY <3>2 DEF DropFinished, Dispatch, InLoop
    <3>3. CASE ChargeInTime \/ ChargeSet
      BY <3>3 DEF ChargeInTime, ChargeSet, Charge, InLoop
    <3>4. QED BY <1>3, <3>1, <3>2, <3>3
  <2>2. Looping
    BY <2>1 DEF MInv, Idle
  <2>3. QED
    BY <1>3, <2>2, EndsKeep, BoostKeeps, NoBoostKeeps, DropFinishedKeeps,
       DispatchKeeps, ChargeKeeps DEF MInv
<1>4. CASE (Next /\ UNCHANGED mlfqVars) \/ UNCHANGED allVars
  <2>1. [Next]_vars /\ UNCHANGED mlfqVars
    BY <1>4 DEF allVars
  <2>2. CASE Looping
    BY <2>1, <2>2, NextMoves, MovesLooping DEF MInv
  <2>3. CASE settings \in 0 .. MaxSettings /\ elapsed \in Int /\ Idle
    <3>1. IInv'
      BY <2>1, <2>3, NextIInv DEF Idle
    <3>2. QED
      BY <2>1, <2>3, <3>1 DEF Idle, MInv, mlfqVars, clockVars, startVars
  <2>4. QED BY <2>2, <2>3 DEF MInv
<1>5. QED BY <1>1, <1>2, <1>3, <1>4 DEF MlfqNext, LoopNext

\* The invariant holds in every reachable state.
THEOREM MlfqInvariance == MlfqSpec => []MInv
BY InitMInv, NextMInv, PTL DEF MlfqSpec

\* EachInOneQueue holds of nqp_sched_start for any number of threads and any
\* capacity: the queues never lose an unfinished thread nor hold it twice, and
\* none of the three outgrows its MAX_THREADS entries.
THEOREM QueuesNeverLoseAThread == MlfqSpec => []EachInOneQueue
<1>1. MInv => EachInOneQueue
  <2> SUFFICES ASSUME MInv PROVE EachInOneQueue
    OBVIOUS
  <2>1. CASE Idle /\ settings \in 0 .. MaxSettings /\ elapsed \in Int
    <3>1. mlfq_queues \in [Levels -> Seq(Threads)]
      BY <2>1, EmptyBooks DEF Idle, Books
    <3>2. MlfqTypeOK
      BY <2>1, <3>1, SchedAssumption
      DEF Idle, IInv, MlfqTypeOK, NothingPicked, Levels, NUM_QUEUES
    <3>3. QED BY <2>1, <3>2 DEF Idle, EachInOneQueue
  <2>2. CASE Looping
    <3>1. Books(mlfq_queues, finished, Created) /\ LibraryOK
      BY <2>2 DEF Looping, QueuesOK
    <3>2. MlfqTypeOK
      BY <2>2, <3>1 DEF Looping, LibraryOK, LoopTypeOK, MlfqTypeOK, Books
    <3>3. ASSUME loop # "off", NEW t \in enqueued \ finished
          PROVE  Cardinality(Slots(t)) = 1
      <4>1. PICK q, i : Slot(mlfq_queues, q, i) /\ mlfq_queues[q][i] = t
        BY <2>2, <3>3 DEF Looping, QueuesOK, Queued
      <4>2. \A r, j : Slot(mlfq_queues, r, j) /\ mlfq_queues[r][j] = t => r = q /\ j = i
        BY <3>1, <3>3, <4>1 DEF Books, Once
      <4>3. Slots(t) = {<<q, i>>}
        BY <4>1, <4>2 DEF Slots, Slot, size
      <4>4. QED BY <4>3, FS_Singleton
    <3>4. \A q \in Levels : size(q) <= MAX_THREADS
      BY <3>1, SizesBound
    <3>5. QED BY <3>2, <3>3, <3>4 DEF EachInOneQueue
  <2>3. QED BY <2>1, <2>2 DEF MInv
<1>2. QED BY <1>1, MlfqInvariance, PTL

\* ChargesWhoRan: the slice that nqp_sched_start measures is charged to the
\* thread that ran it, in the entry that thread still has.
THEOREM SliceChargedToItsThread == MlfqSpec => []ChargesWhoRan
<1>1. MInv => ChargesWhoRan
  BY DEF MInv, Idle, Looping, LibraryOK, TurnOK, ChargesWhoRan
<1>2. QED BY <1>1, MlfqInvariance, PTL

\* ReturnsWhenDone: nqp_sched_start returns to main() only when every thread it
\* was started with is done.
THEOREM StartReturnsWhenDone == MlfqSpec => []ReturnsWhenDone
<1>1. MInv => ReturnsWhenDone
  BY DEF MInv, Idle, Looping, OffOK, ReturnsWhenDone
<1>2. QED BY <1>1, MlfqInvariance, PTL

-----------------------------------------------------------------------------
(***************************************************************************)
(* The demonstration programs on either version of the library, with any   *)
(* number of workers.                                                      *)
(***************************************************************************)
Total == IF program = "refiner" THEN THREADS + 1 ELSE THREADS

DemosShape ==
    /\ library \in Libraries /\ program \in {"printer", "refiner", "sched_tasks"}
    /\ main \in {"create", "start", "left"}
    /\ progress \in [Threads -> Nat] /\ turns \in [Threads -> 0 .. CYCLE - 1]
    /\ thread_queue \in [0 .. MAX_THREADS - 1 -> Threads \cup {NULL}]
    /\ num_threads \in 0 .. Total
    /\ current_index \in Nat
    /\ current_thread \in Threads \cup {NULL}
    /\ system_policy \in Policies
    /\ context \in [Threads -> Flows]
    /\ \A i \in Indices : thread_queue[i] = Id[i + 1]

\* Before the scheduler is started nobody has done anything; then the thread at
\* current_index has the CPU.  In nqp_exit are those that have finished.  One of them
\* has the CPU when all have, or when the earlier library does not switch.
DemosFlow ==
    /\ \A t \in Threads : context[t] = t
    /\ finished \subseteq Created /\ leaving = finished
    /\ library = "Erebor" => system_policy # "MLFQ"
    /\ current_thread = NULL =>
        /\ cpu = Main /\ finished = {} /\ current_index = 0
        /\ \A t \in Threads : progress[t] = 0 /\ turns[t] = 0
    /\ current_thread # NULL =>
        /\ main = "left"
        /\ current_index \in Indices /\ current_thread = thread_queue[current_index]
        /\ cpu = current_thread
    /\ current_thread \in finished =>
        Created \subseteq finished \/ (library = "Legacy" /\ system_policy = "FIFO")

\* Under FIFO those before the current thread have finished, those behind it have
\* not begun.
FifoInv ==
    system_policy = "FIFO" /\ current_thread # NULL =>
        \A i \in Indices :
            /\ i < current_index => thread_queue[i] \in finished
            /\ i > current_index => /\ thread_queue[i] \notin finished
                                    /\ progress[thread_queue[i]] = 0

\* The entry that is run first, and the entries in the order of a round.
FirstRun == IF library = "Legacy" /\ system_policy = "RR" /\ num_threads > 1 THEN 1 ELSE 0
InRound(i) == IF i < FirstRun THEN i + num_threads ELSE i

\* In a round those before the current thread have had one turn more.
RoundInv ==
    system_policy # "FIFO" /\ current_thread # NULL =>
        \E r \in 0 .. CYCLE - 1 :
            \A i \in Indices : thread_queue[i] \notin finished =>
                turns[thread_queue[i]] = IF InRound(i) < InRound(current_index)
                                         THEN (r + 1) % CYCLE ELSE r

DemosInv == DemosShape /\ DemosFlow /\ FifoInv /\ RoundInv

-----------------------------------------------------------------------------
\* The threads of a program are as many as it creates.
LEMMA AllCount ==
    ASSUME program \in {"printer", "refiner", "sched_tasks"}
    PROVE  Cardinality(All) \in Nat /\ Cardinality(All) =< Total
<1> USE DemosAssumption, SchedAssumption
<1> DEFINE f == [k \in 1 .. Total |-> Id[k]]
<1>1. Total \in Nat /\ Total =< THREADS + 1
  BY DEF Total
<1>2. ASSUME NEW t \in All PROVE \E k \in 1 .. Total : f[k] = t
  <2>1. CASE program = "refiner"
    <3>1. (\E k \in 2 .. THREADS + 1 : t = Id[k]) \/ t = Id[1]
      BY <1>2, <2>1 DEF All, Workers, Grapher
    <3>2. QED BY <2>1, <3>1 DEF Total
  <2>2. CASE program # "refiner"
    <3>1. \E k \in 1 .. THREADS : t = Id[k]
      BY <1>2, <2>2 DEF All, Workers, Grapher
    <3>2. QED BY <2>2, <3>1 DEF Total
  <2>3. QED BY <2>1, <2>2
<1>3. ASSUME NEW k \in 1 .. Total PROVE f[k] \in All
  <2>1. k \in 1 .. THREADS + 1 /\ Id[k] \in Threads
    BY <1>1
  <2>2. CASE program = "refiner"
    <3>1. k = 1 \/ k \in 2 .. THREADS + 1
      BY <2>1
    <3>2. QED BY <2>1, <2>2, <3>1 DEF All, Workers, Grapher
  <2>3. CASE program # "refiner"
    BY <2>1, <2>3 DEF All, Workers, Grapher, Total
  <2>4. QED BY <2>2, <2>3
<1>4. f \in Surjection(1 .. Total, All)
  BY <1>2, <1>3 DEF Surjection
<1>5. IsFiniteSet(1 .. Total) /\ Cardinality(1 .. Total) = Total
  <2>1. 1 \in Int /\ Total \in Int
    BY <1>1
  <2>2. QED BY <1>1, <2>1, FS_Interval
<1> HIDE DEF f
<1>6. IsFiniteSet(All) /\ Cardinality(All) =< Total
  BY <1>4, <1>5, FS_Surjection
<1>7. QED BY <1>6, FS_CardinalityType

\* The filled part of the queue holds each thread once.
LEMMA EntriesOnce ==
    ASSUME DemosShape
    PROVE  /\ Total \in Nat /\ Total =< THREADS + 1 /\ Total =< MAX_THREADS
           /\ num_threads \in Nat
           /\ Indices \subseteq 0 .. MAX_THREADS - 1
           /\ \A i \in Indices : thread_queue[i] \in Threads /\ thread_queue[i] # NULL
           /\ \A i, j \in Indices : thread_queue[i] = thread_queue[j] => i = j
<1> USE DemosAssumption, SchedAssumption
<1>1. /\ Total \in Nat /\ Total =< THREADS + 1 /\ Total =< MAX_THREADS
      /\ num_threads \in Nat /\ num_threads =< Total
      /\ \A i \in Indices : thread_queue[i] = Id[i + 1]
  BY DEF DemosShape, Total
<1>2. ASSUME NEW i \in Indices
      PROVE  i + 1 \in 1 .. THREADS + 1 /\ i \in 0 .. MAX_THREADS - 1 /\ i \in Nat
  BY <1>1 DEF Indices
<1>3. ASSUME NEW i \in Indices
      PROVE  thread_queue[i] \in Threads /\ thread_queue[i] # NULL
  BY <1>1, <1>2
<1>4. ASSUME NEW i \in Indices, NEW j \in Indices, thread_queue[i] = thread_queue[j]
      PROVE  i = j
  <2>1. Id[i + 1] = Id[j + 1]
    BY <1>1, <1>4
  <2>2. i + 1 = j + 1
    <3>1. i + 1 \in DOMAIN Id /\ j + 1 \in DOMAIN Id
      BY <1>2
    <3>2. QED BY <2>1, <3>1 DEF IsInjective
  <2>3. QED BY <1>2, <2>2
<1>5. QED BY <1>1, <1>2, <1>3, <1>4

-----------------------------------------------------------------------------
\* How far the search that starts behind entry c of a ring of n is from entry i.
Around(n, c, i) == IF i =< c THEN (i - c) + n ELSE i - c

\* The search finds the nearest member of L, or L is empty.
LEMMA NearestOnRing ==
    ASSUME NEW n \in Nat \ {0}, NEW c \in 0 .. n - 1, NEW L \in SUBSET (0 .. n - 1),
           NEW D, D = {d \in 1 .. n : (c + d) % n \in L}
    PROVE  /\ D = {} => L = {}
           /\ D # {} =>
                /\ (c + Min(D)) % n \in L
                /\ \A i \in L : Around(n, c, (c + Min(D)) % n) =< Around(n, c, i)
<1>1. ASSUME NEW i \in L
      PROVE  Around(n, c, i) \in D
  <2>1. /\ i \in 0 .. n - 1
        /\ Around(n, c, i) \in 1 .. n
        /\ c + Around(n, c, i) = i \/ c + Around(n, c, i) = i + n
    BY DEF Around
  <2>2. (c + Around(n, c, i)) % n = i
    <3>1. c \in Nat /\ Around(n, c, i) \in Nat
      BY <2>1
    <3>2. QED BY ONLY <2>1, <3>1, n \in Nat \ {0}, RoundTo, Zenon
  <2>3. QED BY <2>1, <2>2
<1>2. ASSUME D # {}
      PROVE  /\ (c + Min(D)) % n \in L
             /\ \A i \in L : Around(n, c, (c + Min(D)) % n) =< Around(n, c, i)
  <2> DEFINE m == Min(D)
             k == (c + m) % n
  <2>1. m \in D /\ \A d \in D : m =< d
    <3>1. D \in SUBSET Nat
      OBVIOUS
    <3>2. QED BY <1>2, <3>1, MinIsLeast
  <2> HIDE DEF m
  <2>2. m \in 1 .. n /\ k \in L /\ k \in 0 .. n - 1
    BY <2>1
  <2>3. k = c + m \/ k + n = c + m
    <3>1. c + m \in Nat /\ c + m < 2 * n
      BY <2>2
    <3>2. QED BY <3>1, OnceRound
  <2> HIDE DEF k
  <2>4. Around(n, c, k) = m
    BY <2>2, <2>3 DEF Around
  <2>5. QED BY <1>1, <2>1, <2>2, <2>4 DEF m, k
<1>3. QED BY <1>1, <1>2

-----------------------------------------------------------------------------
\* What a yield does in a thread: the CPU goes to entry k, or stays where it is.
Moves(k) ==
    /\ current_index' = k /\ current_thread' = thread_queue[k] /\ cpu' = thread_queue[k]
    /\ context' \in [Threads -> Flows] /\ \A t \in Threads : context'[t] = t

\* Round the queue: k is the nearest entry that is not in fin, if there is one.
NextRound(fin, k) ==
    /\ thread_queue[k] \in fin => Created \subseteq fin
    /\ \A i \in Indices : thread_queue[i] \notin fin =>
           Around(num_threads, current_index, k) =< Around(num_threads, current_index, i)

\* FIFO: the thread goes on until it is in fin; then the first that is not is next,
\* except with the earlier library.
NextFifo(fin, k) ==
    \/ /\ k = current_index
       /\ current_thread \in fin => Created \subseteq fin \/ library = "Legacy"
    \/ /\ current_thread \in fin /\ thread_queue[k] \notin fin
       /\ \A i \in Indices : i < k => thread_queue[i] \in fin

\* The two forms in which the calls give the CPU to an entry.
LEMMA MovesOfCalls ==
    ASSUME DemosShape, DemosFlow, current_thread # NULL
    PROVE  /\ NoSwitch => Moves(current_index)
           /\ \A k \in Indices : SwitchTo(k) => Moves(k)
<1>1. /\ current_index \in Indices /\ current_thread = thread_queue[current_index]
      /\ cpu = current_thread /\ current_thread \in Threads
      /\ context \in [Threads -> Flows] /\ \A t \in Threads : context[t] = t
      /\ \A i \in Indices : thread_queue[i] \in Threads
  BY EntriesOnce DEF DemosShape, DemosFlow
<1>2. NoSwitch => Moves(current_index)
  BY <1>1 DEF NoSwitch, Moves
<1>3. ASSUME NEW k \in Indices, SwitchTo(k)
      PROVE  Moves(k)
  BY <1>1, <1>3 DEF SwitchTo, swapcontext, Moves, Flows
<1>4. QED BY <1>2, <1>3

\* The unfinished entries, and the distances at which the search finds them.
LEMMA RingSearch ==
    ASSUME DemosShape, DemosFlow, current_thread # NULL, NEW fin,
           NEW D, D = {d \in 1 .. num_threads :
                          thread_queue[(current_index + d) % num_threads] \notin fin},
           NEW k, k = (current_index + Min(D)) % num_threads
    PROVE  /\ D = {} => Created \subseteq fin
           /\ D # {} => k \in Indices /\ thread_queue[k] \notin fin /\ NextRound(fin, k)
<1> DEFINE L == {i \in Indices : thread_queue[i] \notin fin}
<1>1. /\ num_threads \in Nat \ {0} /\ current_index \in 0 .. num_threads - 1
      /\ Indices = 0 .. num_threads - 1
  BY EntriesOnce DEF DemosFlow, Indices
<1>2. D = {d \in 1 .. num_threads : (current_index + d) % num_threads \in L}
  <2>1. ASSUME NEW d \in 1 .. num_threads
        PROVE  (current_index + d) % num_threads \in Indices
    <3>1. current_index + d \in Nat
      BY <1>1
    <3>2. QED BY <1>1, <3>1, RingIndex
  <2>2. QED BY <2>1
<1>3. L \in SUBSET (0 .. num_threads - 1)
  BY <1>1
<1>4. /\ D = {} => L = {}
      /\ D # {} =>
           /\ k \in L
           /\ \A i \in L : Around(num_threads, current_index, k)
                              =< Around(num_threads, current_index, i)
  <2> HIDE DEF L
  <2> QED BY <1>1, <1>2, <1>3, NearestOnRing
<1>5. QED BY <1>4 DEF NextRound, Created

\* A yield of either library, by a thread, when those of fin have finished.
LEMMA TurnMoves ==
    ASSUME DemosShape, DemosFlow, current_thread # NULL, NEW fin,
           (library = "Erebor" /\ nqp_yield(fin)) \/ (library = "Legacy" /\ legacy_yield(fin))
    PROVE  \E k \in Indices :
               /\ Moves(k)
               /\ system_policy # "FIFO" => NextRound(fin, k)
               /\ system_policy = "FIFO" => NextFifo(fin, k)
<1> DEFINE c == current_index
           D == {d \in 1 .. num_threads :
                    thread_queue[(current_index + d) % num_threads] \notin fin}
           k0 == (current_index + Min(D)) % num_threads
<1>1. /\ c \in Indices /\ current_thread = thread_queue[c]
      /\ num_threads \in Nat \ {0} /\ Indices = 0 .. num_threads - 1
      /\ \A i, j \in Indices : thread_queue[i] = thread_queue[j] => i = j
  BY EntriesOnce DEF DemosFlow, Indices
<1>2. /\ NoSwitch => Moves(c)
      /\ \A k \in Indices : SwitchTo(k) => Moves(k)
  BY MovesOfCalls
<1>3. /\ D = {} => Created \subseteq fin
      /\ D # {} => k0 \in Indices /\ thread_queue[k0] \notin fin /\ NextRound(fin, k0)
  <2> HIDE DEF D
  <2> QED BY RingSearch DEF D
<1>4. ASSUME Created \subseteq fin, NEW k \in Indices
      PROVE  NextRound(fin, k)
  BY <1>4 DEF NextRound, Created
<1>5. CASE library = "Erebor" /\ system_policy # "FIFO"
  <2>1. YieldRing(fin) /\ RingDistances(fin) = D /\ NextInRing(fin) = k0
    BY <1>5 DEF nqp_yield, RingDistances, NextInRing, DemosShape, DemosFlow, Policies
  <2> HIDE DEF D
  <2>2. CASE D = {}
    BY <1>1, <1>2, <1>3, <1>4, <1>5, <2>1, <2>2 DEF YieldRing
  <2>3. CASE D # {} /\ thread_queue[k0] = current_thread
    <3>1. k0 = c /\ NoSwitch
      BY <1>1, <1>3, <2>1, <2>3 DEF YieldRing
    <3>2. QED BY <1>1, <1>2, <1>3, <1>5, <2>3, <3>1
  <2>4. CASE D # {} /\ thread_queue[k0] # current_thread
    BY <1>2, <1>3, <1>5, <2>1, <2>4 DEF YieldRing
  <2>5. QED BY <2>2, <2>3, <2>4
<1>6. CASE library = "Legacy" /\ system_policy # "FIFO"
  <2>1. legacy_yield(fin)
    BY <1>6
  <2>2. CASE D = {}
    <3>1. legacy_next(fin) = (c + 1) % num_threads
      BY <2>2 DEF legacy_next
    <3>2. legacy_next(fin) \in Indices
      <4>1. c + 1 \in Nat
        BY <1>1
      <4>2. QED BY <1>1, <3>1, <4>1, RingIndex
    <3> HIDE DEF D
    <3>3. CASE thread_queue[legacy_next(fin)] = current_thread
      BY <1>1, <1>2, <1>3, <1>4, <1>6, <2>1, <2>2, <3>3 DEF legacy_yield
    <3>4. CASE thread_queue[legacy_next(fin)] # current_thread
      BY <1>2, <1>3, <1>4, <1>6, <2>1, <2>2, <3>2, <3>4 DEF legacy_yield
    <3>5. QED BY <3>3, <3>4
  <2>3. CASE D # {}
    <3>1. legacy_next(fin) = k0
      BY <2>3 DEF legacy_next
    <3> HIDE DEF D
    <3>2. CASE thread_queue[k0] = current_thread
      <4>1. k0 = c /\ NoSwitch
        BY <1>1, <1>3, <2>1, <2>3, <3>1, <3>2 DEF legacy_yield
      <4>2. QED BY <1>1, <1>2, <1>3, <1>6, <2>3, <4>1
    <3>3. CASE thread_queue[k0] # current_thread
      BY <1>2, <1>3, <1>6, <2>1, <2>3, <3>1, <3>3 DEF legacy_yield
    <3>4. QED BY <3>2, <3>3
  <2>4. QED BY <2>2, <2>3
<1>7. CASE library = "Erebor" /\ system_policy = "FIFO"
  <2> DEFINE unfinished == {i \in Indices : thread_queue[i] \notin fin}
  <2>1. YieldFifo(fin)
    BY <1>7 DEF nqp_yield
  <2>2. CASE current_thread \notin fin \/ unfinished = {}
    <3>1. NoSwitch
      BY <2>1, <2>2 DEF YieldFifo
    <3>2. current_thread \in fin => Created \subseteq fin
      BY <2>2 DEF Created
    <3>3. QED BY <1>1, <1>2, <1>7, <3>1, <3>2 DEF NextFifo
  <2>3. CASE current_thread \in fin /\ unfinished # {}
    <3>1. SwitchTo(Min(unfinished))
      BY <2>1, <2>3 DEF YieldFifo
    <3>2. Min(unfinished) \in unfinished /\ \A i \in unfinished : Min(unfinished) =< i
      <4>1. unfinished \in SUBSET Nat
        BY <1>1
      <4>2. QED BY <2>3, <4>1, MinIsLeast
    <3>3. \A i \in Indices : i < Min(unfinished) => thread_queue[i] \in fin
      BY <1>1, <3>2
    <3>4. QED BY <1>2, <1>7, <2>3, <3>1, <3>2, <3>3 DEF NextFifo
  <2>4. QED BY <2>2, <2>3
<1>8. CASE library = "Legacy" /\ system_policy = "FIFO"
  <2>1. NoSwitch
    BY <1>8 DEF legacy_yield
  <2>2. QED BY <1>1, <1>2, <1>8, <2>1 DEF NextFifo
<1>9. QED BY <1>5, <1>6, <1>7, <1>8

-----------------------------------------------------------------------------
\* What a turn of thread t does besides its yield: it is counted, and fin, the
\* threads that have finished, holds t too when that was its last turn.
TurnOf(t, fin) ==
    /\ fin \in {finished, finished \cup {t}} /\ finished' = fin /\ leaving' = fin
    /\ CountTurn(t)
    /\ progress' \in [Threads -> Nat]
    /\ \A s \in Threads \ {t} : progress'[s] = progress[s]
    /\ UNCHANGED <<thread_queue, num_threads, system_policy, status, library,
                   program, main>>

\* The distance round the queue is that in the order of a round.
LEMMA RoundDistance ==
    ASSUME num_threads \in Nat \ {0}, current_index \in Indices, NEW i \in Indices
    PROVE  /\ FirstRun \in Nat /\ InRound(i) \in FirstRun .. FirstRun + num_threads - 1
           /\ Around(num_threads, current_index, i) =
                Around(num_threads, InRound(current_index), InRound(i))
           /\ InRound(i) = InRound(current_index) => i = current_index
<1>1. FirstRun \in {0, 1} /\ i \in 0 .. num_threads - 1 /\ current_index \in 0 .. num_threads - 1
  BY DEF FirstRun, Indices
<1>2. /\ InRound(i) = IF i < FirstRun THEN i + num_threads ELSE i
      /\ InRound(current_index) = IF current_index < FirstRun
                                  THEN current_index + num_threads ELSE current_index
  BY DEF InRound
<1>3. CASE FirstRun = 0
  BY <1>1, <1>2, <1>3 DEF Around
<1>4. CASE FirstRun = 1
  BY <1>1, <1>2, <1>4 DEF Around
<1>5. QED BY <1>1, <1>3, <1>4

\* Positions a, b and d of a round of n: the search from a comes to b before d.
LEMMA RoundOrder ==
    ASSUME NEW n \in Nat \ {0}, NEW a \in Nat, NEW b \in Nat, NEW d \in Nat,
           d # a, d < b + n, Around(n, a, b) =< Around(n, a, d)
    PROVE  /\ a < b => (d < a <=> d < b)
           /\ ~ (a < b) => d < a /\ ~ (d < b)
BY DEF Around

\* A turn under the policies that go round the queue: when the next thread is
\* reached in the same round it is as far as the others behind it; when a round
\* is complete all have had one turn more.
LEMMA TurnKeepsRound ==
    ASSUME DemosShape, DemosFlow, RoundInv, current_thread # NULL,
           current_thread \notin finished, system_policy # "FIFO",
           NEW fin, TurnOf(current_thread, fin),
           NEW k \in Indices, current_index' = k, NextRound(fin, k)
    PROVE  RoundInv'
<1> DEFINE c == current_index
           P(i) == InRound(i)
           next(r) == (r + 1) % CYCLE
           Had(r, j) == \A i \in Indices : thread_queue[i] \notin fin =>
                            turns'[thread_queue[i]] = IF P(i) < P(j) THEN next(r) ELSE r
<1>1. /\ c \in Indices /\ current_thread = thread_queue[c] /\ current_thread \in Threads
      /\ num_threads \in Nat \ {0} /\ Indices = 0 .. num_threads - 1
      /\ \A i \in Indices : thread_queue[i] \in Threads
      /\ \A i, j \in Indices : thread_queue[i] = thread_queue[j] => i = j
      /\ turns \in [Threads -> 0 .. CYCLE - 1] /\ finished \subseteq fin
  <2>1. /\ c \in Indices /\ current_thread = thread_queue[c]
        /\ turns \in [Threads -> 0 .. CYCLE - 1] /\ finished \subseteq fin
    BY DEF DemosShape, DemosFlow, TurnOf
  <2>2. QED BY <2>1, EntriesOnce DEF Indices
<1>2. PICK r \in 0 .. CYCLE - 1 :
          \A i \in Indices : thread_queue[i] \notin finished =>
              turns[thread_queue[i]] = IF P(i) < P(c) THEN next(r) ELSE r
  BY DEF RoundInv
<1>3. /\ \A i \in Indices : P(i) \in Nat /\ (P(i) = P(c) => i = c)
      /\ \A i, j \in Indices : P(i) < P(j) + num_threads
  <2>1. /\ FirstRun \in Nat
        /\ \A i \in Indices : /\ P(i) \in FirstRun .. FirstRun + num_threads - 1
                              /\ P(i) = P(c) => i = c
    BY <1>1, RoundDistance
  <2> HIDE DEF P
  <2>2. ASSUME NEW i \in Indices PROVE P(i) \in Nat /\ (P(i) = P(c) => i = c)
    BY <1>1, <2>1
  <2>3. ASSUME NEW i \in Indices, NEW j \in Indices PROVE P(i) < P(j) + num_threads
    <3>1. /\ P(i) \in FirstRun .. FirstRun + num_threads - 1
          /\ P(j) \in FirstRun .. FirstRun + num_threads - 1
      BY <2>1
    <3>2. FirstRun \in Nat /\ num_threads \in Nat
      BY <1>1, <2>1
    <3>3. QED BY ONLY <3>1, <3>2
  <2>4. QED BY <2>2, <2>3
<1>4. next(r) \in 0 .. CYCLE - 1
  BY DEF CYCLE
<1>5. /\ turns'[thread_queue[c]] = next(r)
      /\ \A i \in Indices : i # c => turns'[thread_queue[i]] = turns[thread_queue[i]]
  <2>1. turns' = [turns EXCEPT ![thread_queue[c]] = (turns[thread_queue[c]] + 1) % CYCLE]
    BY <1>1 DEF TurnOf, CountTurn
  <2>2. turns[thread_queue[c]] = r
    BY <1>1, <1>2, <1>3
  <2>3. QED BY <1>1, <2>1, <2>2
<1>6. \A i \in Indices : thread_queue[i] \notin fin =>
          Around(num_threads, P(c), P(k)) =< Around(num_threads, P(c), P(i))
  BY <1>1, RoundDistance DEF NextRound
<1>7. SUFFICES \E q \in 0 .. CYCLE - 1 : Had(q, k)
  <2>1. Indices' = Indices /\ \A i \in Indices : InRound(i)' = InRound(i)
    BY DEF TurnOf, Indices, InRound, FirstRun
  <2>2. UNCHANGED thread_queue /\ finished' = fin
    BY DEF TurnOf
  <2>3. QED BY <2>1, <2>2 DEF RoundInv
<1> HIDE DEF c, P, next
<1>8. CASE P(c) < P(k)
  <2>1. ASSUME NEW i \in Indices, thread_queue[i] \notin fin
        PROVE  turns'[thread_queue[i]] = IF P(i) < P(k) THEN next(r) ELSE r
    <3>1. CASE i = c
      BY <1>5, <1>8, <3>1
    <3>2. CASE i # c
      <4>1. turns'[thread_queue[i]] = IF P(i) < P(c) THEN next(r) ELSE r
        BY <1>1, <1>2, <1>5, <2>1, <3>2
      <4>2. P(i) < P(c) <=> P(i) < P(k)
        <5>1. P(i) # P(c) /\ P(i) \in Nat /\ P(c) \in Nat /\ P(k) \in Nat
          BY <1>1, <1>3, <3>2
        <5>2. Around(num_threads, P(c), P(k)) =< Around(num_threads, P(c), P(i))
          BY <1>6, <2>1
        <5>3. num_threads \in Nat \ {0} /\ P(i) < P(k) + num_threads
          BY <1>1, <1>3
        <5>4. QED BY ONLY <5>1, <5>2, <5>3, <1>8, RoundOrder
      <4>3. QED BY <4>1, <4>2
    <3>3. QED BY <3>1, <3>2
  <2>2. QED BY <2>1
<1>9. CASE ~ (P(c) < P(k))
  <2>1. ASSUME NEW i \in Indices, thread_queue[i] \notin fin
        PROVE  turns'[thread_queue[i]] = next(r) /\ ~ (P(i) < P(k))
    <3>1. P(i) \in Nat /\ P(c) \in Nat /\ P(k) \in Nat
      BY <1>1, <1>3
    <3>2. CASE i = c
      BY <1>5, <1>9, <3>2
    <3>3. CASE i # c
      <4>1. P(i) # P(c)
        BY <1>3, <3>3
      <4>2. P(i) < P(c) /\ ~ (P(i) < P(k))
        <5>1. Around(num_threads, P(c), P(k)) =< Around(num_threads, P(c), P(i))
          BY <1>6, <2>1
        <5>2. P(i) < P(k) + num_threads
          BY <1>3
        <5>3. num_threads \in Nat \ {0}
          BY <1>1
        <5>4. QED BY ONLY <1>9, <3>1, <4>1, <5>1, <5>2, <5>3, RoundOrder
      <4>3. turns'[thread_queue[i]] = turns[thread_queue[i]] /\ thread_queue[i] \notin finished
        BY <1>1, <1>5, <2>1, <3>3
      <4>4. QED BY <1>2, <4>2, <4>3
    <3>4. QED BY <3>2, <3>3
  <2>2. QED BY <1>4, <2>1
<1>10. QED BY <1>8, <1>9

\* A turn under FIFO: the queue is run from the front, one thread after the other.
LEMMA TurnKeepsFifo ==
    ASSUME DemosShape, DemosFlow, FifoInv, current_thread # NULL,
           current_thread \notin finished, system_policy = "FIFO",
           NEW fin, TurnOf(current_thread, fin),
           NEW k \in Indices, current_index' = k, NextFifo(fin, k)
    PROVE  FifoInv'
<1> DEFINE c == current_index
<1>1. /\ c \in Indices /\ current_thread = thread_queue[c]
      /\ Indices = 0 .. num_threads - 1 /\ num_threads \in Nat
      /\ \A i \in Indices : thread_queue[i] \in Threads
      /\ \A i, j \in Indices : thread_queue[i] = thread_queue[j] => i = j
  BY EntriesOnce DEF DemosFlow, Indices
<1>2. \A i \in Indices : /\ i < c => thread_queue[i] \in finished
                         /\ i > c => /\ thread_queue[i] \notin finished
                                     /\ progress[thread_queue[i]] = 0
  BY DEF FifoInv
<1>3. ASSUME NEW i \in Indices
      PROVE  /\ i < c => thread_queue[i] \in fin
             /\ i > c => thread_queue[i] \notin fin /\ progress'[thread_queue[i]] = 0
  <2>1. i < c => thread_queue[i] \in fin
    BY <1>2 DEF TurnOf
  <2>2. ASSUME i > c
        PROVE  thread_queue[i] \notin fin /\ progress'[thread_queue[i]] = 0
    <3>1. thread_queue[i] \in Threads \ {current_thread}
      BY <1>1, <2>2
    <3>2. QED BY <1>2, <2>2, <3>1 DEF TurnOf
  <2>3. QED BY <2>1, <2>2
<1>4. SUFFICES \A i \in Indices : /\ i < k => thread_queue[i] \in fin
                                  /\ i > k => /\ thread_queue[i] \notin fin
                                              /\ progress'[thread_queue[i]] = 0
  <2>1. Indices' = Indices /\ UNCHANGED thread_queue /\ finished' = fin
    BY DEF TurnOf, Indices
  <2>2. QED BY <2>1 DEF FifoInv
<1>5. CASE k = c
  BY <1>3, <1>5
<1>6. CASE /\ current_thread \in fin /\ thread_queue[k] \notin fin
           /\ \A i \in Indices : i < k => thread_queue[i] \in fin
  <2>1. k > c
    <3>1. k # c /\ ~ (k < c)
      BY <1>1, <1>3, <1>6
    <3>2. QED BY <1>1, <3>1
  <2>2. \A i \in Indices : i > k => i > c
    BY <1>1, <2>1
  <2>3. QED BY <1>3, <1>6, <2>2
<1>7. QED BY <1>5, <1>6 DEF NextFifo

\* A turn keeps the invariant.
LEMMA TurnKeeps ==
    ASSUME DemosInv, NEW t \in Threads, Runs(t), NEW fin, TurnOf(t, fin),
           (library = "Erebor" /\ nqp_yield(fin)) \/ (library = "Legacy" /\ legacy_yield(fin))
    PROVE  DemosInv'
<1> USE SchedAssumption
<1>1. /\ current_thread # NULL /\ t = current_thread /\ t \notin finished
      /\ DemosShape /\ DemosFlow /\ FifoInv /\ RoundInv
  BY DEF DemosInv, DemosFlow, Runs
<1>2. PICK k \in Indices : /\ Moves(k)
                           /\ system_policy # "FIFO" => NextRound(fin, k)
                           /\ system_policy = "FIFO" => NextFifo(fin, k)
  BY <1>1, TurnMoves
<1>3. current_index' = k
  BY <1>2 DEF Moves
<1>4. RoundInv'
  <2>1. CASE system_policy = "FIFO"
    BY <2>1 DEF RoundInv, TurnOf
  <2>2. CASE system_policy # "FIFO"
    BY <1>1, <1>2, <1>3, <2>2, TurnKeepsRound
  <2>3. QED BY <2>1, <2>2
<1>5. FifoInv'
  <2>1. CASE system_policy # "FIFO"
    BY <2>1 DEF FifoInv, TurnOf
  <2>2. CASE system_policy = "FIFO"
    BY <1>1, <1>2, <1>3, <2>2, TurnKeepsFifo
  <2>3. QED BY <2>1, <2>2
<1>6. /\ UNCHANGED <<thread_queue, num_threads, system_policy, library, program, main>>
      /\ Indices' = Indices /\ Created' = Created /\ Total' = Total
  BY DEF TurnOf, Indices, Created, Total
<1>7. /\ k \in Nat /\ thread_queue[k] \in Threads /\ thread_queue[k] # NULL
      /\ current_thread \in Created
  BY <1>1, EntriesOnce DEF Indices, DemosFlow, Created
<1>8. DemosShape'
  <2>1. turns' \in [Threads -> 0 .. CYCLE - 1]
    <3>1. turns \in [Threads -> 0 .. CYCLE - 1] /\ turns[t] \in 0 .. CYCLE - 1
      BY <1>1 DEF DemosShape
    <3>2. (turns[t] + 1) % CYCLE \in 0 .. CYCLE - 1
      BY ONLY <3>1 DEF CYCLE
    <3>3. turns' = [turns EXCEPT ![t] = (turns[t] + 1) % CYCLE]
      BY DEF TurnOf, CountTurn
    <3>4. QED BY ONLY <3>1, <3>2, <3>3
  <2>2. /\ current_index' \in Nat /\ current_thread' \in Threads \cup {NULL}
        /\ context' \in [Threads -> Flows] /\ progress' \in [Threads -> Nat]
    BY <1>2, <1>7 DEF Moves, TurnOf
  <2>3. QED BY <1>1, <1>6, <2>1, <2>2 DEF DemosShape
<1>9. DemosFlow'
  <2>1. /\ fin \subseteq Created /\ finished' = fin /\ leaving' = fin
    BY <1>1, <1>7 DEF DemosFlow, TurnOf
  <2>2. thread_queue[k] \in fin =>
            Created \subseteq fin \/ (library = "Legacy" /\ system_policy = "FIFO")
    BY <1>1, <1>2 DEF NextRound, NextFifo, DemosFlow
  <2>3. current_thread' = thread_queue[k] /\ cpu' = thread_queue[k]
    BY <1>2 DEF Moves
  <2>4. QED
    BY <1>1, <1>2, <1>3, <1>6, <1>7, <2>1, <2>2, <2>3 DEF DemosFlow, Moves
<1>10. QED BY <1>4, <1>5, <1>8, <1>9 DEF DemosInv

-----------------------------------------------------------------------------
\* Creation appends the next control block to the queue.
LEMMA CreateThreadKeeps ==
    ASSUME DemosInv, CreateThread
    PROVE  DemosInv'
<1> USE SchedAssumption, DemosAssumption
<1> DEFINE t == Id[num_threads + 1]
<1>1. /\ DemosShape /\ DemosFlow /\ cpu = Main /\ main = "create"
      /\ num_threads < Cardinality(All) /\ nqp_thread_create(t)
      /\ UNCHANGED <<library, program, main, progress, turns, display, leaving>>
  BY DEF DemosInv, CreateThread, MainAt, demoVars, legacy_thread_create
<1>2. current_thread = NULL
  BY <1>1 DEF DemosFlow
<1>3. /\ num_threads \in Nat /\ num_threads < Total /\ Total \in Nat
      /\ Total =< THREADS + 1 /\ Total =< MAX_THREADS
      /\ num_threads \in 0 .. MAX_THREADS - 1 /\ t \in Threads
  <2>1. Cardinality(All) \in Nat /\ Cardinality(All) =< Total
    BY <1>1, AllCount DEF DemosShape
  <2>2. /\ num_threads \in Nat /\ num_threads < Total /\ Total \in Nat
        /\ Total =< THREADS + 1 /\ Total =< MAX_THREADS
    BY <1>1, <2>1, EntriesOnce
  <2>3. num_threads + 1 \in 1 .. THREADS + 1
    BY <2>2
  <2>4. QED BY <2>2, <2>3
<1> HIDE DEF t
<1>4. /\ thread_queue' = [thread_queue EXCEPT ![num_threads] = t]
      /\ num_threads' = num_threads + 1
      /\ UNCHANGED <<current_index, current_thread, finished, system_policy,
                     context, scheduler_context, cpu, status>>
  BY <1>1, <1>3 DEF nqp_thread_create, scheduler_add_thread
<1>5. DemosShape'
  <2>1. thread_queue' \in [0 .. MAX_THREADS - 1 -> Threads \cup {NULL}]
    BY <1>1, <1>3, <1>4 DEF DemosShape
  <2>2. ASSUME NEW i \in Indices' PROVE thread_queue'[i] = Id[i + 1]
    <3>1. i \in 0 .. MAX_THREADS - 1 /\ (i = num_threads \/ i \in Indices)
      BY <1>3, <1>4 DEF Indices
    <3>2. CASE i = num_threads
      BY <1>1, <1>3, <1>4, <3>1, <3>2 DEF DemosShape, t
    <3>3. CASE i # num_threads
      BY <1>1, <1>3, <1>4, <3>1, <3>3 DEF DemosShape
    <3>4. QED BY <3>2, <3>3
  <2>3. num_threads' \in 0 .. Total'
    BY <1>1, <1>3, <1>4 DEF Total
  <2>4. QED BY <1>1, <1>4, <2>1, <2>2, <2>3 DEF DemosShape
<1>6. DemosFlow' /\ FifoInv' /\ RoundInv'
  BY <1>1, <1>2, <1>4 DEF DemosFlow, FifoInv, RoundInv
<1>7. QED BY <1>5, <1>6 DEF DemosInv

\* The choice of the policy; with this version it is not MLFQ.
LEMMA ChoosePolicyKeeps ==
    ASSUME DemosInv, ChoosePolicy
    PROVE  DemosInv'
<1> USE SchedAssumption
<1>1. /\ DemosShape /\ DemosFlow /\ cpu = Main /\ main = "create" /\ main' = "start"
      /\ UNCHANGED <<library, program, progress, turns, display, leaving>>
  BY DEF DemosInv, ChoosePolicy, MainAt
<1>2. /\ UNCHANGED <<thread_queue, num_threads, current_index, current_thread,
                     finished, context, scheduler_context, cpu>>
      /\ system_policy' = system_policy \/ system_policy' \in PoliciesOf(program)
  BY DEF ChoosePolicy, nqp_sched_init, legacy_sched_init, schedVars
<1>3. /\ system_policy' \in Policies
      /\ library = "Erebor" => system_policy' # "MLFQ"
  BY <1>1, <1>2 DEF DemosShape, DemosFlow, PoliciesOf, Policies
<1>4. current_thread = NULL
  BY <1>1 DEF DemosFlow
<1>5. DemosShape'
  BY <1>1, <1>2, <1>3 DEF DemosShape, Indices, Total
<1>6. DemosFlow' /\ FifoInv' /\ RoundInv'
  BY <1>1, <1>2, <1>3, <1>4 DEF DemosFlow, FifoInv, RoundInv, Indices, Created
<1>7. QED BY <1>5, <1>6 DEF DemosInv

\* The scheduler starts with the head of the queue; the earlier library, when it
\* goes round, with the entry behind it.
LEMMA StartsAtHead ==
    ASSUME DemosShape, DemosFlow, StartSched, cpu = Main
    PROVE  /\ UNCHANGED <<thread_queue, num_threads, finished, system_policy, context,
                          scheduler_context, status>>
           /\ \/ UNCHANGED <<current_index, current_thread, cpu>>
              \/ /\ num_threads > 0 /\ FirstRun \in Indices
                 /\ current_index' = FirstRun
                 /\ current_thread' = thread_queue[FirstRun] /\ cpu' = thread_queue[FirstRun]
<1> USE SchedAssumption
<1>1. /\ current_thread = NULL /\ finished = {} /\ current_index = 0
      /\ \A t \in Threads : context[t] = t
      /\ num_threads \in Nat
      /\ \A i \in Indices : thread_queue[i] \in Threads
  BY EntriesOnce DEF DemosFlow
<1>2. CASE library = "Erebor" /\ nqp_sched_start
  <2>1. num_threads # 0 => FirstRun = 0 /\ 0 \in Indices
    BY <1>1, <1>2 DEF FirstRun, Indices
  <2>2. QED BY <1>1, <1>2, <2>1 DEF nqp_sched_start
<1>3. CASE library = "Legacy" /\ legacy_sched_start
  <2>1. num_threads > 0 /\ 0 \in Indices /\ Unfinished = Indices
    BY <1>1, <1>3 DEF legacy_sched_start, Unfinished, Indices
  <2>2. /\ UNCHANGED <<thread_queue, num_threads, finished, system_policy, context,
                       scheduler_context, status>>
        /\ start_two_threads \/ start_fifo \/ start_rr \/ start_mlfq
    BY <1>3 DEF legacy_sched_start
  <2>3. SUFFICES FirstRun \in Indices /\ current_index' = FirstRun /\ StartAt(FirstRun)
    BY <1>1, <2>1, <2>2 DEF StartAt
  <2>4. CASE start_two_threads \/ start_mlfq
    BY <1>1, <2>1, <2>4 DEF start_two_threads, start_mlfq, FirstRun
  <2>5. CASE start_fifo
    <3>1. Min(Indices) = 0
      <4>1. Indices \in SUBSET Nat /\ Indices # {} /\ Indices = 0 .. num_threads - 1
        BY <2>1 DEF Indices
      <4>2. Min(Indices) \in Indices /\ Min(Indices) =< 0
        BY <2>1, <4>1, MinIsLeast
      <4>3. QED BY <4>1, <4>2
    <3>2. QED BY <1>1, <2>1, <2>5, <3>1 DEF start_fifo, FirstRun
  <2>6. CASE start_rr
    <3> DEFINE S == {d \in 1 .. num_threads : d % num_threads \in Unfinished}
    <3>1. Min(S) = 1
      <4>1. num_threads \in Nat \ {0} /\ 1 \in 1 .. num_threads /\ 1 % num_threads \in Indices
        BY <1>1, <2>1, RingIndex DEF Indices
      <4>2. S \in SUBSET Nat /\ 1 \in S
        BY <2>1, <4>1
      <4>3. Min(S) \in S /\ Min(S) =< 1
        <5> HIDE DEF S
        <5> QED BY <4>2, MinIsLeast
      <4>4. QED BY <4>3
    <3>2. current_index' = 1 % num_threads /\ StartAt(1 % num_threads)
      BY <2>6, <3>1 DEF start_rr
    <3>3. 1 % num_threads = FirstRun /\ FirstRun \in Indices
      <4>1. system_policy = "RR"
        BY <2>6 DEF start_rr
      <4>2. CASE num_threads = 1
        BY <2>1, <4>2 DEF FirstRun
      <4>3. CASE num_threads > 1
        BY <1>1, <1>3, <4>1, <4>3, RingIndex DEF FirstRun, Indices
      <4>4. QED BY <1>1, <2>1, <4>2, <4>3
    <3>4. QED BY <3>2, <3>3
  <2>7. QED BY <2>2, <2>4, <2>5, <2>6
<1>4. QED BY <1>2, <1>3 DEF StartSched

\* When it has started, everybody's first turn is still to come.
LEMMA StartSchedKeeps ==
    ASSUME DemosInv, StartSched
    PROVE  DemosInv'
<1> USE SchedAssumption
<1>1. /\ DemosShape /\ DemosFlow /\ cpu = Main /\ main' = "left"
      /\ UNCHANGED <<library, program, progress, turns, display, leaving>>
  BY DEF DemosInv, StartSched, MainAt
<1>2. /\ current_thread = NULL /\ finished = {} /\ current_index = 0
      /\ \A t \in Threads : progress[t] = 0 /\ turns[t] = 0
  BY <1>1, EntriesOnce DEF DemosFlow
<1>3. /\ UNCHANGED <<thread_queue, num_threads, finished, system_policy, context,
                     scheduler_context, status>>
      /\ \/ UNCHANGED <<current_index, current_thread, cpu>>
         \/ /\ num_threads > 0 /\ FirstRun \in Indices
            /\ current_index' = FirstRun
            /\ current_thread' = thread_queue[FirstRun] /\ cpu' = thread_queue[FirstRun]
  BY <1>1, StartsAtHead
<1>4. /\ \A i \in Indices : thread_queue[i] \in Threads /\ thread_queue[i] # NULL
      /\ Indices = 0 .. num_threads - 1 /\ num_threads \in Nat
  BY <1>1, EntriesOnce DEF Indices
<1>5. Indices' = Indices /\ Created' = Created /\ Total' = Total /\ FirstRun' = FirstRun
  BY <1>1, <1>3 DEF Indices, Created, Total, FirstRun
<1>6. CASE UNCHANGED <<current_index, current_thread, cpu>>
  <2>1. DemosShape'
    BY <1>1, <1>3, <1>5, <1>6 DEF DemosShape
  <2>2. DemosFlow' /\ FifoInv' /\ RoundInv'
    BY <1>1, <1>2, <1>3, <1>5, <1>6 DEF DemosFlow, FifoInv, RoundInv
  <2>3. QED BY <2>1, <2>2 DEF DemosInv
<1>7. CASE /\ num_threads > 0 /\ FirstRun \in Indices
           /\ current_index' = FirstRun
           /\ current_thread' = thread_queue[FirstRun] /\ cpu' = thread_queue[FirstRun]
  <2>1. DemosShape'
    BY <1>1, <1>3, <1>4, <1>5, <1>7 DEF DemosShape
  <2>2. DemosFlow'
    BY <1>1, <1>2, <1>3, <1>4, <1>5, <1>7 DEF DemosFlow
  <2>3. FifoInv'
    <3>1. CASE system_policy = "FIFO"
      <4>1. FirstRun = 0
        BY <3>1 DEF FirstRun
      <4>2. \A i \in Indices : ~ (i < 0) /\ progress[thread_queue[i]] = 0
        BY <1>2, <1>4
      <4>3. QED BY <1>1, <1>2, <1>3, <1>5, <1>7, <4>1, <4>2 DEF FifoInv
    <3>2. CASE system_policy # "FIFO"
      BY <1>3, <3>2 DEF FifoInv
    <3>3. QED BY <3>1, <3>2
  <2>4. RoundInv'
    <3>1. ASSUME NEW i \in Indices
          PROVE  InRound(i)' = InRound(i) /\ ~ (InRound(i) < InRound(FirstRun))
      <4>1. InRound(i)' = InRound(i)
        BY <1>3, <1>5 DEF InRound
      <4>2. FirstRun \in {0, 1} /\ i \in Nat
        BY <1>4 DEF FirstRun
      <4>3. QED BY <1>4, <1>7, <4>1, <4>2 DEF InRound
    <3>2. InRound(current_index)' = InRound(FirstRun)
      BY <1>3, <1>5, <1>7 DEF InRound
    <3>3. \A i \in Indices' : turns'[thread_queue'[i]] = 0
      BY <1>1, <1>2, <1>3, <1>4, <1>5
    <3>4. \A i \in Indices' :
              turns'[thread_queue'[i]] = IF InRound(i)' < InRound(current_index)'
                                         THEN (0 + 1) % CYCLE ELSE 0
      BY <1>5, <3>1, <3>2, <3>3
    <3>5. 0 \in 0 .. CYCLE - 1
      BY DEF CYCLE
    <3>6. QED BY <3>4, <3>5 DEF RoundInv
  <2>5. QED BY <2>1, <2>2, <2>3, <2>4 DEF DemosInv
<1>8. QED BY <1>3, <1>6, <1>7

\* What the threads of the three programs do is a turn, with a yield.
LEMMA ProgramTurns ==
    ASSUME DemosInv, NEW t \in Threads,
           \/ printer(t) \/ do_work(t) \/ grapher(t)
           \/ \E unit \in 0 .. MAX_WORK_UNIT - 1 : refine_macrodata(t, unit)
    PROVE  /\ Runs(t)
           /\ \E fin : /\ TurnOf(t, fin)
                       /\ \/ library = "Erebor" /\ nqp_yield(fin)
                          \/ library = "Legacy" /\ legacy_yield(fin)
<1> USE DemosAssumption, SchedAssumption
<1>1. progress \in [Threads -> Nat] /\ leaving = finished
  BY DEF DemosInv, DemosShape, DemosFlow
<1>2. ASSUME Runs(t)
      PROVE  current_thread = t /\ t # NULL
  BY <1>2 DEF Runs, DemosInv, DemosFlow
<1> DEFINE Yields(fin) == \/ library = "Erebor" /\ nqp_yield(fin)
                          \/ library = "Legacy" /\ legacy_yield(fin)
<1>3. ASSUME YieldFrom(t), progress' \in [Threads -> Nat],
             \A s \in Threads \ {t} : progress'[s] = progress[s]
      PROVE  TurnOf(t, finished) /\ Yields(finished)
  BY <1>1, <1>3 DEF YieldFrom, TurnOf
<1>4. ASSUME Runs(t), LeaveFrom(t), UNCHANGED progress
      PROVE  TurnOf(t, finished \cup {t}) /\ Yields(finished \cup {t})
  <2>1. finished \cup {} \cup ({current_thread} \ {NULL}) = finished \cup {t}
    BY <1>2, <1>4
  <2>2. /\ finished' = finished \cup {t} /\ Yields(finished \cup {t})
        /\ UNCHANGED <<thread_queue, num_threads, system_policy, status>>
    <3>1. CASE library = "Erebor" /\ nqp_exit({})
      BY <2>1, <3>1 DEF nqp_exit
    <3>2. CASE library = "Legacy" /\ legacy_exit({})
      <4>1. finished' = finished \cup {t} /\ legacy_yield(finished')
        BY <2>1, <3>2 DEF legacy_exit
      <4>2. legacy_yield(finished \cup {t})
        BY <4>1
      <4>3. QED BY <3>2, <4>1, <4>2 DEF legacy_exit
    <3>3. QED BY <1>4, <3>1, <3>2 DEF LeaveFrom
  <2>3. QED BY <1>1, <1>4, <2>2 DEF LeaveFrom, TurnOf
<1> HIDE DEF Yields
<1>5. ASSUME NEW unit \in Nat, Works(t, unit)
      PROVE  Runs(t) /\ TurnOf(t, finished) /\ Yields(finished)
  <2>1. Min({progress[t] + unit, MAX_PROGRESS}) \in Nat
    <3>1. {progress[t] + unit, MAX_PROGRESS} \in SUBSET Nat
      BY <1>1
    <3>2. QED BY <3>1, MinIsLeast
  <2>2. /\ progress' = [progress EXCEPT ![t] = Min({progress[t] + unit, MAX_PROGRESS})]
        /\ Runs(t) /\ YieldFrom(t)
    BY <1>5 DEF Works
  <2>3. /\ progress' \in [Threads -> Nat]
        /\ \A s \in Threads \ {t} : progress'[s] = progress[s]
    BY <1>1, <2>1, <2>2
  <2>4. QED BY <1>3, <2>2, <2>3
<1>6. ASSUME WorkDone(t)
      PROVE  Runs(t) /\ \E fin : TurnOf(t, fin) /\ Yields(fin)
  BY <1>4, <1>6 DEF WorkDone
<1>7. ASSUME grapher(t)
      PROVE  Runs(t) /\ \E fin : TurnOf(t, fin) /\ Yields(fin)
  <2>1. Runs(t) /\ UNCHANGED progress /\ (LeaveFrom(t) \/ YieldFrom(t))
    BY <1>7 DEF grapher
  <2>2. QED BY <1>1, <1>3, <1>4, <2>1
<1>8. Runs(t) /\ \E fin : TurnOf(t, fin) /\ Yields(fin)
  <2>1. CASE printer(t) \/ do_work(t)
    <3>1. Works(t, 1) \/ WorkDone(t)
      BY <2>1 DEF printer, do_work
    <3>2. QED BY <1>5, <1>6, <3>1
  <2>2. ASSUME NEW unit \in 0 .. MAX_WORK_UNIT - 1, refine_macrodata(t, unit)
        PROVE  Runs(t) /\ \E fin : TurnOf(t, fin) /\ Yields(fin)
    <3>1. unit \in Nat /\ (Works(t, unit) \/ WorkDone(t))
      BY <2>2 DEF refine_macrodata
    <3>2. QED BY <1>5, <1>6, <3>1
  <2>3. QED BY <1>7, <2>1, <2>2
<1>9. QED BY <1>8 DEF Yields

\* Every step keeps the invariant.
LEMMA DemosStep ==
    ASSUME DemosInv, [DemosNext]_allDemoVars
    PROVE  DemosInv'
<1>1. CASE CreateThread
  BY <1>1, CreateThreadKeeps
<1>2. CASE ChoosePolicy
  BY <1>2, ChoosePolicyKeeps
<1>3. CASE StartSched
  BY <1>3, StartSchedKeeps
<1>4. CASE ExitReturns \/ DemosEnded \/ UNCHANGED allDemoVars
  <2>1. UNCHANGED <<thread_queue, num_threads, current_index, current_thread, finished,
                    system_policy, context, cpu, library, program, main, progress,
                    turns, leaving>>
    BY <1>4 DEF ExitReturns, ExitProcess, DemosEnded, allDemoVars, demoVars, schedVars
  <2>2. DemosShape' /\ DemosFlow'
    BY <2>1 DEF DemosInv, DemosShape, DemosFlow, Indices, Created, Total
  <2>3. FifoInv' /\ RoundInv'
    BY <2>1 DEF DemosInv, FifoInv, RoundInv, Indices, InRound, FirstRun
  <2>4. QED BY <2>2, <2>3 DEF DemosInv
<1>5. ASSUME NEW t \in Threads,
             \/ printer(t) \/ do_work(t) \/ grapher(t)
             \/ \E unit \in 0 .. MAX_WORK_UNIT - 1 : refine_macrodata(t, unit)
      PROVE  DemosInv'
  <2>1. /\ Runs(t)
        /\ \E fin : /\ TurnOf(t, fin)
                    /\ \/ library = "Erebor" /\ nqp_yield(fin)
                       \/ library = "Legacy" /\ legacy_yield(fin)
    BY <1>5, ProgramTurns
  <2>2. QED BY <2>1, TurnKeeps
<1>6. QED BY <1>1, <1>2, <1>3, <1>4, <1>5 DEF DemosNext, Turn

\* Numbers of turns that are the same, or one apart, modulo CYCLE.
LEMMA TurnsApart ==
    ASSUME NEW r \in 0 .. CYCLE - 1, NEW n \in 0 .. CYCLE - 1, n = r + 1 \/ n + CYCLE = r + 1
    PROVE  \A a, b \in {r, n} : (b - a) % CYCLE \in {0, 1, CYCLE - 1}
<1>1. CYCLE = 4
  BY DEF CYCLE
<1>2. ASSUME NEW m \in Nat, m < 4
      PROVE  m % 4 = m
  BY <1>2
<1>3. ASSUME NEW m \in Int
      PROVE  (m + 4) % 4 = m % 4
  BY <1>3
<1>4. \A d \in Int : d \in {0, 1, 3} \/ d + 4 \in {1, 3} => d % 4 \in {0, 1, 3}
  BY <1>2, <1>3
<1>5. \A a, b \in {r, n} : b - a \in Int /\ (b - a \in {0, 1, 3} \/ (b - a) + 4 \in {1, 3})
  BY <1>1
<1>6. QED BY <1>1, <1>4, <1>5

\* A number of turns that is one more than another, modulo CYCLE.
LEMMA RoundApart ==
    ASSUME NEW r \in 0 .. CYCLE - 1, NEW n \in 0 .. CYCLE - 1, n = r + 1 \/ n + CYCLE = r + 1
    PROVE  (n - r) % CYCLE = 1
<1>1. CYCLE = 4 /\ n - r \in {1, 0 - 3}
  BY DEF CYCLE
<1>2. 1 % 4 = 1
  OBVIOUS
<1>3. ASSUME NEW m \in Int
      PROVE  (m + 4) % 4 = m % 4
  BY <1>3
<1>4. (0 - 3) % 4 = 1
  <2>1. 0 - 3 \in Int /\ (0 - 3) + 4 = 1
    OBVIOUS
  <2>2. QED BY <1>2, <1>3, <2>1
<1>5. QED BY <1>1, <1>2, <1>4

\* The invariant implies the order of the output.
LEMMA InvImpliesOrder ==
    ASSUME DemosInv
    PROVE  OutputOrder
<1> SUFFICES ASSUME NEW k \in 1 .. num_threads, NEW l \in 1 .. num_threads
    PROVE  /\ system_policy = "FIFO" =>
                  (k < l /\ (progress[Id[l]] > 0 \/ Id[l] \in finished) => Id[k] \in finished)
           /\ system_policy # "FIFO" /\ BothAtWork(k, l) => Ahead(k, l) \in {0, 1, CYCLE - 1}
           /\ system_policy # "FIFO" /\ FirstRun = 0 /\ k < l /\ BothAtWork(k, l) =>
                  Ahead(k, l) \in {0, 1}
  BY DEF OutputOrder, FirstRun
<1>1. /\ DemosShape /\ DemosFlow /\ num_threads \in Nat
      /\ Indices = 0 .. num_threads - 1
      /\ \A i \in Indices : thread_queue[i] \in Threads
  BY EntriesOnce DEF DemosInv, Indices
<1> DEFINE i == k - 1
           j == l - 1
<1>2. /\ i \in Indices /\ j \in Indices
      /\ thread_queue[i] = Id[k] /\ thread_queue[j] = Id[l]
      /\ Id[k] \in Threads /\ Id[l] \in Threads
  <2>1. i \in Indices /\ j \in Indices /\ i + 1 = k /\ j + 1 = l
    BY <1>1
  <2>2. QED BY <1>1, <2>1 DEF DemosShape
<1>3. CASE current_thread = NULL
  <2>1. /\ finished = {} /\ progress[Id[l]] = 0
        /\ turns[Id[k]] = 0 /\ turns[Id[l]] = 0
    BY <1>1, <1>2, <1>3 DEF DemosFlow
  <2>2. (0 - 0) % CYCLE = 0
    BY DEF CYCLE
  <2>3. Ahead(k, l) = 0
    BY <2>1, <2>2 DEF Ahead
  <2>4. QED BY <2>1, <2>3
<1>4. CASE current_thread # NULL /\ system_policy = "FIFO"
  <2> SUFFICES ASSUME k < l, progress[Id[l]] > 0 \/ Id[l] \in finished
               PROVE  Id[k] \in finished
    BY <1>4
  <2>1. /\ i < current_index => Id[k] \in finished
        /\ j > current_index => Id[l] \notin finished /\ progress[Id[l]] = 0
    BY <1>2, <1>4 DEF DemosInv, FifoInv
  <2>2. current_index \in Nat /\ i < j /\ i \in Int /\ j \in Int
    BY <1>1, <1>2 DEF DemosShape
  <2>3. QED BY <2>1, <2>2
<1>5. CASE current_thread # NULL /\ system_policy # "FIFO"
  <2> SUFFICES ASSUME BothAtWork(k, l)
               PROVE  /\ Ahead(k, l) \in {0, 1, CYCLE - 1}
                      /\ FirstRun = 0 /\ k < l => Ahead(k, l) \in {0, 1}
    BY <1>5
  <2>1. PICK r \in 0 .. CYCLE - 1 :
            \A m \in Indices : thread_queue[m] \notin finished =>
                turns[thread_queue[m]] = IF InRound(m) < InRound(current_index)
                                         THEN (r + 1) % CYCLE ELSE r
    BY <1>5 DEF DemosInv, RoundInv
  <2>2. PICK n \in 0 .. CYCLE - 1 : n = (r + 1) % CYCLE /\ (n = r + 1 \/ n + CYCLE = r + 1)
    <3>1. /\ (r + 1) % CYCLE \in 0 .. CYCLE - 1
          /\ (r + 1) % CYCLE = r + 1 \/ ((r + 1) % CYCLE) + CYCLE = r + 1
      BY DEF CYCLE
    <3>2. QED BY <3>1
  <2>3. Id[k] \notin finished /\ Id[l] \notin finished
    BY DEF BothAtWork
  <2>4. /\ turns[Id[k]] = IF InRound(i) < InRound(current_index) THEN n ELSE r
        /\ turns[Id[l]] = IF InRound(j) < InRound(current_index) THEN n ELSE r
    BY <1>2, <2>1, <2>2, <2>3
  <2>5. Ahead(k, l) \in {0, 1, CYCLE - 1}
    <3>1. turns[Id[k]] \in {r, n} /\ turns[Id[l]] \in {r, n}
      BY <2>4
    <3>2. \A a, b \in {r, n} : (b - a) % CYCLE \in {0, 1, CYCLE - 1}
      BY <2>2, TurnsApart
    <3>3. QED BY <3>1, <3>2 DEF Ahead
  <2>6. ASSUME FirstRun = 0, k < l
        PROVE  Ahead(k, l) \in {0, 1}
    <3>1. InRound(i) = i /\ InRound(j) = j /\ InRound(current_index) = current_index
      <4>1. \A m \in Indices : InRound(m) = m
        BY <1>1, <2>6 DEF InRound
      <4>2. current_index \in Indices
        BY <1>1, <1>5 DEF DemosFlow
      <4>3. QED BY <1>2, <4>1, <4>2
    <3>2. i < j /\ i \in Int /\ j \in Int /\ current_index \in Int
      BY <1>1, <2>6 DEF DemosShape
    <3>3. \/ turns[Id[k]] = turns[Id[l]]
          \/ turns[Id[k]] = n /\ turns[Id[l]] = r
      BY <2>4, <3>1, <3>2
    <3>4. (n - r) % CYCLE = 1 /\ (n - n) % CYCLE = 0 /\ (r - r) % CYCLE = 0
      BY <2>2, RoundApart DEF CYCLE
    <3>5. turns[Id[k]] \in {r, n} /\ turns[Id[l]] \in {r, n}
      BY <2>4
    <3>6. QED BY <3>3, <3>4, <3>5 DEF Ahead
  <2>7. QED BY <2>5, <2>6
<1>6. QED BY <1>3, <1>4, <1>5

\* With any number of workers and any amount of work: under Erebor's FIFO a task
\* writes only when those before it are done; under its RR and under TWOTHREADS of
\* either version the unfinished tasks have their turns one after the other in the
\* order of their creation; under the earlier version's RR none is more than one
\* turn ahead of another.
THEOREM DemosOutput == DemosSpec => []OutputOrder
<1>1. DemosInit => DemosInv
  <2> SUFFICES ASSUME DemosInit PROVE DemosInv
    OBVIOUS
  <2> USE SchedAssumption, DemosAssumption DEF DemosInit, SchedInit
  <2>1. DemosShape
    BY DEF DemosShape, CYCLE, Total, Policies, Flows, Indices
  <2>2. DemosFlow /\ FifoInv /\ RoundInv
    BY DEF DemosFlow, FifoInv, RoundInv, Created, Indices
  <2>3. QED BY <2>1, <2>2 DEF DemosInv
<1>2. DemosInv /\ [DemosNext]_allDemoVars => DemosInv'
  BY DemosStep
<1>3. DemosInv => OutputOrder
  BY InvImpliesOrder
<1>4. QED BY <1>1, <1>2, <1>3, PTL DEF DemosSpec
=============================================================================
