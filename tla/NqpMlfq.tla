------------------------------ MODULE NqpMlfq ------------------------------
(***************************************************************************)
(* The MLFQ policy: NqpThread with the loop of nqp_sched_start that main() *)
(* runs and every nqp_yield returns to (nqp_thread.c:205-323).             *)
(*                                                                         *)
(* Nothing interrupts the loop between two swapcontexts; it is cut into    *)
(* the steps at which it reads a clock or chooses a thread.  Time passes   *)
(* only while a thread runs, in units: a thread keeps the CPU for one of   *)
(* SliceLengths before it gives it back.  The clock is CLOCK_REALTIME,     *)
(* which may be set meanwhile, back or forward.                            *)
(***************************************************************************)
EXTENDS NqpThread, Integers, Sequences

CONSTANTS TIME_SLICE,      \* time_slice_us, in units
          BOOST_INTERVAL,  \* boost_interval_us, in units
          SliceLengths,    \* how long a thread may run before it yields
          ClockSettings,   \* by how much the clock may be set
          MaxSettings,     \* bound on how often it is
          MaxStarts        \* bound on the calls of nqp_sched_start

ASSUME MlfqAssumption ==
    /\ TIME_SLICE \in Nat \ {0}
    /\ BOOST_INTERVAL \in Nat \ {0}
    /\ SliceLengths \subseteq Nat \ {0}
    /\ ClockSettings \subseteq Int /\ MaxSettings \in Nat
    /\ MaxStarts \in Nat

NUM_QUEUES == 3
Levels == 0 .. NUM_QUEUES - 1

VARIABLES
    mlfq_queues,   \* the used entries of each queue: entry idx is element idx + 1
    rr_indices,
    elapsed,       \* now - last_boost_time, while the loop runs
    settings,      \* how often it was set
    picked,        \* queue_level, idx and next of the iteration under way
    loop,          \* "off", or the step of the loop main() is at
    starts,        \* calls of nqp_sched_start
    enqueued       \* history: the threads that existed at the last one

startVars == <<starts, enqueued>>
clockVars == <<elapsed, settings>>
mlfqVars == <<mlfq_queues, rr_indices, clockVars, picked, loop, startVars>>
allVars == <<vars, mlfqVars>>

NothingPicked == [level |-> 0, idx |-> 0, next |-> NULL]

MlfqInit ==
    /\ Init
    /\ mlfq_queues = [q \in Levels |-> <<>>]
    /\ rr_indices = [q \in Levels |-> 0]
    /\ elapsed = 0 /\ settings = 0
    /\ picked = NothingPicked
    /\ loop = "off"
    /\ starts = 0
    /\ enqueued = {}

-----------------------------------------------------------------------------
size(q) == Len(mlfq_queues[q])
\* Mutant: the loop ends at the first finished thread.
AllDone_any == Created \cap finished # {}
AllDone == Created \subseteq finished

InLoop(step) == status = "running" /\ cpu = Main /\ loop = step

\* Entry idx is overwritten by the last entry, and the queue is one shorter.
RemoveAt(queue, idx) ==
    [i \in 1 .. Len(queue) - 1 |->
        IF i = idx + 1 THEN queue[Len(queue)] ELSE queue[i]]

\* The unfinished threads of a queue, in order: the inner loop of the boost.
UnfinishedOf(queue) ==
    LET upTo[j \in 0 .. Len(queue)] ==
            IF j = 0 THEN <<>>
            ELSE IF queue[j] \in finished THEN upTo[j - 1]
            ELSE Append(upTo[j - 1], queue[j])
    IN  upTo[Len(queue)]

\* The loop ends: nqp_sched_start returns to main(), and last_boost_time with it.
LeaveLoop ==
    /\ loop' = "off"
    /\ Goto("after")
    /\ elapsed' = 0
    /\ UNCHANGED <<schedVars, target, calls, mlfq_queues, rr_indices, settings,
                   picked, startVars>>

CallsStart ==
    /\ At("task") \/ At("after")
    /\ cpu = Main /\ system_policy = "MLFQ"
    /\ starts < MaxStarts

\* The queues are static: a second call appends to what the first one left.
StartMlfq ==
    /\ CallsStart
    /\ num_threads > 0 /\ size(0) + num_threads <= MAX_THREADS
    /\ mlfq_queues' = [mlfq_queues EXCEPT ![0] =
                          @ \o [i \in 1 .. num_threads |-> thread_queue[i - 1]]]
    /\ elapsed' = 0
    /\ loop' = "top"
    /\ starts' = starts + 1
    /\ enqueued' = Created
    /\ Goto("start")
    /\ UNCHANGED <<schedVars, target, calls, rr_indices, settings, picked>>

\* The fill loop stores past the last entry of queue 0.
StartOverrun ==
    /\ CallsStart
    /\ size(0) + num_threads > MAX_THREADS
    /\ status' = "undefined"
    /\ UNCHANGED <<thread_queue, num_threads, current_index, current_thread,
                   finished, system_policy, context, scheduler_context, cpu,
                   progVars, mlfqVars>>

StartEmpty ==
    /\ CallsStart /\ num_threads = 0
    /\ starts' = starts + 1
    /\ Goto("after")
    /\ UNCHANGED <<schedVars, target, calls, mlfq_queues, rr_indices, clockVars,
                   picked, loop, enqueued>>

AllThreadsDone ==
    /\ InLoop("top") /\ AllDone
    /\ LeaveLoop

\* Mutant: the boost leaves out the lowest queue.
Boosted_not_lowest ==
    [q \in Levels |-> IF q = 0 THEN mlfq_queues[0] \o UnfinishedOf(mlfq_queues[1])
                      ELSE IF q = 1 THEN <<>> ELSE mlfq_queues[q]]
\* Mutant: the boost does not empty the queues it has copied.
Boosted_copied ==
    [q \in Levels |-> IF q = 0 THEN mlfq_queues[0] \o UnfinishedOf(mlfq_queues[1])
                                                  \o UnfinishedOf(mlfq_queues[2])
                      ELSE mlfq_queues[q]]

\* All unfinished threads of the lower queues go behind those of queue 0.
Boosted ==
    [q \in Levels |-> IF q = 0 THEN mlfq_queues[0] \o UnfinishedOf(mlfq_queues[1])
                                                  \o UnfinishedOf(mlfq_queues[2])
                      ELSE <<>>]

Boost ==
    /\ InLoop("top") /\ ~AllDone
    /\ elapsed >= BOOST_INTERVAL
    /\ mlfq_queues' = Boosted
    /\ rr_indices' = [q \in Levels |-> IF q = 0 THEN rr_indices[0] ELSE 0]
    /\ elapsed' = 0
    /\ loop' = "pick"
    /\ UNCHANGED <<vars, settings, picked, startVars>>

NoBoost ==
    /\ InLoop("top") /\ ~AllDone
    /\ elapsed < BOOST_INTERVAL
    /\ loop' = "pick"
    /\ UNCHANGED <<vars, mlfq_queues, rr_indices, clockVars, picked, startVars>>

NonEmpty == {q \in Levels : size(q) > 0}

NothingRunnable ==
    /\ InLoop("pick") /\ NonEmpty = {}
    /\ LeaveLoop

\* The next entry, in turn, of the first queue that is not empty.
Picked ==
    LET level == Min(NonEmpty)
        idx == rr_indices[level] % size(level)
    IN  [level |-> level, idx |-> idx, next |-> mlfq_queues[level][idx + 1]]

AdvanceTurn ==
    rr_indices' = [rr_indices EXCEPT ![Picked.level] =
                      (@ + 1) % size(Picked.level)]

DropFinished ==
    /\ InLoop("pick") /\ NonEmpty # {}
    /\ Picked.next \in finished
    /\ mlfq_queues' = [mlfq_queues EXCEPT ![Picked.level] = RemoveAt(@, Picked.idx)]
    /\ AdvanceTurn
    /\ loop' = "top"
    /\ UNCHANGED <<vars, clockVars, picked, startVars>>

Dispatch ==
    /\ InLoop("pick") /\ NonEmpty # {}
    /\ Picked.next \notin finished
    /\ picked' = Picked
    /\ AdvanceTurn
    /\ current_thread' = Picked.next
    /\ swap_to_thread(Picked.next)
    /\ loop' = "charge"
    /\ UNCHANGED <<thread_queue, num_threads, current_index, finished,
                   system_policy, status, progVars, mlfq_queues, clockVars,
                   startVars>>

\* A slice that measured d units is over: one that is long enough costs the
\* thread its level, whether or not its task has finished in it.
Demote(d) ==
    /\ d >= TIME_SLICE /\ picked.level < NUM_QUEUES - 1
    /\ mlfq_queues' =
         [mlfq_queues EXCEPT ![picked.level] = RemoveAt(@, picked.idx),
                             ![picked.level + 1] = Append(@, picked.next)]

Keep(d) ==
    /\ d < TIME_SLICE \/ picked.level = NUM_QUEUES - 1
    /\ UNCHANGED mlfq_queues

Charge(d) ==
    /\ InLoop("charge")
    /\ Demote(d) \/ Keep(d)
    /\ elapsed' = elapsed + d
    /\ loop' = "top"
    /\ UNCHANGED <<vars, rr_indices, picked, startVars>>

ChargeInTime == \E d \in SliceLengths : Charge(d) /\ UNCHANGED settings

\* The clock was set by s while the thread ran.
ChargeSet ==
    /\ settings < MaxSettings /\ settings' = settings + 1
    /\ \E d \in SliceLengths, s \in ClockSettings : Charge(d + s)

\* main() joins a thread that is not finished after the loop has ended: its
\* nqp_yield resumes scheduler_context, a frame that has returned.
ResumeReturnedFrame ==
    /\ At("join") /\ cpu = Main
    /\ target[cpu] \notin finished /\ current_thread # NULL
    /\ status' = "undefined"
    /\ UNCHANGED <<thread_queue, num_threads, current_index, current_thread,
                   finished, system_policy, context, scheduler_context, cpu,
                   progVars, mlfqVars>>

LoopNext ==
    \/ StartMlfq \/ StartOverrun \/ StartEmpty
    \/ AllThreadsDone \/ Boost \/ NoBoost \/ NothingRunnable
    \/ DropFinished \/ Dispatch
    \/ ChargeInTime \/ ChargeSet
    \/ ResumeReturnedFrame

MlfqNext == LoopNext \/ (Next /\ UNCHANGED mlfqVars)

MlfqSpec == MlfqInit /\ [][MlfqNext]_allVars /\ WF_allVars(MlfqNext)
-----------------------------------------------------------------------------
MlfqTypeOK ==
    /\ TypeOK
    /\ mlfq_queues \in [Levels -> Seq(Threads)]
    /\ rr_indices \in [Levels -> 0 .. MAX_THREADS - 1]
    /\ elapsed \in Int /\ settings \in 0 .. MaxSettings
    /\ picked \in [level : Levels, idx : 0 .. MAX_THREADS - 1,
                   next : Threads \cup {NULL}]
    /\ loop \in {"off", "top", "pick", "charge"}

Slots(t) == UNION {{<<q, i>> : i \in {j \in 1 .. size(q) : mlfq_queues[q][j] = t}} :
                      q \in Levels}

\* While the loop runs, every thread it was started with is in exactly one
\* queue until it has finished: demotions, boosts and removals by "overwrite
\* with the last" never lose one, or schedule one twice, no queue outgrows its
\* MAX_THREADS entries, and the indexes stay within them.
EachInOneQueue ==
    /\ MlfqTypeOK
    /\ loop # "off" =>
           /\ \A t \in enqueued \ finished : Cardinality(Slots(t)) = 1
           /\ \A q \in Levels : size(q) <= MAX_THREADS

\* When a slice is charged, the entry that is removed is still that of the
\* thread that has run, and the loop's frame is the one the thread resumed.
ChargesWhoRan ==
    loop = "charge" =>
        /\ mlfq_queues[picked.level][picked.idx + 1] = picked.next
        /\ picked.next = current_thread
        /\ scheduler_context = Main
        /\ \A t \in Threads : context[t] = t

\* main() gets the CPU back from nqp_sched_start only when every thread that it
\* was started with is done.  (One that is created meanwhile is in no queue: the
\* loop may end without it.)
ReturnsWhenDone == pc[Main] = "after" => enqueued \subseteq finished

\* No level starves: the boost brings every thread that is queued back to where
\* it is its turn, however the threads above it yield, also when the clock was
\* set back and a boost comes late.
NoStarvation ==
    \A t \in Threads :
        t \in enqueued \ finished /\ loop # "off"
            ~> cpu = t \/ status # "running"
=============================================================================
