------------------------------ MODULE NqpLegacy ------------------------------
(***************************************************************************)
(* The earlier version of the thread library, Erebor/Legacy/               *)
(* ThreadLegacy.c: its variables are those of NqpSched, and its            *)
(* nqp_thread_create and nqp_sched_init are the same; what differs is      *)
(* here.  All of its policies but FIFO switch round the queue in nqp_yield.*)
(* The context that nqp_sched_start saves is a local of that call which    *)
(* nothing resumes: of its loops only the first turn is ever executed.     *)
(***************************************************************************)
EXTENDS NqpSched

legacy_thread_create(t) == nqp_thread_create(t)
legacy_sched_init(policy) == nqp_sched_init(policy)

\* Mutant: the search begins at the head of the queue.
legacy_next_from_head(fin) ==
    IF Indices = {} \/ {i \in Indices : thread_queue[i] \notin fin} = {} THEN 0
    ELSE Min({i \in Indices : thread_queue[i] \notin fin})

\* The first thread behind current_index that is not in fin; when all are, the
\* search has gone once round, to the one next to it.
legacy_next(fin) ==
    LET live == {d \in 1 .. num_threads :
                    thread_queue[(current_index + d) % num_threads] \notin fin}
    IN  (current_index + IF live = {} THEN 1 ELSE Min(live)) % num_threads

legacy_yield(fin) ==
    IF \/ current_thread = NULL \/ system_policy = "FIFO"
       \/ thread_queue[legacy_next(fin)] = current_thread
    THEN NoSwitch
    ELSE SwitchTo(legacy_next(fin))

\* Mutant: the thread is not marked.
legacy_exit_unmarked(also) ==
    /\ finished' = finished
    /\ legacy_yield(finished')
    /\ UNCHANGED <<thread_queue, num_threads, system_policy, status>>

\* nqp_exit up to its return from nqp_yield, as in NqpSched.
legacy_exit(also) ==
    /\ finished' = finished \cup also \cup ({current_thread} \ {NULL})
    /\ legacy_yield(finished')
    /\ UNCHANGED <<thread_queue, num_threads, system_policy, status>>

\* nqp_sched_start gives entry k of the queue the CPU.
StartAt(k) ==
    /\ current_thread' = thread_queue[k]
    /\ cpu' = context[thread_queue[k]]

Unfinished == {i \in Indices : thread_queue[i] \notin finished}

start_two_threads ==
    /\ system_policy = "TWOTHREADS"
    /\ current_index' = 0 /\ StartAt(0)

\* The first thread that is not finished; current_index is left as it is.
start_fifo ==
    /\ system_policy = "FIFO" /\ Unfinished # {}
    /\ StartAt(Min(Unfinished)) /\ UNCHANGED current_index

\* The index moves on before the first thread is run: entry 1 comes first.
start_rr ==
    /\ system_policy = "RR" /\ Unfinished # {}
    /\ LET k == Min({d \in 1 .. num_threads : d % num_threads \in Unfinished}) % num_threads
       IN  current_index' = k /\ StartAt(k)

\* All threads are in queue 0, whose first one is run.
start_mlfq ==
    /\ system_policy = "MLFQ" /\ Unfinished # {}
    /\ StartAt(0) /\ UNCHANGED current_index

legacy_sched_start ==
    /\ num_threads > 0
    /\ start_two_threads \/ start_fifo \/ start_rr \/ start_mlfq
    /\ UNCHANGED <<thread_queue, num_threads, finished, system_policy,
                   context, scheduler_context, status>>
=============================================================================
