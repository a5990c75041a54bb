------------------------------ MODULE NqpSched ------------------------------
(***************************************************************************)
(* The user-level thread library of src/Erebor/nqp_thread.c: its static    *)
(* variables and the calls of its interface.                               *)
(*                                                                         *)
(* Every thread runs on the one kernel thread of the process: nothing      *)
(* preempts a call, so each call is one step up to its swapcontext.  The   *)
(* operators below are the calls; the modules that extend this one supply  *)
(* the programs that make them (NqpThread any program, NqpMlfq the         *)
(* scheduling loop of the MLFQ policy, NqpListInsertion the program of     *)
(* nqp_list_insertion.c).                                                  *)
(*                                                                         *)
(* A "flow" is a stack of the process: Main's, or that of a thread.        *)
(***************************************************************************)
EXTENDS Naturals, FiniteSetsExt

CONSTANTS Threads,      \* control blocks nqp_thread_create may allocate
          Main,         \* the flow that runs main()
          NULL,         \* the null pointer
          MAX_THREADS   \* capacity of thread_queue (nqp_thread.c:11)

ASSUME SchedAssumption ==
    /\ MAX_THREADS \in Nat \ {0}
    /\ Main \notin Threads
    /\ NULL \notin Threads \cup {Main}

VARIABLES
    thread_queue,       \* thread_queue[0 .. MAX_THREADS - 1]
    num_threads,        \* threads in the queue; nothing ever leaves it
    current_index,      \* index of the thread the scheduler gave the CPU to
    current_thread,     \* that thread, or NULL before nqp_sched_start
    finished,           \* the threads whose finished field is 1
    system_policy,
    context,            \* context[t]: the flow whose registers t->context holds
    scheduler_context,  \* the flow whose registers scheduler_context holds
    cpu,                \* the flow that is executing
    status              \* "running", or how the process ended

schedVars == <<thread_queue, num_threads, current_index, current_thread,
               finished, system_policy, context, scheduler_context, cpu, status>>

Flows == Threads \cup {Main}
Policies == {"TWOTHREADS", "FIFO", "RR", "MLFQ"}

Statuses == {"running",
             "exited",      \* exit(0), or main() has returned
             "failed",      \* exit(EXIT_FAILURE)
             "aborted",     \* an assertion has failed
             "undefined"}   \* a stack frame that has returned was resumed

Indices == 0 .. num_threads - 1
Created == {thread_queue[i] : i \in Indices}

SchedInit ==
    /\ thread_queue = [i \in 0 .. MAX_THREADS - 1 |-> NULL]
    /\ num_threads = 0
    /\ current_index = 0
    /\ current_thread = NULL
    /\ finished = {}
    /\ system_policy = "TWOTHREADS"
    /\ context = [t \in Threads |-> t]
    /\ scheduler_context = NULL
    /\ cpu = Main
    /\ status = "running"

-----------------------------------------------------------------------------
\* scheduler_add_thread: append, or end the process when the queue is full.
scheduler_add_thread(t) ==
    IF num_threads < MAX_THREADS
    THEN /\ thread_queue' = [thread_queue EXCEPT ![num_threads] = t]
         /\ num_threads' = num_threads + 1
         /\ UNCHANGED status
    ELSE /\ status' = "failed"
         /\ UNCHANGED <<thread_queue, num_threads>>

\* nqp_thread_create with its allocations succeeding: the new context starts
\* in thread_wrapper on the new stack.  The error returns change nothing.
nqp_thread_create(t) ==
    /\ t \notin Created
    /\ scheduler_add_thread(t)
    /\ UNCHANGED <<current_index, current_thread, finished, system_policy,
                   context, scheduler_context, cpu>>

\* nqp_sched_init: the settings are ignored; a policy that is not one fails
\* the assertion (the Makefile does not define NDEBUG) and aborts.
nqp_sched_init(policy) ==
    /\ IF policy \in Policies
       THEN system_policy' = policy /\ UNCHANGED status
       ELSE status' = "aborted" /\ UNCHANGED system_policy
    /\ UNCHANGED <<thread_queue, num_threads, current_index, current_thread,
                   finished, context, scheduler_context, cpu>>

-----------------------------------------------------------------------------
\* swapcontext(prev, next) between two threads: save the flow that executes
\* in prev, resume the one saved in next.
swapcontext(prev, next) ==
    /\ context' = [context EXCEPT ![prev] = cpu]
    /\ cpu' = context[next]
    /\ UNCHANGED scheduler_context

\* Mutant: the loop resumes a thread with setcontext, and saves nothing.
swap_to_thread_unsaved(next) ==
    /\ cpu' = context[next]
    /\ UNCHANGED <<context, scheduler_context>>

\* The two swapcontexts of the MLFQ loop: into a thread, and back.
swap_to_thread(next) ==
    /\ scheduler_context' = cpu
    /\ cpu' = context[next]
    /\ UNCHANGED context

swap_to_scheduler(prev) ==
    /\ context' = [context EXCEPT ![prev] = cpu]
    /\ cpu' = scheduler_context
    /\ UNCHANGED scheduler_context

\* Mutant: current_index is not updated.
SwitchTo_stale_index(k) ==
    /\ current_thread' = thread_queue[k]
    /\ swapcontext(current_thread, thread_queue[k])
    /\ UNCHANGED current_index

\* The branch that hands the CPU to entry k of the queue.
SwitchTo(k) ==
    /\ current_index' = k
    /\ current_thread' = thread_queue[k]
    /\ swapcontext(current_thread, thread_queue[k])

\* The returns of nqp_yield that change nothing: the caller goes on.
NoSwitch == UNCHANGED <<current_index, current_thread, context,
                        scheduler_context, cpu>>

\* Mutant: the search does not skip finished threads.
RingDistances_unchecked(fin) == 1 .. num_threads

\* The distances from current_index, going round the queue, at which there is
\* a thread that is not in fin; num_threads is current_index itself.
RingDistances(fin) ==
    {d \in 1 .. num_threads :
        thread_queue[(current_index + d) % num_threads] \notin fin}

\* Mutant: the search starts at the head of the queue every time.
NextInRing_from_head(fin) == Min({i \in Indices : thread_queue[i] \notin fin})
\* Mutant: the first other thread of the queue is taken.
NextInRing_first_other(fin) ==
    LET others == {i \in Indices \ {current_index} : thread_queue[i] \notin fin}
    IN  IF others = {} THEN current_index ELSE Min(others)

NextInRing(fin) == (current_index + Min(RingDistances(fin))) % num_threads

\* TWOTHREADS and RR.
YieldRing(fin) ==
    IF RingDistances(fin) = {} \/ thread_queue[NextInRing(fin)] = current_thread
    THEN NoSwitch
    ELSE SwitchTo(NextInRing(fin))

\* Mutant: the search for the next thread keeps the last one it finds.
YieldFifo_last(fin) ==
    LET unfinished == {i \in Indices : thread_queue[i] \notin fin}
    IN  IF current_thread \notin fin \/ unfinished = {}
        THEN NoSwitch
        ELSE SwitchTo(Max(unfinished))

\* FIFO: only a finished thread gives way, to the first that is not finished.
YieldFifo(fin) ==
    LET unfinished == {i \in Indices : thread_queue[i] \notin fin}
    IN  IF current_thread \notin fin \/ unfinished = {}
        THEN NoSwitch
        ELSE SwitchTo(Min(unfinished))

\* MLFQ: back to the loop of nqp_sched_start.
YieldMlfq ==
    /\ swap_to_scheduler(current_thread)
    /\ UNCHANGED <<current_index, current_thread>>

\* nqp_yield, called when the threads of fin have finished.
nqp_yield(fin) ==
    \/ current_thread = NULL /\ NoSwitch
    \/ /\ current_thread # NULL
       /\ \/ system_policy = "MLFQ" /\ YieldMlfq
          \/ system_policy \in {"TWOTHREADS", "RR"} /\ YieldRing(fin)
          \/ system_policy = "FIFO" /\ YieldFifo(fin)

\* nqp_exit up to its return from nqp_yield; what follows is ExitProcess.
\* also: the threads the caller itself has just marked as finished.
nqp_exit(also) ==
    LET fin == finished \cup also \cup ({current_thread} \ {NULL})
    IN  /\ finished' = fin
        /\ nqp_yield(fin)
        /\ UNCHANGED <<thread_queue, num_threads, system_policy, status>>

\* exit(0): nqp_yield has returned to nqp_exit.
ExitProcess ==
    /\ status' = "exited"
    /\ UNCHANGED <<thread_queue, num_threads, current_index, current_thread,
                   finished, system_policy, context, scheduler_context, cpu>>

\* nqp_sched_start for the policies that switch inside nqp_yield: the context
\* it saves is its own local, which nothing ever resumes.
nqp_sched_start ==
    /\ system_policy # "MLFQ"
    /\ IF num_threads = 0
       THEN UNCHANGED <<current_index, current_thread, cpu>>
       ELSE /\ current_index' = 0
            /\ current_thread' = thread_queue[0]
            /\ cpu' = context[thread_queue[0]]
    /\ UNCHANGED <<thread_queue, num_threads, finished, system_policy,
                   context, scheduler_context, status>>
=============================================================================
