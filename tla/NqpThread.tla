----------------------------- MODULE NqpThread -----------------------------
(***************************************************************************)
(* The thread library of NqpSched under any program: main() creates        *)
(* threads, chooses a policy and starts the scheduler; a task computes,    *)
(* yields, joins, creates threads, calls nqp_exit or returns, in any       *)
(* order.  The scheduling loop of the MLFQ policy is added by NqpMlfq.     *)
(***************************************************************************)
EXTENDS NqpSched

CONSTANTS InitArgs,   \* what main() may pass to nqp_sched_init
          MayCreate,  \* the flows whose program calls nqp_thread_create
          MayExit,    \* the flows whose program calls nqp_exit
          MayJoin,    \* MayJoin[p]: the pairs <<f, t>> where f's program, under
                      \* policy p, joins t
          Endless,    \* the flows that may yield forever
          MaxCalls    \* bound on the other yields, the joins and inits of one flow

ASSUME ProgramAssumption ==
    /\ MayCreate \subseteq Flows
    /\ MayExit \subseteq Flows
    /\ MayJoin \in [Policies -> SUBSET (Flows \X Threads)]
    /\ Endless \subseteq Threads
    /\ MaxCalls \in Nat

VARIABLES pc,      \* where each flow's program is
          target,  \* the thread a flow in nqp_thread_join waits for
          calls    \* the yields, joins and inits a flow has made

progVars == <<pc, target, calls>>
vars == <<schedVars, progVars>>

Labels == {"none",    \* the thread does not exist
           "task",    \* in its own code, about to make a call
           "join",    \* at the loop test of nqp_thread_join
           "exit",    \* in nqp_exit, at the return from nqp_yield
           "start",   \* main(), in nqp_sched_start
           "after"}   \* main(), after nqp_sched_start has returned

Init ==
    /\ SchedInit
    /\ pc = [f \in Flows |-> IF f = Main THEN "task" ELSE "none"]
    /\ target = [f \in Flows |-> NULL]
    /\ calls = [f \in Flows |-> 0]

At(label) == status = "running" /\ pc[cpu] = label
Goto(label) == pc' = [pc EXCEPT ![cpu] = label]
CountCall ==
    /\ calls[cpu] < MaxCalls
    /\ calls' = [calls EXCEPT ![cpu] = @ + 1]
CountYield == IF cpu \in Endless THEN UNCHANGED calls ELSE CountCall

-----------------------------------------------------------------------------
Create(t) ==
    /\ At("task") /\ cpu \in MayCreate
    /\ nqp_thread_create(t)
    /\ pc' = IF num_threads < MAX_THREADS THEN [pc EXCEPT ![t] = "task"] ELSE pc
    /\ UNCHANGED <<target, calls>>

InitSched(policy) ==
    /\ At("task") /\ cpu = Main
    /\ nqp_sched_init(policy)
    /\ CountCall
    /\ UNCHANGED <<pc, target>>

Start ==
    /\ At("task") /\ cpu = Main
    /\ nqp_sched_start
    /\ Goto("start")
    /\ UNCHANGED <<target, calls>>

\* nqp_sched_start returns to main(): with no thread to start, at once.
StartReturns ==
    /\ At("start") /\ system_policy # "MLFQ"
    /\ Goto("after")
    /\ UNCHANGED <<schedVars, target, calls>>

Yield ==
    /\ At("task")
    /\ nqp_yield(finished)
    /\ CountYield
    /\ UNCHANGED <<thread_queue, num_threads, finished, system_policy, status,
                   pc, target>>

\* The loop of nqp_thread_join is entered, and one turn of it.
JoinCall(t) ==
    /\ \/ At("task") /\ cpu # Main
       \/ At("after")
    /\ t \in Created /\ <<cpu, t>> \in MayJoin[system_policy]
    /\ CountCall
    /\ target' = [target EXCEPT ![cpu] = t]
    /\ Goto("join")
    /\ UNCHANGED schedVars

JoinReturn ==
    /\ At("join") /\ target[cpu] \in finished
    /\ Goto(IF cpu = Main THEN "after" ELSE "task")
    /\ UNCHANGED <<schedVars, target, calls>>

\* (main() has a thread to join only after the MLFQ loop has ended: what its
\* nqp_yield does then is ResumeReturnedFrame of NqpMlfq.)
JoinYield ==
    /\ At("join") /\ cpu # Main /\ target[cpu] \notin finished
    /\ nqp_yield(finished)
    /\ UNCHANGED <<thread_queue, num_threads, finished, system_policy, status,
                   progVars>>

\* A program calls nqp_exit.
ExitCall ==
    /\ At("task") /\ cpu \in MayExit
    /\ nqp_exit({})
    /\ Goto("exit")
    /\ UNCHANGED <<target, calls>>

\* A task returns to thread_wrapper, which marks it and calls nqp_exit.
thread_wrapper ==
    /\ At("task") /\ cpu # Main
    /\ nqp_exit({cpu})
    /\ Goto("exit")
    /\ UNCHANGED <<target, calls>>

\* nqp_yield returns to nqp_exit, or main() returns.
ProcessExit ==
    /\ At("exit") \/ At("after")
    /\ ExitProcess
    /\ UNCHANGED progVars

\* The process has ended.
Ended == status # "running" /\ UNCHANGED vars

ProgramNext ==
    \/ \E t \in Threads : Create(t) \/ JoinCall(t)
    \/ \E policy \in InitArgs : InitSched(policy)
    \/ Yield \/ JoinReturn \/ JoinYield
    \/ ExitCall \/ thread_wrapper \/ ProcessExit

Next == ProgramNext \/ Start \/ StartReturns \/ Ended

Spec == Init /\ [][Next]_vars
FairSpec == Spec /\ WF_vars(Next)
-----------------------------------------------------------------------------
TypeOK ==
    /\ thread_queue \in [0 .. MAX_THREADS - 1 -> Threads \cup {NULL}]
    /\ num_threads \in 0 .. MAX_THREADS
    /\ current_index \in 0 .. MAX_THREADS - 1
    /\ current_thread \in Threads \cup {NULL}
    /\ finished \subseteq Threads
    /\ system_policy \in Policies
    /\ context \in [Threads -> Flows]
    /\ scheduler_context \in Flows \cup {NULL}
    /\ cpu \in Flows
    /\ status \in Statuses
    /\ pc \in [Flows -> Labels]
    /\ target \in [Flows -> Threads \cup {NULL}]
    /\ calls \in [Flows -> 0 .. MaxCalls]

\* Who executes, who the library believes executes, and what each control
\* block has saved agree: the flow on the CPU is the queue's current entry,
\* and resuming a thread resumes that thread and no other.
ContextIntegrity ==
    /\ cpu = IF current_thread = NULL THEN Main ELSE thread_queue[current_index]
    /\ current_thread # NULL => current_thread = thread_queue[current_index]
    /\ \A t \in Threads : context[t] = t

\* FIFO: a thread is not run to its end before every earlier one is.
FifoOrder ==
    system_policy = "FIFO" =>
        \A i, j \in Indices :
            i < j /\ thread_queue[j] \in finished => thread_queue[i] \in finished

\* The library is a cooperative scheduler (CoopThreads).
Coop == INSTANCE CoopThreads
          WITH live <- Created \ finished, done <- finished,
               running <- cpu, outcome <- status
ImplementsCoop == Coop!CoopSpec

\* A program whose tasks all return, and join no thread that waits for them,
\* ends: the last thread's nqp_exit finds nobody to yield to.
Termination == <>(status # "running")
=============================================================================
