-------------------------- MODULE NqpListInsertion --------------------------
(***************************************************************************)
(* The program of src/Erebor/nqp_list_insertion.c: threads of the library  *)
(* that each insert a node behind the head of one list, under the head's   *)
(* lock, and yield between reading the head's next node and writing it.    *)
(* It composes NqpSched and NqpMutex: the lock spins on the one kernel     *)
(* thread that all flows share.                                            *)
(***************************************************************************)
EXTENDS NqpSched, NqpMutex, Sequences

CONSTANT InitArgs   \* the policies main() passes; RR in the source

VARIABLES pc,      \* where main(), and each thread_insert_after, is
          head,    \* head->next; a node is named by the thread that inserts it
          next     \* next[t]: the next field of t's node

listVars == <<pc, head, next>>
vars == <<schedVars, flag, listVars>>

Init ==
    /\ SchedInit
    /\ flag = "none"
    /\ pc = [f \in Flows |-> IF f = Main THEN "build" ELSE "none"]
    /\ head = NULL
    /\ next = [t \in Threads |-> NULL]

At(label) == status = "running" /\ pc[cpu] = label
Goto(label) == pc' = [pc EXCEPT ![cpu] = label]

-----------------------------------------------------------------------------
\* build_list: the head and its lock; the allocations succeed.
build_list ==
    /\ At("build")
    /\ mutex_init
    /\ Goto("create")
    /\ UNCHANGED <<schedVars, head, next>>

CreateThread(t) ==
    /\ At("create") /\ cpu = Main
    /\ nqp_thread_create(t)
    /\ pc' = [pc EXCEPT ![t] = "lock"]
    /\ UNCHANGED <<flag, head, next>>

InitSched(policy) ==
    /\ At("create") /\ Created = Threads
    /\ nqp_sched_init(policy)
    /\ Goto("start")
    /\ UNCHANGED <<flag, head, next>>

\* nqp_sched_start does not return: the joins and print_list are never reached.
StartSched ==
    /\ At("start") /\ current_thread = NULL
    /\ nqp_sched_start
    /\ UNCHANGED <<flag, listVars>>

\* thread_insert_after(): lock the head, or spin.
Lock ==
    /\ At("lock")
    /\ test_and_set
    /\ Goto("read")
    /\ UNCHANGED <<schedVars, head, next>>

Spin ==
    /\ At("lock")
    /\ spin
    /\ UNCHANGED <<schedVars, listVars>>

\* to_insert->next is read, and the thread yields before it is used.
ReadNext ==
    /\ At("read")
    /\ next' = [next EXCEPT ![cpu] = head]
    /\ nqp_yield(finished)
    /\ Goto("write")
    /\ UNCHANGED <<thread_queue, num_threads, finished, system_policy, status,
                   flag, head>>

WriteNext ==
    /\ At("write")
    /\ head' = cpu
    /\ Goto("unlock")
    /\ UNCHANGED <<schedVars, flag, next>>

Unlock ==
    /\ At("unlock")
    /\ mutex_unlock
    /\ Goto("end")
    /\ UNCHANGED <<schedVars, head, next>>

ThreadExit ==
    /\ At("end")
    /\ nqp_exit({})
    /\ Goto("exit")
    /\ UNCHANGED <<flag, head, next>>

ProcessExit ==
    /\ At("exit")
    /\ ExitProcess
    /\ UNCHANGED <<flag, listVars>>

Ended == status # "running" /\ UNCHANGED vars

Next ==
    \/ build_list \/ StartSched
    \/ \E t \in Threads : CreateThread(t)
    \/ \E policy \in InitArgs : InitSched(policy)
    \/ Lock \/ Spin \/ ReadNext \/ WriteNext \/ Unlock \/ ThreadExit \/ ProcessExit
    \/ Ended

Spec == Init /\ [][Next]_vars
FairSpec == Spec /\ WF_vars(Next)
-----------------------------------------------------------------------------
\* A thread that waits for the lock gets it: "yield control to allow other
\* threads to run" (nqp_thread_locks.c:64).
LockAcquired ==
    \A t \in Threads : cpu = t /\ pc[t] = "lock" ~> pc[t] # "lock"
=============================================================================
