------------------------------ MODULE ThrPool ------------------------------
(***************************************************************************)
(* The thread pool of src/Threading/thread-management-main/thr_pool: a     *)
(* pool that grows to pool_maximum workers as jobs are queued, shrinks to  *)
(* pool_minimum as they idle, can be waited for and destroyed.             *)
(*                                                                         *)
(* All state is read and written under pool_mutex, so that what a thread   *)
(* does from locking it to unlocking it, or to sleeping on a condition     *)
(* variable, is one action.  The pool is a record; an operator of the      *)
(* code's name maps it to what that function leaves.  A thread that waits  *)
(* for a condition variable is in the variable's set; one that has been    *)
(* taken from it contends for the mutex.                                   *)
(***************************************************************************)
EXTENDS Naturals, SequencesExt

CONSTANTS Clients,        \* threads that use the pool
          Workers,        \* the threads the pool may create
          Jobs,
          Exiting,        \* the jobs that call pthread_exit
          pool_minimum,
          pool_maximum,
          Linger,         \* FALSE: pool_linger = 0, an excess worker leaves at once
          MayDestroyEarly,\* thr_pool_destroy with jobs in the queue
          MaxFailures,    \* how many pthread_create may fail
          NULL

ASSUME ThrPoolAssumption ==
    /\ Exiting \subseteq Jobs /\ Workers \cap Clients = {}
    /\ pool_minimum \in Nat /\ pool_maximum \in Nat \ {0}
    /\ pool_minimum <= pool_maximum
    /\ IsFiniteSet(Workers) /\ pool_maximum <= Cardinality(Workers)
    /\ Linger \in BOOLEAN /\ MayDestroyEarly \in BOOLEAN /\ MaxFailures \in Nat
    /\ NULL \notin Jobs

VARIABLES
    pool,      \* the pool data
    pc,        \* pc[t]: where worker or client t is
    job,       \* job[w]: what worker w runs
    cancelled, \* the workers with a pending pthread_cancel
    ended,     \* the jobs that have returned or were cancelled
    before,    \* before[c]: what was queued when c called thr_pool_wait
    discarded, \* what thr_pool_destroy freed
    failures   \* pthread_create calls that have failed

vars == <<pool, pc, job, cancelled, ended, before, discarded, failures>>

Init ==
    /\ pool = [head |-> <<>>, active |-> {}, flags |-> {}, nthreads |-> 0, idle |-> 0,
               workcv |-> {}, waitcv |-> {}, busycv |-> {}]
    /\ pc = [t \in Workers \cup Clients |-> IF t \in Workers THEN "none" ELSE "client"]
    /\ job = [w \in Workers |-> NULL]
    /\ cancelled = {}
    /\ ended = {}
    /\ before = [c \in Clients |-> {}]
    /\ discarded = <<>>
    /\ failures = 0

Waiting == "WAIT"          \* POOL_WAIT
Destroying == "DESTROY"    \* POOL_DESTROY
IsDestroyed == Destroying \in pool.flags
Queued == ToSet(pool.head) \cup {job[w] : w \in pool.active} \cup ended

-----------------------------------------------------------------------------
\* Each condition variable is its set of sleepers, a broadcast empties it.
\* Mutant: whoever is last to finish a job wakes no one.
notify_waiters_silent(p) ==
    IF p.head = <<>> /\ p.active = {}
    THEN [p EXCEPT !.flags = @ \ {Waiting}] ELSE p

notify_waiters(p) ==
    IF p.head = <<>> /\ p.active = {}
    THEN [p EXCEPT !.flags = @ \ {Waiting}, !.waitcv = {}] ELSE p

NotifyIfWaiting(p) == IF Waiting \in p.flags THEN notify_waiters(p) ELSE p

job_cleanup(p, w) == NotifyIfWaiting([p EXCEPT !.active = @ \ {w}])

\* Mutant: the creator does not count the worker.
create_worker_uncounted(p, pcs) ==
    \/ /\ pool' = p
       /\ pc' = [pcs EXCEPT ![CHOOSE w \in Workers : pcs[w] = "none"] = "start"]
       /\ UNCHANGED failures
    \/ /\ failures < MaxFailures
       /\ failures' = failures + 1 /\ pool' = p /\ pc' = pcs

\* The caller counts the worker, if there is one.
create_worker(p, pcs) ==
    \/ /\ pool' = [p EXCEPT !.nthreads = @ + 1]
       /\ pc' = [pcs EXCEPT ![CHOOSE w \in Workers : pcs[w] = "none"] = "start"]
       /\ UNCHANGED failures
    \/ /\ failures < MaxFailures
       /\ failures' = failures + 1 /\ pool' = p /\ pc' = pcs

\* Mutant: a worker that leaves by pthread_exit is not replaced.
worker_cleanup_not_replaced(p, w) ==
    LET q == [p EXCEPT !.nthreads = @ - 1]
    IN  /\ pool' = IF Destroying \in q.flags /\ q.nthreads = 0
                   THEN [q EXCEPT !.busycv = {}] ELSE q
        /\ pc' = [pc EXCEPT ![w] = "none"]
        /\ UNCHANGED failures

\* Worker w terminates; the pool is p by then.
worker_cleanup(p, w) ==
    LET q == [p EXCEPT !.nthreads = @ - 1]
        pcs == [pc EXCEPT ![w] = "none"]
    IN  \/ /\ Destroying \in q.flags
           /\ pool' = IF q.nthreads = 0 THEN [q EXCEPT !.busycv = {}] ELSE q
           /\ pc' = pcs /\ UNCHANGED failures
        \/ /\ Destroying \notin q.flags
           /\ q.head # <<>> /\ q.nthreads < pool_maximum
           /\ create_worker(q, pcs)
        \/ /\ Destroying \notin q.flags
           /\ q.head = <<>> \/ q.nthreads >= pool_maximum
           /\ pool' = q /\ pc' = pcs /\ UNCHANGED failures

-----------------------------------------------------------------------------
\* worker_thread.  The worker has, or contends for, the mutex: when it has
\* started, when its job has returned, and when its sleep is over.
Ready(w) ==
    \/ pc[w] \in {"start", "returned", "timedout"}
    \/ pc[w] \in {"idle", "linger"} /\ w \notin pool.workcv

\* The pool as w finds it when it tests for work (173).
AtTest(w) ==
    CASE pc[w] = "start" -> NotifyIfWaiting([pool EXCEPT !.idle = @ + 1])
      [] pc[w] = "returned" -> NotifyIfWaiting([job_cleanup(pool, w) EXCEPT !.idle = @ + 1])
      [] OTHER -> pool

Excess(p) == p.nthreads > pool_minimum

\* Mutant: an idle worker leaves, however few there are.
GivesUp_below(w) == pc[w] = "timedout"

\* An excess worker whose time is over, or whose pool does not let it linger.
GivesUp(w) ==
    /\ pc[w] = "timedout" \/ ~Linger
    /\ Excess(pool)

\* There is nothing to do.  A worker whose time is over but who is needed goes
\* round the loop once more.
Sleep(w) ==
    LET p == IF pc[w] = "timedout" THEN NotifyIfWaiting(pool) ELSE AtTest(w)
    IN  /\ Ready(w) /\ p.head = <<>> /\ ~IsDestroyed /\ ~GivesUp(w)
        /\ pool' = [p EXCEPT !.workcv = @ \cup {w}]
        /\ pc' = [pc EXCEPT ![w] = IF Excess(p) THEN "linger" ELSE "idle"]
        /\ job' = [job EXCEPT ![w] = NULL]
        /\ UNCHANGED <<cancelled, ended, before, discarded, failures>>

TimesOut(w) ==
    /\ pc[w] = "linger" /\ w \in pool.workcv
    /\ pool' = [pool EXCEPT !.workcv = @ \ {w}]
    /\ pc' = [pc EXCEPT ![w] = "timedout"]
    /\ UNCHANGED <<job, cancelled, ended, before, discarded, failures>>

\* Mutant: the newest job.
TakeJob_last(w) ==
    LET p == AtTest(w)
    IN  /\ Ready(w) /\ p.head # <<>> /\ ~IsDestroyed
        /\ pool' = [p EXCEPT !.idle = @ - 1, !.head = Front(@), !.active = @ \cup {w}]
        /\ pc' = [pc EXCEPT ![w] = "run"]
        /\ job' = [job EXCEPT ![w] = Last(p.head)]
        /\ UNCHANGED <<cancelled, ended, before, discarded, failures>>

\* Mutant: the job is taken, and its worker listed once it has the time.
TakeJob_unlisted(w) ==
    LET p == AtTest(w)
    IN  /\ Ready(w) /\ p.head # <<>> /\ ~IsDestroyed
        /\ pool' = [p EXCEPT !.idle = @ - 1, !.head = Tail(@)]
        /\ pc' = [pc EXCEPT ![w] = "run"]
        /\ job' = [job EXCEPT ![w] = Head(p.head)]
        /\ UNCHANGED <<cancelled, ended, before, discarded, failures>>

TakeJob(w) ==
    LET p == AtTest(w)
    IN  /\ Ready(w) /\ p.head # <<>> /\ ~IsDestroyed
        /\ pool' = [p EXCEPT !.idle = @ - 1, !.head = Tail(@), !.active = @ \cup {w}]
        /\ pc' = [pc EXCEPT ![w] = "run"]
        /\ job' = [job EXCEPT ![w] = Head(p.head)]
        /\ UNCHANGED <<cancelled, ended, before, discarded, failures>>

\* The loop is left: the pool is being destroyed, or it can do without w.
Leave(w) ==
    LET p == AtTest(w)
    IN  /\ Ready(w)
        /\ IsDestroyed \/ (p.head = <<>> /\ GivesUp(w))
        /\ worker_cleanup([p EXCEPT !.idle = @ - 1], w)
        /\ job' = [job EXCEPT ![w] = NULL]
        /\ cancelled' = cancelled \ {w}
        /\ UNCHANGED <<ended, before, discarded>>

\* The job function returns: w contends for the mutex in job_cleanup.
JobReturns(w) ==
    /\ pc[w] = "run" /\ job[w] \notin Exiting
    /\ pc' = [pc EXCEPT ![w] = "returned"]
    /\ ended' = ended \cup {job[w]}
    /\ UNCHANGED <<pool, job, cancelled, before, discarded, failures>>

\* It calls pthread_exit, or is cancelled in a cancellation point.
JobExits(w) ==
    /\ pc[w] = "run" /\ (job[w] \in Exiting \/ w \in cancelled)
    /\ pc' = [pc EXCEPT ![w] = "exiting"]
    /\ ended' = ended \cup {job[w]}
    /\ UNCHANGED <<pool, job, cancelled, before, discarded, failures>>

\* Both cleanup handlers, the second one with the mutex of the first.
Exit(w) ==
    /\ pc[w] = "exiting"
    /\ worker_cleanup(job_cleanup(pool, w), w)
    /\ job' = [job EXCEPT ![w] = NULL]
    /\ cancelled' = cancelled \ {w}
    /\ UNCHANGED <<ended, before, discarded>>

WorkerStep(w) ==
    Sleep(w) \/ TimesOut(w) \/ TakeJob(w) \/ Leave(w) \/ JobReturns(w) \/ JobExits(w) \/ Exit(w)

-----------------------------------------------------------------------------
\* pthread_cond_signal wakes one sleeper, if there is one; pool_idle counts
\* those that have been woken too.
thr_pool_queue(c, j) ==
    LET p == [pool EXCEPT !.head = Append(@, j)]
    IN  /\ pc[c] = "client" /\ j \notin Queued /\ ~IsDestroyed
        /\ \/ /\ p.idle > 0
              /\ \/ p.workcv = {} /\ pool' = p
                 \/ \E w \in p.workcv : pool' = [p EXCEPT !.workcv = @ \ {w}]
              /\ UNCHANGED <<pc, failures>>
           \/ /\ p.idle = 0 /\ p.nthreads < pool_maximum
              /\ create_worker(p, pc)
           \/ /\ p.idle = 0 /\ p.nthreads >= pool_maximum
              /\ pool' = p /\ UNCHANGED <<pc, failures>>
        /\ UNCHANGED <<job, cancelled, ended, before, discarded>>

Busy(p) == p.head # <<>> \/ p.active # {}
SleepOnWaitcv(p, c) == [p EXCEPT !.flags = @ \cup {Waiting}, !.waitcv = @ \cup {c}]

\* If the pool is not busy it returns at once.
thr_pool_wait(c) ==
    /\ pc[c] = "client" /\ ~IsDestroyed
    /\ Busy(pool)
    /\ pool' = SleepOnWaitcv(pool, c)
    /\ pc' = [pc EXCEPT ![c] = "wait"]
    /\ before' = [before EXCEPT ![c] = Queued]
    /\ UNCHANGED <<job, cancelled, ended, discarded, failures>>

\* c has been woken: the loop is tested again.
WaitAgain(c) ==
    /\ pc[c] = "wait" /\ c \notin pool.waitcv
    /\ \/ /\ Busy(pool)
          /\ pool' = SleepOnWaitcv(pool, c)
          /\ UNCHANGED <<pc, before>>
       \/ /\ ~Busy(pool)
          /\ pc' = [pc EXCEPT ![c] = "client"]
          /\ before' = [before EXCEPT ![c] = {}]
          /\ UNCHANGED pool
    /\ UNCHANGED <<job, cancelled, ended, discarded, failures>>

\* The loops of thr_pool_destroy, from the first or from the second one on:
\* c sleeps until no job is run, then until there are no workers, then frees
\* what is left.
DestroyLoops(p, c, first) ==
    \/ /\ first /\ p.active # {}
       /\ pool' = SleepOnWaitcv(p, c)
       /\ pc' = [pc EXCEPT ![c] = "destroy_active"]
       /\ UNCHANGED discarded
    \/ /\ ~first \/ p.active = {}
       /\ p.nthreads # 0
       /\ pool' = [p EXCEPT !.busycv = @ \cup {c}]
       /\ pc' = [pc EXCEPT ![c] = "destroy_workers"]
       /\ UNCHANGED discarded
    \/ /\ ~first \/ p.active = {}
       /\ p.nthreads = 0
       /\ pool' = [p EXCEPT !.head = <<>>]
       /\ pc' = [pc EXCEPT ![c] = "gone"]
       /\ discarded' = p.head

\* The caller has seen to it that nobody else uses the pool, or will.
thr_pool_destroy(c) ==
    /\ pc[c] = "client" /\ ~IsDestroyed
    /\ \A d \in Clients : pc[d] = "client"
    /\ MayDestroyEarly \/ pool.head = <<>>
    /\ DestroyLoops([pool EXCEPT !.flags = @ \cup {Destroying}, !.workcv = {}], c, TRUE)
    /\ cancelled' = cancelled \cup pool.active
    /\ UNCHANGED <<job, ended, before, failures>>

DestroyAgain(c) ==
    /\ \/ /\ pc[c] = "destroy_active" /\ c \notin pool.waitcv
          /\ DestroyLoops(pool, c, TRUE)
       \/ /\ pc[c] = "destroy_workers" /\ c \notin pool.busycv
          /\ DestroyLoops(pool, c, FALSE)
    /\ UNCHANGED <<job, cancelled, ended, before, failures>>

SpuriousWakeup(t) ==
    /\ t \in pool.workcv \cup pool.waitcv \cup pool.busycv
    /\ pool' = [pool EXCEPT !.workcv = @ \ {t}, !.waitcv = @ \ {t}, !.busycv = @ \ {t}]
    /\ UNCHANGED <<pc, job, cancelled, ended, before, discarded, failures>>

ClientWakes(c) == WaitAgain(c) \/ DestroyAgain(c)

Ended == (\E c \in Clients : pc[c] = "gone") /\ UNCHANGED vars

Next ==
    \/ \E w \in Workers : WorkerStep(w)
    \/ \E c \in Clients : \/ \E j \in Jobs : thr_pool_queue(c, j)
                          \/ thr_pool_wait(c) \/ thr_pool_destroy(c) \/ ClientWakes(c)
    \/ \E t \in Workers \cup Clients : SpuriousWakeup(t)
    \/ Ended

Spec == Init /\ [][Next]_vars

\* Kernel threads all get to run, jobs end, and time passes.
FairSpec ==
    /\ Spec
    /\ \A w \in Workers : WF_vars(WorkerStep(w))
    /\ \A c \in Clients : WF_vars(ClientWakes(c))
-----------------------------------------------------------------------------
WorkerLabels == {"none", "start", "idle", "linger", "timedout", "run", "returned", "exiting"}

Alive == {w \in Workers : pc[w] # "none"}

\* The pool's books agree with its threads, though whoever creates a worker
\* counts it and whoever leaves counts itself out: never more workers than
\* pool_maximum, and pool_active lists those that are at a job.
CountsExact ==
    /\ \A w \in Workers : pc[w] \in WorkerLabels
    /\ pool.nthreads = Cardinality(Alive)
    /\ pool.nthreads <= pool_maximum
    /\ pool.idle = Cardinality({w \in Workers : pc[w] \in {"idle", "linger", "timedout"}})
    /\ pool.active = {w \in Workers : pc[w] \in {"run", "returned", "exiting"}}
    /\ pool.workcv \subseteq {w \in Workers : pc[w] \in {"idle", "linger"}}

\* thr_pool_wait waits for all queued jobs to complete (thr_pool.h): those that
\* were queued when it was called have ended, however often it was woken.
WaitIsComplete ==
    [][\A c \in Clients :
           pc[c] = "wait" /\ pc'[c] # "wait" => before[c] \subseteq ended]_vars

\* min_threads are kept in the pool (thr_pool.h): from there down it shrinks
\* only by jobs that end their thread, and by thr_pool_destroy.
MinimumKept ==
    [][pool'.nthreads < pool.nthreads /\ pool.nthreads <= pool_minimum =>
           IsDestroyed \/ \E w \in Workers : pc[w] = "exiting" /\ pc'[w] # "exiting"]_vars

\* Each job is started once, in the order of the queue, and at most
\* pool_maximum run at a time (JobPool); what is destroyed is not started.
Abstract == INSTANCE JobPool
              WITH Capacity <- pool_maximum,
                   pending <- pool.head \o discarded,
                   executing <- {job[w] : w \in {v \in Workers : pc[v] = "run"}},
                   ended <- ended
ImplementsJobPool == Abstract!PoolSpec

\* A queued job is run in the end, though jobs end their threads and workers
\* time out, unless the pool is destroyed or a worker could not be created.
EachJobRuns ==
    \A j \in Jobs : j \in ToSet(pool.head) ~> j \in ended \/ IsDestroyed \/ failures > 0

\* Whoever waits for the jobs is woken.
WaitComesBack ==
    \A c \in Clients : pc[c] = "wait" ~> pc[c] # "wait" \/ failures > 0

\* thr_pool_destroy "cancels all queued jobs and destroys the pool" (thr_pool.h):
\* it comes back, also when jobs are being run.
DestroyComesBack == IsDestroyed ~> \E c \in Clients : pc[c] = "gone"
=============================================================================
