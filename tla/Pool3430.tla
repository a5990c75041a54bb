------------------------------ MODULE Pool3430 ------------------------------
(***************************************************************************)
(* The thread pool of thread-management-main/3430-pool: 3430-pool.c and    *)
(* the queue of job-queue.c, under any clients.                            *)
(*                                                                         *)
(* Workers and clients are kernel threads.  What one does while it holds   *)
(* pool_mutex is one step, except where it reads pool_wait, which          *)
(* thr_pool_wait writes without the lock: a worker reads it up to four     *)
(* times per turn, and each reading is a step of its own.  The queue is    *)
(* the jobs of the linked list from its head: enqueue puts one at the      *)
(* head, dequeue takes the one at the tail.                                *)
(***************************************************************************)
EXTENDS Naturals, SequencesExt

CONSTANTS Workers,      \* the threads thr_pool_create starts
          Clients,      \* the threads that use the pool
          Jobs,         \* the jobs they may queue
          NULL,
          MaxFailures   \* how many pthread_create calls may fail

ASSUME PoolAssumption ==
    /\ IsFiniteSet(Workers) /\ Workers # {}
    /\ Workers \cap Clients = {}
    /\ NULL \notin Workers \cup Clients \cup Jobs
    /\ MaxFailures \in Nat

VARIABLES
    pool_mutex,     \* the worker that holds it, or NULL
    pool_workcv,    \* the workers asleep in pthread_cond_wait
    jobs,           \* the queue, from head to tail
    pool_nthreads,
    pool_wait,
    pc,             \* where each worker and each client is
    job,            \* job[w]: what worker w has dequeued
    queued,         \* history: the jobs in the order they were queued
    ran,            \* the jobs that have been run
    late,           \* history: how many jobs were taken since pool_wait is set
    failures        \* pthread_create calls that have failed

poolVars == <<pool_mutex, pool_workcv, jobs, pool_nthreads, pool_wait>>
workVars == <<job, queued, ran, late, failures>>
vars == <<poolVars, workVars, pc>>

WorkerLabels == {"none", "test", "lock", "check", "sleep", "asleep", "woken",
                 "take", "dequeue", "shut", "run", "leave", "gone", "missing"}
ClientLabels == {"create", "ready", "count", "signal", "returned"}

Init ==
    /\ pool_mutex = NULL
    /\ pool_workcv = {}
    /\ jobs = <<>>                               \* make_queue
    /\ pool_nthreads = Cardinality(Workers)
    /\ pool_wait = FALSE
    /\ pc = [p \in Workers \cup Clients |-> IF p \in Workers THEN "none" ELSE "create"]
    /\ job = [w \in Workers |-> NULL]
    /\ queued = <<>>
    /\ ran = {}
    /\ late = 0
    /\ failures = 0

Goto(p, from, to) == pc[p] = from /\ pc' = [pc EXCEPT ![p] = to]

\* enqueue at the head of the list, dequeue from its tail.
enqueue(j) == jobs' = <<j>> \o jobs
\* Mutant: a job is taken from the end it was put in.
dequeue_head == jobs' = Tail(jobs)
dequeue == jobs' = Front(jobs)
NextJob == Last(jobs)

\* pthread_cond_signal: one of the sleepers, if there is one, goes on to take
\* the mutex again.
pthread_cond_signal(at) ==
    \/ /\ pool_workcv = {}
       /\ pc' = at /\ UNCHANGED pool_workcv
    \/ \E w \in pool_workcv :
           /\ pool_workcv' = pool_workcv \ {w}
           /\ pc' = [at EXCEPT ![w] = "woken"]

-----------------------------------------------------------------------------
\* thr_pool_create: the threads are started one by one, and what
\* pthread_create returns is not looked at.
StartWorker(w) ==
    /\ Goto(w, "none", "test")
    /\ UNCHANGED <<poolVars, workVars>>

StartFails(w) ==
    /\ failures < MaxFailures
    /\ Goto(w, "none", "missing")
    /\ failures' = failures + 1
    /\ UNCHANGED <<poolVars, job, queued, ran, late>>

Created(c) ==
    /\ \A w \in Workers : pc[w] # "none"
    /\ Goto(c, "create", "ready")
    /\ UNCHANGED <<poolVars, workVars>>

\* Mutant: nobody is told of the new job.
thr_pool_queue_silent(c, j) ==
    /\ pc[c] = "ready" /\ ~Contains(queued, j)
    /\ pool_mutex = NULL
    /\ enqueue(j)
    /\ queued' = Append(queued, j)
    /\ UNCHANGED <<pc, pool_workcv, pool_mutex, pool_nthreads, pool_wait, job, ran,
                   late, failures>>

\* thr_pool_queue: lock, enqueue, signal, unlock.  (calloc succeeds.)
thr_pool_queue(c, j) ==
    /\ pc[c] = "ready" /\ ~Contains(queued, j)
    /\ pool_mutex = NULL
    /\ enqueue(j)
    /\ queued' = Append(queued, j)
    /\ pthread_cond_signal(pc)
    /\ UNCHANGED <<pool_mutex, pool_nthreads, pool_wait, job, ran, late, failures>>

\* thr_pool_wait: pool_wait is written, and pool_nthreads read, without lock.
WaitCall(c) ==
    /\ Goto(c, "ready", "count")
    /\ pool_wait' = TRUE
    /\ UNCHANGED <<pool_mutex, pool_workcv, jobs, pool_nthreads, workVars>>

WaitLoops(c) ==
    /\ pool_nthreads > 0
    /\ Goto(c, "count", "signal")
    /\ UNCHANGED <<poolVars, workVars>>

\* Mutant: the loop stops at the last thread.
WaitReturns_early(c) ==
    /\ pool_nthreads <= 1
    /\ Goto(c, "count", "returned")
    /\ UNCHANGED <<poolVars, workVars>>

WaitReturns(c) ==
    /\ pool_nthreads = 0
    /\ Goto(c, "count", "returned")
    /\ UNCHANGED <<poolVars, workVars>>

WaitSignals(c) ==
    /\ pc[c] = "signal" /\ pool_mutex = NULL
    /\ pthread_cond_signal([pc EXCEPT ![c] = "count"])
    /\ UNCHANGED <<pool_mutex, jobs, pool_nthreads, pool_wait, workVars>>

-----------------------------------------------------------------------------
\* worker_thread: the loop test, without the lock.
TestWait(w) ==
    /\ Goto(w, "test", IF pool_wait THEN "leave" ELSE "lock")
    /\ UNCHANGED <<poolVars, workVars>>

Lock(w) ==
    /\ pool_mutex = NULL
    /\ \/ Goto(w, "lock", "check") \/ Goto(w, "woken", "check")
    /\ pool_mutex' = w
    /\ UNCHANGED <<pool_workcv, jobs, pool_nthreads, pool_wait, workVars>>

\* Mutant: the worker does not look whether it is to shut down before it sleeps.
CheckQueue_no_wait(w) ==
    /\ Goto(w, "check", IF jobs = <<>> THEN "sleep" ELSE "take")
    /\ UNCHANGED <<poolVars, workVars>>

CheckQueue(w) ==
    /\ Goto(w, "check", IF jobs = <<>> /\ ~pool_wait THEN "sleep" ELSE "take")
    /\ UNCHANGED <<poolVars, workVars>>

\* pthread_cond_wait releases the mutex and sleeps in one step.
Sleep(w) ==
    /\ Goto(w, "sleep", "asleep")
    /\ pool_workcv' = pool_workcv \cup {w}
    /\ pool_mutex' = NULL
    /\ UNCHANGED <<jobs, pool_nthreads, pool_wait, workVars>>

\* It may return without a signal.
SpuriousWakeup(w) ==
    /\ Goto(w, "asleep", "woken")
    /\ pool_workcv' = pool_workcv \ {w}
    /\ UNCHANGED <<pool_mutex, jobs, pool_nthreads, pool_wait, workVars>>

\* Mutant: only the queue is looked at.
Take_unasked(w) ==
    /\ Goto(w, "take", IF jobs # <<>> THEN "dequeue" ELSE "shut")
    /\ UNCHANGED <<poolVars, workVars>>

\* Line 50: is there a job, and is the pool still open?
Take(w) ==
    /\ Goto(w, "take", IF jobs # <<>> /\ ~pool_wait THEN "dequeue" ELSE "shut")
    /\ UNCHANGED <<poolVars, workVars>>

\* Lines 52-59: the job is taken, and the mutex released.
TakeJob(w) ==
    /\ Goto(w, "dequeue", "run")
    /\ job' = [job EXCEPT ![w] = NextJob]
    /\ dequeue
    /\ pool_mutex' = NULL
    /\ late' = IF pool_wait THEN late + 1 ELSE late
    /\ UNCHANGED <<pool_workcv, pool_nthreads, pool_wait, queued, ran, failures>>

\* Mutant: the branch leaves the lock to the code after the loop.
Shut_locked(w) ==
    /\ Goto(w, "shut", "test")
    /\ UNCHANGED <<poolVars, workVars>>

\* Lines 64-68: pool_wait is read once more to decide whether to unlock.
Shut(w) ==
    /\ Goto(w, "shut", "test")
    /\ pool_mutex' = IF pool_wait THEN NULL ELSE pool_mutex
    /\ UNCHANGED <<pool_workcv, jobs, pool_nthreads, pool_wait, workVars>>

Run(w) ==
    /\ Goto(w, "run", "test")
    /\ ran' = ran \cup {job[w]}
    /\ job' = [job EXCEPT ![w] = NULL]
    /\ UNCHANGED <<poolVars, queued, late, failures>>

Leave(w) ==
    /\ pool_mutex = NULL
    /\ Goto(w, "leave", "gone")
    /\ pool_nthreads' = pool_nthreads - 1
    /\ UNCHANGED <<pool_mutex, pool_workcv, jobs, pool_wait, workVars>>

WorkerStep(w) ==
    \/ TestWait(w) \/ Lock(w) \/ CheckQueue(w) \/ Sleep(w) \/ Take(w)
    \/ TakeJob(w) \/ Shut(w) \/ Run(w) \/ Leave(w)

WaitStep(c) == WaitLoops(c) \/ WaitReturns(c) \/ WaitSignals(c)

Ended == (\A c \in Clients : pc[c] = "returned") /\ UNCHANGED vars

Next ==
    \/ \E w \in Workers : StartWorker(w) \/ StartFails(w) \/ SpuriousWakeup(w)
                              \/ WorkerStep(w)
    \/ \E c \in Clients : Created(c) \/ WaitCall(c) \/ WaitStep(c)
                              \/ \E j \in Jobs : thr_pool_queue(c, j)
    \/ Ended

Spec == Init /\ [][Next]_vars

\* Kernel threads all get to run, and whoever waits for the mutex again and
\* again while it is released again and again gets it once.
FairSpec ==
    /\ Spec
    /\ \A w \in Workers : SF_vars(WorkerStep(w)) /\ WF_vars(StartWorker(w))
    /\ \A c \in Clients : SF_vars(WaitStep(c)) /\ WF_vars(Created(c))
-----------------------------------------------------------------------------
TypeOK ==
    /\ pool_mutex \in Workers \cup {NULL}
    /\ pool_workcv \subseteq Workers
    /\ jobs \in Seq(Jobs)
    /\ pool_nthreads \in 0 .. Cardinality(Workers)
    /\ pool_wait \in BOOLEAN
    /\ \A w \in Workers : pc[w] \in WorkerLabels
    /\ \A c \in Clients : pc[c] \in ClientLabels
    /\ job \in [Workers -> Jobs \cup {NULL}]
    /\ queued \in Seq(Jobs)
    /\ ran \subseteq Jobs
    /\ late \in Nat
    /\ failures \in 0 .. MaxFailures

\* The mutex belongs to the worker that is between its lock and its unlock,
\* though that worker decides whether to unlock by a flag that can change
\* under it: no way through the loop leaves the mutex behind.
MutexMatchesCode ==
    \A w \in Workers :
        pool_mutex = w <=> pc[w] \in {"check", "sleep", "take", "dequeue", "shut"}

\* No wakeup is lost: while there is a job and the pool is open, a worker is
\* awake that has yet to look at the queue, or is running a job.
SomebodyAwake ==
    jobs # <<>> /\ ~pool_wait /\ (\A w \in Workers : pc[w] \notin {"none", "missing"}) =>
        \E w \in Workers : pc[w] # "asleep"

\* When thr_pool_wait returns no worker is inside a job, or will start one
\* (3430-pool.h:33).
NoneRunsAfterWait ==
    (\E c \in Clients : pc[c] = "returned") =>
        \A w \in Workers : pc[w] \in {"gone", "missing"}

\* "If you're being told to shut down, then shut down" (3430-pool.c:36): a worker
\* may have read pool_wait just before it was set, and go on to take a job, but
\* that is one job of one worker, however many are queued and awake.
OneTakenLate == late <= 1

\* The pool starts each job at most once, in the order they were queued, and
\* runs at most as many at a time as it has threads (JobPool).
Abstract == INSTANCE JobPool
              WITH Capacity <- Cardinality(Workers),
                   pending <- Reverse(jobs),
                   executing <- {job[w] : w \in Workers} \ {NULL},
                   ended <- ran
ImplementsJobPool == Abstract!PoolSpec

\* A queued job is run, unless the pool is shut down, also when some of the
\* threads could not be started.
EachJobRuns == \A j \in Jobs : Contains(queued, j) ~> j \in ran \/ pool_wait

\* thr_pool_wait returns if all threads were started, however the workers were
\* spread over their loop when it was called.
WaitComesBack ==
    \A c \in Clients : pc[c] = "count" /\ failures = 0 ~> pc[c] = "returned"

=============================================================================
