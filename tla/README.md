# Models and proofs for Drifika

TLA+ models of the concurrent and stateful parts of this repository, TLC
configurations that check them, and TLAPS proofs about them. The repository is
a student's collection of systems programs. Those with logic of their own are
a user-level thread library (`Erebor`, with an earlier version in
`Erebor/Legacy` and demonstration programs), two thread pools
(`Threading/thread-management-main/3430-pool` and `thr_pool`), a read-only exFAT
file system with its programs (`Assignments/Assignment1/A1-Drifika`), a shell in two
versions (`Turin`, `Napoli`), and the classroom and practice programs on mutexes and
condition variables. Everything here is translated from those sources;
`PROJECT.json` maps every definition to its lines.

    tlc -config NqpThread.cfg MCNqpThread.tla          # one run
    tlapm NqpSched_proofs.tla                          # the proofs

## 1. Inventory

| Part | State | Operations | Interacts with |
|---|---|---|---|
| NQP threads, `Erebor/nqp_thread.c` | `thread_queue`, `num_threads`, `current_index`, `current_thread`, `system_policy`, each thread's `context` and `finished` | create, yield, join, exit, sched_init, sched_start | the program's tasks, by calls; `swapcontext` |
| MLFQ loop, `nqp_sched_start` | static `mlfq_queues` and sizes, `rr_indices`; local boost time, chosen entry | fill, boost, pick, drop, dispatch, charge | the threads, through `scheduler_context` |
| Spin lock, `nqp_thread_locks.c` | one `atomic_flag` | init, lock, unlock, destroy, trylock | kernel threads (`main.c`) or NQP threads (`nqp_list_insertion.c`) |
| Demonstration programs, `Erebor/nqp_*.c`, and the earlier library, `Erebor/Legacy` | what the tasks have printed or drawn; the earlier library's own queue and contexts | the tasks' loops; create, yield, exit, sched_start | either version of the library |
| `3430-pool.c`, `job-queue.c` | the job list, `pool_nthreads`, `pool_wait`, mutex, condition variable | create, queue, wait; the worker loop | clients and workers, by shared memory |
| `thr_pool.c` | under `pool_mutex`: list of jobs, list of active workers, flags, counts of workers and idle ones; three condition variables | create, queue, wait, destroy; the worker loop | clients and workers, by shared memory |
| exFAT, `nqp_exfat.c` | `fs_image`, `is_mounted`, the open file table, the statics of `nqp_getdents` | mount, unmount, open, close, read, getdents, size | its callers; the volume |
| exFAT programs, `cat.c`, `ls.c`, `paste.c`, `main.c` | the descriptors in hand, what was printed | their loops over the calls | the file system |
| Shell, `Turin/nqp_shell.c`, `Napoli/nqp_shell.c` | `cwd`, `log_fd`; the pipes and children of a command line; the copies in `/tmp` | built-in commands, parsing, single command, redirection, pipeline, logging | the kernel: fork, pipe, exec, wait, SIGPIPE; the volume |
| Programs on locks, `Threading` and `Mid`, `Final` practice | accounts, rows, a list, counters; mutexes, condition variables | their threads' instructions | POSIX threads |
| Course programs on processes, pipes and virtual memory | - | - | - |

What makes them hard, and what "correct" means for each:

* **Threads.** Control leaves a function in `swapcontext` and comes back after
  any number of other calls; threads finish, and are created, while others are
  in the middle of a search through the queue. Correct: whoever is dispatched is
  who runs; a finished thread is never resumed; the process exits only when
  nobody is left; FIFO order; nobody is passed over for ever; a join returns.
* **MLFQ.** Queue, index and thread are chosen before the switch and used after
  it; removal overwrites an entry with the last one; the queues outlive the call.
  Correct: every unfinished thread is in exactly one queue; the entry charged is
  that of the thread that ran; lower levels do not starve.
* **Lock.** Interleaving of loads, stores and the test and set; a holder that
  yields. Correct: exclusion, no lost update, no use after free, progress.
* **Demonstrations.** The same program on two libraries whose `nqp_exit` and
  `nqp_sched_start` differ. Correct: output in the order of the policy, all of
  it, and the program ends.
* **3430-pool.** `pool_wait` is written and `pool_nthreads` read without the mutex;
  signals may be lost or spurious; threads may not start. Correct: each job is
  run once, in order; no lost wakeup; the mutex is always released; the wait
  comes back, with no job under way.
* **thr_pool.** Whoever creates a worker counts it, whoever leaves uncounts itself,
  whoever signals guesses who will wake; a lingering worker's time may run out
  while a job is signalled to it; a job may end its thread. Correct: the counts are
  the threads; each job is run once, in order; the pool keeps its minimum; a
  wait comes back, and not before what it waits for has ended.
* **exFAT and its programs.** Reads in portions over several files and clusters, a
  table that is never emptied, a listing whose state is static, remounts; programs
  that compare results with one of several error codes. Correct: a file is read
  as its bytes in order; a listing is the directory's entries in order; a program
  prints what the volume has, and ends.
* **Shell.** Every process holds every pipe end until it closes it; one end too
  many blocks a reader for ever; forks and pipes fail half way; `cwd` is rewritten
  in place. Correct: only neighbours hold a pipe, nothing is left when the prompt
  returns, and it returns; the log is complete; `cwd` is a path of the volume.
* **Programs on locks.** Loads and stores between locks, two locks taken in two
  orders, waits without a condition. Correct: the results of a sequential run;
  an end.

`PROJECT.json` lists the hazards one by one, each at its line, with the
properties that would catch it.

## 2. Modules

    NqpSched                 the library: state, and its calls as operators
      NqpThread              ... under any program           -> CoopThreads (abstract)
        NqpRoundRobin        ... with counts of turns
        NqpMlfq              ... with the MLFQ loop
      NqpSched_proofs        theorems about the three, and about NqpDemos
      NqpListInsertion       ... under nqp_list_insertion.c, with NqpMutex
    NqpMutex                 the spin lock: its calls as operators
      NqpCounter             ... under main.c's kernel threads
        NqpCounter_proofs    theorems
    NqpLegacy                the earlier library's calls
      NqpDemos               the demonstration programs on either library
    Pool3430                 the pool and its clients        -> JobPool (abstract)
      Pool3430_proofs        theorems
    ThrPool                  Oracle's pool and its clients   -> JobPool (abstract)
      ThrPool_proofs         theorems
    NqpExfat                 the file system, under any calls
      NqpExfatPrograms       ... under cat, ls, paste and the command line
      NqpExfat_proofs        theorems about both
    NqpShell                 sessions of the shell
      NqpShell_proofs        theorems
    LockPrograms             seven programs on mutexes and condition variables
      LockPrograms_proofs    theorems
    CommonLemmas             induction up to n, least elements, recursive functions

`MC*` modules give constants their values for TLC. Definitions whose comment
begins with "Mutant:" are deliberately wrong versions of the definition that
follows; no specification uses them. Put in its place, each makes TLC report the
property it is meant for. A type invariant that has no run of its own is a
conjunct of a property that does (`MlfqTypeOK` of `EachInOneQueue`, `TypeOK` of
`OffsetIsWhatWasRead` and of `CwdIsValid`).

**NqpSched / NqpThread.** A variable per static variable of `nqp_thread.c`;
`context[t]` and `scheduler_context` say *whose* registers are saved there, `cpu`
who executes. Everything runs on one kernel thread, so each call is one step up to
its `swapcontext`. `NqpRoundRobin` adds a history, `waited[t][u]`: how often `u` has
been dispatched since `t` waits. The program is arbitrary: `pc` says whether a flow is in its own
code (and may make any call), in the loop of `nqp_thread_join`, or past
`nqp_exit`'s yield. `YieldRing`, `YieldFifo` and `YieldMlfq` are the branches of
`nqp_yield`; the loop that goes round the queue is the least distance at which
there is an unfinished thread. `calls` bounds the program, not the library.

**NqpMlfq.** `loop` is the point the loop of `nqp_sched_start` has reached:
`top` (test for the end, boost), `pick` (choose, drop, dispatch), `charge` (back
from the thread). A queue is its used entries. Time passes only while a thread
runs, in units, and the clock (`CLOCK_REALTIME`) may be set meanwhile, so a
slice may measure more, less or a negative time; `elapsed` is `now -
last_boost_time`. Storing past a full queue, and resuming the frame of a
`nqp_sched_start` that has returned, are undefined behaviour and end in a state
of their own (`status = "undefined"`). A thread that is created while the loop
runs is in none of its queues: it never gets the CPU before the next
`nqp_sched_start`, and the loop may end without it. `CoopThreads`, which
promises every thread a turn, is therefore not what this policy implements;
`EachInOneQueue`, `ReturnsWhenDone` and `NoStarvation` speak of `enqueued`, the
threads that existed when the loop started.

**NqpMutex, NqpCounter, NqpListInsertion.** The lock is one variable; the two
programs that use it differ in what interleaves: kernel threads at every load and
store, NQP threads only at the `nqp_yield` in the middle of an insertion.

**NqpLegacy, NqpDemos.** One step is one turn of a task: what it does from where it
was resumed up to its next `nqp_yield`, end or `nqp_exit`, and the switch that
call makes in the library chosen (`NqpSched`'s calls, or `NqpLegacy`'s). The program
and the library are chosen in `DemosInit`, the policy by `main()`. A worker of
`nqp_refiner.c` advances by `rand()`, any value of its range; `display` is what the
grapher has drawn.

**Pool3430.** What a thread does while it holds `pool_mutex` is one step, except
around each reading of `pool_wait`, which `thr_pool_wait` writes without the lock.
That is a data race; each reading is modelled as a fresh, atomic one, because a
call the compiler cannot see into (a lock, `queue_size`, the job) lies between any
two of them, and a `bool` cannot be torn. `Take` is the test in line 50, `TakeJob` what follows
it (52-59): between them `pool_wait` may be set. `queued`, `ran`, `late` (the jobs taken
since then) and `failures` are history.

**ThrPool.** All data of this pool is under `pool_mutex`, so one action is one
critical section: from a lock, or a return from a wait, to the unlock or the next
wait. `pool` is the structure `thr_pool_t`; `pc` says where each worker or client
is, by the condition variable it waits on or the section it has to enter next. A
condition variable is the set of threads asleep at it; a signal moves one of them,
and any may wake by itself. A worker that times out is woken with the timeout
recorded. A job may return or end its thread (`pthread_exit`), which runs
`job_cleanup` and `worker_cleanup`.

**JobPool.** What both pools promise: jobs are queued, started in that order by a free
worker, at most once each and at most `Capacity` at a time, and end. What a pool drops
when it is shut down stays pending. `Pool3430` and `ThrPool` both implement it.

**NqpExfat.** The volume is a constant (its FAT and the entries of its
directories); the variables are those of the C file. `answer` is the last call
with its result; `got` and `listing` are histories of what was read and listed,
`reopened` one of the files that were opened again. There is one volume: it may be
unmounted and mounted again, and a mount may fail, but a second image, mounted while the
open file table and the statics of `nqp_getdents` are about the first, is not modelled.
Calls on a volume whose image is gone end in `Crash`. A chain is followed by `Skip`,
the cluster n links on; a loop over a chain is then the least n at which it stops,
within `LongestChain`, and the loop of `nqp_read` a recursion over its passes.

**NqpExfatPrograms.** One step is one call to the file system and what the program
does with the answer, up to its next call. `job` is the program that runs with its
arguments: `any` (any calls, the run of the library by itself), `cli`, `cat`, `ls`
or `paste`. `printed` is what came out.

**NqpShell.** A process is `<<line, position>>`; position 0 is the shell. A session is
a sequence of lines, which may be built-in commands, malformed ones, single commands
or pipelines. Pipes have a content and, for each end, the processes that hold it. The
shell's steps follow the calls that others can observe: `CreatePipes` or `PipeFails`,
`Fork` or `ForkFails` one by one, `CloseChain`, `WaitInOrder`, `Drain` and `Reap`; a
child's: `SetUp` (its `dup2` and `close`), `LaunchFunction` or `LaunchFails`. The
commands are external: they read to the end of their input, write when they like, get
SIGPIPE, may quit early or write for ever. `cwd` and the paths of files are sequences
of names; `Volume` says what is found at a path. `MAX_LINES` counts
failed lines and the last one. `version` is `Turin` or `Napoli`; they differ in `cd`
and in the host's `chdir`. The calls of `nqp_io.h` are a prebuilt object in that
directory and external.

**LockPrograms.** A function is the sequence of its steps on shared memory: load, store
(`x += k` is both), test, lock, unlock, wait, broadcast, create, join. `pc[t]` is the
step that thread `t` takes next; the state is the cells, a register per thread, the
owner of each mutex and who is asleep. The actions are the instructions, so any two
threads interleave at each access; the sequences are read off the C functions.
`spurious` counts wakeups without a broadcast, which `MAX_SPURIOUS` bounds.

## 3. Runs

| Run | Bounds | Shows |
|---|---|---|
| `threads` | capacity 3 with 4 possible threads; TWOTHREADS, RR and FIFO, chosen by `main()`; 3 yields/joins/inits per flow (297410 states) | `ContextIntegrity`, `FifoOrder`, `BypassBound`, `ImplementsCoop`, `Termination` |
| `mlfq` | 3 threads, 2 starts, creation at any time, slices of 1 and 2 units, limit 2, boost at 5, the clock set once, back by 2 or forward by 7 (383422) | `EachInOneQueue`, `ChargesWhoRan`, `ReturnsWhenDone`, `NoStarvation` |
| `counter` | 3 threads, 3 increments (262) | `NoLostUpdate`, `LockAlive`, `Termination` |
| `pool` | 2 workers, 2 clients, 3 jobs, 1 failed thread, spurious wakeups (107228) | `MutexMatchesCode`, `SomebodyAwake`, `NoneRunsAfterWait`, `OneTakenLate`, `ImplementsJobPool`, `EachJobRuns`, `WaitComesBack` |
| `thr_pool` | 1 to 2 workers, 2 clients, 3 jobs of which one ends its thread, 1 worker that cannot be created, timeouts, spurious wakeups; destroyed with an empty queue only (36061) | `CountsExact`, `WaitIsComplete`, `MinimumKept`, `ImplementsJobPool`, `EachJobRuns`, `WaitComesBack` |
| `exfat` | 3 slots; files of 0, 1, 2 and 5 bytes over clusters of 2, portions of 1 and 3; directories of two clusters, one of which has END in its first and again in its second; `cat` of up to three paths, `ls`, `paste` of two files, the command line, any calls (847394) | `ReadsInOrder`, `OffsetIsWhatWasRead`, `ListingInOrder`, `ProgramsPrint`, `ProgramsEnd` |
| `shell` | both versions, with and without `-o`: sessions of built-in commands and bad lines, `yes \| head`, a writer into a command with redirected input, commands that are not found or no programs; up to 3 commands and 4 words, pipes of one unit, 2 lines, 1 call that fails (33522) | `OnlyNeighboursHold`, `NothingLeft`, `CwdIsValid`, `PromptReturns`, `LeftoversEnd` |
| `demos` | 3 workers, both libraries, the three programs under the policies they name, progress of 0 to 2 units up to 2 (10826) | `OutputOrder`, `Completes` |
| `locks` | seven programs, up to 3 threads, 2 spurious wakeups (14142) | `ResultIsRight`, `NoneTakenTwice`, `ProgramsEnd` |

Each run combines the configurations that share a specification - the policies of
the library, the uses of the exFAT calls, the kinds of session - so that
their interplay is checked too. The bounds are small but reach every case: one
thread more than the queue holds; a ring search that wraps past finished threads;
removals from the middle and the end of a queue; both lower levels occupied at a
boost, and a second start over queues that still hold entries; more jobs than
workers, with one client that queues while the other waits or shuts down; two idle
workers whose time runs out over one minimum; a read that starts inside a cluster and
ends in the one after next, and a table that fills up; a first command that must be
stopped by SIGPIPE; a call that fails between the second and the third process of a
pipeline; a wait, a signal and a spurious wakeup in every order. Every action, and
every disjunct of one, fires in a passing run.

Two kinds of program are kept out of `threads` and `mlfq` by `MayJoin`, because the code
does not do what they expect (see below): under FIFO nobody joins, and under MLFQ
only `main()` does, the first thread, after the loop.

What a property says nothing of, because the code does something else than the text it
belongs to, is in its comment and in the second table below: files that were opened again
(`ReadsInOrder`, `OffsetIsWhatWasRead`), command lines that name a file twice or fill the
open file table, and `ls /` (`ProgramsPrint`), the earlier library under FIFO (`Completes`,
`OutputOrder`) and MLFQ (`OutputOrder`), the arguments of `deadlock.c` (`ResultIsRight`).

The other runs are disagreements between the code and what is written about it in
the repository. Each checks one property that states the text; TLC shows how the
code breaks it.

| Run | Text | Code |
|---|---|---|
| `list_lock` | a spinner yields (`nqp_thread_locks.c:64`) | the `nqp_yield` is commented out (67), and the program hangs |
| `thr_pool_destroy` | "Cancel all queued jobs and destroy the pool" (`thr_pool.h`) | with a job under way and others queued it never returns: the last worker wakes it only when the queue is empty (`thr_pool.c:112`), and no worker takes from the queue any more (389-392) |
| `log_deadlock` | "Intercepts and logs the final process output in a pipeline" (`Turin/README.md:60`) | the shell waits for the first commands before it reads (`nqp_shell.c:632`): with more output than a pipe holds all wait for each other |

Further disagreements met while modelling. The models contain the behaviour, but no
run is kept for them; each is visible in the code it names.

| Text | Code |
|---|---|
| a join blocks until the thread has finished (`nqp_thread.h:19-20`) | under FIFO the joiner never gives way to a later thread (`nqp_thread.c:157`): it spins for ever |
| the same | a thread created while the MLFQ loop runs is in no queue (`nqp_thread.c:223`): whoever joins it yields for ever, unless the loop ends, without it, first |
| OSTEP's time allotment (`nqp_thread_sched.h:33-34`) | each slice is compared on its own (`nqp_thread.c:312`): who yields early stays at its level for ever |
| `nqp_sched_start` returns to its caller (`nqp_thread_sched.h:68-69`) | under RR and FIFO the saved context is never resumed (`nqp_thread.c:203`); the "All done!" of the sample output in `Erebor/Legacy/README.md:108` is not reached |
| `nqp_exit` outside a thread is a no-op (`nqp_thread_sched.h:89-91`) | it ends the process (`nqp_thread.c:186`) |
| -1 for what is no policy (`nqp_thread_sched.h:56-57`) | the assertion aborts (`nqp_thread.c:110`) |
| under FIFO all tasks run, in the order they were added (`Legacy/ThreadLegacy.c:260`, `Legacy/README.md:87-108`) | `nqp_yield` returns at once (179-180), so the first `nqp_exit` ends the process (214-223): the other tasks never run |
| `nqp_exit` schedules another task, control returns from `nqp_sched_start` (`Legacy/ThreadLegacy.c:204-211`, `226-236`) | of the loops of `nqp_sched_start` only the first turn executes, and nothing returns to `main()` |
| under RR the first task writes first (`Legacy/README.md:119-123`) | the index is advanced before the first dispatch (`Legacy/ThreadLegacy.c:318`): the second one does |
| under MLFQ interactive tasks finish earlier (`Legacy/README.md:163-171`) | `nqp_yield` goes round the queue as under RR, "as a simple placeholder" (`Legacy/ThreadLegacy.c:182`) |
| the wait is for all queued jobs (`3430-pool.h:31`) | what is queued when `pool_wait` is set is dropped (`3430-pool.c:147`) |
| NULL on error (`3430-pool.h:12`) | `pthread_create` is not looked at (`3430-pool.c:100`); `thr_pool_wait` then never returns |
| idle workers are woken, else a worker is created if the maximum allows it (`thr_pool_queue` in `thr_pool.h`) | `pool_idle` still counts workers that were already woken (`thr_pool.c:341`): a second job may get none; and if the only worker cannot be created the job is stranded (343) |
| a descriptor on success (`nqp_io.h:87-88`) | with the table full, one that `nqp_read` does not know (`nqp_exfat.c:238`) |
| the initial offset is 0 (`nqp_exfat.c:245`) | the first slot of an earlier open is used, with its offset: `cat` of one file twice prints nothing the second time |
| 0 at the end of a file (`nqp_io.h:109`) | -1 for an empty file, as its descriptor is 0 (`nqp_exfat.c:315`) |
| a listing starts with its directory (`nqp_exfat.c:446-447`) | it goes on with the previous one |
| 0 at the end of the directory (`nqp_io.h:123-124`) | 0 for ever, once a directory without an end marker was listed (`nqp_exfat.c:555`) |
| the size of any file (`nqp_io.h:129`) | -1 for files in subdirectories or beyond the root's first cluster; it crashes without an image |
| `is_mounted` says whether a volume is mounted (`nqp_exfat.c:12`) | set, with no image, after a remount fails (`nqp_exfat.c:85`) |
| a path that is not found is reported (`cat.c:19`, `ls.c:21`, `paste.c:18`) | the test is for `NQP_FILE_NOT_FOUND`, -4, and `nqp_open` answers -1; `ls` of `/`, whose descriptor is 0, says "not a directory" |
| `paste` merges the lines of two files | with a file whose last line has no newline it loops for ever (`paste.c:23`, `29`); -1 of an empty or missing file takes back a byte of the other; twice the same file shares one offset |
| an argument is copied if it "is actually an existing nqp file" (`Turin/nqp_shell.c:179`) | the test (203) is for `NQP_FILE_NOT_FOUND`, -4, and `nqp_open` answers -1 (`nqp_io.h:90`): every argument is replaced by the name of a copy, an empty one if there is no such file; not those of `head` and `tail` in a pipeline |
| any number of pipes (`LaunchPipeline`, `Turin/nqp_shell.c:472`) | at most `MAX_CMDS` commands |
| `cd ..` leads to the parent directory (`Napoli`) | after `cd dir` at the root `cwd` has no slash: the next `cd ..` crashes; and `chdir(cwd)` on the host makes the commands that follow fail |
| redirection feeds the command the file | in a pipeline it replaces the pipe; the copies in `/tmp` stay; `a \| < f` runs an empty command |
| the thread frees its argument, its caller does not (`deadlock.c:37-38`) | `main()` frees what `deposit` has freed (128-129); the path for insufficient funds frees nothing |
| "bad lock order" (`hash_logger.c:51`) | all threads take the locks in one order |

The sessions chosen keep out of `shell` what `log_deadlock` is about: there no
last command writes more than a pipe holds under `-o`.

`CHECK_DEADLOCK FALSE` is in `LockPrograms.cfg`, whose programs end and one of which
deadlocks by design, and in `ThrPool_Destroy.cfg` and `NqpShell_Log.cfg`, where the
system really stops.

## 4. Fairness

* NQP threads, MLFQ, the demonstrations, the exFAT programs: weak fairness of the
  next-state relation (of the turn; of the program's next call) as a whole. One
  kernel thread executes, and the operating system runs it. In `demos`, strong
  fairness says that `rand()` does not give a worker 0 for ever.
* `counter`: weak fairness of each thread. A spinner needs no more: the flag,
  once the holder clears it, is taken by somebody, and each thread takes it once.
* `3430-pool`: weak fairness would let a worker that waits for the mutex find it taken
  at every attempt, since `thr_pool_wait` locks and unlocks it in a loop. POSIX
  mutexes do not promise more, but the schedulers that run them do not starve a
  waiter for ever; strong fairness of each thread's steps is that assumption.
  Spurious wakeups and failed threads get none, nor do clients that might queue.
* `thr_pool`: weak fairness of each worker's steps and of each client's after it was
  woken. Nobody polls here, and one step is a whole critical section. It says
  that jobs end, and that lingering times run out. Clients that might queue, spurious
  wakeups and failed creations get none.
* Shell: weak fairness of the shell's steps and of each command; strong fairness of
  the step by which a command that may quit early does. Nobody has to enter anything,
  and a command that writes for ever is never assumed to stop.
* `locks`: weak fairness of the next-state relation: as long as some thread can run,
  one does. No thread can run for ever without the others: a loop takes a row or
  sleeps, and `main()`'s busy wait for `threads_ready` is a step that can be taken once
  the condition holds.

## 5. Proofs

All are for any number of threads, jobs and so on, under the named assumptions on
the constants, which TLC evaluates in every run. Where an inductive invariant is a
strengthening it was first checked by TLC on the states of the run.

**NqpSched_proofs, the library** (any program, any capacity). The invariant `IInv` has six
parts. `TypeOK` alone is not inductive: that `current_index` stays in range needs
`CurrentOK` (it is the index of the current thread), which needs `QueueOK` (entries
in use are threads, each once). `ContextIntegrity` follows from `CurrentOK`: every
saved context is its own thread's because the flow that calls `swapcontext` is the
current thread. `FinishedOK` says that a finished thread keeps the CPU only when
all are finished; it needs `RingIndex`, by which the search meets every entry of
the queue, and `MinIsLeast`, proved by well-founded induction. `MainOK` keeps
`main()` from running again. `PrefixOK`, for FIFO, says that what is finished is a
prefix of the queue. `LibraryImplementsCoop` maps each step to one of `CoopThreads`
or to none; it assumes that `main()` does not call `nqp_exit` and passes a policy,
the two cases section 3 lists. In `NqpThread` a library initialised for MLFQ does
not start: these theorems speak of the other policies.

In the same module is round robin (`NqpRoundRobin`). That no thread has two turns while
another waits for one is not inductive. `RRInv` adds to `IInv` where the threads stand on
the ring (`PassedOnce`): a thread that has had its turn since `t` waits is behind `t` from
the current index on (`Distance`), so the search meets `t` first. A dispatch goes to the
nearest unfinished entry (`NearestIsNext`) and brings every other one nearer by the same
amount (`OnceRound`); a thread that is created enters behind everybody else, and
`CountGrows` says what a dispatch does to the counts. `NobodyIsBypassed` follows.

**NqpSched_proofs, MLFQ** (any number of threads and of starts, any capacity, slices and
boosts, however the clock is set). The invariant joins that of the
threads, restated for this policy, with `Books`: over the three queues each unfinished
thread of `enqueued` has one entry, in range, and the entry that was picked is that of
the thread that is running. A queue is a sequence, and the code removes an entry by
writing the last one over it; so the lemmas say what remains of "once each" when an
entry moves from one queue to another, is dropped, or all are emptied into the first
(`BoostFits`: they fit). `Looping` says what the loop knows at each of its points;
without it "the queues are empty" at `top` does not give that everybody is finished.
The queues are filled by a recursion over `thread_queue`: that it has a solution, and
what the solution contains, is proved with `RecursionHasSolution` and `SetInduction`.
`QueuesNeverLoseAThread`, `SliceChargedToItsThread` and `StartReturnsWhenDone` follow.

**NqpSched_proofs, the demonstrations** (either version of the library, any number of
workers, any amount of work, any unit that `rand()` gives). `OutputOrder` compares two
threads; that it holds after a turn depends on all of them. `DemosInv` therefore says
of each policy where in its order the program is: `FifoInv`, that those before the
current entry have finished and those behind it have not begun; `RoundInv`, that the
unfinished before it in the round have had one turn more than all the others, `r` and
`r + 1`. A round begins where the version of the library begins (`FirstRun`: entry 1 in
the earlier one under RR). The two libraries search differently; `NearestOnRing` and
`TurnMoves` say the same of both, that the CPU goes to the nearest unfinished entry, and
`RoundOrder` that it either is next in the round or, when nobody unfinished is left
behind the current one, starts another. Where a round begins with entry 0 those before
the current entry are those created earlier, which gives the order of `OutputOrder`. `DemosFlow` (who has the CPU, and that no
thread of `finished` has it while another could) is what makes them inductive.

**NqpCounter_proofs** (any number of threads and increments). `IInv` is `TypeOK`
with `LifeOK` (where `main()` is decides whether the mutex is there and whether
threads may exist), `HolderOK` (whoever is past the lock has set the flag, and there
is one such thread) and `CountOK`: `counter` is `Increments` times the number of
finished threads, plus what the holder has counted so far, and a value that was
loaded is still the counter's. `HolderOK` makes `CountOK` inductive, since the
holder alone stores; `NoLostUpdate` is `CountOK` when all threads are finished.

**Pool3430_proofs** (any number of workers, clients and jobs, any number of failed
threads). `IInv` joins `TypeOK`, `MutexMatchesCode` and `SomebodyAwake` with these
facts: `PcOK` (a worker that runs a job has one); `SleepOK` (a worker goes to sleep
on an empty queue only, and the sleepers are those the condition variable knows);
`ShutOK` (a worker that comes to take a job and finds none, or to leave, has been
told to by `pool_wait`); `CountOK` (`pool_nthreads` and the threads that have left
add up to all); `TakeOK` (a worker that has found a job in line 50 still finds one in 53);
`LateOK` (once a job was taken late, nobody is between these lines any more). They hold only together: that the queue stays empty between a
worker's test and its sleep needs mutual exclusion, and that the mutex is released
on every path needs `ShutOK`, that is, that `pool_wait` stays set once one of the
unlocked readings has seen it. `NoneRunsAfterWait` follows from `CountOK`, although
`thr_pool_wait` reads the count without the lock. `OneJobLate` follows from `LateOK`: the
reading of `pool_wait` in line 50 may be out of date in 53, but only for the worker that
holds the mutex then, and whoever comes after it sees the flag. `PoolImplementsJobPool` adds
`JobsOK`: a job is in one place, in the list, with one worker, or ended. That a free
worker leaves room for one more job in `JobPool` is a bijection between the workers
at a job and the jobs (`RoomForOneMore`); that the list is kept newest first is the
two lemmas on reversal.

**ThrPool_proofs** (any number of workers and clients, any bounds). `Books` says that
each count and each list of the pool is the number, or the set, of the threads whose
place in the code it counts. Every critical section moves one or two threads and
changes some counts; `MoveCount` and `Relabel` say what a move does to the number of
threads at a set of places, so each action is a comparison of two sums. That
`create_worker` finds a free thread follows from `pool_nthreads < pool_maximum`.

`IInv` joins `Books` with `DestroyOK` (one client destroys, and
nobody waits then), `JobsOK` (each job is in one place) and `WaitOK`: what was queued
when a client called `thr_pool_wait` is in the list, with a worker, or ended. When the
wait returns the first two are empty, which is `WaitWaitsForAll`. `MinimumIsKept` is
an action property: who can decrease the number of workers (`WhoShrinks`) is a job
that ended its thread, a worker of a pool that is destroyed, or one whose time ran out
above the minimum. The refinement maps a job that `thr_pool_destroy` frees to one that
stays pending for ever.

**NqpShell_proofs** (any volume, session, number of lines and commands, any capacity of
pipes, any number of failing calls, both versions). `OnlyNeighboursHold` is about the
time after all children have set up their descriptors; the invariant has to speak of
every moment before. `HoldersOK`: an end is held by the shell or by a live process, of
the pipe's own line or of a later one, which inherited it from a line that failed.
`WritersOK` and `ReadersOK`: on the last line's pipes that process is still `forked`, or
it is the neighbour; the shell holds them while it forks, and the read end of
`final_pipe` until the output has ended. `ProgressOK` ties this to where the shell is:
which commands have been forked and which waited for. `EndsHeld` is the other
direction, who *must* hold an end: the last command, while it lives, holds the write
end of `final_pipe`, so the end of the output means that it has ended, and with `LogOK`
(what it wrote is in the log or in the pipe) that the log is complete, which is
`PromptLeavesNothing`. The steps of the commands are proved through `ChildMoves` and
`ChildWrites`, which say what any of them may do to the ends and to the pipe. That the
lines that run are within `MAX_CMDS`, and consist of tokens, is proved of the parser
(`SplitTypes`, `ParsedTypes`). `CwdStaysValid` needs that a volume that has a path has
the directories above it, which `ShellAssumption` says.

**NqpExfat_proofs** (any volume, paths, descriptors and portions, a table of any size,
any calls in any order). `ExfatAssumption` and `DirectoryAssumption` say that the volume
is well formed: chains end, END is the last element of a directory and nothing but END
follows it, and entries that name the same cluster agree on the size. They are
assumptions about the image, which the code does not check.

`ReadsInv` has four parts. `BytesOK`: byte i that was read with a descriptor is
`ByteAt(fd, i - 1)`, place `(i - 1) % CLUSTER_SIZE` of cluster `(i - 1) \div CLUSTER_SIZE`
of the chain. `TableOK`: the slots in use are the first ones of the table, and the first
slot of each descriptor counts what was read with it (of a file that was opened again
what was read since the first time, for the new slot is never the first: `RecordKeeps`;
the properties speak of files that were opened once). `SlotOK`: a
slot's offset is within the size, and the size that of an entry. `SizeOK` ties the answer
of `nqp_size` to an entry. The work is in `ReadChainBytes`, an invariant of the passes
of the loop in `nqp_read` (each starts at byte `CLUSTER_SIZE * m + offset` of the file),
in `SkipAdds`, that following m links and then n is following m + n, and in the
recursions of `nqp_open` (`WalkFinds`, `RecordAllKeeps`). `OffsetsMatch` and
`ReadsStayInOrder` follow.

`ListingInv` says that a listing under way is `At` a place: at entry i of the directory's
cluster k, behind clusters without END, having yielded what lies before. `SearchGoesOn`
follows the search of `nqp_getdents` over clusters in which nothing is left, `AtEntry` and
`AtMark` are its two ends. `ListingsInOrder` has the hypothesis that the directories that
are listed have an END (`EndMarked`; the run's volume does): without one the listing
never begins anew (section 6, `nqp_exfat.c:555`), and the theorem would be false.

Each theorem is about `Spec`, any calls in any order, and about `ProgramsSpec`, which
the run checks. `ProgramCalls` says that every step of a program is a call (`MayCall`) or
none: by `ProgramOK` the descriptors that cat, ls, paste and the interpreter hold are
those of files or of directories, or such as the library refuses, for instance -1 for a
path that was not found (`OpenReturns`). It rests on `JobsAssumption`: cat and paste are
given the paths of files, ls those of directories, which the programs do not check
either.

`ProgramsPrintRight` says what `cat`, `ls` and `paste` have printed when they are done,
for any volume, command line, portions and size of the table. It speaks of different files for which the table has room (`FitAndDiffer`) and of
directories other than the root. Its hypotheses are about the image: `WholeFiles` (a file
that is found has a cluster for each of its bytes and is no directory; `paste` is given
two files, and they end in a newline, since with others it may not end) and `EndMarked` as
above; the run's `ASSUME`s evaluate both. The property is worded with functions over the
command line and over the lines: `Concatenated` is the files of the first k paths,
`SlotsFor` how many slots they take, `LineEnds` where the lines of a file end and
`SideBySide` the first i lines of two.

The invariant, `PrintInv`, joins `ReadsInv`, `ListingInv` and `ProgramOK` with what the
programs add. `CommandInv`: a program that has opened anything has the image, and
its k-th descriptor is what its k-th path is answered with. `SlotsInv`: the
first `SlotsFor(Args)[Len(fds)]` slots are in use, and a file has one (`Slotted`) exactly
if one of the paths opened so far leads to it and had room; so a read is refused only
for a file that is not found, is empty or met a full table. `CatInv`: a file that was read
earlier is at its end, so a second path to it prints nothing and only a `FirstRead`
path adds its bytes (which are all files if they differ and fit: `AddedIsFirstRead`); within a file, what is printed is what came before and what was
read so far. `LsInv`: what is printed is what the listing has yielded. `PasteInv`: in
line i, with the lines before printed, one file is within its line (`Within`) and the
other at the end of the line before (`InFirst`) or of this one (`InSecond`), and
`bytes_read` is what the two have given in this line. That the last byte is a newline
when the second file has nothing left rests on `buffer`, which a call that reads nothing
leaves as it was; without it (`paste.c:29`) the loop would begin no next line.
`PastedEnds` ties the end of the program to the first line that neither file has.

**LockPrograms_proofs** (any number of threads, transfers, files, rows and increments;
any number of spurious wakeups). A program is data here, a sequence of instructions, so
the proof begins with what each function does, step by step: `DepositCode`, `MatrixCode`
and the others say which instruction is where (`Layout` for the loops of `main()` over
its threads, whose length is a parameter), `DepositSteps` and the others which changes
of `pc`, locks and memory are left for a thread of that function (`DepositStep`).

`IInv` joins the types (`Shape`), `Life` (a thread is not under way before it is
created, and is at its end when it has been joined), `Unused` (the cells that the
running program does not have) and an invariant for each program. The two versions of
`deposit` differ in the lock around them, in what they free and in where they return.
`Place` maps the steps of both to those of one transfer, `DepositTransfers` and
`FileScopeTransfers` show that each takes `TransferStep`s, and `TransferInv` is then
proved once: a transfer that has found enough money keeps the account locked until it
has taken it (`Place(t) \in 5 .. 7 => mem[From(t)] >= Amount(t)`), what it has read is
still there when it writes, and money is missing only while one transfer is between its
two writes. That there is one such transfer needs no global lock: whoever is between its
writes holds both accounts. `deadlock.c` may deadlock; `NoneTakenTwice` and the sum of the
balances hold all the same.

For the matrix, a worker that has taken a row is the only one that has it until it is
computed (`OwnRow`), and a row below `current_row` is computed or some worker has it
(`RowInv`): both need that `current_row` cannot change between its two accesses, which
is the lock. The list is a walk from its head that meets every inserted node once
(`Walk`); an insertion puts a node at its front (`WalkGrows`). `TotalsGrow` is the same
for the sum of the sizes, which the model defines by recursion over the files. The
counter has a whole number of threads' increments, plus those of the lock's holder.
`NothingTakenTwice` and `ProgramsRight` follow; the second needs `Life`, since what
`main()` sees is right only when it has joined everybody.

**CommonLemmas.** `MinIsLeast` by well-founded induction; from it induction up to n
over the members of a set (`SetInduction`), and from that, that a function defined by
recursion over `0 .. n` exists (`RecursionHasSolution`) and that its values stay in a
set which each step keeps (`RecursionStaysIn`). The library's own induction theorems
take an operator as a parameter, which the provers cannot instantiate; these take sets
and functions.

`TypeCorrect` and `LockExcludes` are theorems that state no property of a run; the first
is the type invariant, the other follows from what the runs check.

Out of the prover's reach: liveness (`Termination`, `NoStarvation`, `WaitComesBack`,
`EachJobRuns`, `PromptReturns`, `ProgramsEnd`, ...); these are model-checked only. Every
safety property that a passing run checks is also the statement of a theorem.

## 6. Not modelled

* Allocation failures, where they return an error before anything has changed.
* `nqp_thread_mutex_trylock` and `print_open_file_table` (no caller) and the other
  printing functions (no state).
* A second volume, mounted over the state that belongs to the first; which nodes of its
  list `job-queue.c` walks (the models have sequences).
* A clock that is set back again and again, which puts the MLFQ boost off for ever
  (`nqp_thread.c:248`); addresses of more than 32 bits in
  `nqp_read` (`nqp_exfat.c:390`) and entry sets that straddle clusters (219): planned.
  The models contain, without a property of their own, that a slot of an earlier open is
  used with its offset (245), that an empty file has
  descriptor 0 (315), that a directory without an end marker leaves its listing's state
  behind (555, 442) and that a failed second mount loses the image (85).
* `thr_pool.c`'s list of all pools with its fork handlers, since no caller forks; jobs
  that queue jobs or destroy their own pool.
* `ManPrinter.c`, `threads.c` and the list traversals: threads that share nothing, or
  are ordered by create and join, or only read. `Locks-Counter.c`, `Counter.c` and the
  modified copies of `textbook-sample.c`: variants of what `LockPrograms` has.
* Course programs on processes, pipes, signals and virtual memory: each shows a system
  call and has no protocol of its own.
* Copies: `Final/nqp_thread*.c` are `Erebor`'s; the pools under
  `Comp-3430-Winter2025` are those under `Threading`. `Napoli/nqp_exfattt.c` is a
  set of dummies that no Makefile builds.

## 7. Plan

Written and checked, in this order: the thread library with its abstract scheduler,
the MLFQ loop, the lock and its programs, the two pools with their abstract queue,
the file system with its programs, the shell, the demonstrations with the earlier
library, the programs on locks. Proved: the thread library, round robin, MLFQ, the
counter, both pools, the shell, the file system and its programs, the programs on
locks, the demonstrations. What follows:

1. Cluster addresses in 32 and in 64 bits, compared for every cluster number; entry
   sets at a cluster's end.
2. A client of `thr_pool` that forks.
