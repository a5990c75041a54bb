------------------------------ MODULE NqpDemos ------------------------------
(***************************************************************************)
(* The demonstration programs of Erebor on the thread library, and on its  *)
(* earlier version: nqp_printer.c, nqp_refiner.c, nqp_sched_tasks.c.       *)
(* main() creates the threads, chooses a policy and starts the scheduler;  *)
(* each thread works and yields until it has done its part.  Nothing       *)
(* resumes main() under these policies (see NqpSched and NqpLegacy): the   *)
(* process ends in the last thread's nqp_exit, and the joins and the "All  *)
(* done!" of main() are not reached.                                       *)
(***************************************************************************)
EXTENDS NqpLegacy, Integers

CONSTANTS Libraries,     \* "Erebor", "Legacy"
          MAX_PROGRESS,  \* 30 units; four times 50 lines in nqp_printer.c
          MAX_WORK_UNIT, \* nqp_refiner.c: rand() % MAX_WORK_UNIT
          THREADS,       \* how many workers main() creates
          Id             \* Id[k]: the control block of the k-th thread created

ASSUME DemosAssumption ==
    /\ Libraries \subseteq {"Erebor", "Legacy"}
    /\ MAX_PROGRESS \in Nat \ {0} /\ MAX_WORK_UNIT \in Nat \ {0, 1}
    /\ THREADS \in Nat /\ THREADS + 1 <= MAX_THREADS
    /\ Id \in [1 .. THREADS + 1 -> Threads] /\ IsInjective(Id)

VARIABLES library, program,
          main,      \* where main() is: "create", "start" or "left"
          progress,  \* what each thread has done of its work
          turns,     \* history: how often each has yielded or left, modulo CYCLE
          display,   \* the progress that the grapher has drawn last
          leaving    \* the threads that are in nqp_exit

demoVars == <<library, program, main, progress, turns, display, leaving>>
allDemoVars == <<schedVars, demoVars>>

\* nqp_refiner.c creates the thread that draws before the workers.
Grapher == IF program = "refiner" THEN Id[1] ELSE NULL
Workers == {Id[k] : k \in IF program = "refiner" THEN 2 .. THREADS + 1 ELSE 1 .. THREADS}
All == Workers \cup ({Grapher} \ {NULL})

\* The policies main() may set, those in its comments included.
PoliciesOf(p) == IF p = "refiner" THEN {"RR"}
                 ELSE {"RR", "FIFO"} \cup IF library = "Legacy" THEN {"MLFQ"} ELSE {}

DemosInit ==
    /\ SchedInit
    /\ library \in Libraries /\ program \in {"printer", "refiner", "sched_tasks"}
    /\ main = "create"
    /\ progress = [t \in Threads |-> 0] /\ turns = [t \in Threads |-> 0]
    /\ display = progress /\ leaving = {}

MainAt(label) == status = "running" /\ cpu = Main /\ main = label

CreateThread ==
    /\ MainAt("create") /\ num_threads < Cardinality(All)
    /\ \/ library = "Erebor" /\ nqp_thread_create(Id[num_threads + 1])
       \/ library = "Legacy" /\ legacy_thread_create(Id[num_threads + 1])
    /\ UNCHANGED demoVars

\* (nqp_printer.c keeps the policy that nqp_thread.c begins with.)
ChoosePolicy ==
    /\ MainAt("create") /\ num_threads = Cardinality(All)
    /\ \/ program = "printer" /\ UNCHANGED schedVars
       \/ /\ program # "printer"
          /\ \E policy \in PoliciesOf(program) :
                 \/ library = "Erebor" /\ nqp_sched_init(policy)
                 \/ library = "Legacy" /\ legacy_sched_init(policy)
    /\ main' = "start"
    /\ UNCHANGED <<library, program, progress, turns, display, leaving>>

StartSched ==
    /\ MainAt("start")
    /\ \/ library = "Erebor" /\ nqp_sched_start
       \/ library = "Legacy" /\ legacy_sched_start
    /\ main' = "left"
    /\ UNCHANGED <<library, program, progress, turns, display, leaving>>

-----------------------------------------------------------------------------
Runs(t) == status = "running" /\ cpu = t /\ t \notin leaving
\* Enough to tell apart 0, 1 and 2 turns more or less.
CYCLE == 4
CountTurn(t) == turns' = [turns EXCEPT ![t] = (@ + 1) % CYCLE]

YieldFrom(t) ==
    /\ \/ library = "Erebor" /\ nqp_yield(finished)
       \/ library = "Legacy" /\ legacy_yield(finished)
    /\ CountTurn(t)
    /\ UNCHANGED <<thread_queue, num_threads, finished, system_policy, status,
                   library, program, main, leaving>>

LeaveFrom(t) ==
    /\ \/ library = "Erebor" /\ nqp_exit({})
       \/ library = "Legacy" /\ legacy_exit({})
    /\ leaving' = leaving \cup {t}
    /\ CountTurn(t)
    /\ UNCHANGED <<library, program, main>>

\* One turn of a worker's loop, up to its nqp_yield; or its end.
Works(t, unit) ==
    /\ Runs(t) /\ progress[t] < MAX_PROGRESS
    /\ progress' = [progress EXCEPT ![t] = Min({@ + unit, MAX_PROGRESS})]
    /\ YieldFrom(t)
    /\ UNCHANGED display

WorkDone(t) ==
    /\ Runs(t) /\ progress[t] >= MAX_PROGRESS
    /\ LeaveFrom(t)
    /\ UNCHANGED <<progress, display>>

\* The tasks of the three programs.
printer(t) == program = "printer" /\ t \in Workers /\ (Works(t, 1) \/ WorkDone(t))

do_work(t) == program = "sched_tasks" /\ t \in Workers /\ (Works(t, 1) \/ WorkDone(t))

refine_macrodata(t, unit) ==
    /\ program = "refiner" /\ t \in Workers
    /\ Works(t, unit) \/ WorkDone(t)

all_full == \A t \in Workers : progress[t] >= MAX_PROGRESS

\* It draws, and leaves when all bars were full before.
grapher(t) ==
    /\ Runs(t) /\ t = Grapher
    /\ display' = progress
    /\ IF all_full THEN LeaveFrom(t) ELSE YieldFrom(t)
    /\ UNCHANGED progress

\* nqp_yield comes back to nqp_exit.
ExitReturns ==
    /\ status = "running" /\ cpu \in leaving
    /\ ExitProcess
    /\ UNCHANGED demoVars

Turn == \/ CreateThread \/ ChoosePolicy \/ StartSched \/ ExitReturns
        \/ \E t \in Threads :
               \/ printer(t) \/ do_work(t) \/ grapher(t)
               \/ \E unit \in 0 .. MAX_WORK_UNIT - 1 : refine_macrodata(t, unit)
DemosEnded == status # "running" /\ UNCHANGED allDemoVars
DemosNext == Turn \/ DemosEnded

\* Nothing but the process runs; rand() does not give a worker 0 for ever.
DemosSpec ==
    /\ DemosInit /\ [][DemosNext]_allDemoVars /\ WF_allDemoVars(Turn)
    /\ \A t \in Threads :
            SF_allDemoVars(\E unit \in 1 .. MAX_WORK_UNIT - 1 : refine_macrodata(t, unit))
-----------------------------------------------------------------------------
\* The tasks with the numbers k and l have both not finished.
BothAtWork(k, l) == {Id[k], Id[l]} \cap finished = {}
\* How many turns the task with the number k has had more than that with l.
Ahead(k, l) == (turns[Id[k]] - turns[Id[l]]) % CYCLE

\* The order in which the programs' output comes (Erebor/Legacy/README.md,
\* "Expected output for FIFO", 87-111, and "for RR", 113-142, and the a and b of
\* nqp_printer.c, 42-44).  Under FIFO a task writes only when those created before
\* it are done.  Under the policies that go round, the tasks that are not done
\* write one after the other in the order of their creation, each once a round:
\* an earlier one has had as many turns as a later one, or one more.
\* Of ThreadLegacy.c under FIFO and MLFQ nothing is said, since it does not do
\* what that README expects, and under RR only that no task is more than a turn
\* ahead of another: its rounds begin with the second task (318).
OutputOrder ==
    \A k, l \in 1 .. num_threads :
        /\ library = "Erebor" /\ system_policy = "FIFO" =>
               (k < l /\ (progress[Id[l]] > 0 \/ Id[l] \in finished) => Id[k] \in finished)
        /\ system_policy = "TWOTHREADS" \/ (library = "Erebor" /\ system_policy = "RR") =>
               (k < l /\ BothAtWork(k, l) => Ahead(k, l) \in {0, 1})
        /\ library = "Legacy" /\ system_policy = "RR" =>
               (BothAtWork(k, l) => Ahead(k, l) \in {0, 1, CYCLE - 1})

\* Every program ends, when all of its work is done and, in nqp_refiner.c, drawn
\* (the grapher of nqp_refiner.c leaves only when all bars are full).  Nothing is
\* said of the earlier library under FIFO, where the first nqp_exit ends the
\* process and the tasks behind it never run.
Completes ==
    <>(\/ library = "Legacy" /\ system_policy = "FIFO"
       \/ status = "exited" /\ all_full /\ (program = "refiner" => display = progress))
=============================================================================
