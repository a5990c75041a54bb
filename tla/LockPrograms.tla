---------------------------- MODULE LockPrograms ----------------------------
(***************************************************************************)
(* The course's programs on POSIX mutexes and condition variables: a bank  *)
(* transfer that deadlocks (deadlock.c), the same with a file-scope lock   *)
(* (DeadlockingFixed-File-ScopeLock.c), hash_logger.c, Matrix.c,           *)
(* condition-variables.c, textbook-sample.c, and list-insertion.c.         *)
(*                                                                         *)
(* A function is the sequence of its steps on shared memory, each of them  *)
(* atomic; x += k is a load and a store.  pc[t] is the step that thread t  *)
(* takes next; thread 0 is main().  A cell, or a lock, is a name with an   *)
(* index.  Allocation, pthread_create and fopen succeed.                   *)
(***************************************************************************)
EXTENDS Integers, Sequences, FiniteSetsExt

CONSTANTS Programs,     \* which of the programs are run
          Transfers,    \* sequences of what the deposit threads are to move
          Opening,      \* the balance of an account that was just created
          Sizes,        \* hash_logger.c: the sizes of the files
          NUM_THREADS,  \* of the other programs
          SIZE,         \* Matrix.c: the number of rows
          Increments,   \* textbook-sample.c: turns of the loop
          MAX_SPURIOUS  \* bound: wakeups without a broadcast

\* Every transfer is between the two accounts that main() creates.
deposit_thr_args == {d \in [from : 1 .. 2, to : 1 .. 2, amount : Nat] : d.from # d.to}

ASSUME LockProgramsAssumption ==
    /\ Programs \subseteq {"deadlock", "file_scope", "hash_logger", "matrix", "condition",
                           "counter", "list"}
    /\ {Opening, SIZE, Increments, MAX_SPURIOUS} \subseteq Nat
    /\ NUM_THREADS \in Nat \ {0}
    /\ Sizes \in Seq(Nat)
    /\ \A s \in Transfers : s \in Seq(deposit_thr_args)

VARIABLES program, transfers,
          pc,      \* 0: not created yet; behind the last step: returned
          owner,   \* owner[l]: the thread that holds l
          asleep,  \* the threads in pthread_cond_wait
          mem, reg, spurious

vars == <<program, transfers, pc, owner, asleep, mem, reg, spurious>>

Workers == 1 .. CASE program \in {"deadlock", "file_scope"} -> Len(transfers)
                  [] program = "hash_logger" -> Len(Sizes)
                  [] OTHER -> NUM_THREADS
main == 0
None == -1

\* An instruction.
I(op, at, n, to) == [op |-> op, at |-> at, n |-> n, to |-> to]
Lock(l)          == I("lock", l, 0, 0)
Unlock(l)        == I("unlock", l, 0, 0)
Wait(l)          == I("wait", l, 0, 0)         \* gives up l and sleeps
Broadcast        == I("broadcast", <<>>, 0, 0)
Load(x)          == I("load", x, 0, 0)
Store(x, k)      == I("store", x, k, 0)        \* what was loaded, plus k
Add(x, k)        == I("add", x, k, 0)          \* atomic
Put(x, n)        == I("put", x, n, 0)
Row              == I("row", <<>>, 0, 0)       \* multiply_row(what was loaded)
Unless(x, n, to) == I("unless", x, n, to)      \* if x < n go on, else at step to
Again            == I("again", <<>>, 0, 0)     \* the next turn of while (1)
Return           == I("return", <<>>, 0, 0)
Until(x, n)      == I("until", x, n, 0)        \* while (x < n) {}
Create(t)        == I("create", <<>>, t, 0)
Join(t)          == I("join", <<>>, t, 0)

\* A main() that creates all threads and then joins them.
Launch(before, between, after) ==
    before \o [t \in Workers |-> Create(t)] \o between \o [t \in Workers |-> Join(t)] \o after

Balance(a) == <<"balance", a>>
freed(t) == <<"freed", t>>
Free(t) == Add(freed(t), 1)

-----------------------------------------------------------------------------
\* Mutant: the balance is looked at before it is locked.
deposit_tests_early(t) ==
    LET d == transfers[t]
        from == Balance(d.from)
        to == Balance(d.to)
    IN  <<Unless(from, d.amount, 3), Return, Lock(from), Lock(to),
          Load(from), Store(from, -d.amount), Load(to), Store(to, d.amount),
          Unlock(from), Unlock(to), Free(t)>>

\* deadlock.c: the lock is held from the test of the balance to the transfer.
deposit(t) ==
    LET d == transfers[t]
        from == Balance(d.from)
        to == Balance(d.to)
    IN  <<Lock(from), Unless(from, d.amount, 5), Unlock(from), Return,
          Lock(to), Load(from), Store(from, -d.amount), Load(to), Store(to, d.amount),
          Unlock(from), Unlock(to), Free(t)>>

\* It frees the arguments that the threads have freed.
deadlock_main == Launch(<<>>, <<>>, [t \in Workers |-> Free(t)])

deposit_lock == <<"deposit_lock", 0>>

\* The file with the file-scope lock has no main() of its own; a caller joins.
deposit_file_scope(t) ==
    LET d == transfers[t]
        from == Balance(d.from)
        to == Balance(d.to)
    IN  <<Lock(deposit_lock), Lock(from), Unless(from, d.amount, 8),
          Unlock(from), Unlock(deposit_lock), Free(t), Return,
          Lock(to), Load(from), Store(from, -d.amount), Load(to), Store(to, d.amount),
          Unlock(from), Unlock(to), Unlock(deposit_lock), Free(t)>>

file_scope_main == Launch(<<>>, <<>>, <<>>)

stats_mutex == <<"stats_mutex", 0>>
log_mutex == <<"log_mutex", 0>>
total_bytes == <<"total_bytes", 0>>

\* Mutant: one thread takes the locks in the other order.
hash_worker_bad_order(t) ==
    (IF t = 1 THEN <<Lock(log_mutex), Lock(stats_mutex)>>
     ELSE <<Lock(stats_mutex), Lock(log_mutex)>>)
    \o <<Load(total_bytes), Store(total_bytes, Sizes[t]),
         Unlock(log_mutex), Unlock(stats_mutex)>>

\* The digest and the line of the log are left out.
hash_worker(t) ==
    <<Lock(stats_mutex), Lock(log_mutex), Load(total_bytes), Store(total_bytes, Sizes[t]),
      Unlock(log_mutex), Unlock(stats_mutex)>>

hash_main == Launch(<<>>, <<>>, <<>>)

matrix_lock == <<"lock", 0>>
current_row == <<"current_row", 0>>
task_available == <<"task_available", 0>>
C(r) == <<"C", r>>

\* One turn of while (1).  A thread that wakes takes the lock and looks again,
\* which is what the turn begins with.
matrix_worker(t) ==
    <<Lock(matrix_lock), Unless(task_available, 1, 5), Wait(matrix_lock), Again,
      Unless(current_row, SIZE, 11), Load(current_row), Store(current_row, 1),
      Unlock(matrix_lock), Row, Again,
      Unlock(matrix_lock)>>

matrix_main ==
    Launch(<<>>, <<Lock(matrix_lock), Put(current_row, 0), Put(task_available, 1),
                   Broadcast, Unlock(matrix_lock)>>, <<>>)

cv_lock == <<"cv_lock", 0>>
threads_ready == <<"threads_ready", 0>>

\* pthread_cond_wait takes the lock again; there is no condition to look at.
work(t) == <<Add(threads_ready, 1), Lock(cv_lock), Wait(cv_lock), Lock(cv_lock),
             Unlock(cv_lock), Add(threads_ready, -1)>>

condition_main ==
    Launch(<<>>, <<Until(threads_ready, NUM_THREADS), Lock(cv_lock), Broadcast, Unlock(cv_lock)>>,
           <<>>)

counter_lock == <<"counter_lock", 0>>
counter == <<"counter", 0>>
Loop == [k \in 1 .. 2 * Increments |-> IF k % 2 = 1 THEN Load(counter) ELSE Store(counter, 1)]

thread_counter(t) == <<Lock(counter_lock)>> \o Loop \o <<Unlock(counter_lock)>>

counter_main == Launch(<<>>, <<>>, <<>>)

insert_lock == <<"insert_lock", 0>>
\* A node is named by the thread that inserts it; the head is node 0.
next(n) == <<"next", n>>

\* Mutant: a lock of its own, what list-insertion.c calls a function-scope lock.
thread_insert_after_function_scope(t) ==
    <<Lock(next(t)), Load(next(0)), Store(next(t), 0), Put(next(0), t), Unlock(next(t))>>

thread_insert_after(t) ==
    <<Lock(insert_lock), Load(next(0)), Store(next(t), 0), Put(next(0), t), Unlock(insert_lock)>>

list_main == Launch(<<Put(next(0), 0)>>, <<>>, <<>>)

Thread(t) ==
    CASE program = "deadlock" -> IF t = main THEN deadlock_main ELSE deposit(t)
      [] program = "file_scope" -> IF t = main THEN file_scope_main ELSE deposit_file_scope(t)
      [] program = "hash_logger" -> IF t = main THEN hash_main ELSE hash_worker(t)
      [] program = "matrix" -> IF t = main THEN matrix_main ELSE matrix_worker(t)
      [] program = "condition" -> IF t = main THEN condition_main ELSE work(t)
      [] program = "counter" -> IF t = main THEN counter_main ELSE thread_counter(t)
      [] program = "list" -> IF t = main THEN list_main ELSE thread_insert_after(t)

-----------------------------------------------------------------------------
Names == {"balance", "freed", "deposit_lock", "stats_mutex", "log_mutex", "total_bytes", "lock",
          "current_row", "task_available", "C", "cv_lock", "threads_ready", "counter_lock",
          "counter", "next", "insert_lock"}
Top == Max({NUM_THREADS, SIZE, Len(Sizes), Len(transfers), 2})
Cells == Names \X (0 .. Top)

\* The accounts are create_bank_account's.
Init ==
    /\ program \in Programs
    /\ transfers \in IF program \in {"deadlock", "file_scope"} THEN Transfers ELSE {<<>>}
    /\ pc = [t \in {main} \cup Workers |-> IF t = main THEN 1 ELSE 0]
    /\ owner = [l \in Cells |-> None]
    /\ asleep = {}
    /\ mem = [x \in Cells |-> IF x[1] = "balance" THEN Opening
                              ELSE IF x = current_row THEN -1 ELSE 0]
    /\ reg = [t \in {main} \cup Workers |-> 0]
    /\ spurious = 0

Now(t) == Thread(t)[pc[t]]
Done(t) == pc[t] > Len(Thread(t))
\* t is about to execute op.
At(t, op) == pc[t] \in DOMAIN Thread(t) /\ t \notin asleep /\ Now(t).op = op
Goto(t, p) == pc' = [pc EXCEPT ![t] = p] /\ UNCHANGED <<program, transfers>>
Go(t) == Goto(t, pc[t] + 1)

pthread_mutex_lock(t) ==
    /\ At(t, "lock") /\ owner[Now(t).at] = None
    /\ owner' = [owner EXCEPT ![Now(t).at] = t]
    /\ Go(t)
    /\ UNCHANGED <<asleep, mem, reg, spurious>>

pthread_mutex_unlock(t) ==
    /\ At(t, "unlock")
    /\ owner' = [owner EXCEPT ![Now(t).at] = None]
    /\ Go(t)
    /\ UNCHANGED <<asleep, mem, reg, spurious>>

pthread_cond_wait(t) ==
    /\ At(t, "wait")
    /\ owner' = [owner EXCEPT ![Now(t).at] = None]
    /\ asleep' = asleep \cup {t}
    /\ Go(t)
    /\ UNCHANGED <<mem, reg, spurious>>

pthread_cond_broadcast(t) ==
    /\ At(t, "broadcast")
    /\ asleep' = {}
    /\ Go(t)
    /\ UNCHANGED <<owner, mem, reg, spurious>>

\* POSIX lets pthread_cond_wait return without a broadcast.
SpuriousWakeup(t) ==
    /\ t \in asleep /\ spurious < MAX_SPURIOUS
    /\ asleep' = asleep \ {t} /\ spurious' = spurious + 1
    /\ UNCHANGED <<program, transfers, pc, owner, mem, reg>>

pthread_create(t) ==
    /\ At(t, "create")
    /\ pc' = [pc EXCEPT ![t] = @ + 1, ![Now(t).n] = 1]
    /\ UNCHANGED <<program, transfers, owner, asleep, mem, reg, spurious>>

pthread_join(t) ==
    /\ At(t, "join") /\ Done(Now(t).n)
    /\ Go(t)
    /\ UNCHANGED <<owner, asleep, mem, reg, spurious>>

load(t) ==
    /\ At(t, "load")
    /\ reg' = [reg EXCEPT ![t] = mem[Now(t).at]]
    /\ Go(t)
    /\ UNCHANGED <<owner, asleep, mem, spurious>>

Written(t) == CASE Now(t).op = "store" -> reg[t] + Now(t).n
                [] Now(t).op = "add" -> mem[Now(t).at] + Now(t).n
                [] Now(t).op = "put" -> Now(t).n

write(t) ==
    /\ At(t, "store") \/ At(t, "add") \/ At(t, "put")
    /\ mem' = [mem EXCEPT ![Now(t).at] = Written(t)]
    /\ Go(t)
    /\ UNCHANGED <<owner, asleep, reg, spurious>>

\* How often the row was computed.
multiply_row(t) ==
    /\ At(t, "row")
    /\ mem' = [mem EXCEPT ![C(reg[t])] = @ + 1]
    /\ Go(t)
    /\ UNCHANGED <<owner, asleep, reg, spurious>>

unless(t) ==
    /\ At(t, "unless")
    /\ Goto(t, IF mem[Now(t).at] < Now(t).n THEN pc[t] + 1 ELSE Now(t).to)
    /\ UNCHANGED <<owner, asleep, mem, reg, spurious>>

again(t) ==
    /\ At(t, "again")
    /\ Goto(t, 1)
    /\ UNCHANGED <<owner, asleep, mem, reg, spurious>>

return(t) ==
    /\ At(t, "return")
    /\ Goto(t, Len(Thread(t)) + 1)
    /\ UNCHANGED <<owner, asleep, mem, reg, spurious>>

until(t) ==
    /\ At(t, "until") /\ mem[Now(t).at] >= Now(t).n
    /\ Go(t)
    /\ UNCHANGED <<owner, asleep, mem, reg, spurious>>

Next == \E t \in {main} \cup Workers :
            \/ pthread_mutex_lock(t) \/ pthread_mutex_unlock(t)
            \/ pthread_cond_wait(t) \/ pthread_cond_broadcast(t) \/ SpuriousWakeup(t)
            \/ pthread_create(t) \/ pthread_join(t)
            \/ load(t) \/ write(t) \/ multiply_row(t)
            \/ unless(t) \/ again(t) \/ return(t) \/ until(t)

\* As long as a thread can run, some thread does.
Spec == Init /\ [][Next]_vars /\ WF_vars(Next)
-----------------------------------------------------------------------------
Ended == Done(main)

TotalSize == LET total[n \in 0 .. Len(Sizes)] == IF n = 0 THEN 0 ELSE total[n - 1] + Sizes[n]
             IN  total[Len(Sizes)]

\* The first NUM_THREADS nodes behind the head; 0 stands for NULL, too.
Inserted == LET node[k \in 0 .. NUM_THREADS] == IF k = 0 THEN 0 ELSE mem[next(node[k - 1])]
            IN  {node[k] : k \in 1 .. NUM_THREADS}

\* What a program shows when its threads are joined is what its threads would
\* have done one after the other: no money is lost or made; the deposit of
\* DeadlockingFixed-File-ScopeLock.c has freed its argument once, on either way out
\* (40, 54); total_bytes is the size of all files, although it is marked unsafe;
\* the counter has every increment, the matrix every row, the list every node.
\* Nothing is said of the arguments in deadlock.c: its deposit (76, 91) and its
\* main() (128-129) do not keep to the comment in lines 37-38.
ResultIsRight ==
    Ended =>
        CASE program = "deadlock" -> mem[Balance(1)] + mem[Balance(2)] = 2 * Opening
          [] program = "file_scope" -> /\ mem[Balance(1)] + mem[Balance(2)] = 2 * Opening
                                       /\ \A t \in Workers : mem[freed(t)] = 1
          [] program = "hash_logger" -> mem[total_bytes] = TotalSize
          [] program = "matrix" -> \A r \in 0 .. SIZE - 1 : mem[C(r)] = 1
          [] program = "condition" -> mem[threads_ready] = 0
          [] program = "counter" -> mem[counter] = NUM_THREADS * Increments
          [] program = "list" -> Inserted = Workers

\* At no time is an account overdrawn, whatever other deposit comes between the
\* test of the balance and the transfer, or a row of the matrix given out twice.
NoneTakenTwice ==
    /\ \A a \in 1 .. 2 : mem[Balance(a)] >= 0
    /\ \A r \in 0 .. SIZE - 1 : mem[C(r)] <= 1

WaitsFor(t, u) == At(t, "lock") /\ owner[Now(t).at] = u
\* Two deposits each hold the account that the other wants.
CircularWait == program = "deadlock" /\ \E t, u \in Workers : WaitsFor(t, u) /\ WaitsFor(u, t)
\* A thread came to its wait after the broadcast; or one was woken before it, and
\* has left, and main() does not see all of them ready any more.
SignalLost == /\ program = "condition"
              /\ \/ asleep # {} /\ At(main, "join")
                 \/ spurious > 0 /\ At(main, "until") /\ \E t \in Workers : Done(t)

\* Every program ends, hash_logger.c too, which says that it simulates a bad lock
\* order (hash_logger.c:51).  Only two may not: deadlock.c, when its transfers
\* wait for one another, and condition-variables.c, when a signal is lost.
ProgramsEnd == <>[](Ended \/ CircularWait \/ SignalLost)
=============================================================================
