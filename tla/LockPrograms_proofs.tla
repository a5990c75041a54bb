------------------------ MODULE LockPrograms_proofs -------------------------
(***************************************************************************)
(* Proofs about LockPrograms, for any number of threads, transfers, files, *)
(* rows and increments, and any number of spurious wakeups.                *)
(***************************************************************************)
EXTENDS LockPrograms, CommonLemmas, FiniteSetTheorems, SequenceTheorems

\* The threads of the program that is running, main() among them, and how many others.
Threads == {main} \cup Workers
N == CASE program \in {"deadlock", "file_scope"} -> Len(transfers)
       [] program = "hash_logger" -> Len(Sizes)
       [] OTHER -> NUM_THREADS

\* The programs, and the types of what LockPrograms keeps.
Kinds == {"deadlock", "file_scope", "hash_logger", "matrix", "condition", "counter", "list"}

Shape ==
    /\ program \in Kinds
    /\ transfers \in Seq(deposit_thr_args)
    /\ pc \in [Threads -> Nat]
    /\ owner \in [Cells -> Threads \cup {None}]
    /\ mem \in [Cells -> Int]
    /\ reg \in [Threads -> Int]

\* The length of the parts of main() before, between and behind the creates and
\* the joins.
First == IF program = "list" THEN 1 ELSE 0
Mid == CASE program = "matrix" -> 5 [] program = "condition" -> 4 [] OTHER -> 0
Rest == IF program = "deadlock" THEN N ELSE 0
Joins == First + N + Mid
Last == Joins + N + Rest

-----------------------------------------------------------------------------
\* The indexes of the cells reach as far as the programs need them.
LEMMA CellsSuffice ==
    ASSUME program \in Kinds, transfers \in Seq(deposit_thr_args)
    PROVE  /\ N \in Nat /\ Workers = 1 .. N
           /\ Top \in Nat /\ N <= Top /\ SIZE <= Top /\ 2 <= Top
           /\ \A nm \in Names, k \in 0 .. Top : <<nm, k>> \in Cells
<1> USE LockProgramsAssumption
<1>1. Len(Sizes) \in Nat /\ Len(transfers) \in Nat /\ NUM_THREADS \in Nat /\ SIZE \in Nat
  BY LenProperties
<1>2. N \in Nat /\ Workers = 1 .. N
  BY <1>1 DEF N, Workers
<1> DEFINE S == {NUM_THREADS, SIZE, Len(Sizes), Len(transfers), 2}
<1>3. \E x \in S : \A y \in S : x >= y
  BY <1>1
<1>4. Top \in S /\ \A y \in S : Top >= y
  BY <1>3, Zenon DEF Top, Max
<1>5. Top \in Nat /\ Top >= NUM_THREADS /\ Top >= SIZE /\ Top >= Len(Sizes)
      /\ Top >= Len(transfers) /\ Top >= 2
  <2>1. \A y \in S : y \in Nat
    BY <1>1
  <2>2. QED BY <1>4, <2>1
<1>6. N <= Top
  BY <1>1, <1>2, <1>5 DEF N
<1>7. QED BY <1>1, <1>2, <1>5, <1>6 DEF Cells

\* What an instruction is made of.
Operations == {"lock", "unlock", "wait", "broadcast", "load", "store", "add", "put", "row",
               "unless", "again", "return", "until", "create", "join"}
Instructions == [op : Operations, at : Cells \cup {<<>>}, n : Int, to : Nat]

\* Joined(st, s, t, m, n): st has what s and t have, one behind the other.
Joined(st, s, t, m, n) ==
    /\ Len(st) = m + n
    /\ \A p \in 1 .. m : st[p] = s[p]
    /\ \A p \in 1 .. n : st[m + p] = t[p]

\* What s \o t has where.
LEMMA TwoParts ==
    ASSUME NEW S, NEW s \in Seq(S), NEW t \in Seq(S), NEW m, NEW n, m = Len(s), n = Len(t)
    PROVE  s \o t \in Seq(S) /\ Joined(s \o t, s, t, m, n)
<1>1. /\ s \o t \in Seq(S) /\ Len(s \o t) = Len(s) + Len(t)
      /\ \A i \in 1 .. Len(s) + Len(t) :
            (s \o t)[i] = IF i <= Len(s) THEN s[i] ELSE t[i - Len(s)]
  BY ConcatProperties
<1>2. m \in Nat /\ n \in Nat
  BY LenProperties
<1>3. PICK st : st = s \o t
  OBVIOUS
<1>4. st \in Seq(S) /\ Len(st) = m + n
      /\ \A i \in 1 .. m + n : st[i] = IF i <= m THEN s[i] ELSE t[i - m]
  BY <1>1, <1>3
<1>5. \A p \in 1 .. m : st[p] = s[p]
  BY <1>2, <1>4
<1>6. ASSUME NEW p \in 1 .. n PROVE st[m + p] = t[p]
  <2>1. m + p \in 1 .. m + n /\ ~ (m + p <= m) /\ (m + p) - m = p
    BY <1>2
  <2>2. QED BY <1>4, <2>1
<1>7. QED BY <1>3, <1>4, <1>5, <1>6 DEF Joined

\* The same of five sequences, the first of which have k1 .. k4 elements together.
Five(L, s1, s2, s3, s4, s5) ==
    LET k1 == Len(s1)
        k2 == k1 + Len(s2)
        k3 == k2 + Len(s3)
        k4 == k3 + Len(s4)
    IN  /\ Len(L) = k4 + Len(s5)
        /\ \A p \in 1 .. Len(s1) : L[p] = s1[p]
        /\ \A p \in 1 .. Len(s2) : L[k1 + p] = s2[p]
        /\ \A p \in 1 .. Len(s3) : L[k2 + p] = s3[p]
        /\ \A p \in 1 .. Len(s4) : L[k3 + p] = s4[p]
        /\ \A p \in 1 .. Len(s5) : L[k4 + p] = s5[p]

\* Four concatenations, one behind the other, lay five sequences out so.
LEMMA FivePlaces ==
    ASSUME NEW s1, NEW s2, NEW s3, NEW s4, NEW s5, NEW L2, NEW L3, NEW L4, NEW L,
           Len(s1) \in Nat, Len(s2) \in Nat, Len(s3) \in Nat, Len(s4) \in Nat, Len(s5) \in Nat,
           Joined(L2, s1, s2, Len(s1), Len(s2)), Joined(L3, L2, s3, Len(L2), Len(s3)),
           Joined(L4, L3, s4, Len(L3), Len(s4)), Joined(L, L4, s5, Len(L4), Len(s5))
    PROVE  Five(L, s1, s2, s3, s4, s5)
<1> USE DEF Joined
<1>1. PICK n1 \in Nat, n2 \in Nat, n3 \in Nat, n4 \in Nat, n5 \in Nat :
        /\ n1 = Len(s1) /\ n2 = Len(s2) /\ n3 = Len(s3) /\ n4 = Len(s4) /\ n5 = Len(s5)
        /\ Len(L2) = n1 + n2 /\ Len(L3) = n1 + n2 + n3 /\ Len(L4) = n1 + n2 + n3 + n4
  OBVIOUS
<1>2. \A p \in 1 .. n1 : L[p] = s1[p]
  <2>1. \A p \in 1 .. n1 : p \in 1 .. n1 + n2 /\ p \in 1 .. n1 + n2 + n3
                           /\ p \in 1 .. n1 + n2 + n3 + n4
    OBVIOUS
  <2>2. QED BY <1>1, <2>1
<1>3. \A p \in 1 .. n2 : L[n1 + p] = s2[p]
  <2>1. \A p \in 1 .. n2 : /\ n1 + p \in 1 .. n1 + n2 /\ n1 + p \in 1 .. n1 + n2 + n3
                           /\ n1 + p \in 1 .. n1 + n2 + n3 + n4
    OBVIOUS
  <2>2. QED BY <1>1, <2>1
<1>4. \A p \in 1 .. n3 : L[n1 + n2 + p] = s3[p]
  <2>1. \A p \in 1 .. n3 : /\ n1 + n2 + p \in 1 .. n1 + n2 + n3
                           /\ n1 + n2 + p \in 1 .. n1 + n2 + n3 + n4
    OBVIOUS
  <2>2. QED BY <1>1, <2>1
<1>5. \A p \in 1 .. n4 : L[n1 + n2 + n3 + p] = s4[p]
  <2>1. \A p \in 1 .. n4 : n1 + n2 + n3 + p \in 1 .. n1 + n2 + n3 + n4
    OBVIOUS
  <2>2. QED BY <1>1, <2>1
<1>6. QED BY <1>1, <1>2, <1>3, <1>4, <1>5 DEF Five

\* What s1 \o s2 \o s3 \o s4 \o s5 has where.
LEMMA FiveParts ==
    ASSUME NEW S, NEW s1 \in Seq(S), NEW s2 \in Seq(S), NEW s3 \in Seq(S),
           NEW s4 \in Seq(S), NEW s5 \in Seq(S)
    PROVE  /\ s1 \o s2 \o s3 \o s4 \o s5 \in Seq(S)
           /\ Five(s1 \o s2 \o s3 \o s4 \o s5, s1, s2, s3, s4, s5)
<1>1. Len(s1) \in Nat /\ Len(s2) \in Nat /\ Len(s3) \in Nat /\ Len(s4) \in Nat /\ Len(s5) \in Nat
  BY LenProperties
<1>2. PICK L2 \in Seq(S) : L2 = s1 \o s2 /\ Joined(L2, s1, s2, Len(s1), Len(s2))
  BY TwoParts
<1>3. PICK L3 \in Seq(S) : L3 = L2 \o s3 /\ Joined(L3, L2, s3, Len(L2), Len(s3))
  BY TwoParts
<1>4. PICK L4 \in Seq(S) : L4 = L3 \o s4 /\ Joined(L4, L3, s4, Len(L3), Len(s4))
  BY TwoParts
<1>5. PICK L \in Seq(S) : L = L4 \o s5 /\ Joined(L, L4, s5, Len(L4), Len(s5))
  BY TwoParts
<1>6. L = s1 \o s2 \o s3 \o s4 \o s5
  BY <1>2, <1>3, <1>4, <1>5
<1>7. Five(L, s1, s2, s3, s4, s5)
  <2>1. /\ Joined(L2, s1, s2, Len(s1), Len(s2)) /\ Joined(L3, L2, s3, Len(L2), Len(s3))
        /\ Joined(L4, L3, s4, Len(L3), Len(s4)) /\ Joined(L, L4, s5, Len(L4), Len(s5))
    BY <1>2, <1>3, <1>4, <1>5
  <2>2. QED BY <1>1, <2>1, FivePlaces
<1>8. QED BY <1>6, <1>7

\* What is where in a main() that Launch makes.
LaidOut(L, before, between, after) ==
    LET a == Len(before)
        b == Len(between)
        e == Len(after)
    IN  /\ L \in Seq(Instructions)
        /\ Len(L) = a + N + b + N + e
        /\ \A p \in 1 .. a : L[p] = before[p]
        /\ \A t \in Workers : L[a + t] = Create(t)
        /\ \A p \in 1 .. b : L[a + N + p] = between[p]
        /\ \A t \in Workers : L[a + N + b + t] = Join(t)
        /\ \A p \in 1 .. e : L[a + N + b + N + p] = after[p]

\* The creates and the joins are where main() has its loops over the threads.
LEMMA Layout ==
    ASSUME N \in Nat, Workers = 1 .. N,
           NEW before \in Seq(Instructions), NEW between \in Seq(Instructions),
           NEW after \in Seq(Instructions)
    PROVE  LaidOut(Launch(before, between, after), before, between, after)
<1> PICK L : L = Launch(before, between, after)
  OBVIOUS
<1>1. \A t \in Workers : Create(t) \in Instructions /\ Join(t) \in Instructions
  BY DEF Create, Join, I, Instructions, Operations
<1>2. PICK c, j : c = [t \in Workers |-> Create(t)] /\ j = [t \in Workers |-> Join(t)]
  OBVIOUS
<1>3. c \in [1 .. N -> Instructions] /\ j \in [1 .. N -> Instructions]
  BY <1>1, <1>2
<1>4. c \in Seq(Instructions) /\ j \in Seq(Instructions)
  BY <1>3, SeqDef
<1>5. Len(c) = N /\ Len(j) = N
  <2>1. DOMAIN c = 1 .. N /\ DOMAIN j = 1 .. N
    BY <1>3
  <2>2. QED BY <1>4, <2>1
<1>6. \A t \in Workers : c[t] = Create(t) /\ j[t] = Join(t)
  BY <1>2
<1>7. L = before \o c \o between \o j \o after
  BY <1>2 DEF Launch
<1>8. L \in Seq(Instructions) /\ Five(L, before, c, between, j, after)
  BY <1>4, <1>7, FiveParts
<1>9. LaidOut(L, before, between, after)
  BY <1>5, <1>6, <1>8 DEF Five, LaidOut
<1>10. QED BY <1>9

-----------------------------------------------------------------------------
\* A cell of the program is a cell.
LEMMA CellsAre ==
    ASSUME Shape
    PROVE  /\ Balance(1) \in Cells /\ Balance(2) \in Cells
           /\ \A t \in 0 .. N : freed(t) \in Cells /\ next(t) \in Cells
           /\ \A r \in 0 .. SIZE : C(r) \in Cells
           /\ deposit_lock \in Cells /\ stats_mutex \in Cells /\ log_mutex \in Cells
           /\ total_bytes \in Cells /\ matrix_lock \in Cells /\ current_row \in Cells
           /\ task_available \in Cells /\ cv_lock \in Cells /\ threads_ready \in Cells
           /\ counter_lock \in Cells /\ counter \in Cells /\ insert_lock \in Cells
<1>1. program \in Kinds /\ transfers \in Seq(deposit_thr_args)
  BY DEF Shape
<1>2. /\ N \in Nat /\ Top \in Nat /\ N <= Top /\ SIZE <= Top /\ 2 <= Top
      /\ \A nm \in Names, k \in 0 .. Top : <<nm, k>> \in Cells
  BY <1>1, CellsSuffice
<1>3. SIZE \in Nat
  BY LockProgramsAssumption
<1>4. 0 \in 0 .. Top /\ 1 \in 0 .. Top /\ 2 \in 0 .. Top
      /\ \A t \in 0 .. N : t \in 0 .. Top
      /\ \A r \in 0 .. SIZE : r \in 0 .. Top
  BY <1>2, <1>3
<1>5. QED
  BY <1>2, <1>4 DEF Names, Balance, freed, next, C, deposit_lock, stats_mutex, log_mutex,
     total_bytes, matrix_lock, current_row, task_available, cv_lock, threads_ready,
     counter_lock, counter, insert_lock

\* Its instructions are instructions.
LEMMA InstructionsAre ==
    ASSUME NEW x \in Cells, NEW k \in Int, NEW p \in Nat
    PROVE  /\ Lock(x) \in Instructions /\ Unlock(x) \in Instructions /\ Wait(x) \in Instructions
           /\ Broadcast \in Instructions /\ Row \in Instructions /\ Again \in Instructions
           /\ Return \in Instructions /\ Load(x) \in Instructions /\ Store(x, k) \in Instructions
           /\ Add(x, k) \in Instructions /\ Put(x, k) \in Instructions
           /\ Unless(x, k, p) \in Instructions /\ Until(x, k) \in Instructions
BY DEF Lock, Unlock, Wait, Broadcast, Row, Again, Return, Load, Store, Add, Put, Unless, Until, I,
   Instructions, Operations

\* Short sequences.
LEMMA Tuples ==
    ASSUME NEW S, NEW i1 \in S, NEW i2 \in S, NEW i3 \in S, NEW i4 \in S, NEW i5 \in S
    PROVE  /\ <<>> \in Seq(S) /\ Len(<<>>) = 0
           /\ <<i1>> \in Seq(S) /\ Len(<<i1>>) = 1
           /\ <<i1, i2, i3, i4>> \in Seq(S) /\ Len(<<i1, i2, i3, i4>>) = 4
           /\ <<i1, i2, i3, i4, i5>> \in Seq(S) /\ Len(<<i1, i2, i3, i4, i5>>) = 5
OBVIOUS

\* What is where in main().
LEMMA MainCode ==
    ASSUME Shape
    PROVE  /\ Thread(main) \in Seq(Instructions) /\ Len(Thread(main)) = Last
           /\ \A t \in Workers : /\ Thread(main)[First + t] = Create(t)
                                 /\ Thread(main)[Joins + t] = Join(t)
           /\ program = "deadlock" => \A t \in Workers : Thread(main)[Joins + N + t] = Free(t)
           /\ program = "matrix" =>
                /\ Thread(main)[N + 1] = Lock(matrix_lock)
                /\ Thread(main)[N + 2] = Put(current_row, 0)
                /\ Thread(main)[N + 3] = Put(task_available, 1)
                /\ Thread(main)[N + 4] = Broadcast
                /\ Thread(main)[N + 5] = Unlock(matrix_lock)
           /\ program = "condition" =>
                /\ Thread(main)[N + 1] = Until(threads_ready, NUM_THREADS)
                /\ Thread(main)[N + 2] = Lock(cv_lock)
                /\ Thread(main)[N + 3] = Broadcast
                /\ Thread(main)[N + 4] = Unlock(cv_lock)
           /\ program = "list" => Thread(main)[1] = Put(next(0), 0)
<1>1. N \in Nat /\ Workers = 1 .. N
  BY CellsSuffice DEF Shape
<1>2. \A x \in Cells : Lock(x) \in Instructions /\ Unlock(x) \in Instructions
                       /\ \A k \in Int : /\ Add(x, k) \in Instructions /\ Put(x, k) \in Instructions
                                         /\ Until(x, k) \in Instructions
  BY InstructionsAre
<1>3. Broadcast \in Instructions
  BY DEF Broadcast, I, Instructions, Operations
<1>4. <<>> \in Seq(Instructions) /\ Len(<<>>) = 0
  BY <1>3, Tuples
<1>5. CASE program \in {"file_scope", "hash_logger", "counter"}
  <2>1. Thread(main) = Launch(<<>>, <<>>, <<>>)
    BY <1>5 DEF Thread, file_scope_main, hash_main, counter_main
  <2>2. First = 0 /\ Mid = 0 /\ Rest = 0
    BY <1>5 DEF First, Mid, Rest
  <2>3. PICK L : L = Launch(<<>>, <<>>, <<>>)
    OBVIOUS
  <2>4. LaidOut(L, <<>>, <<>>, <<>>)
    BY <1>1, <1>4, <2>3, Layout
  <2>5. L \in Seq(Instructions)
    BY <2>4 DEF LaidOut
  <2>6. \A t \in Workers : L[t] = Create(t) /\ L[N + t] = Join(t)
    BY <1>1, <1>4, <2>4 DEF LaidOut
  <2>7. Len(L) = N + N
    BY <1>1, <1>4, <2>4 DEF LaidOut
  <2>8. First = 0 /\ Joins = N /\ Last = N + N /\ \A t \in Workers : First + t = t
    BY <1>1, <2>2 DEF Joins, Last
  <2>9. Thread(main) = L
    BY <2>1, <2>3
  <2>10. QED
    <3> HIDE DEF First
    <3>1. Len(Thread(main)) = Last /\ Thread(main) \in Seq(Instructions)
      BY <2>5, <2>7, <2>8, <2>9
    <3>2. \A t \in Workers : Thread(main)[First + t] = Create(t) /\ Thread(main)[Joins + t] = Join(t)
      BY <2>6, <2>8, <2>9
    <3>3. QED BY <1>5, <3>1, <3>2
<1>6. CASE program = "deadlock"
  <2>1. First = 0 /\ Mid = 0 /\ Rest = N
    BY <1>6 DEF First, Mid, Rest
  <2>2. PICK frees : frees = [t \in Workers |-> Free(t)]
    OBVIOUS
  <2>3. \A t \in Workers : Free(t) \in Instructions
    BY <1>1, <1>2, CellsAre DEF Free
  <2>4. frees \in [1 .. N -> Instructions]
    BY <1>1, <2>2, <2>3
  <2>5. frees \in Seq(Instructions)
    BY <1>1, <2>4, SeqDef
  <2>6. Len(frees) = N
    BY <1>1, <2>4, <2>5
  <2>7. PICK L : L = Launch(<<>>, <<>>, frees)
    OBVIOUS
  <2>8. LaidOut(L, <<>>, <<>>, frees)
    BY <1>1, <1>4, <2>5, <2>7, Layout
  <2>9. Thread(main) = L
    BY <1>6, <2>2, <2>7 DEF Thread, deadlock_main
  <2>10. \A t \in Workers : frees[t] = Free(t)
    BY <2>2
  <2>11. \A t \in Workers : L[t] = Create(t) /\ L[N + t] = Join(t)
    BY <1>1, <1>4, <2>8 DEF LaidOut
  <2>12. \A t \in Workers : L[N + N + t] = frees[t]
    BY <1>1, <1>4, <2>6, <2>8 DEF LaidOut
  <2>13. Len(L) = N + N + N /\ L \in Seq(Instructions)
    BY <1>1, <1>4, <2>6, <2>8 DEF LaidOut
  <2>14. First = 0 /\ Joins = N /\ Last = N + N + N /\ \A t \in Workers : First + t = t
    BY <1>1, <2>1 DEF Joins, Last
  <2>15. QED BY <1>6, <2>9, <2>10, <2>11, <2>12, <2>13, <2>14
<1>7. CASE program = "matrix"
  <2>1. First = 0 /\ Mid = 5 /\ Rest = 0
    BY <1>7 DEF First, Mid, Rest
  <2>2. PICK i1, i2, i3, i4, i5 :
            /\ i1 = Lock(matrix_lock) /\ i2 = Put(current_row, 0) /\ i3 = Put(task_available, 1)
            /\ i4 = Broadcast /\ i5 = Unlock(matrix_lock)
    OBVIOUS
  <2>3. /\ i1 \in Instructions /\ i2 \in Instructions /\ i3 \in Instructions
        /\ i4 \in Instructions /\ i5 \in Instructions
    BY <1>2, <1>3, <2>2, CellsAre
  <2>4. PICK between : between = <<i1, i2, i3, i4, i5>>
    OBVIOUS
  <2>5. between \in Seq(Instructions) /\ Len(between) = 5
    BY <2>3, <2>4, Tuples
  <2>6. PICK L : L = Launch(<<>>, between, <<>>)
    OBVIOUS
  <2>7. LaidOut(L, <<>>, between, <<>>)
    BY <1>1, <1>4, <2>5, <2>6, Layout
  <2>8. Thread(main) = L
    BY <1>7, <2>2, <2>4, <2>6 DEF Thread, matrix_main
  <2>9. /\ between[1] = i1 /\ between[2] = i2 /\ between[3] = i3 /\ between[4] = i4
        /\ between[5] = i5
    BY <2>4
  <2>10. L \in Seq(Instructions)
    BY <2>7 DEF LaidOut
  <2>11. /\ L[N + 1] = i1 /\ L[N + 2] = i2 /\ L[N + 3] = i3 /\ L[N + 4] = i4 /\ L[N + 5] = i5
    BY <1>1, <1>4, <2>5, <2>7, <2>9 DEF LaidOut
  <2>12. \A t \in Workers : L[t] = Create(t) /\ L[N + 5 + t] = Join(t)
    BY <1>1, <1>4, <2>5, <2>7 DEF LaidOut
  <2>13. Len(L) = N + 5 + N
    BY <1>1, <1>4, <2>5, <2>7 DEF LaidOut
  <2>14. First + N + Mid = N + 5 /\ N + 5 + N + Rest = N + 5 + N /\ \A t \in Workers : First + t = t
    BY <1>1, <2>1
  <2>15. QED BY <1>7, <2>2, <2>8, <2>10, <2>11, <2>12, <2>13, <2>14 DEF Joins, Last
<1>8. CASE program = "condition"
  <2>1. First = 0 /\ Mid = 4 /\ Rest = 0
    BY <1>8 DEF First, Mid, Rest
  <2>2. PICK i1, i2, i3, i4 :
            /\ i1 = Until(threads_ready, NUM_THREADS) /\ i2 = Lock(cv_lock)
            /\ i3 = Broadcast /\ i4 = Unlock(cv_lock)
    OBVIOUS
  <2>3. i1 \in Instructions /\ i2 \in Instructions /\ i3 \in Instructions /\ i4 \in Instructions
    BY <1>2, <1>3, <2>2, CellsAre, LockProgramsAssumption
  <2>4. PICK between : between = <<i1, i2, i3, i4>>
    OBVIOUS
  <2>5. between \in Seq(Instructions) /\ Len(between) = 4
    BY <2>3, <2>4, Tuples
  <2>6. PICK L : L = Launch(<<>>, between, <<>>)
    OBVIOUS
  <2>7. LaidOut(L, <<>>, between, <<>>)
    BY <1>1, <1>4, <2>5, <2>6, Layout
  <2>8. Thread(main) = L
    BY <1>8, <2>2, <2>4, <2>6 DEF Thread, condition_main
  <2>9. between[1] = i1 /\ between[2] = i2 /\ between[3] = i3 /\ between[4] = i4
    BY <2>4
  <2>10. L \in Seq(Instructions)
    BY <2>7 DEF LaidOut
  <2>11. L[N + 1] = i1 /\ L[N + 2] = i2 /\ L[N + 3] = i3 /\ L[N + 4] = i4
    BY <1>1, <1>4, <2>5, <2>7, <2>9 DEF LaidOut
  <2>12. \A t \in Workers : L[t] = Create(t) /\ L[N + 4 + t] = Join(t)
    BY <1>1, <1>4, <2>5, <2>7 DEF LaidOut
  <2>13. Len(L) = N + 4 + N
    BY <1>1, <1>4, <2>5, <2>7 DEF LaidOut
  <2>14. First + N + Mid = N + 4 /\ N + 4 + N + Rest = N + 4 + N /\ \A t \in Workers : First + t = t
    BY <1>1, <2>1
  <2>15. QED BY <1>8, <2>2, <2>8, <2>10, <2>11, <2>12, <2>13, <2>14 DEF Joins, Last
<1>9. CASE program = "list"
  <2>1. First = 1 /\ Mid = 0 /\ Rest = 0
    BY <1>9 DEF First, Mid, Rest
  <2>2. PICK i1 : i1 = Put(next(0), 0)
    OBVIOUS
  <2>3. i1 \in Instructions
    BY <1>1, <1>2, <2>2, CellsAre
  <2>4. PICK before : before = <<i1>>
    OBVIOUS
  <2>5. before \in Seq(Instructions) /\ Len(before) = 1
    BY <2>3, <2>4, Tuples
  <2>6. PICK L : L = Launch(before, <<>>, <<>>)
    OBVIOUS
  <2>7. LaidOut(L, before, <<>>, <<>>)
    BY <1>1, <1>4, <2>5, <2>6, Layout
  <2>8. Thread(main) = L
    BY <1>9, <2>2, <2>4, <2>6 DEF Thread, list_main
  <2>9. before[1] = i1
    BY <2>4
  <2>10. L \in Seq(Instructions)
    BY <2>7 DEF LaidOut
  <2>11. L[1] = i1
    BY <1>1, <1>4, <2>5, <2>7, <2>9 DEF LaidOut
  <2>12. \A t \in Workers : L[1 + t] = Create(t) /\ L[1 + N + t] = Join(t)
    BY <1>1, <1>4, <2>5, <2>7 DEF LaidOut
  <2>13. Len(L) = 1 + N + N
    BY <1>1, <1>4, <2>5, <2>7 DEF LaidOut
  <2>14. First + N + Mid = 1 + N /\ 1 + N + N + Rest = 1 + N + N
    BY <1>1, <2>1
  <2>15. QED BY <1>9, <2>1, <2>2, <2>8, <2>10, <2>11, <2>12, <2>13, <2>14 DEF Joins, Last
<1>10. QED BY <1>5, <1>6, <1>7, <1>8, <1>9 DEF Shape, Kinds

-----------------------------------------------------------------------------
\* What a step does to the program counters, the locks and the memory.
Steps(t, from, to) == pc[t] = from /\ pc' = [pc EXCEPT ![t] = to]
Goes(t) == pc' = [pc EXCEPT ![t] = pc[t] + 1]
Tests == UNCHANGED <<owner, mem, reg>>
Takes(t, x) == owner[x] = None /\ owner' = [owner EXCEPT ![x] = t] /\ UNCHANGED <<mem, reg>>
Gives(x) == owner' = [owner EXCEPT ![x] = None] /\ UNCHANGED <<mem, reg>>
Reads(t, x) == reg' = [reg EXCEPT ![t] = mem[x]] /\ UNCHANGED <<owner, mem>>
Writes(x, v) == mem' = [mem EXCEPT ![x] = v] /\ UNCHANGED <<owner, reg>>

\* What instruction i does when t executes it, but for who sleeps.
Effect(t, i) ==
    /\ i.op = "lock" => Takes(t, i.at) /\ Goes(t)
    /\ i.op \in {"unlock", "wait"} => Gives(i.at) /\ Goes(t)
    /\ i.op = "broadcast" => Tests /\ Goes(t)
    /\ i.op = "load" => Reads(t, i.at) /\ Goes(t)
    /\ i.op = "store" => Writes(i.at, reg[t] + i.n) /\ Goes(t)
    /\ i.op = "add" => Writes(i.at, mem[i.at] + i.n) /\ Goes(t)
    /\ i.op = "put" => Writes(i.at, i.n) /\ Goes(t)
    /\ i.op = "row" => Writes(C(reg[t]), mem[C(reg[t])] + 1) /\ Goes(t)
    /\ i.op = "unless" => /\ Tests
                          /\ pc' = [pc EXCEPT ![t] = IF mem[i.at] < i.n THEN pc[t] + 1 ELSE i.to]
    /\ i.op = "again" => Tests /\ pc' = [pc EXCEPT ![t] = 1]
    /\ i.op = "return" => Tests /\ pc' = [pc EXCEPT ![t] = Len(Thread(t)) + 1]
    /\ i.op = "until" => mem[i.at] >= i.n /\ Tests /\ Goes(t)
    /\ i.op = "create" => Tests /\ pc' = [pc EXCEPT ![t] = @ + 1, ![i.n] = 1]
    /\ i.op = "join" => Done(i.n) /\ Tests /\ Goes(t)

\* Thread t executes the instruction it is at.
Executes(t) == pc[t] \in DOMAIN Thread(t) /\ UNCHANGED <<program, transfers>> /\ Effect(t, Now(t))

\* A step is one of a thread, or it wakes one.
LEMMA StepIs ==
    ASSUME Next
    PROVE  \/ \E t \in Threads : Executes(t)
           \/ UNCHANGED <<program, transfers, pc, owner, mem, reg>>
<1> USE DEF Executes, Effect, Goes, At, Go, Goto
<1>1. PICK t \in Threads :
            \/ pthread_mutex_lock(t) \/ pthread_mutex_unlock(t)
            \/ pthread_cond_wait(t) \/ pthread_cond_broadcast(t) \/ SpuriousWakeup(t)
            \/ pthread_create(t) \/ pthread_join(t)
            \/ load(t) \/ write(t) \/ multiply_row(t)
            \/ unless(t) \/ again(t) \/ return(t) \/ until(t)
  BY DEF Next, Threads
<1>2. CASE pthread_mutex_lock(t)
  BY <1>2 DEF pthread_mutex_lock, Takes
<1>3. CASE pthread_mutex_unlock(t)
  BY <1>3 DEF pthread_mutex_unlock, Gives
<1>4. CASE pthread_cond_wait(t)
  BY <1>4 DEF pthread_cond_wait, Gives
<1>5. CASE pthread_cond_broadcast(t)
  BY <1>5 DEF pthread_cond_broadcast, Tests
<1>6. CASE SpuriousWakeup(t)
  BY <1>6 DEF SpuriousWakeup
<1>7. CASE pthread_create(t)
  BY <1>7 DEF pthread_create, Tests
<1>8. CASE pthread_join(t)
  BY <1>8 DEF pthread_join, Tests
<1>9. CASE load(t)
  BY <1>9 DEF load, Reads
<1>10. CASE write(t)
  <2>1. CASE At(t, "store")
    BY <1>10, <2>1 DEF write, Written, Writes
  <2>2. CASE At(t, "add")
    BY <1>10, <2>2 DEF write, Written, Writes
  <2>3. CASE At(t, "put")
    BY <1>10, <2>3 DEF write, Written, Writes
  <2>4. QED BY <1>10, <2>1, <2>2, <2>3 DEF write
<1>11. CASE multiply_row(t)
  BY <1>11 DEF multiply_row, Writes
<1>12. CASE unless(t)
  BY <1>12 DEF unless, Tests
<1>13. CASE again(t)
  BY <1>13 DEF again, Tests
<1>14. CASE return(t)
  BY <1>14 DEF return, Tests
<1>15. CASE until(t)
  BY <1>15 DEF until, Tests
<1>16. QED BY <1>1, <1>2, <1>3, <1>4, <1>5, <1>6, <1>7, <1>8, <1>9, <1>10, <1>11, <1>12, <1>13,
       <1>14, <1>15

-----------------------------------------------------------------------------
\* A transfer.
From(t) == Balance(transfers[t].from)
To(t) == Balance(transfers[t].to)
Amount(t) == transfers[t].amount

\* A transfer goes from one of the two accounts to the other.
LEMMA Accounts ==
    ASSUME Shape, program \in {"deadlock", "file_scope"}, NEW t \in Workers
    PROVE  /\ From(t) \in {Balance(1), Balance(2)} /\ To(t) \in {Balance(1), Balance(2)}
           /\ From(t) # To(t) /\ Amount(t) \in Nat
           /\ From(t) \in Cells /\ To(t) \in Cells /\ mem[From(t)] \in Int /\ mem[To(t)] \in Int
<1>1. N = Len(transfers) /\ Workers = 1 .. N
  BY CellsSuffice DEF N, Shape
<1>2. transfers[t] \in deposit_thr_args
  BY <1>1, ElementOfSeq DEF Shape
<1>3. PICK d : d = transfers[t]
  OBVIOUS
<1>4. d.from \in 1 .. 2 /\ d.to \in 1 .. 2 /\ d.amount \in Nat /\ d.from # d.to
  BY <1>2, <1>3 DEF deposit_thr_args
<1>5. Balance(1) # Balance(2)
  BY DEF Balance
<1>6. From(t) = Balance(d.from) /\ To(t) = Balance(d.to) /\ Amount(t) = d.amount
  BY <1>3 DEF From, To, Amount
<1>7. (d.from = 1 /\ d.to = 2) \/ (d.from = 2 /\ d.to = 1)
  BY <1>4
<1>8. QED BY <1>4, <1>5, <1>6, <1>7, CellsAre DEF Shape

\* deadlock.c: deposit, step by step.
DepositStep(t) ==
    \/ Steps(t, 1, 2) /\ Takes(t, From(t))
    \/ Steps(t, 2, 3) /\ mem[From(t)] < Amount(t) /\ Tests
    \/ Steps(t, 2, 5) /\ mem[From(t)] >= Amount(t) /\ Tests
    \/ Steps(t, 3, 4) /\ Gives(From(t))
    \/ Steps(t, 4, 13) /\ Tests
    \/ Steps(t, 5, 6) /\ Takes(t, To(t))
    \/ Steps(t, 6, 7) /\ Reads(t, From(t))
    \/ Steps(t, 7, 8) /\ Writes(From(t), reg[t] + (-Amount(t)))
    \/ Steps(t, 8, 9) /\ Reads(t, To(t))
    \/ Steps(t, 9, 10) /\ Writes(To(t), reg[t] + Amount(t))
    \/ Steps(t, 10, 11) /\ Gives(From(t))
    \/ Steps(t, 11, 12) /\ Gives(To(t))
    \/ Steps(t, 12, 13) /\ Writes(freed(t), mem[freed(t)] + 1)

\* The instructions of deposit() in deadlock.c.
LEMMA DepositCode ==
    ASSUME Shape, program = "deadlock", NEW t \in Workers
    PROVE  /\ DOMAIN Thread(t) = 1 .. 12 /\ Len(Thread(t)) = 12
           /\ Thread(t)[1] = Lock(From(t))
           /\ Thread(t)[2] = Unless(From(t), Amount(t), 5)
           /\ Thread(t)[3] = Unlock(From(t))
           /\ Thread(t)[4] = Return
           /\ Thread(t)[5] = Lock(To(t))
           /\ Thread(t)[6] = Load(From(t))
           /\ Thread(t)[7] = Store(From(t), -Amount(t))
           /\ Thread(t)[8] = Load(To(t))
           /\ Thread(t)[9] = Store(To(t), Amount(t))
           /\ Thread(t)[10] = Unlock(From(t))
           /\ Thread(t)[11] = Unlock(To(t))
           /\ Thread(t)[12] = Free(t)
<1>1. t # main
  BY CellsSuffice DEF Shape, main
<1>2. QED BY <1>1 DEF Thread, deposit, From, To, Amount

\* A thread in deposit() of deadlock.c takes one of these steps.
LEMMA DepositSteps ==
    ASSUME Shape, program = "deadlock", NEW t \in Workers, Executes(t)
    PROVE  DepositStep(t)
<1>1. pc[t] \in 1 .. 12
  BY DepositCode DEF Executes
<1>2. CASE pc[t] = 1
  <2>1. Effect(t, Lock(From(t)))
    BY <1>2, DepositCode DEF Executes, Now
  <2>2. QED BY <1>2, <2>1 DEF Effect, I, Goes, Steps, Lock, DepositStep
<1>3. CASE pc[t] = 2
  <2>1. Effect(t, Unless(From(t), Amount(t), 5))
    BY <1>3, DepositCode DEF Executes, Now
  <2>2. mem[From(t)] \in Int /\ Amount(t) \in Nat
    BY Accounts
  <2>3. QED BY <1>3, <2>1, <2>2 DEF Effect, I, Goes, Steps, Unless, DepositStep
<1>4. CASE pc[t] = 3
  <2>1. Effect(t, Unlock(From(t)))
    BY <1>4, DepositCode DEF Executes, Now
  <2>2. QED BY <1>4, <2>1 DEF Effect, I, Goes, Steps, Unlock, DepositStep
<1>5. CASE pc[t] = 4
  <2>1. Effect(t, Return)
    BY <1>5, DepositCode DEF Executes, Now
  <2>2. Len(Thread(t)) = 12
    BY DepositCode
  <2>3. QED BY <1>5, <2>1, <2>2 DEF Effect, I, Goes, Steps, Return, DepositStep
<1>6. CASE pc[t] = 5
  <2>1. Effect(t, Lock(To(t)))
    BY <1>6, DepositCode DEF Executes, Now
  <2>2. QED BY <1>6, <2>1 DEF Effect, I, Goes, Steps, Lock, DepositStep
<1>7. CASE pc[t] = 6
  <2>1. Effect(t, Load(From(t)))
    BY <1>7, DepositCode DEF Executes, Now
  <2>2. QED BY <1>7, <2>1 DEF Effect, I, Goes, Steps, Load, DepositStep
<1>8. CASE pc[t] = 7
  <2>1. Effect(t, Store(From(t), -Amount(t)))
    BY <1>8, DepositCode DEF Executes, Now
  <2>2. QED BY <1>8, <2>1 DEF Effect, I, Goes, Steps, Store, DepositStep
<1>9. CASE pc[t] = 8
  <2>1. Effect(t, Load(To(t)))
    BY <1>9, DepositCode DEF Executes, Now
  <2>2. QED BY <1>9, <2>1 DEF Effect, I, Goes, Steps, Load, DepositStep
<1>10. CASE pc[t] = 9
  <2>1. Effect(t, Store(To(t), Amount(t)))
    BY <1>10, DepositCode DEF Executes, Now
  <2>2. QED BY <1>10, <2>1 DEF Effect, I, Goes, Steps, Store, DepositStep
<1>11. CASE pc[t] = 10
  <2>1. Effect(t, Unlock(From(t)))
    BY <1>11, DepositCode DEF Executes, Now
  <2>2. QED BY <1>11, <2>1 DEF Effect, I, Goes, Steps, Unlock, DepositStep
<1>12. CASE pc[t] = 11
  <2>1. Effect(t, Unlock(To(t)))
    BY <1>12, DepositCode DEF Executes, Now
  <2>2. QED BY <1>12, <2>1 DEF Effect, I, Goes, Steps, Unlock, DepositStep
<1>13. CASE pc[t] = 12
  <2>1. Effect(t, Free(t))
    BY <1>13, DepositCode DEF Executes, Now
  <2>2. QED BY <1>13, <2>1 DEF Effect, I, Goes, Steps, Free, Add, DepositStep
<1>14. QED BY <1>1, <1>2, <1>3, <1>4, <1>5, <1>6, <1>7, <1>8, <1>9, <1>10, <1>11, <1>12, <1>13

\* its version with the file-scope lock, step by step.
FileScopeStep(t) ==
    \/ Steps(t, 1, 2) /\ Takes(t, deposit_lock)
    \/ Steps(t, 2, 3) /\ Takes(t, From(t))
    \/ Steps(t, 3, 4) /\ mem[From(t)] < Amount(t) /\ Tests
    \/ Steps(t, 3, 8) /\ mem[From(t)] >= Amount(t) /\ Tests
    \/ Steps(t, 4, 5) /\ Gives(From(t))
    \/ Steps(t, 5, 6) /\ Gives(deposit_lock)
    \/ Steps(t, 6, 7) /\ Writes(freed(t), mem[freed(t)] + 1)
    \/ Steps(t, 7, 17) /\ Tests
    \/ Steps(t, 8, 9) /\ Takes(t, To(t))
    \/ Steps(t, 9, 10) /\ Reads(t, From(t))
    \/ Steps(t, 10, 11) /\ Writes(From(t), reg[t] + (-Amount(t)))
    \/ Steps(t, 11, 12) /\ Reads(t, To(t))
    \/ Steps(t, 12, 13) /\ Writes(To(t), reg[t] + Amount(t))
    \/ Steps(t, 13, 14) /\ Gives(From(t))
    \/ Steps(t, 14, 15) /\ Gives(To(t))
    \/ Steps(t, 15, 16) /\ Gives(deposit_lock)
    \/ Steps(t, 16, 17) /\ Writes(freed(t), mem[freed(t)] + 1)

\* The instructions of deposit() in deadlock-filescope.c.
LEMMA FileScopeCode ==
    ASSUME Shape, program = "file_scope", NEW t \in Workers
    PROVE  /\ DOMAIN Thread(t) = 1 .. 16 /\ Len(Thread(t)) = 16
           /\ Thread(t)[1] = Lock(deposit_lock)
           /\ Thread(t)[2] = Lock(From(t))
           /\ Thread(t)[3] = Unless(From(t), Amount(t), 8)
           /\ Thread(t)[4] = Unlock(From(t))
           /\ Thread(t)[5] = Unlock(deposit_lock)
           /\ Thread(t)[6] = Free(t)
           /\ Thread(t)[7] = Return
           /\ Thread(t)[8] = Lock(To(t))
           /\ Thread(t)[9] = Load(From(t))
           /\ Thread(t)[10] = Store(From(t), -Amount(t))
           /\ Thread(t)[11] = Load(To(t))
           /\ Thread(t)[12] = Store(To(t), Amount(t))
           /\ Thread(t)[13] = Unlock(From(t))
           /\ Thread(t)[14] = Unlock(To(t))
           /\ Thread(t)[15] = Unlock(deposit_lock)
           /\ Thread(t)[16] = Free(t)
<1>1. t # main
  BY CellsSuffice DEF Shape, main
<1>2. QED BY <1>1 DEF Thread, deposit_file_scope, From, To, Amount

\* A thread in deposit() of deadlock-filescope.c takes one of these steps.
LEMMA FileScopeSteps ==
    ASSUME Shape, program = "file_scope", NEW t \in Workers, Executes(t)
    PROVE  FileScopeStep(t)
<1>1. pc[t] \in 1 .. 16
  BY FileScopeCode DEF Executes
<1>2. CASE pc[t] = 1
  <2>1. Effect(t, Lock(deposit_lock))
    BY <1>2, FileScopeCode DEF Executes, Now
  <2>2. QED BY <1>2, <2>1 DEF Effect, I, Goes, Steps, Lock, FileScopeStep
<1>3. CASE pc[t] = 2
  <2>1. Effect(t, Lock(From(t)))
    BY <1>3, FileScopeCode DEF Executes, Now
  <2>2. QED BY <1>3, <2>1 DEF Effect, I, Goes, Steps, Lock, FileScopeStep
<1>4. CASE pc[t] = 3
  <2>1. Effect(t, Unless(From(t), Amount(t), 8))
    BY <1>4, FileScopeCode DEF Executes, Now
  <2>2. mem[From(t)] \in Int /\ Amount(t) \in Nat
    BY Accounts
  <2>3. QED BY <1>4, <2>1, <2>2 DEF Effect, I, Goes, Steps, Unless, FileScopeStep
<1>5. CASE pc[t] = 4
  <2>1. Effect(t, Unlock(From(t)))
    BY <1>5, FileScopeCode DEF Executes, Now
  <2>2. QED BY <1>5, <2>1 DEF Effect, I, Goes, Steps, Unlock, FileScopeStep
<1>6. CASE pc[t] = 5
  <2>1. Effect(t, Unlock(deposit_lock))
    BY <1>6, FileScopeCode DEF Executes, Now
  <2>2. QED BY <1>6, <2>1 DEF Effect, I, Goes, Steps, Unlock, FileScopeStep
<1>7. CASE pc[t] = 6
  <2>1. Effect(t, Free(t))
    BY <1>7, FileScopeCode DEF Executes, Now
  <2>2. QED BY <1>7, <2>1 DEF Effect, I, Goes, Steps, Free, Add, FileScopeStep
<1>8. CASE pc[t] = 7
  <2>1. Effect(t, Return)
    BY <1>8, FileScopeCode DEF Executes, Now
  <2>2. Len(Thread(t)) = 16
    BY FileScopeCode
  <2>3. QED BY <1>8, <2>1, <2>2 DEF Effect, I, Goes, Steps, Return, FileScopeStep
<1>9. CASE pc[t] = 8
  <2>1. Effect(t, Lock(To(t)))
    BY <1>9, FileScopeCode DEF Executes, Now
  <2>2. QED BY <1>9, <2>1 DEF Effect, I, Goes, Steps, Lock, FileScopeStep
<1>10. CASE pc[t] = 9
  <2>1. Effect(t, Load(From(t)))
    BY <1>10, FileScopeCode DEF Executes, Now
  <2>2. QED BY <1>10, <2>1 DEF Effect, I, Goes, Steps, Load, FileScopeStep
<1>11. CASE pc[t] = 10
  <2>1. Effect(t, Store(From(t), -Amount(t)))
    BY <1>11, FileScopeCode DEF Executes, Now
  <2>2. QED BY <1>11, <2>1 DEF Effect, I, Goes, Steps, Store, FileScopeStep
<1>12. CASE pc[t] = 11
  <2>1. Effect(t, Load(To(t)))
    BY <1>12, FileScopeCode DEF Executes, Now
  <2>2. QED BY <1>12, <2>1 DEF Effect, I, Goes, Steps, Load, FileScopeStep
<1>13. CASE pc[t] = 12
  <2>1. Effect(t, Store(To(t), Amount(t)))
    BY <1>13, FileScopeCode DEF Executes, Now
  <2>2. QED BY <1>13, <2>1 DEF Effect, I, Goes, Steps, Store, FileScopeStep
<1>14. CASE pc[t] = 13
  <2>1. Effect(t, Unlock(From(t)))
    BY <1>14, FileScopeCode DEF Executes, Now
  <2>2. QED BY <1>14, <2>1 DEF Effect, I, Goes, Steps, Unlock, FileScopeStep
<1>15. CASE pc[t] = 14
  <2>1. Effect(t, Unlock(To(t)))
    BY <1>15, FileScopeCode DEF Executes, Now
  <2>2. QED BY <1>15, <2>1 DEF Effect, I, Goes, Steps, Unlock, FileScopeStep
<1>16. CASE pc[t] = 15
  <2>1. Effect(t, Unlock(deposit_lock))
    BY <1>16, FileScopeCode DEF Executes, Now
  <2>2. QED BY <1>16, <2>1 DEF Effect, I, Goes, Steps, Unlock, FileScopeStep
<1>17. CASE pc[t] = 16
  <2>1. Effect(t, Free(t))
    BY <1>17, FileScopeCode DEF Executes, Now
  <2>2. QED BY <1>17, <2>1 DEF Effect, I, Goes, Steps, Free, Add, FileScopeStep
<1>18. QED BY <1>1, <1>2, <1>3, <1>4, <1>5, <1>6, <1>7, <1>8, <1>9, <1>10, <1>11, <1>12, <1>13, <1>14, <1>15, <1>16, <1>17

\* hash_logger.c: worker, step by step.
HashStep(t) ==
    \/ Steps(t, 1, 2) /\ Takes(t, stats_mutex)
    \/ Steps(t, 2, 3) /\ Takes(t, log_mutex)
    \/ Steps(t, 3, 4) /\ Reads(t, total_bytes)
    \/ Steps(t, 4, 5) /\ Writes(total_bytes, reg[t] + Sizes[t])
    \/ Steps(t, 5, 6) /\ Gives(log_mutex)
    \/ Steps(t, 6, 7) /\ Gives(stats_mutex)

\* The instructions of a worker of the hash logger.
LEMMA HashCode ==
    ASSUME Shape, program = "hash_logger", NEW t \in Workers
    PROVE  /\ DOMAIN Thread(t) = 1 .. 6 /\ Len(Thread(t)) = 6
           /\ Thread(t)[1] = Lock(stats_mutex)
           /\ Thread(t)[2] = Lock(log_mutex)
           /\ Thread(t)[3] = Load(total_bytes)
           /\ Thread(t)[4] = Store(total_bytes, Sizes[t])
           /\ Thread(t)[5] = Unlock(log_mutex)
           /\ Thread(t)[6] = Unlock(stats_mutex)
<1>1. t # main
  BY CellsSuffice DEF Shape, main
<1>2. QED BY <1>1 DEF Thread, hash_worker

\* A worker of the hash logger takes one of these steps.
LEMMA HashSteps ==
    ASSUME Shape, program = "hash_logger", NEW t \in Workers, Executes(t)
    PROVE  HashStep(t)
<1>1. pc[t] \in 1 .. 6
  BY HashCode DEF Executes
<1>2. CASE pc[t] = 1
  <2>1. Effect(t, Lock(stats_mutex))
    BY <1>2, HashCode DEF Executes, Now
  <2>2. QED BY <1>2, <2>1 DEF Effect, I, Goes, Steps, Lock, HashStep
<1>3. CASE pc[t] = 2
  <2>1. Effect(t, Lock(log_mutex))
    BY <1>3, HashCode DEF Executes, Now
  <2>2. QED BY <1>3, <2>1 DEF Effect, I, Goes, Steps, Lock, HashStep
<1>4. CASE pc[t] = 3
  <2>1. Effect(t, Load(total_bytes))
    BY <1>4, HashCode DEF Executes, Now
  <2>2. QED BY <1>4, <2>1 DEF Effect, I, Goes, Steps, Load, HashStep
<1>5. CASE pc[t] = 4
  <2>1. Effect(t, Store(total_bytes, Sizes[t]))
    BY <1>5, HashCode DEF Executes, Now
  <2>2. QED BY <1>5, <2>1 DEF Effect, I, Goes, Steps, Store, HashStep
<1>6. CASE pc[t] = 5
  <2>1. Effect(t, Unlock(log_mutex))
    BY <1>6, HashCode DEF Executes, Now
  <2>2. QED BY <1>6, <2>1 DEF Effect, I, Goes, Steps, Unlock, HashStep
<1>7. CASE pc[t] = 6
  <2>1. Effect(t, Unlock(stats_mutex))
    BY <1>7, HashCode DEF Executes, Now
  <2>2. QED BY <1>7, <2>1 DEF Effect, I, Goes, Steps, Unlock, HashStep
<1>8. QED BY <1>1, <1>2, <1>3, <1>4, <1>5, <1>6, <1>7

\* Matrix.c: worker, step by step.
MatrixStep(t) ==
    \/ Steps(t, 1, 2) /\ Takes(t, matrix_lock)
    \/ Steps(t, 2, 3) /\ mem[task_available] < 1 /\ Tests
    \/ Steps(t, 2, 5) /\ mem[task_available] >= 1 /\ Tests
    \/ Steps(t, 3, 4) /\ Gives(matrix_lock)
    \/ Steps(t, 4, 1) /\ Tests
    \/ Steps(t, 5, 6) /\ mem[current_row] < SIZE /\ Tests
    \/ Steps(t, 5, 11) /\ mem[current_row] >= SIZE /\ Tests
    \/ Steps(t, 6, 7) /\ Reads(t, current_row)
    \/ Steps(t, 7, 8) /\ Writes(current_row, reg[t] + 1)
    \/ Steps(t, 8, 9) /\ Gives(matrix_lock)
    \/ Steps(t, 9, 10) /\ Writes(C(reg[t]), mem[C(reg[t])] + 1)
    \/ Steps(t, 10, 1) /\ Tests
    \/ Steps(t, 11, 12) /\ Gives(matrix_lock)

\* The instructions of a worker of Matrix.c.
LEMMA MatrixCode ==
    ASSUME Shape, program = "matrix", NEW t \in Workers
    PROVE  /\ DOMAIN Thread(t) = 1 .. 11 /\ Len(Thread(t)) = 11
           /\ Thread(t)[1] = Lock(matrix_lock)
           /\ Thread(t)[2] = Unless(task_available, 1, 5)
           /\ Thread(t)[3] = Wait(matrix_lock)
           /\ Thread(t)[4] = Again
           /\ Thread(t)[5] = Unless(current_row, SIZE, 11)
           /\ Thread(t)[6] = Load(current_row)
           /\ Thread(t)[7] = Store(current_row, 1)
           /\ Thread(t)[8] = Unlock(matrix_lock)
           /\ Thread(t)[9] = Row
           /\ Thread(t)[10] = Again
           /\ Thread(t)[11] = Unlock(matrix_lock)
<1>1. t # main
  BY CellsSuffice DEF Shape, main
<1>2. QED BY <1>1 DEF Thread, matrix_worker

\* A worker of Matrix.c takes one of these steps.
LEMMA MatrixSteps ==
    ASSUME Shape, program = "matrix", NEW t \in Workers, Executes(t)
    PROVE  MatrixStep(t)
<1>1. pc[t] \in 1 .. 11
  BY MatrixCode DEF Executes
<1>2. CASE pc[t] = 1
  <2>1. Effect(t, Lock(matrix_lock))
    BY <1>2, MatrixCode DEF Executes, Now
  <2>2. QED BY <1>2, <2>1 DEF Effect, I, Goes, Steps, Lock, MatrixStep
<1>3. CASE pc[t] = 2
  <2>1. Effect(t, Unless(task_available, 1, 5))
    BY <1>3, MatrixCode DEF Executes, Now
  <2>2. mem[task_available] \in Int /\ SIZE \in Int
    BY CellsAre, LockProgramsAssumption DEF Shape
  <2>3. QED BY <1>3, <2>1, <2>2 DEF Effect, I, Goes, Steps, Unless, MatrixStep
<1>4. CASE pc[t] = 3
  <2>1. Effect(t, Wait(matrix_lock))
    BY <1>4, MatrixCode DEF Executes, Now
  <2>2. QED BY <1>4, <2>1 DEF Effect, I, Goes, Steps, Wait, MatrixStep
<1>5. CASE pc[t] = 4
  <2>1. Effect(t, Again)
    BY <1>5, MatrixCode DEF Executes, Now
  <2>2. QED BY <1>5, <2>1 DEF Effect, I, Goes, Steps, Again, MatrixStep
<1>6. CASE pc[t] = 5
  <2>1. Effect(t, Unless(current_row, SIZE, 11))
    BY <1>6, MatrixCode DEF Executes, Now
  <2>2. mem[current_row] \in Int /\ SIZE \in Int
    BY CellsAre, LockProgramsAssumption DEF Shape
  <2>3. QED BY <1>6, <2>1, <2>2 DEF Effect, I, Goes, Steps, Unless, MatrixStep
<1>7. CASE pc[t] = 6
  <2>1. Effect(t, Load(current_row))
    BY <1>7, MatrixCode DEF Executes, Now
  <2>2. QED BY <1>7, <2>1 DEF Effect, I, Goes, Steps, Load, MatrixStep
<1>8. CASE pc[t] = 7
  <2>1. Effect(t, Store(current_row, 1))
    BY <1>8, MatrixCode DEF Executes, Now
  <2>2. QED BY <1>8, <2>1 DEF Effect, I, Goes, Steps, Store, MatrixStep
<1>9. CASE pc[t] = 8
  <2>1. Effect(t, Unlock(matrix_lock))
    BY <1>9, MatrixCode DEF Executes, Now
  <2>2. QED BY <1>9, <2>1 DEF Effect, I, Goes, Steps, Unlock, MatrixStep
<1>10. CASE pc[t] = 9
  <2>1. Effect(t, Row)
    BY <1>10, MatrixCode DEF Executes, Now
  <2>2. QED BY <1>10, <2>1 DEF Effect, I, Goes, Steps, Row, MatrixStep
<1>11. CASE pc[t] = 10
  <2>1. Effect(t, Again)
    BY <1>11, MatrixCode DEF Executes, Now
  <2>2. QED BY <1>11, <2>1 DEF Effect, I, Goes, Steps, Again, MatrixStep
<1>12. CASE pc[t] = 11
  <2>1. Effect(t, Unlock(matrix_lock))
    BY <1>12, MatrixCode DEF Executes, Now
  <2>2. QED BY <1>12, <2>1 DEF Effect, I, Goes, Steps, Unlock, MatrixStep
<1>13. QED BY <1>1, <1>2, <1>3, <1>4, <1>5, <1>6, <1>7, <1>8, <1>9, <1>10, <1>11, <1>12

\* condition-variables.c: work, step by step.
WorkStep(t) ==
    \/ Steps(t, 1, 2) /\ Writes(threads_ready, mem[threads_ready] + 1)
    \/ Steps(t, 2, 3) /\ Takes(t, cv_lock)
    \/ Steps(t, 3, 4) /\ Gives(cv_lock)
    \/ Steps(t, 4, 5) /\ Takes(t, cv_lock)
    \/ Steps(t, 5, 6) /\ Gives(cv_lock)
    \/ Steps(t, 6, 7) /\ Writes(threads_ready, mem[threads_ready] + (-1))

\* The instructions of do_work() in condition-variables.c.
LEMMA WorkCode ==
    ASSUME Shape, program = "condition", NEW t \in Workers
    PROVE  /\ DOMAIN Thread(t) = 1 .. 6 /\ Len(Thread(t)) = 6
           /\ Thread(t)[1] = Add(threads_ready, 1)
           /\ Thread(t)[2] = Lock(cv_lock)
           /\ Thread(t)[3] = Wait(cv_lock)
           /\ Thread(t)[4] = Lock(cv_lock)
           /\ Thread(t)[5] = Unlock(cv_lock)
           /\ Thread(t)[6] = Add(threads_ready, -1)
<1>1. t # main
  BY CellsSuffice DEF Shape, main
<1>2. QED BY <1>1 DEF Thread, work

\* A thread in do_work() takes one of these steps.
LEMMA WorkSteps ==
    ASSUME Shape, program = "condition", NEW t \in Workers, Executes(t)
    PROVE  WorkStep(t)
<1>1. pc[t] \in 1 .. 6
  BY WorkCode DEF Executes
<1>2. CASE pc[t] = 1
  <2>1. Effect(t, Add(threads_ready, 1))
    BY <1>2, WorkCode DEF Executes, Now
  <2>2. QED BY <1>2, <2>1 DEF Effect, I, Goes, Steps, Add, WorkStep
<1>3. CASE pc[t] = 2
  <2>1. Effect(t, Lock(cv_lock))
    BY <1>3, WorkCode DEF Executes, Now
  <2>2. QED BY <1>3, <2>1 DEF Effect, I, Goes, Steps, Lock, WorkStep
<1>4. CASE pc[t] = 3
  <2>1. Effect(t, Wait(cv_lock))
    BY <1>4, WorkCode DEF Executes, Now
  <2>2. QED BY <1>4, <2>1 DEF Effect, I, Goes, Steps, Wait, WorkStep
<1>5. CASE pc[t] = 4
  <2>1. Effect(t, Lock(cv_lock))
    BY <1>5, WorkCode DEF Executes, Now
  <2>2. QED BY <1>5, <2>1 DEF Effect, I, Goes, Steps, Lock, WorkStep
<1>6. CASE pc[t] = 5
  <2>1. Effect(t, Unlock(cv_lock))
    BY <1>6, WorkCode DEF Executes, Now
  <2>2. QED BY <1>6, <2>1 DEF Effect, I, Goes, Steps, Unlock, WorkStep
<1>7. CASE pc[t] = 6
  <2>1. Effect(t, Add(threads_ready, -1))
    BY <1>7, WorkCode DEF Executes, Now
  <2>2. QED BY <1>7, <2>1 DEF Effect, I, Goes, Steps, Add, WorkStep
<1>8. QED BY <1>1, <1>2, <1>3, <1>4, <1>5, <1>6, <1>7

\* list-insertion.c: thread_insert_after, step by step.
InsertStep(t) ==
    \/ Steps(t, 1, 2) /\ Takes(t, insert_lock)
    \/ Steps(t, 2, 3) /\ Reads(t, next(0))
    \/ Steps(t, 3, 4) /\ Writes(next(t), reg[t] + 0)
    \/ Steps(t, 4, 5) /\ Writes(next(0), t)
    \/ Steps(t, 5, 6) /\ Gives(insert_lock)

\* The instructions of a thread that inserts into the list.
LEMMA InsertCode ==
    ASSUME Shape, program = "list", NEW t \in Workers
    PROVE  /\ DOMAIN Thread(t) = 1 .. 5 /\ Len(Thread(t)) = 5
           /\ Thread(t)[1] = Lock(insert_lock)
           /\ Thread(t)[2] = Load(next(0))
           /\ Thread(t)[3] = Store(next(t), 0)
           /\ Thread(t)[4] = Put(next(0), t)
           /\ Thread(t)[5] = Unlock(insert_lock)
<1>1. t # main
  BY CellsSuffice DEF Shape, main
<1>2. QED BY <1>1 DEF Thread, thread_insert_after

\* A thread that inserts into the list takes one of these steps.
LEMMA InsertSteps ==
    ASSUME Shape, program = "list", NEW t \in Workers, Executes(t)
    PROVE  InsertStep(t)
<1>1. pc[t] \in 1 .. 5
  BY InsertCode DEF Executes
<1>2. CASE pc[t] = 1
  <2>1. Effect(t, Lock(insert_lock))
    BY <1>2, InsertCode DEF Executes, Now
  <2>2. QED BY <1>2, <2>1 DEF Effect, I, Goes, Steps, Lock, InsertStep
<1>3. CASE pc[t] = 2
  <2>1. Effect(t, Load(next(0)))
    BY <1>3, InsertCode DEF Executes, Now
  <2>2. QED BY <1>3, <2>1 DEF Effect, I, Goes, Steps, Load, InsertStep
<1>4. CASE pc[t] = 3
  <2>1. Effect(t, Store(next(t), 0))
    BY <1>4, InsertCode DEF Executes, Now
  <2>2. QED BY <1>4, <2>1 DEF Effect, I, Goes, Steps, Store, InsertStep
<1>5. CASE pc[t] = 4
  <2>1. Effect(t, Put(next(0), t))
    BY <1>5, InsertCode DEF Executes, Now
  <2>2. QED BY <1>5, <2>1 DEF Effect, I, Goes, Steps, Put, InsertStep
<1>6. CASE pc[t] = 5
  <2>1. Effect(t, Unlock(insert_lock))
    BY <1>6, InsertCode DEF Executes, Now
  <2>2. QED BY <1>6, <2>1 DEF Effect, I, Goes, Steps, Unlock, InsertStep
<1>7. QED BY <1>1, <1>2, <1>3, <1>4, <1>5, <1>6

\* textbook-sample.c: thread_counter, step by step.
CounterStep(t) ==
    \/ Steps(t, 1, 2) /\ Takes(t, counter_lock)
    \/ \E k \in 1 .. Increments : Steps(t, 2 * k, 2 * k + 1) /\ Reads(t, counter)
    \/ \E k \in 1 .. Increments : Steps(t, 2 * k + 1, 2 * k + 2) /\ Writes(counter, reg[t] + 1)
    \/ Steps(t, 2 * Increments + 2, 2 * Increments + 3) /\ Gives(counter_lock)

\* The instructions of a thread that counts: Increments loads and stores under one lock.
LEMMA CounterCode ==
    ASSUME Shape, program = "counter", NEW t \in Workers
    PROVE  /\ DOMAIN Thread(t) = 1 .. 2 * Increments + 2 /\ Len(Thread(t)) = 2 * Increments + 2
           /\ Thread(t)[1] = Lock(counter_lock)
           /\ \A k \in 1 .. Increments : /\ Thread(t)[2 * k] = Load(counter)
                                         /\ Thread(t)[2 * k + 1] = Store(counter, 1)
           /\ Thread(t)[2 * Increments + 2] = Unlock(counter_lock)
<1>1. t # main
  BY CellsSuffice DEF Shape, main
<1>2. Thread(t) = <<Lock(counter_lock)>> \o Loop \o <<Unlock(counter_lock)>>
  BY <1>1 DEF Thread, thread_counter
<1>3. Increments \in Nat
  BY LockProgramsAssumption
<1>4. PICK n \in Nat : n = 2 * Increments
  BY <1>3
<1> PICK l, u : l = Lock(counter_lock) /\ u = Unlock(counter_lock)
  OBVIOUS
<1> PICK S : S = {l, u, Load(counter), Store(counter, 1)}
  OBVIOUS
<1>5. PICK f : f = Loop
  OBVIOUS
<1>6. /\ f \in [1 .. n -> S]
      /\ \A k \in 1 .. n : f[k] = IF k % 2 = 1 THEN Load(counter) ELSE Store(counter, 1)
  <2>1. f = [k \in 1 .. n |-> IF k % 2 = 1 THEN Load(counter) ELSE Store(counter, 1)]
    BY <1>4, <1>5 DEF Loop
  <2>2. \A k \in 1 .. n : f[k] = IF k % 2 = 1 THEN Load(counter) ELSE Store(counter, 1)
    BY <2>1
  <2>3. QED BY <1>4, <2>1
<1>7. f \in Seq(S)
  BY <1>6, SeqDef
<1>8. Len(f) = n
  BY <1>6, <1>7
<1>9. /\ <<l>> \in Seq(S) /\ Len(<<l>>) = 1 /\ <<l>>[1] = l
      /\ <<u>> \in Seq(S) /\ Len(<<u>>) = 1 /\ <<u>>[1] = u
  BY <1>4
<1>10. PICK a, c : a = <<l>> /\ c = <<u>>
  OBVIOUS
<1>11. a \in Seq(S) /\ c \in Seq(S) /\ Len(a) = 1 /\ Len(c) = 1 /\ a[1] = l /\ c[1] = u
  BY <1>9, <1>10
<1>12. PICK g \in Seq(S) : g = a \o f /\ Joined(g, a, f, Len(a), Len(f))
  BY <1>7, <1>11, TwoParts
<1>13. PICK h \in Seq(S) : h = g \o c /\ Joined(h, g, c, Len(g), Len(c))
  BY <1>11, TwoParts
<1>14. Len(g) = 1 + n /\ g[1] = l /\ \A k \in 1 .. n : g[1 + k] = f[k]
  BY <1>8, <1>11, <1>12 DEF Joined
<1>15. Len(h) = 1 + n + 1
  BY <1>11, <1>13, <1>14 DEF Joined
<1>16. h[1 + n + 1] = u /\ \A k \in 1 .. 1 + n : h[k] = g[k]
  BY <1>11, <1>13, <1>14 DEF Joined
<1>17. h = Thread(t)
  BY <1>2, <1>4, <1>5, <1>10, <1>12, <1>13
<1>18. DOMAIN h = 1 .. n + 2 /\ Len(h) = n + 2 /\ h[n + 2] = u
  <2>1. DOMAIN h = 1 .. Len(h)
    BY LenProperties
  <2>2. 1 + n + 1 = n + 2
    OBVIOUS
  <2>3. QED BY <1>15, <1>16, <2>1, <2>2
<1>19. h[1] = l
  BY <1>14, <1>16
<1>20. ASSUME NEW k \in 1 .. Increments
       PROVE  h[2 * k] = Load(counter) /\ h[2 * k + 1] = Store(counter, 1)
  <2>1. PICK p \in 1 .. n, q \in 1 .. n : p = 2 * k - 1 /\ q = 2 * k
    BY <1>3, <1>4
  <2>2. p % 2 = 1 /\ q % 2 # 1
    BY <2>1
  <2>3. f[p] = Load(counter) /\ f[q] = Store(counter, 1)
    BY <1>6, <2>2
  <2>4. h[1 + p] = f[p] /\ h[1 + q] = f[q]
    BY <1>14, <1>16
  <2>5. 1 + p = 2 * k /\ 1 + q = 2 * k + 1
    BY <2>1
  <2>6. QED BY <2>3, <2>4, <2>5
<1>21. QED BY <1>4, <1>17, <1>18, <1>19, <1>20

\* A thread that counts takes one of these steps.
LEMMA CounterSteps ==
    ASSUME Shape, program = "counter", NEW t \in Workers, Executes(t)
    PROVE  CounterStep(t)
<1>1. pc[t] \in 1 .. 2 * Increments + 2 /\ Increments \in Nat
  BY CounterCode, LockProgramsAssumption DEF Executes
<1>2. CASE pc[t] = 1
  <2>1. Effect(t, Lock(counter_lock))
    BY <1>2, CounterCode DEF Executes, Now
  <2>2. QED BY <1>2, <2>1 DEF Effect, I, Goes, Steps, Lock, CounterStep
<1>3. CASE \E k \in 1 .. Increments : pc[t] = 2 * k
  <2>1. PICK k \in 1 .. Increments : pc[t] = 2 * k
    BY <1>3
  <2>2. Effect(t, Load(counter))
    BY <2>1, CounterCode DEF Executes, Now
  <2>3. Reads(t, counter) /\ Goes(t)
    BY <2>2 DEF Effect, I, Load
  <2>4. QED BY <2>1, <2>3 DEF Goes, Steps, CounterStep
<1>4. CASE \E k \in 1 .. Increments : pc[t] = 2 * k + 1
  <2>1. PICK k \in 1 .. Increments : pc[t] = 2 * k + 1
    BY <1>4
  <2>2. Effect(t, Store(counter, 1))
    BY <2>1, CounterCode DEF Executes, Now
  <2>3. Writes(counter, reg[t] + 1) /\ Goes(t)
    BY <2>2 DEF Effect, I, Store
  <2>4. pc[t] + 1 = 2 * k + 2
    BY <2>1
  <2>5. QED BY <2>1, <2>3, <2>4 DEF Goes, Steps, CounterStep
<1>5. CASE pc[t] = 2 * Increments + 2
  <2>1. Effect(t, Unlock(counter_lock))
    BY <1>5, CounterCode DEF Executes, Now
  <2>2. Gives(counter_lock) /\ Goes(t)
    BY <2>1 DEF Effect, I, Unlock
  <2>3. pc[t] + 1 = 2 * Increments + 3
    BY <1>1, <1>5
  <2>4. QED BY <1>5, <2>2, <2>3 DEF Goes, Steps, CounterStep
<1>6. \/ pc[t] = 1 \/ pc[t] = 2 * Increments + 2
      \/ \E k \in 1 .. Increments : pc[t] = 2 * k \/ pc[t] = 2 * k + 1
  <2>1. PICK m \in Nat : m = pc[t] /\ m \in 1 .. 2 * Increments + 2
    BY <1>1
  <2>2. PICK k \in Nat : m = 2 * k \/ m = 2 * k + 1
    <3>1. m \div 2 \in Nat /\ (m = 2 * (m \div 2) \/ m = 2 * (m \div 2) + 1)
      OBVIOUS
    <3>2. QED BY <3>1
  <2>3. QED BY <1>1, <2>1, <2>2
<1>7. QED BY <1>2, <1>3, <1>4, <1>5, <1>6

-----------------------------------------------------------------------------
\* main(), step by step.
MainStep ==
    \/ program = "list" /\ Steps(main, 1, 2) /\ Writes(next(0), 0)
    \/ \E k \in Workers : /\ pc[main] = First + k /\ Tests
                          /\ pc' = [pc EXCEPT ![main] = First + k + 1, ![k] = 1]
    \/ program = "matrix" /\ Steps(main, N + 1, N + 2) /\ Takes(main, matrix_lock)
    \/ program = "matrix" /\ Steps(main, N + 2, N + 3) /\ Writes(current_row, 0)
    \/ program = "matrix" /\ Steps(main, N + 3, N + 4) /\ Writes(task_available, 1)
    \/ program = "matrix" /\ Steps(main, N + 4, N + 5) /\ Tests
    \/ program = "matrix" /\ Steps(main, N + 5, N + 6) /\ Gives(matrix_lock)
    \/ program = "condition" /\ Steps(main, N + 1, N + 2) /\ Tests
                             /\ mem[threads_ready] >= NUM_THREADS
    \/ program = "condition" /\ Steps(main, N + 2, N + 3) /\ Takes(main, cv_lock)
    \/ program = "condition" /\ Steps(main, N + 3, N + 4) /\ Tests
    \/ program = "condition" /\ Steps(main, N + 4, N + 5) /\ Gives(cv_lock)
    \/ \E k \in Workers : Steps(main, Joins + k, Joins + k + 1) /\ Done(k) /\ Tests
    \/ /\ program = "deadlock"
       /\ \E k \in Workers : /\ Steps(main, Joins + N + k, Joins + N + k + 1)
                             /\ Writes(freed(k), mem[freed(k)] + 1)

\* main() takes one of these steps, in whichever program.
LEMMA MainSteps ==
    ASSUME Shape, Executes(main)
    PROVE  MainStep
<1>1. N \in Nat /\ Workers = 1 .. N
  BY CellsSuffice DEF Shape
<1>2. First \in Nat /\ Mid \in Nat /\ Rest \in Nat /\ Joins \in Nat
      /\ Joins = First + N + Mid /\ Last = Joins + N + Rest
  <2>1. First \in Nat /\ Mid \in Nat /\ Rest \in Nat
    BY <1>1 DEF First, Mid, Rest
  <2>2. QED BY <1>1, <2>1 DEF Joins, Last
<1>3. pc[main] \in 1 .. Last
  <2>1. DOMAIN Thread(main) = 1 .. Last
    BY MainCode, LenProperties
  <2>2. QED BY <2>1 DEF Executes
<1>4. CASE \E k \in Workers : pc[main] = First + k
  <2>1. PICK k \in Workers : pc[main] = First + k
    BY <1>4
  <2>2. Effect(main, Create(k))
    BY <2>1, MainCode DEF Executes, Now
  <2>3. Tests /\ pc' = [pc EXCEPT ![main] = @ + 1, ![k] = 1]
    BY <2>2 DEF Effect, I, Create
  <2>4. pc' = [pc EXCEPT ![main] = First + k + 1, ![k] = 1]
    BY <2>1, <2>3
  <2>5. QED BY <2>1, <2>3, <2>4 DEF MainStep
<1>5. CASE \E k \in Workers : pc[main] = Joins + k
  <2>1. PICK k \in Workers : pc[main] = Joins + k
    BY <1>5
  <2>2. Effect(main, Join(k))
    BY <2>1, MainCode DEF Executes, Now
  <2>3. Done(k) /\ Tests /\ Goes(main)
    BY <2>2 DEF Effect, I, Join
  <2>4. QED BY <2>1, <2>3 DEF Goes, Steps, MainStep
<1>6. CASE program = "deadlock" /\ \E k \in Workers : pc[main] = Joins + N + k
  <2>1. PICK k \in Workers : pc[main] = Joins + N + k
    BY <1>6
  <2>2. Effect(main, Free(k))
    BY <1>6, <2>1, MainCode DEF Executes, Now
  <2>3. Writes(freed(k), mem[freed(k)] + 1) /\ Goes(main)
    BY <2>2 DEF Effect, I, Free, Add
  <2>4. QED BY <1>6, <2>1, <2>3 DEF Goes, Steps, MainStep
<1>7. CASE program = "list" /\ pc[main] = 1
  <2>1. Effect(main, Put(next(0), 0))
    BY <1>7, MainCode DEF Executes, Now
  <2>2. Writes(next(0), 0) /\ Goes(main)
    BY <2>1 DEF Effect, I, Put
  <2>3. QED BY <1>7, <2>2 DEF Goes, Steps, MainStep
<1>8. CASE program = "matrix" /\ pc[main] \in N + 1 .. N + 5
  <2>1. CASE pc[main] = N + 1
    <3>1. Effect(main, Lock(matrix_lock))
      BY <1>8, <2>1, MainCode DEF Executes, Now
    <3>2. Takes(main, matrix_lock) /\ Goes(main) /\ pc[main] + 1 = N + 2
      BY <1>1, <2>1, <3>1 DEF Effect, I, Lock
    <3>3. QED BY <1>8, <2>1, <3>2 DEF Goes, Steps, MainStep
  <2>2. CASE pc[main] = N + 2
    <3>1. Effect(main, Put(current_row, 0))
      BY <1>8, <2>2, MainCode DEF Executes, Now
    <3>2. Writes(current_row, 0) /\ Goes(main) /\ pc[main] + 1 = N + 3
      BY <1>1, <2>2, <3>1 DEF Effect, I, Put
    <3>3. QED BY <1>8, <2>2, <3>2 DEF Goes, Steps, MainStep
  <2>3. CASE pc[main] = N + 3
    <3>1. Effect(main, Put(task_available, 1))
      BY <1>8, <2>3, MainCode DEF Executes, Now
    <3>2. Writes(task_available, 1) /\ Goes(main) /\ pc[main] + 1 = N + 4
      BY <1>1, <2>3, <3>1 DEF Effect, I, Put
    <3>3. QED BY <1>8, <2>3, <3>2 DEF Goes, Steps, MainStep
  <2>4. CASE pc[main] = N + 4
    <3>1. Effect(main, Broadcast)
      BY <1>8, <2>4, MainCode DEF Executes, Now
    <3>2. Tests /\ Goes(main) /\ pc[main] + 1 = N + 5
      BY <1>1, <2>4, <3>1 DEF Effect, I, Broadcast
    <3>3. QED BY <1>8, <2>4, <3>2 DEF Goes, Steps, MainStep
  <2>5. CASE pc[main] = N + 5
    <3>1. Effect(main, Unlock(matrix_lock))
      BY <1>8, <2>5, MainCode DEF Executes, Now
    <3>2. Gives(matrix_lock) /\ Goes(main) /\ pc[main] + 1 = N + 6
      BY <1>1, <2>5, <3>1 DEF Effect, I, Unlock
    <3>3. QED BY <1>8, <2>5, <3>2 DEF Goes, Steps, MainStep
  <2>6. QED BY <1>1, <1>8, <2>1, <2>2, <2>3, <2>4, <2>5
<1>9. CASE program = "condition" /\ pc[main] \in N + 1 .. N + 4
  <2>1. CASE pc[main] = N + 1
    <3>1. Effect(main, Until(threads_ready, NUM_THREADS))
      BY <1>9, <2>1, MainCode DEF Executes, Now
    <3>2. /\ mem[threads_ready] >= NUM_THREADS /\ Tests /\ Goes(main)
          /\ pc[main] + 1 = N + 2
      BY <1>1, <2>1, <3>1 DEF Effect, I, Until
    <3>3. QED BY <1>9, <2>1, <3>2 DEF Goes, Steps, MainStep
  <2>2. CASE pc[main] = N + 2
    <3>1. Effect(main, Lock(cv_lock))
      BY <1>9, <2>2, MainCode DEF Executes, Now
    <3>2. Takes(main, cv_lock) /\ Goes(main) /\ pc[main] + 1 = N + 3
      BY <1>1, <2>2, <3>1 DEF Effect, I, Lock
    <3>3. QED BY <1>9, <2>2, <3>2 DEF Goes, Steps, MainStep
  <2>3. CASE pc[main] = N + 3
    <3>1. Effect(main, Broadcast)
      BY <1>9, <2>3, MainCode DEF Executes, Now
    <3>2. Tests /\ Goes(main) /\ pc[main] + 1 = N + 4
      BY <1>1, <2>3, <3>1 DEF Effect, I, Broadcast
    <3>3. QED BY <1>9, <2>3, <3>2 DEF Goes, Steps, MainStep
  <2>4. CASE pc[main] = N + 4
    <3>1. Effect(main, Unlock(cv_lock))
      BY <1>9, <2>4, MainCode DEF Executes, Now
    <3>2. Gives(cv_lock) /\ Goes(main) /\ pc[main] + 1 = N + 5
      BY <1>1, <2>4, <3>1 DEF Effect, I, Unlock
    <3>3. QED BY <1>9, <2>4, <3>2 DEF Goes, Steps, MainStep
  <2>5. QED BY <1>1, <1>9, <2>1, <2>2, <2>3, <2>4
<1>10. \/ \E k \in Workers : pc[main] = First + k
       \/ \E k \in Workers : pc[main] = Joins + k
       \/ program = "deadlock" /\ \E k \in Workers : pc[main] = Joins + N + k
       \/ program = "list" /\ pc[main] = 1
       \/ program = "matrix" /\ pc[main] \in N + 1 .. N + 5
       \/ program = "condition" /\ pc[main] \in N + 1 .. N + 4
  <2>1. PICK m \in Nat : m = pc[main] /\ m \in 1 .. Last
    BY <1>1, <1>2, <1>3
  <2>2. CASE m <= First
    BY <1>1, <1>2, <2>1, <2>2 DEF First
  <2>3. CASE m > First /\ m <= First + N
    <3>1. m - First \in 1 .. N /\ m = First + (m - First)
      BY <1>1, <1>2, <2>3
    <3>2. QED BY <1>1, <2>1, <3>1
  <2>4. CASE m > First + N /\ m <= Joins
    <3>1. Mid # 0
      BY <1>1, <1>2, <2>4
    <3>2. CASE program = "matrix"
      BY <1>1, <1>2, <2>1, <2>4, <3>2 DEF Mid, First
    <3>3. CASE program = "condition"
      BY <1>1, <1>2, <2>1, <2>4, <3>3 DEF Mid, First
    <3>4. QED BY <3>1, <3>2, <3>3 DEF Mid
  <2>5. CASE m > Joins /\ m <= Joins + N
    <3>1. m - Joins \in 1 .. N /\ m = Joins + (m - Joins)
      BY <1>1, <1>2, <2>5
    <3>2. QED BY <1>1, <2>1, <3>1
  <2>6. CASE m > Joins + N
    <3>1. Rest # 0
      BY <1>1, <1>2, <2>1, <2>6
    <3>2. program = "deadlock" /\ Rest = N
      BY <3>1 DEF Rest
    <3>3. m - (Joins + N) \in 1 .. N /\ m = Joins + N + (m - (Joins + N))
      BY <1>1, <1>2, <2>1, <2>6, <3>2
    <3>4. QED BY <1>1, <2>1, <3>2, <3>3
  <2>7. QED BY <1>1, <1>2, <2>1, <2>2, <2>3, <2>4, <2>5, <2>6
<1>11. QED BY <1>4, <1>5, <1>6, <1>7, <1>8, <1>9, <1>10

-----------------------------------------------------------------------------
\* The step behind the last one of a thread's function.
End == CASE program = "deadlock" -> 12
         [] program = "file_scope" -> 16
         [] program = "hash_logger" -> 6
         [] program = "matrix" -> 11
         [] program = "condition" -> 6
         [] program = "counter" -> 2 * Increments + 2
         [] program = "list" -> 5

\* No thread but main() looks at a thread, or steps, before it is created; main()
\* has joined a thread only when that has returned.
Life ==
    /\ \A t \in Workers : pc[t] = 0 <=> pc[main] <= First + t
    /\ \A t \in Workers : pc[main] > Joins + t => pc[t] > End

\* What depends on the program alone.
LEMMA Fixed ==
    ASSUME UNCHANGED <<program, transfers>>
    PROVE  /\ N' = N /\ Workers' = Workers /\ Threads' = Threads /\ Cells' = Cells
           /\ First' = First /\ Joins' = Joins /\ End' = End
           /\ \A t : From(t)' = From(t) /\ To(t)' = To(t) /\ Amount(t)' = Amount(t)
<1>1. N' = N /\ Workers' = Workers /\ Cells' = Cells /\ First' = First /\ Mid' = Mid /\ End' = End
  BY DEF N, Workers, Cells, Top, First, Mid, End
<1>2. QED BY <1>1 DEF Threads, Joins, From, To, Amount

\* Every thread's function is End instructions long.
LEMMA EndIs ==
    ASSUME Shape, NEW t \in Workers
    PROVE  Len(Thread(t)) = End /\ DOMAIN Thread(t) = 1 .. End /\ End \in Nat
<1>1. Increments \in Nat
  BY LockProgramsAssumption
<1>2. CASE program = "deadlock"
  BY <1>2, DepositCode DEF End
<1>3. CASE program = "file_scope"
  BY <1>3, FileScopeCode DEF End
<1>4. CASE program = "hash_logger"
  BY <1>4, HashCode DEF End
<1>5. CASE program = "matrix"
  BY <1>5, MatrixCode DEF End
<1>6. CASE program = "condition"
  BY <1>6, WorkCode DEF End
<1>7. CASE program = "counter"
  BY <1>1, <1>7, CounterCode DEF End
<1>8. CASE program = "list"
  BY <1>8, InsertCode DEF End
<1>9. QED BY <1>2, <1>3, <1>4, <1>5, <1>6, <1>7, <1>8 DEF Shape, Kinds

\* No step breaks a type.
LEMMA Kept ==
    ASSUME Shape, NEW t \in Threads, NEW x, NEW v \in Int,
           Tests \/ Takes(t, x) \/ Gives(x) \/ (x \in Cells /\ Reads(t, x)) \/ Writes(x, v)
    PROVE  /\ owner' \in [Cells -> Threads \cup {None}]
           /\ mem' \in [Cells -> Int]
           /\ reg' \in [Threads -> Int]
BY DEF Shape, Tests, Takes, Gives, Reads, Writes

\* The types of what an instruction can change, after it.
Typed ==
    /\ owner' \in [Cells -> Threads \cup {None}]
    /\ mem' \in [Cells -> Int]
    /\ reg' \in [Threads -> Int]

\* With the types of an instruction's effect the state has its types again.
LEMMA TypedIsShape ==
    ASSUME Shape, UNCHANGED <<program, transfers>>, Typed, pc' \in [Threads -> Nat]
    PROVE  Shape'
BY Fixed DEF Shape, Typed

\* Thread t moves to some instruction, or behind the last.
Moves(t) == \E p \in Nat \ {0} : pc' = [pc EXCEPT ![t] = p]

\* A step of a worker that was created leads it to another of its steps or to its end.
LEMMA WorkerMoves ==
    ASSUME Shape, NEW t \in Workers, Executes(t)
    PROVE  /\ pc[t] \in 1 .. End
           /\ Shape'
           /\ Moves(t)
<1> SUFFICES Typed /\ Moves(t)
  <2>1. pc[t] \in 1 .. End /\ UNCHANGED <<program, transfers>>
    BY EndIs DEF Executes
  <2>2. pc' \in [Threads -> Nat]
    BY DEF Shape, Moves
  <2>3. QED BY <2>1, <2>2, TypedIsShape
<1>1. t \in Threads /\ reg[t] \in Int /\ \A x \in Cells : mem[x] \in Int
  BY DEF Shape, Threads
<1>2. t \in 0 .. N /\ 0 \in 0 .. N
  BY CellsSuffice DEF Shape
<1>3. /\ Tests => Typed
      /\ \A x : Takes(t, x) => Typed
      /\ \A x : Gives(x) => Typed
      /\ \A x \in Cells : Reads(t, x) => Typed
      /\ \A x, v : v \in Int /\ Writes(x, v) => Typed
  <2>1. 0 \in Int
    OBVIOUS
  <2>2. QED BY <1>1, <2>1, Kept DEF Typed
<1>4. \A a, b : b \in Nat \ {0} /\ Steps(t, a, b) => Moves(t)
  BY DEF Steps, Moves
<1>5. /\ freed(t) \in Cells /\ next(t) \in Cells /\ next(0) \in Cells
      /\ total_bytes \in Cells /\ current_row \in Cells /\ threads_ready \in Cells
      /\ counter \in Cells
  BY <1>2, CellsAre
<1>6. \A x \in Cells : mem[x] + 1 \in Int /\ mem[x] + (-1) \in Int
  BY <1>1
<1>7. reg[t] + 0 \in Int /\ reg[t] + 1 \in Int /\ t \in Int
  BY <1>1, <1>2
<1> HIDE DEF Typed
<1>8. CASE program = "deadlock"
  <2>1. DepositStep(t)
    BY <1>8, DepositSteps
  <2>2. Moves(t)
    BY <1>4, <2>1 DEF DepositStep
  <2>3. /\ From(t) \in Cells /\ To(t) \in Cells /\ reg[t] + Amount(t) \in Int
        /\ reg[t] + (-Amount(t)) \in Int
    BY <1>1, <1>8, Accounts
  <2>4. Typed
    BY <1>3, <1>5, <1>6, <1>7, <2>1, <2>3 DEF DepositStep
  <2>5. QED BY <2>2, <2>4
<1>9. CASE program = "file_scope"
  <2>1. FileScopeStep(t)
    BY <1>9, FileScopeSteps
  <2>2. Moves(t)
    BY <1>4, <2>1 DEF FileScopeStep
  <2>3. /\ From(t) \in Cells /\ To(t) \in Cells /\ reg[t] + Amount(t) \in Int
        /\ reg[t] + (-Amount(t)) \in Int
    BY <1>1, <1>9, Accounts
  <2>4. Typed
    BY <1>3, <1>5, <1>6, <1>7, <2>1, <2>3 DEF FileScopeStep
  <2>5. QED BY <2>2, <2>4
<1>10. CASE program = "hash_logger"
  <2>1. HashStep(t)
    BY <1>10, HashSteps
  <2>2. Moves(t)
    BY <1>4, <2>1 DEF HashStep
  <2>3. reg[t] + Sizes[t] \in Int
    <3>1. Workers = 1 .. Len(Sizes)
      BY <1>10 DEF Workers
    <3>2. Sizes[t] \in Nat
      BY <3>1, LockProgramsAssumption, ElementOfSeq
    <3>3. QED BY <1>1, <3>2
  <2>4. Typed
    BY <1>3, <1>5, <1>6, <1>7, <2>1, <2>3 DEF HashStep
  <2>5. QED BY <2>2, <2>4
<1>11. CASE program = "matrix"
  <2>1. MatrixStep(t)
    BY <1>11, MatrixSteps
  <2>2. Moves(t)
    BY <1>4, <2>1 DEF MatrixStep
  <2>3. ASSUME Writes(C(reg[t]), mem[C(reg[t])] + 1) PROVE Typed
    <3>1. PICK x : x = C(reg[t])
      OBVIOUS
    <3>2. CASE x \in Cells
      BY <1>3, <1>6, <2>3, <3>1, <3>2
    <3>3. CASE x \notin Cells
      <4>1. mem' = mem
        BY <2>3, <3>1, <3>3 DEF Writes, Shape
      <4>2. QED BY <1>3, <2>3, <4>1 DEF Writes, Tests
    <3>4. QED BY <3>2, <3>3
  <2>4. Typed
    BY <1>3, <1>5, <1>6, <1>7, <2>1, <2>3 DEF MatrixStep
  <2>5. QED BY <2>2, <2>4
<1>12. CASE program = "condition"
  <2>1. WorkStep(t)
    BY <1>12, WorkSteps
  <2>2. Moves(t)
    BY <1>4, <2>1 DEF WorkStep
  <2>3. Typed
    BY <1>3, <1>5, <1>6, <1>7, <2>1 DEF WorkStep
  <2>4. QED BY <2>2, <2>3
<1>13. CASE program = "list"
  <2>1. InsertStep(t)
    BY <1>13, InsertSteps
  <2>2. Moves(t)
    BY <1>4, <2>1 DEF InsertStep
  <2>3. Typed
    BY <1>3, <1>5, <1>6, <1>7, <2>1 DEF InsertStep
  <2>4. QED BY <2>2, <2>3
<1>14. CASE program = "counter"
  <2>1. CounterStep(t)
    BY <1>14, CounterSteps
  <2>2. Increments \in Nat
    BY LockProgramsAssumption
  <2>3. Moves(t)
    BY <1>4, <2>1, <2>2 DEF CounterStep
  <2>4. Typed
    BY <1>3, <1>5, <1>6, <1>7, <2>1 DEF CounterStep
  <2>5. QED BY <2>3, <2>4
<1>15. QED BY <1>8, <1>9, <1>10, <1>11, <1>12, <1>13, <1>14 DEF Shape, Kinds

-----------------------------------------------------------------------------
\* No step of main() breaks a type.
LEMMA MainKeeps ==
    ASSUME Shape, MainStep, UNCHANGED <<program, transfers>>
    PROVE  Shape'
<1>1. N \in Nat /\ Workers = 1 .. N /\ First \in Nat /\ Joins \in Nat
  <2>1. N \in Nat /\ Workers = 1 .. N
    BY CellsSuffice DEF Shape
  <2>2. First \in Nat /\ Mid \in Nat
    BY DEF First, Mid
  <2>3. QED BY <2>1, <2>2 DEF Joins
<1>2. main \in Threads /\ \A k \in Workers : k \in Threads /\ k \in 0 .. N
  BY <1>1 DEF Threads
<1>3. /\ Tests => Typed
      /\ \A x : Takes(main, x) => Typed
      /\ \A x : Gives(x) => Typed
      /\ \A x, v : v \in Int /\ Writes(x, v) => Typed
  <2>1. 0 \in Int
    OBVIOUS
  <2>2. QED BY <1>2, <2>1, Kept DEF Typed
<1>4. \A a, b : b \in Nat /\ Steps(main, a, b) => pc' \in [Threads -> Nat]
  BY <1>2 DEF Steps, Shape
<1>5. \A k \in Workers : freed(k) \in Cells /\ mem[freed(k)] + 1 \in Int
  <2>1. \A k \in Workers : freed(k) \in Cells
    BY <1>2, CellsAre
  <2>2. \A x \in Cells : mem[x] + 1 \in Int
    BY DEF Shape
  <2>3. QED BY <2>1, <2>2
<1>6. /\ N + 2 \in Nat /\ N + 3 \in Nat /\ N + 4 \in Nat /\ N + 5 \in Nat /\ N + 6 \in Nat
      /\ \A k \in Workers : Joins + k + 1 \in Nat /\ Joins + N + k + 1 \in Nat
                            /\ First + k + 1 \in Nat
  BY <1>1
<1> HIDE DEF Typed
<1>7. Typed
  <2>1. next(0) \in Cells /\ 0 \in Int /\ 1 \in Int
    BY <1>1, CellsAre
  <2>2. \/ Tests \/ Takes(main, matrix_lock) \/ Takes(main, cv_lock) \/ Gives(matrix_lock)
        \/ Gives(cv_lock) \/ Writes(next(0), 0) \/ Writes(current_row, 0)
        \/ Writes(task_available, 1) \/ \E k \in Workers : Writes(freed(k), mem[freed(k)] + 1)
    BY Zenon DEF MainStep
  <2>3. QED BY <1>3, <1>5, <2>1, <2>2
<1>8. pc' \in [Threads -> Nat]
  <2>1. CASE \E k \in Workers : pc' = [pc EXCEPT ![main] = First + k + 1, ![k] = 1]
    <3>1. PICK k \in Workers : pc' = [pc EXCEPT ![main] = First + k + 1, ![k] = 1]
      BY <2>1
    <3>2. k \in Threads /\ First + k + 1 \in Nat /\ 1 \in Nat
      BY <1>2, <1>6
    <3>3. QED BY <1>2, <3>1, <3>2 DEF Shape
  <2>2. CASE ~ \E k \in Workers : pc' = [pc EXCEPT ![main] = First + k + 1, ![k] = 1]
    <3>1. \E a, b : b \in Nat /\ Steps(main, a, b)
      BY <1>6, <2>2 DEF MainStep
    <3>2. QED BY <1>4, <3>1
  <2>3. QED BY <2>1, <2>2
<1>9. QED BY <1>7, <1>8, TypedIsShape

\* What a step is, and that it keeps the types and the lives of the threads.
LEMMA NextIs ==
    ASSUME Shape, Life, [Next]_vars
    PROVE  /\ Shape' /\ Life'
           /\ UNCHANGED <<program, transfers>>
           /\ \/ \E t \in Workers : Executes(t)
              \/ MainStep
              \/ UNCHANGED <<pc, owner, mem, reg>>
<1>1. N \in Nat /\ Workers = 1 .. N
  BY CellsSuffice DEF Shape
<1>2. First \in Nat /\ Mid \in Nat /\ Joins \in Nat /\ Joins = First + N + Mid
  <2>1. First \in Nat /\ Mid \in Nat
    BY DEF First, Mid
  <2>2. QED BY <1>1, <2>1 DEF Joins
<1>3. /\ pc \in [Threads -> Nat] /\ main \in Threads /\ \A t \in Workers : t \in Threads
      /\ main \notin Workers
  BY <1>1 DEF Shape, Threads, main
<1>4. \/ \E t \in Threads : Executes(t)
      \/ UNCHANGED <<program, transfers, pc, owner, mem, reg>>
  <2>1. CASE Next
    BY <2>1, StepIs
  <2>2. CASE UNCHANGED vars
    BY <2>2 DEF vars
  <2>3. QED BY <2>1, <2>2
<1>5. CASE UNCHANGED <<program, transfers, pc, owner, mem, reg>>
  BY <1>5, Fixed DEF Shape, Life
<1>6. CASE \E t \in Workers : Executes(t)
  <2>1. PICK t \in Workers : Executes(t)
    BY <1>6
  <2>2. pc[t] \in 1 .. End /\ Shape' /\ Moves(t)
    BY <2>1, WorkerMoves
  <2>3. PICK p \in Nat \ {0} : pc' = [pc EXCEPT ![t] = p]
    BY <2>2 DEF Moves
  <2>4. UNCHANGED <<program, transfers>>
    BY <2>1 DEF Executes
  <2>5. pc'[main] = pc[main] /\ pc'[t] = p /\ \A u \in Workers : u # t => pc'[u] = pc[u]
    BY <1>3, <2>3
  <2>6. End \in Nat
    BY EndIs
  <2>7. ASSUME NEW u \in Workers PROVE pc'[u] = 0 <=> pc'[main] <= First + u
    BY <2>2, <2>5, <2>6 DEF Life
  <2>8. ASSUME NEW u \in Workers, pc'[main] > Joins + u PROVE pc'[u] > End
    BY <2>2, <2>5, <2>6, <2>8 DEF Life
  <2>9. Life'
    BY <2>4, <2>7, <2>8, Fixed DEF Life
  <2>10. QED BY <2>1, <2>2, <2>4, <2>9
<1>7. CASE Executes(main)
  <2>1. MainStep /\ UNCHANGED <<program, transfers>>
    BY <1>7, MainSteps DEF Executes
  <2>2. Shape'
    BY <2>1, MainKeeps
  <2>3. CASE \E k \in Workers : /\ pc[main] = First + k
                                /\ pc' = [pc EXCEPT ![main] = First + k + 1, ![k] = 1]
    <3>1. PICK k \in Workers : /\ pc[main] = First + k
                               /\ pc' = [pc EXCEPT ![main] = First + k + 1, ![k] = 1]
      BY <2>3
    <3>2. pc'[main] = First + k + 1 /\ pc'[k] = 1 /\ \A u \in Workers : u # k => pc'[u] = pc[u]
      BY <1>3, <3>1
    <3>3. ASSUME NEW u \in Workers PROVE pc'[u] = 0 <=> pc'[main] <= First + u
      <4>1. CASE u = k
        BY <1>1, <1>2, <3>2, <4>1
      <4>2. CASE u # k
        <5>1. pc'[u] = 0 <=> First + k <= First + u
          BY <3>1, <3>2, <4>2 DEF Life
        <5>2. First + k <= First + u <=> First + k + 1 <= First + u
          BY <1>1, <1>2, <4>2
        <5>3. QED BY <3>2, <5>1, <5>2
      <4>3. QED BY <4>1, <4>2
    <3>4. ASSUME NEW u \in Workers, pc'[main] > Joins + u PROVE pc'[u] > End
      BY <1>1, <1>2, <3>2, <3>4
    <3>5. Life'
      BY <2>1, <3>3, <3>4, Fixed DEF Life
    <3>6. QED BY <2>1, <2>2, <3>5
  <2>4. CASE \E m \in Nat : /\ Steps(main, m, m + 1)
                            /\ m <= First \/ m > First + N
                            /\ m <= Joins \/ m > Joins + N
                               \/ \E k \in Workers : m = Joins + k /\ Done(k)
    <3>1. PICK m \in Nat : /\ Steps(main, m, m + 1)
                           /\ m <= First \/ m > First + N
                           /\ m <= Joins \/ m > Joins + N
                              \/ \E k \in Workers : m = Joins + k /\ Done(k)
      BY <2>4
    <3>2. pc[main] = m /\ pc'[main] = m + 1 /\ \A u \in Workers : pc'[u] = pc[u]
      BY <1>3, <3>1 DEF Steps
    <3>3. ASSUME NEW u \in Workers PROVE pc'[u] = 0 <=> pc'[main] <= First + u
      BY <1>1, <1>2, <3>1, <3>2 DEF Life
    <3>4. ASSUME NEW u \in Workers, pc'[main] > Joins + u PROVE pc'[u] > End
      <4>1. CASE m > Joins + u
        BY <3>2, <4>1 DEF Life
      <4>2. CASE m <= Joins + u
        <5>1. m = Joins + u
          BY <1>1, <1>2, <3>2, <3>4, <4>2
        <5>2. PICK k \in Workers : m = Joins + k /\ Done(k)
          BY <1>1, <1>2, <3>1, <5>1
        <5>3. k = u
          BY <1>1, <1>2, <5>1, <5>2
        <5>4. QED BY <3>2, <5>2, <5>3, EndIs DEF Done
      <4>3. QED BY <1>1, <1>2, <4>1, <4>2
    <3>5. Life'
      BY <2>1, <3>3, <3>4, Fixed DEF Life
    <3>6. QED BY <2>1, <2>2, <3>5
  <2>5. ASSUME ~ \E k \in Workers : /\ pc[main] = First + k
                                    /\ pc' = [pc EXCEPT ![main] = First + k + 1, ![k] = 1]
        PROVE  \E m \in Nat : /\ Steps(main, m, m + 1)
                              /\ m <= First \/ m > First + N
                              /\ m <= Joins \/ m > Joins + N
                                 \/ \E k \in Workers : m = Joins + k /\ Done(k)
    <3>1. CASE program = "list" /\ Steps(main, 1, 2)
      <4>1. First = 1 /\ 1 + 1 = 2 /\ 1 <= Joins
        BY <1>1, <1>2, <3>1 DEF First
      <4>2. QED BY <3>1, <4>1
    <3>2. CASE program \in {"matrix", "condition"}
               /\ \E i \in 1 .. Mid : Steps(main, N + i, N + i + 1)
      <4>1. PICK i \in 1 .. Mid : Steps(main, N + i, N + i + 1)
        BY <3>2
      <4>2. First = 0
        BY <3>2 DEF First
      <4>3. N + i \in Nat /\ N + i > First + N /\ N + i <= Joins
        BY <1>1, <1>2, <4>2
      <4>4. QED BY <4>1, <4>3
    <3>3. CASE \E k \in Workers : Steps(main, Joins + k, Joins + k + 1) /\ Done(k)
      <4>1. PICK k \in Workers : Steps(main, Joins + k, Joins + k + 1) /\ Done(k)
        BY <3>3
      <4>2. Joins + k \in Nat /\ Joins + k > First + N
        BY <1>1, <1>2
      <4>3. QED BY <4>1, <4>2
    <3>4. CASE \E k \in Workers : Steps(main, Joins + N + k, Joins + N + k + 1)
      <4>1. PICK k \in Workers : Steps(main, Joins + N + k, Joins + N + k + 1)
        BY <3>4
      <4>2. Joins + N + k \in Nat /\ Joins + N + k > First + N /\ Joins + N + k > Joins + N
        BY <1>1, <1>2
      <4>3. QED BY <4>1, <4>2
    <3>5. \/ program = "list" /\ Steps(main, 1, 2)
          \/ /\ program \in {"matrix", "condition"}
             /\ \E i \in 1 .. Mid : Steps(main, N + i, N + i + 1)
          \/ \E k \in Workers : Steps(main, Joins + k, Joins + k + 1) /\ Done(k)
          \/ \E k \in Workers : Steps(main, Joins + N + k, Joins + N + k + 1)
      <4>1. /\ N + 1 + 1 = N + 2 /\ N + 2 + 1 = N + 3 /\ N + 3 + 1 = N + 4
            /\ N + 4 + 1 = N + 5 /\ N + 5 + 1 = N + 6
        BY <1>1
      <4>2. CASE program = "matrix"
        <5>1. Mid = 5 /\ 1 \in 1 .. 5 /\ 2 \in 1 .. 5 /\ 3 \in 1 .. 5 /\ 4 \in 1 .. 5 /\ 5 \in 1 .. 5
          BY <4>2 DEF Mid
        <5>2. QED BY <2>1, <2>5, <4>1, <4>2, <5>1 DEF MainStep
      <4>3. CASE program = "condition"
        <5>1. Mid = 4 /\ 1 \in 1 .. 4 /\ 2 \in 1 .. 4 /\ 3 \in 1 .. 4 /\ 4 \in 1 .. 4
          BY <4>3 DEF Mid
        <5>2. QED BY <2>1, <2>5, <4>1, <4>3, <5>1 DEF MainStep
      <4>4. CASE program \notin {"matrix", "condition"}
        BY <2>1, <2>5, <4>4 DEF MainStep
      <4>5. QED BY <4>2, <4>3, <4>4
    <3>6. QED BY <3>1, <3>2, <3>3, <3>4, <3>5
  <2>6. QED BY <2>3, <2>4, <2>5
<1>8. QED BY <1>4, <1>5, <1>6, <1>7 DEF Threads

\* A step of main() creates a thread or leaves all threads where they are.
LEMMA MainStarts ==
    ASSUME Shape, Life, MainStep
    PROVE  /\ \A u \in Workers : pc'[u] = pc[u] \/ (pc[u] = 0 /\ pc'[u] = 1)
           /\ reg' = reg
<1>1. N \in Nat /\ Workers = 1 .. N
  BY CellsSuffice DEF Shape
<1>2. main \in Threads /\ main \notin Workers /\ \A u \in Workers : u \in Threads
  BY <1>1 DEF Threads, main
<1>3. ASSUME NEW u \in Workers
      PROVE  pc'[u] = pc[u] \/ (pc[u] = 0 /\ pc'[u] = 1)
  <2>1. CASE \E k \in Workers : /\ pc[main] = First + k
                                /\ pc' = [pc EXCEPT ![main] = First + k + 1, ![k] = 1]
    <3>1. PICK k \in Workers : /\ pc[main] = First + k
                               /\ pc' = [pc EXCEPT ![main] = First + k + 1, ![k] = 1]
      BY <2>1
    <3>2. pc[k] = 0
      BY <1>1, <3>1 DEF Life, First
    <3>3. pc'[u] = IF u = k THEN 1 ELSE pc[u]
      BY <1>2, <3>1 DEF Shape
    <3>4. QED BY <3>2, <3>3
  <2>2. CASE \E a, b : Steps(main, a, b)
    BY <1>2, <2>2 DEF Steps, Shape
  <2>3. QED BY <2>1, <2>2, Zenon DEF MainStep
<1>4. reg' = reg
  BY DEF MainStep, Tests, Takes, Gives, Writes
<1>5. QED BY <1>3, <1>4

-----------------------------------------------------------------------------
\* What a program leaves alone.
Unused ==
    /\ program \notin {"deadlock", "file_scope"} =>
            mem[Balance(1)] = Opening /\ mem[Balance(2)] = Opening
    /\ program # "matrix" => \A r \in 0 .. SIZE - 1 : mem[C(r)] = 0

\* The step of deadlock.c's deposit at which a transfer is: the version with the
\* file-scope lock takes the same steps on the accounts, and others around them.
Place(t) == CASE program = "deadlock" -> pc[t]
              [] program = "file_scope" /\ pc[t] <= 4 -> pc[t] - 1
              [] program = "file_scope" /\ pc[t] \in 5 .. 7 -> 4
              [] OTHER -> pc[t] - 3
\* The places at which a thread holds the first lock, and the second; the accounts' sum.
HoldsFrom == {2, 3} \cup (5 .. 10)
HoldsTo == 6 .. 11
Balances == mem[Balance(1)] + mem[Balance(2)]

\* A transfer holds an account from the time it looks at its balance to the time it
\* has changed it, and money is missing only while it is on its way.
TransferInv ==
    /\ \A t \in Workers :
        /\ Place(t) \in HoldsFrom => owner[From(t)] = t
        /\ Place(t) \in HoldsTo => owner[To(t)] = t
        /\ Place(t) \in 5 .. 7 => mem[From(t)] >= Amount(t)
        /\ Place(t) = 7 => reg[t] = mem[From(t)]
        /\ Place(t) = 9 => reg[t] = mem[To(t)]
        /\ Place(t) \in {8, 9} => Balances + Amount(t) = 2 * Opening
    /\ mem[Balance(1)] >= 0 /\ mem[Balance(2)] >= 0
    /\ (\A t \in Workers : Place(t) \notin {8, 9}) => Balances = 2 * Opening

\* deposit frees its argument on each of its ways out.
FreedInv ==
    \A t \in Workers :
        /\ pc[t] \in 0 .. 17
        /\ mem[freed(t)] = IF pc[t] \in {7, 17} THEN 1 ELSE 0

\* F[i] is what the first i files add to a total of which the threads in done have
\* stored their part.
Totals(F, done) ==
    /\ F \in [0 .. N -> Int] /\ F[0] = 0
    /\ \A i \in 1 .. N : F[i] = F[i - 1] + IF i \in done THEN Sizes[i] ELSE 0

\* The loggers that have added their file to the total, which is the sum of theirs.
Stored == {t \in Workers : pc[t] > 4}
HashInv ==
    /\ \A t \in Workers : /\ pc[t] \in 2 .. 6 => owner[stats_mutex] = t
                          /\ pc[t] = 4 => reg[t] = mem[total_bytes]
    /\ \E F \in [0 .. N -> Int] : Totals(F, Stored) /\ mem[total_bytes] = F[N]

\* A thread holds the lock while it looks for a row, and from there on has a row of
\* its own until it has computed it.
HoldsLock == {2, 3, 5, 6, 7, 8, 11}
WorkerInv(t) ==
    /\ pc[t] \in HoldsLock => owner[matrix_lock] = t
    /\ pc[t] >= 5 => pc[main] > N + 3
    /\ pc[t] \in {6, 7} => mem[current_row] < SIZE
    /\ pc[t] = 7 => reg[t] = mem[current_row]
    /\ pc[t] \in {8, 9} => reg[t] \in 0 .. mem[current_row] - 1 /\ mem[C(reg[t])] = 0
    /\ pc[t] >= 11 => mem[current_row] >= SIZE
OwnRow(t, u) == pc[t] \in {8, 9} /\ pc[u] \in {8, 9} /\ reg[t] = reg[u] => t = u

\* main() starts the computation under the lock.
StartInv ==
    /\ pc[main] \in N + 2 .. N + 5 => owner[matrix_lock] = main
    /\ pc[main] <= N + 2 => mem[current_row] = -1
    /\ pc[main] > N + 2 => mem[current_row] \in 0 .. SIZE
    /\ mem[task_available] = IF pc[main] > N + 3 THEN 1 ELSE 0

\* Row r was given out if it is below current_row, and is computed or about to be.
RowInv(r) ==
    /\ mem[C(r)] \in {0, 1}
    /\ mem[C(r)] = 1 => r < mem[current_row]
    /\ r < mem[current_row] /\ mem[C(r)] = 0 => \E t \in Workers : pc[t] \in {8, 9} /\ reg[t] = r

MatrixInv ==
    /\ \A t \in Workers : WorkerInv(t) /\ \A u \in Workers : OwnRow(t, u)
    /\ StartInv
    /\ \A r \in 0 .. SIZE - 1 : RowInv(r)

\* threads_ready counts those between the two changes they make to it.
ReadyInv == mem[threads_ready] = Cardinality({t \in Workers : pc[t] \in 2 .. 6})

\* The counter has what the threads that are through have counted, and what the one
\* that holds the lock has.
Counted == Increments * Cardinality({t \in Workers : pc[t] > 2 * Increments + 1})
CounterInv ==
    /\ \A t \in Workers :
        /\ pc[t] \in 2 .. 2 * Increments + 2 => owner[counter_lock] = t
        /\ \A k \in 1 .. Increments :
            /\ pc[t] = 2 * k => mem[counter] = Counted + k - 1
            /\ pc[t] = 2 * k + 1 => mem[counter] = Counted + k - 1 /\ reg[t] = mem[counter]
    /\ (\A t \in Workers : pc[t] \notin 2 .. 2 * Increments + 1) => mem[counter] = Counted

\* The list behind the head is a walk f over the nodes of linked, each met once.
Walk(f, m, linked) ==
    /\ f[0] = 0
    /\ \A i \in 1 .. m : f[i] \in linked /\ f[i] = mem[next(f[i - 1])]
    /\ mem[next(f[m])] = 0
    /\ \A i, j \in 0 .. m : f[i] = f[j] => i = j
    /\ \A x \in linked : \E i \in 1 .. m : f[i] = x

Linked == {t \in Workers : pc[t] > 4}
ListInv ==
    /\ \A t \in Workers : /\ pc[t] \in 2 .. 5 => owner[insert_lock] = t
                          /\ pc[t] = 3 => reg[t] = mem[next(0)]
                          /\ pc[t] = 4 => mem[next(t)] = mem[next(0)]
    /\ \E f \in [0 .. Cardinality(Linked) -> 0 .. N] : Walk(f, Cardinality(Linked), Linked)

\* What each program keeps.
ProgramInv ==
    /\ program \in {"deadlock", "file_scope"} => TransferInv
    /\ program = "file_scope" => FreedInv
    /\ program = "hash_logger" => HashInv
    /\ program = "matrix" => MatrixInv
    /\ program = "condition" => ReadyInv
    /\ program = "counter" => CounterInv
    /\ program = "list" => ListInv

\* The inductive invariant.
IInv == Shape /\ Life /\ Unused /\ ProgramInv

-----------------------------------------------------------------------------
\* A step of transfer t from place a to place b.
Does(t, a, b) == /\ Place(t) = a /\ Place(t)' = b
                 /\ \A u \in Workers \ {t} : Place(u)' = Place(u)

\* The accounts, and what the threads have read, are as they were.
Elsewhere == /\ \A x \in {Balance(1), Balance(2)} : mem'[x] = mem[x] /\ owner'[x] = owner[x]
             /\ reg' = reg

\* A step that has nothing to do with the accounts.
Aside ==
    /\ \A u \in Workers : \/ Place(u)' = Place(u)
                          \/ Place(u) \notin HoldsFrom /\ Place(u) \notin HoldsTo
                             /\ Place(u)' \notin HoldsFrom /\ Place(u)' \notin HoldsTo
    /\ Elsewhere

\* What a transfer can do to the accounts.
TransferStep(t) ==
    \/ Does(t, 1, 2) /\ Takes(t, From(t))
    \/ Does(t, 2, 3) /\ Tests
    \/ Does(t, 2, 5) /\ mem[From(t)] >= Amount(t) /\ Tests
    \/ Does(t, 3, 4) /\ Gives(From(t))
    \/ Does(t, 5, 6) /\ Takes(t, To(t))
    \/ Does(t, 6, 7) /\ Reads(t, From(t))
    \/ Does(t, 7, 8) /\ Writes(From(t), reg[t] + (-Amount(t)))
    \/ Does(t, 8, 9) /\ Reads(t, To(t))
    \/ Does(t, 9, 10) /\ Writes(To(t), reg[t] + Amount(t))
    \/ Does(t, 10, 11) /\ Gives(From(t))
    \/ Does(t, 11, 12) /\ Gives(To(t))
    \/ Aside

\* Whatever the other transfers are at, a step of one of them, or a step aside,
\* leaves the invariant true.
LEMMA TransferKept ==
    ASSUME Shape, Shape', UNCHANGED <<program, transfers>>,
           program \in {"deadlock", "file_scope"}, TransferInv,
           Aside \/ \E t \in Workers : TransferStep(t)
    PROVE  TransferInv'
<1>1. PICK B1 \in Cells, B2 \in Cells : B1 = Balance(1) /\ B2 = Balance(2) /\ B1 # B2
  BY CellsAre DEF Balance
<1>2. \A t \in Workers : /\ (From(t) = B1 /\ To(t) = B2) \/ (From(t) = B2 /\ To(t) = B1)
                         /\ Amount(t) \in Nat
  BY <1>1, Accounts
<1>3. /\ owner \in [Cells -> Threads \cup {None}] /\ mem \in [Cells -> Int]
      /\ reg \in [Threads -> Int] /\ \A t \in Workers : t \in Threads /\ t # None
  BY CellsSuffice DEF Shape, Threads, None
<1>4. /\ Workers' = Workers /\ Balance(1)' = B1 /\ Balance(2)' = B2 /\ Opening \in Nat
      /\ \A t : From(t)' = From(t) /\ To(t)' = To(t) /\ Amount(t)' = Amount(t)
  BY <1>1, Fixed, LockProgramsAssumption DEF Balance
<1> USE <1>2, <1>3, <1>4 DEF HoldsFrom, HoldsTo
<1> DEFINE Of(t) ==
        /\ Place(t) \in HoldsFrom => owner[From(t)] = t
        /\ Place(t) \in HoldsTo => owner[To(t)] = t
        /\ Place(t) \in 5 .. 7 => mem[From(t)] >= Amount(t)
        /\ Place(t) = 7 => reg[t] = mem[From(t)]
        /\ Place(t) = 9 => reg[t] = mem[To(t)]
        /\ Place(t) \in {8, 9} => mem[B1] + mem[B2] + Amount(t) = 2 * Opening
<1> DEFINE Sound == /\ mem[B1] >= 0 /\ mem[B2] >= 0
                    /\ (\A t \in Workers : Place(t) \notin {8, 9}) => mem[B1] + mem[B2] = 2 * Opening
<1>5. TransferInv <=> (\A t \in Workers : Of(t)) /\ Sound
  BY <1>1 DEF TransferInv, Balances
<1>6. TransferInv' <=> (\A t \in Workers : Of(t)') /\ Sound'
  BY <1>1 DEF TransferInv, Balances
<1>7. (\A t \in Workers : Of(t)) /\ Sound
  BY <1>5
<1>8. SUFFICES (\A t \in Workers : Of(t)') /\ Sound'
  BY <1>6
<1>9. CASE Aside
  BY <1>1, <1>7, <1>9 DEF Aside, Elsewhere
<1>10. CASE \E t \in Workers : TransferStep(t)
  <2>1. PICK t \in Workers : TransferStep(t)
    BY <1>10
  <2>2. CASE Does(t, 1, 2) /\ Takes(t, From(t))
    BY <1>1, <1>7, <2>2 DEF Does, Takes
  <2>3. CASE Does(t, 2, 3) /\ Tests
    BY <1>1, <1>7, <2>3 DEF Does, Tests
  <2>4. CASE Does(t, 2, 5) /\ mem[From(t)] >= Amount(t) /\ Tests
    BY <1>1, <1>7, <2>4 DEF Does, Tests
  <2>5. CASE Does(t, 3, 4) /\ Gives(From(t))
    BY <1>1, <1>7, <2>5 DEF Does, Gives
  <2>6. CASE Does(t, 5, 6) /\ Takes(t, To(t))
    BY <1>1, <1>7, <2>6 DEF Does, Takes
  <2>7. CASE Does(t, 6, 7) /\ Reads(t, From(t))
    BY <1>1, <1>7, <2>7 DEF Does, Reads
  <2>8. CASE Does(t, 7, 8) /\ Writes(From(t), reg[t] + (-Amount(t)))
    BY <1>1, <1>7, <2>8 DEF Does, Writes
  <2>9. CASE Does(t, 8, 9) /\ Reads(t, To(t))
    BY <1>1, <1>7, <2>9 DEF Does, Reads
  <2>10. CASE Does(t, 9, 10) /\ Writes(To(t), reg[t] + Amount(t))
    BY <1>1, <1>7, <2>10 DEF Does, Writes
  <2>11. CASE Does(t, 10, 11) /\ Gives(From(t))
    BY <1>1, <1>7, <2>11 DEF Does, Gives
  <2>12. CASE Does(t, 11, 12) /\ Gives(To(t))
    BY <1>1, <1>7, <2>12 DEF Does, Gives
  <2>13. QED BY <1>9, <2>1, <2>2, <2>3, <2>4, <2>5, <2>6, <2>7, <2>8, <2>9, <2>10, <2>11, <2>12
         DEF TransferStep
<1>11. QED BY <1>9, <1>10

\* How deposit's steps, those of its version with the file-scope lock, and main()'s
\* are seen from the accounts.
LEMMA DepositTransfers ==
    ASSUME Shape, program = "deadlock", program' = program, NEW t \in Workers, DepositStep(t)
    PROVE  TransferStep(t)
<1>1. \A u \in Workers : Place(u) = pc[u] /\ Place(u)' = pc'[u]
  BY DEF Place
<1>2. \A a, b : Steps(t, a, b) => Does(t, a, b)
  <2>1. pc \in [Threads -> Nat] /\ \A u \in Workers : u \in Threads
    BY DEF Shape, Threads
  <2>2. QED BY <1>1, <2>1 DEF Steps, Does
<1>3. freed(t) # Balance(1) /\ freed(t) # Balance(2)
  BY DEF freed, Balance
<1>4. ASSUME Steps(t, 4, 13) /\ Tests PROVE Aside
  <2>1. Does(t, 4, 13)
    BY <1>2, <1>4
  <2>2. QED BY <1>4, <2>1 DEF Does, Aside, Elsewhere, Tests, HoldsFrom, HoldsTo
<1>5. ASSUME Steps(t, 12, 13) /\ Writes(freed(t), mem[freed(t)] + 1) PROVE Aside
  <2>1. Does(t, 12, 13)
    BY <1>2, <1>5
  <2>2. \A x \in {Balance(1), Balance(2)} : x \in Cells
    BY CellsAre
  <2>3. \A x \in {Balance(1), Balance(2)} : mem'[x] = mem[x]
    BY <1>3, <1>5, <2>2 DEF Writes, Shape
  <2>4. QED BY <1>5, <2>1, <2>3 DEF Does, Aside, Elsewhere, Writes, HoldsFrom, HoldsTo
<1>6. /\ (Steps(t, 1, 2) => Does(t, 1, 2)) /\ (Steps(t, 2, 3) => Does(t, 2, 3))
      /\ (Steps(t, 2, 5) => Does(t, 2, 5)) /\ (Steps(t, 3, 4) => Does(t, 3, 4))
      /\ (Steps(t, 5, 6) => Does(t, 5, 6)) /\ (Steps(t, 6, 7) => Does(t, 6, 7))
      /\ (Steps(t, 7, 8) => Does(t, 7, 8)) /\ (Steps(t, 8, 9) => Does(t, 8, 9))
      /\ (Steps(t, 9, 10) => Does(t, 9, 10)) /\ (Steps(t, 10, 11) => Does(t, 10, 11))
      /\ (Steps(t, 11, 12) => Does(t, 11, 12))
  BY <1>2
<1>7. QED BY <1>4, <1>5, <1>6 DEF DepositStep, TransferStep

\* The same of a step of deposit() in deadlock-filescope.c.
LEMMA FileScopeTransfers ==
    ASSUME Shape, program = "file_scope", program' = program, NEW t \in Workers,
           FileScopeStep(t)
    PROVE  TransferStep(t)
<1>1. \A u \in Workers :
        /\ Place(u) = IF pc[u] <= 4 THEN pc[u] - 1 ELSE IF pc[u] \in 5 .. 7 THEN 4 ELSE pc[u] - 3
        /\ Place(u)' = IF pc'[u] <= 4 THEN pc'[u] - 1
                       ELSE IF pc'[u] \in 5 .. 7 THEN 4 ELSE pc'[u] - 3
  BY DEF Place
<1>2. \A a, b : Steps(t, a, b) => /\ pc[t] = a /\ pc'[t] = b
                                  /\ \A u \in Workers \ {t} : pc'[u] = pc[u]
  BY DEF Shape, Threads, Steps
<1>3. \A a, b \in Nat : Steps(t, a, b) =>
            Does(t, IF a <= 4 THEN a - 1 ELSE IF a \in 5 .. 7 THEN 4 ELSE a - 3,
                    IF b <= 4 THEN b - 1 ELSE IF b \in 5 .. 7 THEN 4 ELSE b - 3)
  <2> SUFFICES ASSUME NEW a \in Nat, NEW b \in Nat, Steps(t, a, b)
               PROVE  Does(t, IF a <= 4 THEN a - 1 ELSE IF a \in 5 .. 7 THEN 4 ELSE a - 3,
                              IF b <= 4 THEN b - 1 ELSE IF b \in 5 .. 7 THEN 4 ELSE b - 3)
    OBVIOUS
  <2>1. pc[t] = a /\ pc'[t] = b /\ \A u \in Workers \ {t} : pc'[u] = pc[u]
    BY <1>2
  <2>2. \A u \in Workers \ {t} : Place(u)' = Place(u)
    BY <1>1, <2>1
  <2>3. QED BY <1>1, <2>1, <2>2 DEF Does
<1>4. /\ Steps(t, 1, 2) => Does(t, 0, 1)
      /\ Steps(t, 2, 3) => Does(t, 1, 2)
      /\ Steps(t, 3, 4) => Does(t, 2, 3)
      /\ Steps(t, 3, 8) => Does(t, 2, 5)
      /\ Steps(t, 4, 5) => Does(t, 3, 4)
      /\ Steps(t, 5, 6) => Does(t, 4, 4)
      /\ Steps(t, 6, 7) => Does(t, 4, 4)
      /\ Steps(t, 7, 17) => Does(t, 4, 14)
      /\ Steps(t, 8, 9) => Does(t, 5, 6)
      /\ Steps(t, 9, 10) => Does(t, 6, 7)
      /\ Steps(t, 10, 11) => Does(t, 7, 8)
      /\ Steps(t, 11, 12) => Does(t, 8, 9)
      /\ Steps(t, 12, 13) => Does(t, 9, 10)
      /\ Steps(t, 13, 14) => Does(t, 10, 11)
      /\ Steps(t, 14, 15) => Does(t, 11, 12)
      /\ Steps(t, 15, 16) => Does(t, 12, 13)
      /\ Steps(t, 16, 17) => Does(t, 13, 14)
  BY <1>1, <1>2, SMTT(60) DEF Does
<1>5. \A a \in {0, 4, 12, 13}, b \in {1, 4, 13, 14} : Does(t, a, b) /\ Elsewhere => Aside
  BY DEF Does, Aside, Elsewhere, HoldsFrom, HoldsTo
<1>6. /\ Tests => Elsewhere
      /\ Takes(t, deposit_lock) \/ Gives(deposit_lock) => Elsewhere
      /\ Writes(freed(t), mem[freed(t)] + 1) => Elsewhere
  <2>1. \A x \in {Balance(1), Balance(2)} : x \in Cells /\ x # deposit_lock /\ x # freed(t)
    BY CellsAre DEF Balance, deposit_lock, freed
  <2>2. QED BY <2>1 DEF Shape, Tests, Takes, Gives, Writes, Elsewhere
<1>7. \/ Steps(t, 1, 2) /\ Elsewhere
      \/ Steps(t, 2, 3) /\ Takes(t, From(t))
      \/ Steps(t, 3, 4) /\ Tests
      \/ Steps(t, 3, 8) /\ mem[From(t)] >= Amount(t) /\ Tests
      \/ Steps(t, 4, 5) /\ Gives(From(t))
      \/ Steps(t, 5, 6) /\ Elsewhere
      \/ Steps(t, 6, 7) /\ Elsewhere
      \/ Steps(t, 7, 17) /\ Elsewhere
      \/ Steps(t, 8, 9) /\ Takes(t, To(t))
      \/ Steps(t, 9, 10) /\ Reads(t, From(t))
      \/ Steps(t, 10, 11) /\ Writes(From(t), reg[t] + (-Amount(t)))
      \/ Steps(t, 11, 12) /\ Reads(t, To(t))
      \/ Steps(t, 12, 13) /\ Writes(To(t), reg[t] + Amount(t))
      \/ Steps(t, 13, 14) /\ Gives(From(t))
      \/ Steps(t, 14, 15) /\ Gives(To(t))
      \/ Steps(t, 15, 16) /\ Elsewhere
      \/ Steps(t, 16, 17) /\ Elsewhere
  BY <1>6, Zenon DEF FileScopeStep
<1>8. /\ Does(t, 0, 1) /\ Elsewhere => Aside
      /\ Does(t, 4, 4) /\ Elsewhere => Aside
      /\ Does(t, 4, 14) /\ Elsewhere => Aside
      /\ Does(t, 12, 13) /\ Elsewhere => Aside
      /\ Does(t, 13, 14) /\ Elsewhere => Aside
  BY <1>5
<1>9. \/ Aside
      \/ Does(t, 1, 2) /\ Takes(t, From(t))
      \/ Does(t, 2, 3) /\ Tests
      \/ Does(t, 2, 5) /\ mem[From(t)] >= Amount(t) /\ Tests
      \/ Does(t, 3, 4) /\ Gives(From(t))
      \/ Does(t, 5, 6) /\ Takes(t, To(t))
      \/ Does(t, 6, 7) /\ Reads(t, From(t))
      \/ Does(t, 7, 8) /\ Writes(From(t), reg[t] + (-Amount(t)))
      \/ Does(t, 8, 9) /\ Reads(t, To(t))
      \/ Does(t, 9, 10) /\ Writes(To(t), reg[t] + Amount(t))
      \/ Does(t, 10, 11) /\ Gives(From(t))
      \/ Does(t, 11, 12) /\ Gives(To(t))
  BY <1>4, <1>7, <1>8
<1>10. QED BY <1>9, Zenon DEF TransferStep

\* main() leaves accounts and locks alone, and moves no thread but to its first place.
LEMMA MainTransfers ==
    ASSUME Shape, Life, program \in {"deadlock", "file_scope"}, program' = program,
           transfers' = transfers, MainStep
    PROVE  Aside
<1>3. \A u \in Workers : pc'[u] = pc[u] \/ (pc[u] = 0 /\ pc'[u] = 1)
  BY MainStarts
<1>4. \A u \in Workers : \/ Place(u)' = Place(u)
                         \/ Place(u) \in {0, -1} /\ Place(u)' \in {0, 1}
  BY <1>3 DEF Place
<1>5. \A x \in {Balance(1), Balance(2)} : mem'[x] = mem[x] /\ owner'[x] = owner[x]
  <2>1. Tests \/ \E k \in Workers : Writes(freed(k), mem[freed(k)] + 1)
    BY DEF MainStep
  <2>2. \A x \in {Balance(1), Balance(2)} : x \in Cells /\ \A k : x # freed(k)
    BY CellsAre DEF Balance, freed
  <2>3. QED BY <2>1, <2>2 DEF Tests, Writes, Shape
<1>6. QED BY <1>4, <1>5, MainStarts DEF Aside, Elsewhere, HoldsFrom, HoldsTo

\* An argument is freed by its own thread alone, at the end of its way out.
LEMMA FreedKept ==
    ASSUME Shape, Shape', Life, UNCHANGED <<program, transfers>>, program = "file_scope",
           FreedInv, MainStep \/ \E t \in Workers : FileScopeStep(t)
    PROVE  FreedInv'
<1>1. N \in Nat /\ Workers = 1 .. N /\ Workers' = Workers
  BY CellsSuffice, Fixed DEF Shape
<1>2. \A t \in Workers : t \in Threads /\ freed(t) \in Cells
  BY <1>1, CellsAre DEF Threads
<1>3. \A t, u \in Workers : t # u => freed(t) # freed(u)
  BY DEF freed
<1>4. \A t \in Workers : freed(t) # Balance(1) /\ freed(t) # Balance(2)
  BY DEF freed, Balance
<1>5. pc \in [Threads -> Nat] /\ mem \in [Cells -> Int]
  BY DEF Shape
<1>6. CASE MainStep
  <2>1. mem' = mem
    BY <1>6 DEF MainStep, Tests
  <2>2. \A u \in Workers : pc'[u] = pc[u] \/ (pc[u] = 0 /\ pc'[u] = 1)
    BY <1>6, MainStarts
  <2>3. ASSUME NEW u \in Workers
        PROVE  /\ pc'[u] \in 0 .. 17
               /\ mem'[freed(u)] = IF pc'[u] \in {7, 17} THEN 1 ELSE 0
    BY <2>1, <2>2 DEF FreedInv
  <2>4. QED BY <1>1, <2>3 DEF FreedInv, freed
<1>7. CASE \E t \in Workers : FileScopeStep(t)
  <2>1. PICK t \in Workers : FileScopeStep(t)
    BY <1>7
  <2>2. From(t) \in {Balance(1), Balance(2)} /\ To(t) \in {Balance(1), Balance(2)}
    BY Accounts
  <2>3. ASSUME NEW u \in Workers PROVE mem'[freed(u)] = IF u = t /\ pc[t] \in {6, 16}
                                                        THEN mem[freed(u)] + 1 ELSE mem[freed(u)]
    <3>1. u # t => freed(u) # freed(t)
      BY <1>3
    <3>2. freed(u) # From(t) /\ freed(u) # To(t) /\ freed(u) \in Cells
      BY <1>2, <1>4, <2>2
    <3>3. QED BY <1>5, <2>1, <3>1, <3>2 DEF FileScopeStep, Steps, Tests, Takes, Gives, Reads, Writes
  <2>4. \A u \in Workers \ {t} : pc'[u] = pc[u]
    BY <1>2, <1>5, <2>1 DEF FileScopeStep, Steps
  <2>5. \/ pc[t] = 6 /\ pc'[t] = 7
        \/ pc[t] = 16 /\ pc'[t] = 17
        \/ pc[t] = 7 /\ pc'[t] = 17
        \/ pc[t] \notin {6, 7, 16, 17} /\ pc'[t] \in 0 .. 16 \ {7}
    BY <1>2, <1>5, <2>1 DEF FileScopeStep, Steps
  <2>6. ASSUME NEW u \in Workers
        PROVE  /\ pc'[u] \in 0 .. 17
               /\ mem'[freed(u)] = IF pc'[u] \in {7, 17} THEN 1 ELSE 0
    BY <2>3, <2>4, <2>5 DEF FreedInv
  <2>7. QED BY <1>1, <2>6 DEF FreedInv, freed
<1>8. QED BY <1>6, <1>7

\* No program writes the accounts but the two that have them, nor the matrix but its own.
LEMMA UnusedKept ==
    ASSUME Shape, Unused, UNCHANGED <<program, transfers>>,
           MainStep \/ \E t \in Workers : Executes(t)
    PROVE  Unused'
<1> DEFINE Others == {x \in Cells : x[1] \notin {"balance", "C"}}
<1> DEFINE SameBalances == \A x \in {Balance(1), Balance(2)} : mem'[x] = mem[x]
<1> DEFINE SameC == \A r \in 0 .. SIZE - 1 : mem'[C(r)] = mem[C(r)]
<1>1. /\ \A x \in {Balance(1), Balance(2)} : x \in Cells /\ x[1] = "balance"
      /\ \A r \in 0 .. SIZE - 1 : C(r) \in Cells
      /\ \A r : C(r)[1] = "C"
  <2>1. \A r \in 0 .. SIZE - 1 : r \in 0 .. SIZE
    BY LockProgramsAssumption
  <2>2. QED BY <2>1, CellsAre DEF Balance, C
<1>2. mem \in [Cells -> Int]
  BY DEF Shape
<1>3. SUFFICES /\ program \notin {"deadlock", "file_scope"} => SameBalances
               /\ program # "matrix" => SameC
  BY DEF Unused, Balance, C
<1>4. ASSUME NEW x, NEW v, Writes(x, v), x[1] \notin {"balance", "C"}
      PROVE  SameBalances /\ SameC
  BY <1>1, <1>2, <1>4 DEF Writes
<1>5. ASSUME NEW x, NEW v, Writes(x, v), x[1] = "balance"
      PROVE  SameC
  BY <1>1, <1>2, <1>5 DEF Writes
<1>6. ASSUME NEW x, NEW v, Writes(x, v), x[1] = "C"
      PROVE  SameBalances
  BY <1>1, <1>2, <1>6 DEF Writes
<1>7. mem' = mem => SameBalances /\ SameC
  OBVIOUS
<1>8. ASSUME Tests \/ (\E t, x : Takes(t, x)) \/ (\E x : Gives(x)) \/ (\E t, x : Reads(t, x))
      PROVE  mem' = mem
  BY <1>8 DEF Tests, Takes, Gives, Reads
<1>9. /\ \A t : freed(t)[1] = "freed" /\ next(t)[1] = "next"
      /\ total_bytes[1] = "total_bytes" /\ current_row[1] = "current_row"
      /\ task_available[1] = "task_available" /\ threads_ready[1] = "threads_ready"
      /\ counter[1] = "counter"
  BY DEF freed, next, total_bytes, current_row, task_available, threads_ready, counter
<1>10. /\ \A t, v : Writes(freed(t), v) => SameBalances /\ SameC
       /\ \A t, v : Writes(next(t), v) => SameBalances /\ SameC
       /\ \A v : Writes(total_bytes, v) => SameBalances /\ SameC
       /\ \A v : Writes(current_row, v) => SameBalances /\ SameC
       /\ \A v : Writes(task_available, v) => SameBalances /\ SameC
       /\ \A v : Writes(threads_ready, v) => SameBalances /\ SameC
       /\ \A v : Writes(counter, v) => SameBalances /\ SameC
       /\ \A r, v : Writes(C(r), v) => SameBalances
  BY <1>1, <1>4, <1>6, <1>9
<1>11. /\ Tests => SameBalances /\ SameC
       /\ \A t, x : Takes(t, x) => SameBalances /\ SameC
       /\ \A x : Gives(x) => SameBalances /\ SameC
       /\ \A t, x : Reads(t, x) => SameBalances /\ SameC
  BY <1>7, <1>8
<1> HIDE DEF SameBalances, SameC
<1>12. CASE MainStep
  BY <1>10, <1>11, <1>12 DEF MainStep
<1>13. CASE \E t \in Workers : Executes(t)
  <2>1. PICK t \in Workers : Executes(t)
    BY <1>13
  <2>2. CASE program \in {"deadlock", "file_scope"}
    <3>1. \A v : /\ Writes(From(t), v) => SameC
                 /\ Writes(To(t), v) => SameC
      BY <1>1, <1>5, <2>2, Accounts
    <3>2. DepositStep(t) \/ FileScopeStep(t)
      BY <2>1, <2>2, DepositSteps, FileScopeSteps
    <3>3. SameC
      BY <1>10, <1>11, <3>1, <3>2 DEF DepositStep, FileScopeStep
    <3>4. QED BY <2>2, <3>3
  <2>3. CASE program = "hash_logger"
    BY <1>10, <1>11, <2>1, <2>3, HashSteps DEF HashStep
  <2>4. CASE program = "matrix"
    BY <1>10, <1>11, <2>1, <2>4, MatrixSteps DEF MatrixStep
  <2>5. CASE program = "condition"
    BY <1>10, <1>11, <2>1, <2>5, WorkSteps DEF WorkStep
  <2>6. CASE program = "counter"
    BY <1>10, <1>11, <2>1, <2>6, CounterSteps DEF CounterStep
  <2>7. CASE program = "list"
    BY <1>10, <1>11, <2>1, <2>7, InsertSteps DEF InsertStep
  <2>8. QED BY <2>2, <2>3, <2>4, <2>5, <2>6, <2>7 DEF Shape, Kinds
<1>14. QED BY <1>12, <1>13

\* When t has stored too, the total is larger by its file.
Grows(F, D, t) ==
    \E G \in [0 .. N -> Int] : Totals(G, D \cup {t}) /\ G[N] = F[N] + Sizes[t]

\* One thread more has stored its part.
LEMMA TotalsGrow ==
    ASSUME N \in Nat, Sizes \in Seq(Nat), N = Len(Sizes), NEW D, NEW F, Totals(F, D),
           NEW t \in 1 .. N, t \notin D
    PROVE  Grows(F, D, t)
<1>1. \A i \in 1 .. N : Sizes[i] \in Nat
  BY ElementOfSeq
<1> DEFINE G == [i \in 0 .. N |-> F[i] + IF i >= t THEN Sizes[t] ELSE 0]
<1>2. /\ F \in [0 .. N -> Int] /\ F[0] = 0
      /\ \A i \in 1 .. N : F[i] = F[i - 1] + IF i \in D THEN Sizes[i] ELSE 0
  BY DEF Totals
<1>3. G \in [0 .. N -> Int]
  BY <1>1, <1>2
<1>4. G[0] = 0 /\ G[N] = F[N] + Sizes[t]
  BY <1>2
<1>5. ASSUME NEW i \in 1 .. N
      PROVE  G[i] = G[i - 1] + IF i \in D \cup {t} THEN Sizes[i] ELSE 0
  <2>1. /\ i - 1 \in 0 .. N /\ i \in 0 .. N /\ F[i] \in Int /\ F[i - 1] \in Int
        /\ Sizes[i] \in Nat /\ Sizes[t] \in Nat
    <3>1. i - 1 \in 0 .. N /\ i \in 0 .. N
      OBVIOUS
    <3>2. Sizes[i] \in Nat /\ Sizes[t] \in Nat
      BY <1>1
    <3> HIDE DEF G
    <3>3. QED BY <1>2, <3>1, <3>2
  <2>2. /\ G[i] = F[i] + IF i >= t THEN Sizes[t] ELSE 0
        /\ G[i - 1] = F[i - 1] + IF i - 1 >= t THEN Sizes[t] ELSE 0
    BY <2>1
  <2>3. F[i] = F[i - 1] + IF i \in D THEN Sizes[i] ELSE 0
    BY <1>2
  <2> HIDE DEF G
  <2>4. CASE i = t
    BY <2>1, <2>2, <2>3, <2>4
  <2>5. CASE i # t
    <3>1. i >= t <=> i - 1 >= t
      BY <2>5
    <3>2. i \in D \cup {t} <=> i \in D
      BY <2>5
    <3>3. QED BY <2>1, <2>2, <2>3, <3>1, <3>2
  <2>6. QED BY <2>4, <2>5
<1>6. Totals(G, D \cup {t})
  <2> HIDE DEF G
  <2>1. QED BY <1>3, <1>4, <1>5 DEF Totals
<1>7. QED
  <2> HIDE DEF G
  <2>1. QED BY <1>3, <1>4, <1>6 DEF Grows

\* The part of all of them is the size of all files.
LEMMA TotalsOfAll ==
    ASSUME N \in Nat, Sizes \in Seq(Nat), N = Len(Sizes), NEW F, Totals(F, 1 .. N)
    PROVE  F[N] = TotalSize
<1>1. /\ F \in [0 .. N -> Int] /\ F[0] = 0
      /\ \A i \in 1 .. N : F[i] = F[i - 1] + Sizes[i]
  BY DEF Totals
<1> DEFINE Sum(f) == f = [n \in 0 .. N |-> IF n = 0 THEN 0 ELSE f[n - 1] + Sizes[n]]
<1>2. Sum(F)
  <2>1. \A n \in 0 .. N : F[n] = IF n = 0 THEN 0 ELSE F[n - 1] + Sizes[n]
    BY <1>1
  <2>2. QED BY <1>1, <2>1
<1>3. PICK f : f = CHOOSE g : Sum(g)
  OBVIOUS
<1>4. Sum(f)
  BY <1>2, <1>3
<1>5. TotalSize = f[N]
  BY <1>3 DEF TotalSize
<1>6. f[0] = 0 /\ \A n \in 1 .. N : f[n] = f[n - 1] + Sizes[n]
  <2>1. 0 \in 0 .. N /\ \A n \in 1 .. N : n \in 0 .. N /\ n # 0
    OBVIOUS
  <2>2. \A n \in 0 .. N : f[n] = IF n = 0 THEN 0 ELSE f[n - 1] + Sizes[n]
    BY <1>4
  <2>3. QED BY <2>1, <2>2
<1> HIDE DEF Sum
<1>7. \A n \in 0 .. N : n \in {m \in 0 .. N : f[m] = F[m]}
  <2>1. 0 \in {m \in 0 .. N : f[m] = F[m]}
    BY <1>1, <1>6
  <2>2. ASSUME NEW n \in 0 .. N - 1, n \in {m \in 0 .. N : f[m] = F[m]}
        PROVE  n + 1 \in {m \in 0 .. N : f[m] = F[m]}
    <3>1. n + 1 \in 1 .. N /\ n + 1 \in 0 .. N /\ (n + 1) - 1 = n
      OBVIOUS
    <3>2. f[n + 1] = f[n] + Sizes[n + 1] /\ F[n + 1] = F[n] + Sizes[n + 1]
      BY <1>1, <1>6, <3>1
    <3>3. QED BY <2>2, <3>1, <3>2
  <2>3. QED BY <2>1, <2>2, SetInduction
<1>8. QED BY <1>5, <1>7

\* The total is read and stored under the lock: every part is added once.
LEMMA HashKept ==
    ASSUME Shape, Shape', Life, UNCHANGED <<program, transfers>>, program = "hash_logger",
           HashInv, MainStep \/ \E t \in Workers : HashStep(t)
    PROVE  HashInv'
<1>1. /\ N \in Nat /\ Workers = 1 .. N /\ Workers' = Workers /\ N' = N
      /\ N = Len(Sizes) /\ Sizes \in Seq(Nat) /\ \A t \in Workers : Sizes[t] \in Nat
  <2>1. N \in Nat /\ Workers = 1 .. N /\ Workers' = Workers /\ N' = N
    BY CellsSuffice, Fixed DEF Shape
  <2>2. N = Len(Sizes) /\ Sizes \in Seq(Nat)
    BY LockProgramsAssumption DEF N
  <2>3. QED BY <2>1, <2>2, ElementOfSeq
<1>2. /\ pc \in [Threads -> Nat] /\ mem \in [Cells -> Int] /\ reg \in [Threads -> Int]
      /\ owner \in [Cells -> Threads \cup {None}]
      /\ \A t \in Workers : t \in Threads /\ t # None
      /\ stats_mutex \in Cells /\ total_bytes \in Cells /\ log_mutex # stats_mutex
  <2>1. log_mutex # stats_mutex
    BY DEF log_mutex, stats_mutex
  <2>2. \A t \in Workers : t \in Threads /\ t # None
    BY <1>1 DEF Threads, None
  <2>3. stats_mutex \in Cells /\ total_bytes \in Cells
    BY CellsAre
  <2>4. QED BY <2>1, <2>2, <2>3 DEF Shape
<1>3. /\ stats_mutex' = stats_mutex /\ total_bytes' = total_bytes
      /\ Stored' = {t \in Workers : pc'[t] > 4}
  BY <1>1 DEF stats_mutex, total_bytes, Stored
<1>4. PICK F \in [0 .. N -> Int] : Totals(F, Stored) /\ mem[total_bytes] = F[N]
  BY DEF HashInv
<1> DEFINE Locked(t) == /\ pc[t] \in 2 .. 6 => owner[stats_mutex] = t
                        /\ pc[t] = 4 => reg[t] = mem[total_bytes]
<1>5. \A t \in Workers : Locked(t)
  BY DEF HashInv
<1>6. SUFFICES /\ \A t \in Workers : Locked(t)'
               /\ \E G \in [0 .. N -> Int] : Totals(G, Stored') /\ mem'[total_bytes] = G[N]
  BY <1>1, <1>3 DEF HashInv, Totals
<1>7. CASE MainStep
  <2>1. /\ \A u \in Workers : pc'[u] = pc[u] \/ (pc[u] = 0 /\ pc'[u] = 1)
        /\ mem' = mem /\ owner' = owner /\ reg' = reg
    BY <1>7, MainStarts DEF MainStep, Tests
  <2>2. Stored' = Stored
    BY <1>3, <2>1 DEF Stored
  <2>3. \A u \in Workers : Locked(u)'
    BY <1>3, <1>5, <2>1
  <2>4. \E G \in [0 .. N -> Int] : Totals(G, Stored') /\ mem'[total_bytes] = G[N]
    BY <1>4, <2>1, <2>2
  <2>5. QED BY <2>3, <2>4
<1>8. CASE \E t \in Workers : HashStep(t)
  <2>1. PICK t \in Workers : HashStep(t)
    BY <1>8
  <2>2. \A u \in Workers \ {t} : pc'[u] = pc[u]
    BY <1>2, <2>1 DEF HashStep, Steps
  <2>3. CASE Steps(t, 4, 5) /\ Writes(total_bytes, reg[t] + Sizes[t])
    <3>1. pc[t] = 4 /\ pc'[t] = 5
      BY <1>2, <2>3 DEF Steps
    <3>2. mem'[total_bytes] = F[N] + Sizes[t] /\ owner' = owner /\ reg' = reg
      BY <1>2, <1>4, <1>5, <2>3, <3>1 DEF Writes
    <3>3. \A u \in Workers : Locked(u)'
      BY <1>2, <1>3, <1>5, <2>2, <3>1, <3>2
    <3>4. Stored' = Stored \cup {t} /\ t \notin Stored
      BY <1>3, <2>2, <3>1 DEF Stored
    <3>5. \E G \in [0 .. N -> Int] : Totals(G, Stored \cup {t}) /\ G[N] = F[N] + Sizes[t]
      <4>1. t \in 1 .. N /\ Totals(F, Stored)
        BY <1>1, <1>4
      <4>2. PICK D : D = Stored
        OBVIOUS
      <4>3. N \in Nat /\ Sizes \in Seq(Nat) /\ N = Len(Sizes) /\ Totals(F, D) /\ t \notin D
        BY <1>1, <3>4, <4>1, <4>2
      <4>4. Grows(F, D, t)
        BY <4>1, <4>3, TotalsGrow
      <4>5. QED BY <4>2, <4>4 DEF Grows
    <3>6. \E G \in [0 .. N -> Int] : Totals(G, Stored') /\ mem'[total_bytes] = G[N]
      BY <3>2, <3>4, <3>5
    <3>7. QED BY <3>3, <3>6
  <2>4. CASE ~ Steps(t, 4, 5)
    <3>1. pc[t] # 4 /\ mem' = mem /\ (pc[t] > 4 <=> pc'[t] > 4)
      BY <1>2, <2>1, <2>4 DEF HashStep, Steps, Takes, Gives, Reads
    <3>2. Stored' = Stored
      BY <1>3, <2>2, <3>1 DEF Stored
    <3>3. \A u \in Workers : Locked(u)'
      BY <1>2, <1>3, <1>5, <2>1, <2>2, <2>4 DEF HashStep, Steps, Takes, Gives, Reads
    <3>4. \E G \in [0 .. N -> Int] : Totals(G, Stored') /\ mem'[total_bytes] = G[N]
      BY <1>4, <3>1, <3>2
    <3>5. QED BY <3>3, <3>4
  <2>5. QED BY <2>1, <2>3, <2>4 DEF HashStep, Steps
<1>9. QED BY <1>7, <1>8

-----------------------------------------------------------------------------
\* A thread enters or leaves the stretch between the two changes it makes to
\* threads_ready together with the change.
LEMMA ReadyKept ==
    ASSUME Shape, Shape', Life, UNCHANGED <<program, transfers>>, program = "condition",
           ReadyInv, MainStep \/ \E t \in Workers : WorkStep(t)
    PROVE  ReadyInv'
<1>1. /\ N \in Nat /\ Workers = 1 .. N /\ Workers' = Workers
      /\ \A t \in Workers : t \in Threads
  BY CellsSuffice, Fixed DEF Shape, Threads
<1>2. pc \in [Threads -> Nat] /\ mem \in [Cells -> Int]
  BY DEF Shape
<1>3. threads_ready \in Cells
  BY CellsAre
<1>4. PICK S, T : S = {t \in Workers : pc[t] \in 2 .. 6} /\ T = {t \in Workers : pc'[t] \in 2 .. 6}
  OBVIOUS
<1>5. IsFiniteSet(S) /\ Cardinality(S) \in Nat
  <2>1. IsFiniteSet(Workers) /\ S \subseteq Workers
    BY <1>1, <1>4, FS_Interval
  <2>2. QED BY <2>1, FS_Subset, FS_CardinalityType
<1>6. mem[threads_ready] = Cardinality(S)
  BY <1>4 DEF ReadyInv
<1>7. SUFFICES mem'[threads_ready] = Cardinality(T)
  BY <1>1, <1>4 DEF ReadyInv, threads_ready
<1>8. CASE MainStep
  <2>1. \A u \in Workers : pc'[u] = pc[u] \/ (pc[u] = 0 /\ pc'[u] = 1)
    BY <1>8, MainStarts
  <2>2. S = T
    BY <1>4, <2>1
  <2>3. mem' = mem
    BY <1>8 DEF MainStep, Tests, Takes, Gives
  <2>4. QED BY <1>6, <2>2, <2>3
<1>9. CASE \E t \in Workers : WorkStep(t)
  <2>1. PICK t \in Workers : WorkStep(t)
    BY <1>9
  <2>2. \A u \in Workers \ {t} : pc'[u] = pc[u]
    BY <1>1, <1>2, <2>1 DEF WorkStep, Steps
  <2>3. CASE Steps(t, 1, 2) /\ Writes(threads_ready, mem[threads_ready] + 1)
    <3>1. pc[t] = 1 /\ pc'[t] = 2
      BY <1>1, <1>2, <2>3 DEF Steps
    <3>2. T = S \cup {t} /\ t \notin S
      BY <1>4, <2>2, <3>1
    <3>3. mem'[threads_ready] = mem[threads_ready] + 1
      BY <1>2, <1>3, <2>3 DEF Writes
    <3>4. QED BY <1>5, <1>6, <3>2, <3>3, FS_AddElement
  <2>4. CASE Steps(t, 6, 7) /\ Writes(threads_ready, mem[threads_ready] + (-1))
    <3>1. pc[t] = 6 /\ pc'[t] = 7
      BY <1>1, <1>2, <2>4 DEF Steps
    <3>2. T = S \ {t} /\ t \in S
      BY <1>4, <2>2, <3>1
    <3>3. mem'[threads_ready] = mem[threads_ready] + (-1)
      BY <1>2, <1>3, <2>4 DEF Writes
    <3>4. QED BY <1>5, <1>6, <3>2, <3>3, FS_RemoveElement
  <2>5. CASE ~ Steps(t, 1, 2) /\ ~ Steps(t, 6, 7)
    <3>1. mem' = mem /\ pc[t] \in 2 .. 5 /\ pc'[t] \in 3 .. 6
      BY <1>1, <1>2, <2>1, <2>5 DEF WorkStep, Steps, Takes, Gives
    <3>2. S = T
      BY <1>4, <2>2, <3>1
    <3>3. QED BY <1>6, <3>1, <3>2
  <2>6. QED BY <2>1, <2>3, <2>4, <2>5 DEF WorkStep, Steps
<1>10. QED BY <1>8, <1>9

\* The counter is read and stored under the lock: every turn of the loop counts once.
LEMMA CounterKept ==
    ASSUME Shape, Shape', Life, UNCHANGED <<program, transfers>>, program = "counter",
           CounterInv, MainStep \/ \E t \in Workers : CounterStep(t)
    PROVE  CounterInv'
<1>1. /\ N \in Nat /\ Workers = 1 .. N /\ Workers' = Workers /\ Increments \in Nat
      /\ \A t \in Workers : t \in Threads /\ t # None
  BY CellsSuffice, Fixed, LockProgramsAssumption DEF Shape, Threads, None
<1>2. /\ pc \in [Threads -> Nat] /\ mem \in [Cells -> Int] /\ reg \in [Threads -> Int]
      /\ owner \in [Cells -> Threads \cup {None}]
  BY DEF Shape
<1>3. counter_lock \in Cells /\ counter \in Cells
  BY CellsAre
<1>4. counter_lock' = counter_lock /\ counter' = counter
  BY DEF counter_lock, counter
<1>5. PICK S, T : /\ S = {t \in Workers : pc[t] > 2 * Increments + 1}
                  /\ T = {t \in Workers : pc'[t] > 2 * Increments + 1}
  OBVIOUS
<1>6. IsFiniteSet(S) /\ Cardinality(S) \in Nat
  <2>1. IsFiniteSet(Workers) /\ S \subseteq Workers
    BY <1>1, <1>5, FS_Interval
  <2>2. QED BY <2>1, FS_Subset, FS_CardinalityType
<1>7. PICK a, b : a = Counted /\ b = Counted'
  OBVIOUS
<1>8. a = Increments * Cardinality(S) /\ b = Increments * Cardinality(T) /\ a \in Int
  BY <1>1, <1>5, <1>6, <1>7 DEF Counted
<1> DEFINE Of(t, n) ==
        /\ pc[t] \in 2 .. 2 * Increments + 2 => owner[counter_lock] = t
        /\ \A k \in 1 .. Increments :
            /\ pc[t] = 2 * k => mem[counter] = n + k - 1
            /\ pc[t] = 2 * k + 1 => mem[counter] = n + k - 1 /\ reg[t] = mem[counter]
<1> DEFINE Sound(n) ==
        (\A t \in Workers : pc[t] \notin 2 .. 2 * Increments + 1) => mem[counter] = n
<1>9. (\A t \in Workers : Of(t, a)) /\ Sound(a)
  BY <1>7 DEF CounterInv
<1>10. SUFFICES (\A t \in Workers : Of(t, b)') /\ Sound(b)'
  BY <1>1, <1>4, <1>7 DEF CounterInv
<1>11. CASE MainStep
  <2>1. \A u \in Workers : pc'[u] = pc[u] \/ (pc[u] = 0 /\ pc'[u] = 1)
    BY <1>11, MainStarts
  <2>2. S = T
    BY <1>1, <1>5, <2>1
  <2>3. mem' = mem /\ owner' = owner /\ reg' = reg /\ a = b
    BY <1>8, <1>11, <2>2 DEF MainStep, Tests
  <2>4. QED BY <1>1, <1>4, <1>9, <2>1, <2>3
<1>12. CASE \E t \in Workers : CounterStep(t)
  <2>1. PICK t \in Workers : CounterStep(t)
    BY <1>12
  <2>2. \A u \in Workers \ {t} : pc'[u] = pc[u]
    BY <1>1, <1>2, <2>1 DEF CounterStep, Steps
  <2>3. CASE Steps(t, 1, 2) /\ Takes(t, counter_lock)
    <3>1. pc[t] = 1 /\ pc'[t] = 2 /\ mem' = mem /\ reg' = reg /\ owner'[counter_lock] = t
      BY <1>1, <1>2, <1>3, <2>3 DEF Steps, Takes
    <3>2. \A u \in Workers : pc[u] \notin 2 .. 2 * Increments + 2
      BY <1>1, <1>9, <2>3 DEF Takes
    <3>3. mem[counter] = a
      BY <1>1, <1>9, <3>2
    <3>4. a = b
      <4>1. CASE Increments = 0
        <5>1. IsFiniteSet(Workers) /\ T \subseteq Workers
          BY <1>1, <1>5, FS_Interval
        <5>2. Cardinality(T) \in Nat
          BY <5>1, FS_Subset, FS_CardinalityType
        <5>3. QED BY <1>6, <1>8, <4>1, <5>2
      <4>2. CASE Increments # 0
        <5>1. S = T
          BY <1>1, <1>5, <2>2, <3>1, <4>2
        <5>2. QED BY <1>8, <5>1
      <4>3. QED BY <4>1, <4>2
    <3>5. Of(t, b)'
      BY <1>1, <1>4, <1>8, <3>1, <3>3, <3>4
    <3>6. \A u \in Workers \ {t} : Of(u, b)'
      BY <1>1, <2>2, <3>2
    <3>7. Sound(b)'
      BY <1>4, <3>1, <3>3, <3>4
    <3>8. QED BY <3>5, <3>6, <3>7
  <2>4. CASE \E k \in 1 .. Increments : Steps(t, 2 * k, 2 * k + 1) /\ Reads(t, counter)
    <3>1. PICK k \in 1 .. Increments : Steps(t, 2 * k, 2 * k + 1) /\ Reads(t, counter)
      BY <2>4
    <3>2. /\ pc[t] = 2 * k /\ pc'[t] = 2 * k + 1 /\ mem' = mem /\ owner' = owner
          /\ reg'[t] = mem[counter]
      BY <1>1, <1>2, <3>1 DEF Steps, Reads
    <3>3. owner[counter_lock] = t /\ mem[counter] = a + k - 1
      BY <1>1, <1>9, <3>2
    <3>4. \A u \in Workers \ {t} : pc[u] \notin 2 .. 2 * Increments + 2
      BY <1>9, <3>3
    <3>5. a = b
      <4>1. S = T
        BY <1>1, <1>5, <2>2, <3>2
      <4>2. QED BY <1>8, <4>1
    <3>6. Of(t, b)'
      BY <1>1, <1>4, <1>8, <3>2, <3>3, <3>5
    <3>7. \A u \in Workers \ {t} : Of(u, b)'
      BY <1>1, <2>2, <3>4
    <3>8. Sound(b)'
      BY <1>1, <3>2
    <3>9. QED BY <3>6, <3>7, <3>8
  <2>5. CASE \E k \in 1 .. Increments : /\ Steps(t, 2 * k + 1, 2 * k + 2)
                                        /\ Writes(counter, reg[t] + 1)
    <3>1. PICK k \in 1 .. Increments : /\ Steps(t, 2 * k + 1, 2 * k + 2)
                                       /\ Writes(counter, reg[t] + 1)
      BY <2>5
    <3>2. /\ pc[t] = 2 * k + 1 /\ pc'[t] = 2 * k + 2 /\ mem'[counter] = reg[t] + 1
          /\ owner' = owner /\ reg' = reg
      BY <1>1, <1>2, <1>3, <3>1 DEF Steps, Writes
    <3>3. owner[counter_lock] = t /\ mem[counter] = a + k - 1 /\ reg[t] = mem[counter]
      BY <1>1, <1>9, <3>2
    <3>4. \A u \in Workers \ {t} : pc[u] \notin 2 .. 2 * Increments + 2
      BY <1>9, <3>3
    <3>5. mem'[counter] = a + k
      BY <1>8, <3>2, <3>3
    <3>6. \A u \in Workers \ {t} : Of(u, b)'
      BY <1>1, <2>2, <3>4
    <3>7. CASE k = Increments
      <4>1. T = S \cup {t} /\ t \notin S
        BY <1>1, <1>5, <2>2, <3>2, <3>7
      <4>2. Cardinality(T) = Cardinality(S) + 1
        BY <1>6, <4>1, FS_AddElement
      <4>3. b = a + k
        BY <1>1, <1>6, <1>8, <3>7, <4>2
      <4>4. Of(t, b)'
        BY <1>1, <1>4, <3>2, <3>3, <3>7
      <4>5. Sound(b)'
        BY <1>4, <3>5, <4>3
      <4>6. QED BY <3>6, <4>4, <4>5
    <3>8. CASE k # Increments
      <4>1. S = T
        BY <1>1, <1>5, <2>2, <3>2, <3>8
      <4>2. a = b
        BY <1>8, <4>1
      <4>3. Of(t, b)'
        <5>1. \A j \in 1 .. Increments : pc'[t] # 2 * j + 1 /\ (pc'[t] = 2 * j => j = k + 1)
          BY <3>2
        <5>2. owner'[counter_lock] = t /\ \A j \in 1 .. Increments :
                                            j = k + 1 => mem'[counter] = b + j - 1
          BY <1>8, <3>2, <3>3, <3>5, <4>2
        <5>3. QED BY <1>4, <5>1, <5>2
      <4>4. Sound(b)'
        BY <1>1, <3>2, <3>8
      <4>5. QED BY <3>6, <4>3, <4>4
    <3>9. QED BY <3>7, <3>8
  <2>6. CASE Steps(t, 2 * Increments + 2, 2 * Increments + 3) /\ Gives(counter_lock)
    <3>1. /\ pc[t] = 2 * Increments + 2 /\ pc'[t] = 2 * Increments + 3 /\ mem' = mem
          /\ reg' = reg
      BY <1>1, <1>2, <2>6 DEF Steps, Gives
    <3>2. owner[counter_lock] = t
      BY <1>1, <1>9, <3>1
    <3>3. \A u \in Workers \ {t} : pc[u] \notin 2 .. 2 * Increments + 2
      BY <1>9, <3>2
    <3>4. mem[counter] = a
      BY <1>1, <1>9, <3>1, <3>3
    <3>5. a = b
      <4>1. S = T
        BY <1>1, <1>5, <2>2, <3>1
      <4>2. QED BY <1>8, <4>1
    <3>6. Of(t, b)'
      BY <1>1, <3>1
    <3>7. \A u \in Workers \ {t} : Of(u, b)'
      BY <1>1, <2>2, <3>3
    <3>8. Sound(b)'
      BY <1>4, <3>1, <3>4, <3>5
    <3>9. QED BY <3>6, <3>7, <3>8
  <2>7. QED BY <2>1, <2>3, <2>4, <2>5, <2>6 DEF CounterStep
<1>13. QED BY <1>11, <1>12

\* A walk along the list stays one while none of the pointers it follows is written.
LEMMA WalkStays ==
    ASSUME N \in Nat, NEW S \in SUBSET (1 .. N),
           NEW m \in Nat, NEW f \in [0 .. m -> 0 .. N], Walk(f, m, S),
           \A x \in S \cup {0} : mem'[next(x)] = mem[next(x)]
    PROVE  Walk(f, m, S)'
<1>1. \A i \in 0 .. m : f[i] \in S \cup {0}
  BY DEF Walk
<1>2. \A i \in 1 .. m : i - 1 \in 0 .. m
  OBVIOUS
<1>3. mem'[next(f[m])] = 0
  BY <1>1 DEF Walk
<1>4. \A i \in 1 .. m : f[i] \in S /\ f[i] = mem'[next(f[i - 1])]
  BY <1>1, <1>2 DEF Walk
<1>5. \A x : next(x)' = next(x)
  BY DEF next
<1>6. QED BY <1>3, <1>4, <1>5 DEF Walk

\* A node is linked behind the head with what was behind it.
LEMMA WalkGrows ==
    ASSUME N \in Nat, NEW S \in SUBSET (1 .. N), NEW t \in 1 .. N, t \notin S,
           NEW m \in Nat, NEW f \in [0 .. m -> 0 .. N], Walk(f, m, S),
           mem[next(t)] = mem[next(0)], mem'[next(0)] = t,
           \A x \in 1 .. N : mem'[next(x)] = mem[next(x)]
    PROVE  \E g \in [0 .. m + 1 -> 0 .. N] : Walk(g, m + 1, S \cup {t})'
<1> DEFINE g == [i \in 0 .. m + 1 |-> IF i = 0 THEN 0 ELSE IF i = 1 THEN t ELSE f[i - 1]]
<1>1. /\ f[0] = 0 /\ \A i \in 1 .. m : f[i] \in S /\ f[i] = mem[next(f[i - 1])]
      /\ mem[next(f[m])] = 0
      /\ \A i, j \in 0 .. m : f[i] = f[j] => i = j
      /\ \A x \in S : \E i \in 1 .. m : f[i] = x
  BY DEF Walk
<1>2. \A i \in 2 .. m + 1 : i - 1 \in 1 .. m /\ i - 1 \in 0 .. m /\ i - 1 # 0
  OBVIOUS
<1>3. g \in [0 .. m + 1 -> 0 .. N]
  BY <1>2
<1>4. g[0] = 0 /\ g[1] = t /\ \A i \in 2 .. m + 1 : g[i] = f[i - 1]
  OBVIOUS
<1> HIDE DEF g
<1>5. ASSUME NEW i \in 1 .. m + 1
      PROVE  g[i] \in S \cup {t} /\ g[i] = mem'[next(g[i - 1])]
  <2>1. CASE i = 1
    BY <1>4, <2>1
  <2>2. CASE i = 2
    <3>1. 1 \in 1 .. m /\ 2 \in 2 .. m + 1
      BY <2>2
    <3>2. f[1] = mem[next(0)] /\ f[1] \in S
      BY <1>1, <3>1
    <3>3. g[2] = f[1] /\ g[1] = t
      BY <1>4, <3>1
    <3>4. QED BY <2>2, <3>2, <3>3
  <2>3. CASE i > 2
    <3>1. /\ i \in 2 .. m + 1 /\ i - 1 \in 2 .. m + 1
          /\ i - 1 \in 1 .. m /\ (i - 1) - 1 \in 1 .. m
      BY <2>3
    <3>2. g[i] = f[i - 1] /\ g[i - 1] = f[(i - 1) - 1]
      BY <1>4, <3>1
    <3>3. f[i - 1] \in S /\ f[i - 1] = mem[next(f[(i - 1) - 1])] /\ f[(i - 1) - 1] \in S
      BY <1>1, <3>1
    <3>4. mem'[next(f[(i - 1) - 1])] = mem[next(f[(i - 1) - 1])]
      BY <3>3
    <3>5. QED BY <3>2, <3>3, <3>4
  <2>4. QED BY <2>1, <2>2, <2>3
<1>6. mem'[next(g[m + 1])] = 0
  <2>1. CASE m = 0
    BY <1>1, <1>4, <2>1
  <2>2. CASE m # 0
    <3>1. g[m + 1] = f[m] /\ f[m] \in S
      <4>1. m + 1 \in 2 .. m + 1 /\ (m + 1) - 1 = m /\ m \in 1 .. m
        BY <2>2
      <4>2. QED BY <1>1, <1>4, <4>1
    <3>2. QED BY <1>1, <3>1
  <2>3. QED BY <2>1, <2>2
<1>7. ASSUME NEW i \in 0 .. m + 1, NEW j \in 0 .. m + 1, g[i] = g[j]
      PROVE  i = j
  <2>1. \A k \in 2 .. m + 1 : g[k] = f[k - 1] /\ g[k] \in S /\ g[k] # 0 /\ g[k] # t
    BY <1>1, <1>2, <1>4
  <2>2. CASE i \in 2 .. m + 1 /\ j \in 2 .. m + 1
    <3>1. f[i - 1] = f[j - 1] /\ i - 1 \in 0 .. m /\ j - 1 \in 0 .. m
      BY <1>2, <1>7, <2>1, <2>2
    <3>2. i - 1 = j - 1
      BY <1>1, <3>1
    <3>3. QED BY <3>2
  <2>3. CASE i \in {0, 1} /\ j \in {0, 1}
    BY <1>4, <1>7, <2>3
  <2>4. QED BY <1>4, <1>7, <2>1, <2>2, <2>3
<1>8. ASSUME NEW x \in S \cup {t}
      PROVE  \E i \in 1 .. m + 1 : g[i] = x
  <2>1. CASE x = t
    BY <1>4, <2>1
  <2>2. CASE x \in S
    <3>1. PICK i \in 1 .. m : f[i] = x
      BY <1>1, <2>2
    <3>2. i + 1 \in 2 .. m + 1 /\ i + 1 \in 1 .. m + 1 /\ (i + 1) - 1 = i
      OBVIOUS
    <3>3. g[i + 1] = x
      BY <1>4, <3>1, <3>2
    <3>4. QED BY <3>2, <3>3
  <2>3. QED BY <2>1, <2>2
<1>9. \A x : next(x)' = next(x)
  BY DEF next
<1>10. Walk(g, m + 1, S \cup {t})'
  BY <1>4, <1>5, <1>6, <1>7, <1>8, <1>9 DEF Walk
<1>11. QED BY <1>3, <1>10

\* The list has the nodes of the threads that have linked theirs.
LEMMA ListKept ==
    ASSUME Shape, Shape', Life, UNCHANGED <<program, transfers>>, program = "list",
           ListInv, MainStep \/ \E t \in Workers : InsertStep(t)
    PROVE  ListInv'
<1>1. /\ N \in Nat /\ N' = N /\ Workers = 1 .. N /\ Workers' = Workers
      /\ \A t \in Workers : t \in Threads /\ t # None /\ t # main
  BY CellsSuffice, Fixed DEF Shape, Threads, None, main
<1>2. /\ pc \in [Threads -> Nat] /\ mem \in [Cells -> Int] /\ reg \in [Threads -> Int]
      /\ owner \in [Cells -> Threads \cup {None}]
  BY DEF Shape
<1>3. insert_lock \in Cells /\ \A x \in 0 .. N : next(x) \in Cells
  BY CellsAre
<1>4. insert_lock' = insert_lock /\ \A x : next(x)' = next(x)
  BY DEF insert_lock, next
<1>5. \A x, y : next(x) = next(y) => x = y
  BY DEF next
<1>6. PICK S, T : S = Linked /\ T = Linked'
  OBVIOUS
<1>7. S = {u \in Workers : pc[u] > 4} /\ T = {u \in Workers : pc'[u] > 4} /\ S \subseteq 1 .. N
  BY <1>1, <1>6 DEF Linked
<1>8. IsFiniteSet(S) /\ Cardinality(S) \in Nat
  <2>1. IsFiniteSet(1 .. N)
    BY <1>1, FS_Interval
  <2>2. QED BY <1>7, <2>1, FS_Subset, FS_CardinalityType
<1>9. PICK m \in Nat : m = Cardinality(S)
  BY <1>8
<1>10. PICK f \in [0 .. m -> 0 .. N] : Walk(f, m, S)
  BY <1>6, <1>9 DEF ListInv
<1> DEFINE Of(t) == /\ pc[t] \in 2 .. 5 => owner[insert_lock] = t
                    /\ pc[t] = 3 => reg[t] = mem[next(0)]
                    /\ pc[t] = 4 => mem[next(t)] = mem[next(0)]
<1>11. \A t \in Workers : Of(t)
  BY DEF ListInv
<1>12. SUFFICES /\ \A t \in Workers : Of(t)'
                /\ \E g \in [0 .. Cardinality(T) -> 0 .. N] : Walk(g, Cardinality(T), T)'
  <2>1. ASSUME NEW g \in [0 .. Cardinality(T) -> 0 .. N], Walk(g, Cardinality(T), T)'
        PROVE  \E h \in [0 .. Cardinality(Linked') -> 0 .. N'] :
                    Walk(h, Cardinality(Linked), Linked)'
    <3>1. Walk(g, Cardinality(Linked), Linked)'
      BY <1>6, <2>1 DEF Walk
    <3>2. QED BY <1>1, <1>6, <3>1
  <2>2. QED BY <1>1, <1>4, <2>1 DEF ListInv
<1>13. ASSUME S = T, \A x \in S \cup {0} : mem'[next(x)] = mem[next(x)]
       PROVE  \E g \in [0 .. Cardinality(T) -> 0 .. N] : Walk(g, Cardinality(T), T)'
  <2>1. Walk(f, m, S)'
    BY <1>1, <1>7, <1>10, <1>13, WalkStays
  <2>2. QED BY <1>9, <1>13, <2>1
<1>14. CASE MainStep
  <2>1. \A u \in Workers : pc'[u] = pc[u] \/ (pc[u] = 0 /\ pc'[u] = 1)
    BY <1>14, MainStarts
  <2>2. S = T
    <3>1. \A u \in Workers : pc[u] > 4 <=> pc'[u] > 4
      BY <2>1
    <3>2. QED BY <1>7, <3>1
  <2>3. owner' = owner /\ reg' = reg
    BY <1>14, MainStarts DEF MainStep, Tests, Writes
  <2>4. mem' = mem
    <3>1. CASE Steps(main, 1, 2) /\ Writes(next(0), 0)
      <4>1. \A u \in Workers : pc[u] = 0
        BY <1>1, <3>1 DEF Life, First, Steps
      <4>2. S = {}
        BY <1>7, <4>1
      <4>3. m = 0
        BY <1>9, <4>2, FS_EmptySet
      <4>4. mem[next(0)] = 0
        BY <1>10, <4>3 DEF Walk
      <4>5. mem' = [mem EXCEPT ![next(0)] = 0]
        BY <3>1 DEF Writes
      <4>6. QED BY <1>2, <4>4, <4>5
    <3>2. CASE Tests
      BY <3>2 DEF Tests
    <3>3. QED BY <1>14, <3>1, <3>2 DEF MainStep
  <2>5. \A t \in Workers : Of(t)'
    BY <1>4, <1>11, <2>1, <2>3, <2>4
  <2>6. QED BY <1>13, <2>2, <2>4, <2>5
<1>15. CASE \E t \in Workers : InsertStep(t)
  <2>1. PICK t \in Workers : InsertStep(t)
    BY <1>15
  <2>2. \A u \in Workers \ {t} : pc'[u] = pc[u]
    BY <1>1, <1>2, <2>1 DEF InsertStep, Steps
  <2>3. 0 \in 0 .. N /\ \A x \in Workers : x \in 0 .. N /\ x # 0
    BY <1>1
  <2>4. CASE Steps(t, 3, 4) /\ Writes(next(t), reg[t] + 0)
    <3>1. pc[t] = 3 /\ pc'[t] = 4 /\ owner' = owner /\ reg' = reg
      BY <1>1, <1>2, <2>4 DEF Steps, Writes
    <3>2. S = T /\ t \notin S
      <4>1. \A u \in Workers : pc[u] > 4 <=> pc'[u] > 4
        BY <2>2, <3>1
      <4>2. S = T
        BY <1>7, <4>1
      <4>3. ~ (pc[t] > 4)
        BY <3>1
      <4>4. QED BY <1>7, <4>2, <4>3
    <3>3. next(t) # next(0) /\ next(0) \in Cells /\ next(t) \in Cells
      BY <1>3, <1>5, <2>3
    <3>4. mem'[next(t)] = reg[t] + 0 /\ mem'[next(0)] = mem[next(0)]
      BY <1>2, <2>4, <3>3 DEF Writes
    <3>5. \A x \in S \cup {0} : mem'[next(x)] = mem[next(x)]
      <4>1. \A x \in S \cup {0} : next(x) # next(t)
        BY <1>5, <2>3, <3>2
      <4>2. QED BY <1>2, <2>4, <4>1 DEF Writes
    <3>6. owner[insert_lock] = t /\ reg[t] = mem[next(0)]
      BY <1>11, <3>1
    <3>7. mem'[next(t)] = mem'[next(0)]
      BY <1>2, <3>3, <3>4, <3>6
    <3>8. \A u \in Workers : Of(u)'
      BY <1>4, <1>11, <2>2, <3>1, <3>6, <3>7
    <3>9. QED BY <1>13, <3>2, <3>5, <3>8
  <2>5. CASE Steps(t, 4, 5) /\ Writes(next(0), t)
    <3>1. pc[t] = 4 /\ pc'[t] = 5 /\ owner' = owner /\ reg' = reg
      BY <1>1, <1>2, <2>5 DEF Steps, Writes
    <3>2. T = S \cup {t} /\ t \notin S
      <4>1. \A u \in Workers : pc'[u] > 4 <=> pc[u] > 4 \/ u = t
        BY <2>2, <3>1
      <4>2. ~ (pc[t] > 4) /\ pc'[t] > 4
        BY <3>1
      <4>3. QED BY <1>7, <2>1, <4>1, <4>2
    <3>3. mem'[next(0)] = t
      BY <1>2, <1>3, <2>3, <2>5 DEF Writes
    <3>4. \A x \in 1 .. N : mem'[next(x)] = mem[next(x)]
      <4>1. \A x \in 1 .. N : next(x) # next(0)
        BY <1>5
      <4>2. QED BY <1>2, <2>5, <4>1 DEF Writes
    <3>5. owner[insert_lock] = t /\ mem[next(t)] = mem[next(0)]
      BY <1>11, <3>1
    <3>6. \A u \in Workers : Of(u)'
      BY <1>4, <1>11, <2>2, <3>1, <3>5
    <3>7. \E g \in [0 .. m + 1 -> 0 .. N] : Walk(g, m + 1, S \cup {t})'
      BY <1>1, <1>7, <1>10, <3>2, <3>3, <3>4, <3>5, WalkGrows
    <3>8. Cardinality(T) = m + 1
      BY <1>8, <1>9, <3>2, FS_AddElement
    <3>9. QED BY <3>2, <3>6, <3>7, <3>8
  <2>6. CASE ~ Steps(t, 3, 4) /\ ~ Steps(t, 4, 5)
    <3>1. \/ Steps(t, 1, 2) /\ Takes(t, insert_lock)
          \/ Steps(t, 2, 3) /\ Reads(t, next(0))
          \/ Steps(t, 5, 6) /\ Gives(insert_lock)
      BY <2>1, <2>6 DEF InsertStep
    <3>2. mem' = mem /\ pc[t] \notin {3, 4} /\ (pc[t] > 4 <=> pc'[t] > 4)
      <4>1. \A x : /\ Takes(t, x) => mem' = mem
                   /\ Reads(t, x) => mem' = mem
                   /\ Gives(x) => mem' = mem
        BY DEF Takes, Reads, Gives
      <4>2. \A i, j : Steps(t, i, j) => pc[t] = i /\ pc'[t] = j
        BY <1>1, <1>2 DEF Steps
      <4>3. QED BY <3>1, <4>1, <4>2
    <3>3. S = T
      BY <1>7, <2>2, <3>2
    <3>4. \A u \in Workers : Of(u)'
      <4>1. CASE Steps(t, 1, 2) /\ Takes(t, insert_lock)
        <5>1. owner[insert_lock] = None /\ pc'[t] = 2 /\ owner'[insert_lock] = t /\ reg' = reg
          BY <1>1, <1>2, <1>3, <4>1 DEF Steps, Takes
        <5>2. \A u \in Workers : pc[u] \notin 2 .. 5
          BY <1>1, <1>11, <5>1
        <5>3. QED BY <1>4, <2>2, <5>1, <5>2
      <4>2. CASE Steps(t, 2, 3) /\ Reads(t, next(0))
        <5>1. /\ pc[t] = 2 /\ pc'[t] = 3 /\ owner' = owner /\ reg'[t] = mem[next(0)]
              /\ \A u \in Workers \ {t} : reg'[u] = reg[u]
          BY <1>1, <1>2, <1>3, <4>2 DEF Steps, Reads
        <5>2. ASSUME NEW u \in Workers \ {t} PROVE Of(u)'
          BY <1>4, <1>11, <2>2, <3>2, <5>1, <5>2
        <5>3. Of(t)'
          BY <1>4, <1>11, <3>2, <5>1
        <5>4. QED BY <5>2, <5>3
      <4>3. CASE Steps(t, 5, 6) /\ Gives(insert_lock)
        <5>1. pc[t] = 5 /\ pc'[t] = 6 /\ reg' = reg /\ owner[insert_lock] = t
          BY <1>1, <1>2, <1>3, <1>11, <4>3 DEF Steps, Gives
        <5>2. ASSUME NEW u \in Workers \ {t} PROVE Of(u)'
          BY <1>4, <1>11, <2>2, <3>2, <5>1, <5>2
        <5>3. Of(t)'
          BY <1>4, <5>1
        <5>4. QED BY <5>2, <5>3
      <4>4. QED BY <3>1, <4>1, <4>2, <4>3
    <3>5. QED BY <1>13, <3>2, <3>3, <3>4
  <2>7. QED BY <2>1, <2>4, <2>5, <2>6 DEF InsertStep, Steps
<1>16. QED BY <1>14, <1>15

-----------------------------------------------------------------------------
\* Whatever a worker of Matrix.c does, every row is given out once.
LEMMA MatrixWorkerKept ==
    ASSUME Shape, Shape', UNCHANGED <<program, transfers>>, program = "matrix",
           MatrixInv, NEW t \in Workers, MatrixStep(t)
    PROVE  MatrixInv'
<1>1. /\ N \in Nat /\ N' = N /\ Workers = 1 .. N /\ Workers' = Workers /\ SIZE \in Nat
      /\ main \in Threads /\ \A u \in Workers : u \in Threads /\ u # None /\ u # main
      /\ main # None
  <2>1. N \in Nat /\ N' = N /\ Workers = 1 .. N /\ Workers' = Workers
    BY CellsSuffice, Fixed DEF Shape
  <2>2. SIZE \in Nat
    BY LockProgramsAssumption
  <2>3. QED BY <2>1, <2>2 DEF Threads, None, main
<1>2. /\ pc \in [Threads -> Nat] /\ mem \in [Cells -> Int] /\ reg \in [Threads -> Int]
      /\ owner \in [Cells -> Threads \cup {None}]
  BY DEF Shape
<1>3. /\ matrix_lock \in Cells /\ current_row \in Cells /\ task_available \in Cells
      /\ \A r \in 0 .. SIZE - 1 : C(r) \in Cells
  <2>1. \A r \in 0 .. SIZE - 1 : r \in 0 .. SIZE
    BY <1>1
  <2>2. QED BY <2>1, CellsAre
<1>4. /\ matrix_lock' = matrix_lock /\ current_row' = current_row
      /\ task_available' = task_available
      /\ \A r : C(r) # current_row /\ C(r) # task_available
      /\ \A r, s : C(r) = C(s) => r = s
      /\ current_row # task_available
  BY DEF matrix_lock, current_row, task_available, C
<1>5. \A r : C(r)' = C(r)
  BY DEF C
<1>6. /\ \A u \in Workers : WorkerInv(u) /\ \A v \in Workers : OwnRow(u, v)
      /\ StartInv
      /\ \A r \in 0 .. SIZE - 1 : RowInv(r)
  BY DEF MatrixInv
<1>7. SUFFICES /\ \A u \in Workers : WorkerInv(u)' /\ \A v \in Workers : OwnRow(u, v)'
               /\ StartInv'
               /\ \A r \in 0 .. SIZE - 1 : RowInv(r)'
  BY <1>1 DEF MatrixInv
<1>8. \A u \in Threads \ {t} : pc'[u] = pc[u]
  BY <1>1, <1>2 DEF MatrixStep, Steps
<1>9. pc'[main] = pc[main] /\ \A u \in Workers \ {t} : pc'[u] = pc[u]
  BY <1>1, <1>8
<1>10. mem' = mem \/ Steps(t, 7, 8) \/ Steps(t, 9, 10)
  BY DEF MatrixStep, Tests, Takes, Gives, Reads
\* Most steps leave memory as it is.
<1>11. CASE mem' = mem /\ ~ Steps(t, 7, 8) /\ ~ Steps(t, 9, 10)
  <2>1. \/ Steps(t, 1, 2) /\ Takes(t, matrix_lock)
        \/ Steps(t, 2, 3) /\ Tests
        \/ Steps(t, 2, 5) /\ mem[task_available] >= 1 /\ Tests
        \/ Steps(t, 3, 4) /\ Gives(matrix_lock)
        \/ Steps(t, 4, 1) /\ Tests
        \/ Steps(t, 5, 6) /\ mem[current_row] < SIZE /\ Tests
        \/ Steps(t, 5, 11) /\ mem[current_row] >= SIZE /\ Tests
        \/ Steps(t, 6, 7) /\ Reads(t, current_row)
        \/ Steps(t, 8, 9) /\ Gives(matrix_lock)
        \/ Steps(t, 10, 1) /\ Tests
        \/ Steps(t, 11, 12) /\ Gives(matrix_lock)
    BY <1>11 DEF MatrixStep
  <2>2. /\ \A a, b : Steps(t, a, b) => pc[t] = a /\ pc'[t] = b
        /\ Takes(t, matrix_lock) =>
                owner[matrix_lock] = None /\ owner'[matrix_lock] = t /\ reg' = reg
        /\ Gives(matrix_lock) => owner'[matrix_lock] = None /\ reg' = reg
        /\ Tests => owner' = owner /\ reg' = reg
        /\ Reads(t, current_row) => /\ owner' = owner /\ reg'[t] = mem[current_row]
                                    /\ \A u \in Workers \ {t} : reg'[u] = reg[u]
    BY <1>1, <1>2, <1>3 DEF Steps, Tests, Takes, Gives, Reads
  <2>3. \/ /\ pc[t] = 1 /\ pc'[t] = 2 /\ reg' = reg
           /\ owner[matrix_lock] = None /\ owner'[matrix_lock] = t
        \/ /\ pc[t] = 2 /\ pc'[t] = 5 /\ reg' = reg /\ owner' = owner
           /\ mem[task_available] >= 1
        \/ /\ pc[t] = 5 /\ pc'[t] = 6 /\ reg' = reg /\ owner' = owner
           /\ mem[current_row] < SIZE
        \/ /\ pc[t] = 5 /\ pc'[t] = 11 /\ reg' = reg /\ owner' = owner
           /\ mem[current_row] >= SIZE
        \/ /\ pc[t] = 6 /\ pc'[t] = 7 /\ owner' = owner
           /\ reg'[t] = mem[current_row] /\ \A u \in Workers \ {t} : reg'[u] = reg[u]
        \/ /\ \/ pc[t] = 3 /\ pc'[t] = 4
              \/ pc[t] = 8 /\ pc'[t] = 9
              \/ pc[t] = 11 /\ pc'[t] = 12
           /\ owner'[matrix_lock] = None /\ reg' = reg
        \/ /\ \/ pc[t] = 2 /\ pc'[t] = 3
              \/ pc[t] = 4 /\ pc'[t] = 1
              \/ pc[t] = 10 /\ pc'[t] = 1
           /\ owner' = owner /\ reg' = reg
    BY <2>1, <2>2
  <2> HIDE <2>1
  <2>4. /\ pc[t] \in {8, 9} <=> pc'[t] \in {8, 9}
        /\ pc[t] \in {8, 9} => reg'[t] = reg[t]
        /\ \A u \in Workers \ {t} : reg'[u] = reg[u]
    BY <2>3
  <2>5. \A u, v \in Workers : OwnRow(u, v)'
    BY <1>6, <1>9, <2>4 DEF OwnRow
  <2>6. \A r \in 0 .. SIZE - 1 : RowInv(r)'
    BY <1>1, <1>4, <1>5, <1>6, <1>9, <1>11, <2>4 DEF RowInv
  <2>7. /\ owner[matrix_lock] = main => owner'[matrix_lock] = main
        /\ \A u \in Workers \ {t} : owner[matrix_lock] = u => owner'[matrix_lock] = u
    <3>1. pc[t] \in HoldsLock => owner[matrix_lock] = t
      BY <1>6 DEF WorkerInv
    <3>2. ASSUME NEW u \in Threads \ {t}, u # None, owner[matrix_lock] = u
          PROVE  owner'[matrix_lock] = u
      <4>1. pc[t] \notin HoldsLock
        BY <3>1, <3>2
      <4>2. QED BY <2>3, <3>2, <4>1 DEF HoldsLock
    <3>3. QED BY <1>1, <3>2
  <2>8. StartInv'
    BY <1>1, <1>4, <1>6, <1>9, <1>11, <2>7 DEF StartInv
  <2>9. \A u \in Workers \ {t} : WorkerInv(u)'
    <3> SUFFICES ASSUME NEW u \in Workers \ {t} PROVE WorkerInv(u)'
      OBVIOUS
    <3>1. pc'[u] = pc[u] /\ reg'[u] = reg[u] /\ WorkerInv(u)
      BY <1>6, <1>9, <2>4
    <3>2. QED BY <1>1, <1>4, <1>5, <1>9, <1>11, <2>7, <3>1 DEF WorkerInv
  <2>10. WorkerInv(t)'
    <3>1. WorkerInv(t) /\ (mem[task_available] >= 1 => pc[main] > N + 3)
      BY <1>6 DEF StartInv
    <3>2. pc'[t] \in HoldsLock => owner'[matrix_lock] = t
      BY <2>3, <3>1 DEF WorkerInv, HoldsLock
    <3>3. /\ pc'[t] >= 5 => pc[main] > N + 3
          /\ pc'[t] \in {6, 7} => mem[current_row] < SIZE
      BY <2>3, <3>1 DEF WorkerInv
    <3>4. /\ pc'[t] = 7 => reg'[t] = mem[current_row]
          /\ pc'[t] >= 11 => mem[current_row] >= SIZE
      BY <2>3, <3>1 DEF WorkerInv
    <3>5. pc'[t] \in {8, 9} => reg'[t] \in 0 .. mem[current_row] - 1 /\ mem[C(reg'[t])] = 0
      BY <2>4, <3>1 DEF WorkerInv
    <3>6. QED BY <1>1, <1>4, <1>5, <1>9, <1>11, <3>2, <3>3, <3>4, <3>5 DEF WorkerInv
  <2>11. QED BY <2>5, <2>6, <2>8, <2>9, <2>10
\* A thread takes the next row.
<1>12. CASE Steps(t, 7, 8) /\ Writes(current_row, reg[t] + 1)
  <2>1. PICK c \in Int : c = mem[current_row]
    BY <1>2, <1>3
  <2>2. /\ pc[t] = 7 /\ pc'[t] = 8 /\ owner' = owner /\ reg' = reg
        /\ owner[matrix_lock] = t /\ reg[t] = c /\ c \in 0 .. SIZE - 1
    <3>1. pc[t] = 7 /\ pc'[t] = 8 /\ owner' = owner /\ reg' = reg
      BY <1>1, <1>2, <1>12 DEF Steps, Writes
    <3>2. WorkerInv(t) /\ StartInv
      BY <1>6
    <3>3. owner[matrix_lock] = t /\ mem[current_row] < SIZE /\ reg[t] = mem[current_row]
          /\ pc[main] > N + 3
      BY <3>1, <3>2 DEF WorkerInv, HoldsLock
    <3>4. mem[current_row] \in 0 .. SIZE
      BY <1>1, <1>2, <3>2, <3>3 DEF StartInv
    <3>5. QED BY <1>1, <2>1, <3>1, <3>3, <3>4
  <2>3. /\ mem'[current_row] = c + 1 /\ mem'[task_available] = mem[task_available]
        /\ \A r \in 0 .. SIZE - 1 : mem'[C(r)] = mem[C(r)]
    BY <1>2, <1>3, <1>4, <1>12, <2>2 DEF Writes
  <2>4. mem[C(c)] = 0
    BY <1>6, <2>1, <2>2 DEF RowInv
  <2>5. WorkerInv(t)'
    <3>1. pc[main] > N + 3
      BY <1>6, <2>2 DEF WorkerInv
    <3>2. QED BY <1>1, <1>4, <1>5, <1>9, <2>2, <2>3, <2>4, <3>1 DEF WorkerInv
  <2>6. ASSUME NEW u \in Workers \ {t} PROVE WorkerInv(u)'
    <3>1. WorkerInv(u) /\ pc[u] \notin HoldsLock /\ ~ (pc[u] >= 11)
      <4>1. WorkerInv(u) /\ owner[matrix_lock] # u
        BY <1>1, <1>6, <2>2
      <4>2. pc[u] \notin HoldsLock
        BY <4>1 DEF WorkerInv
      <4>3. ~ (mem[current_row] >= SIZE)
        BY <1>1, <2>1, <2>2
      <4>4. QED BY <4>1, <4>2, <4>3 DEF WorkerInv
    <3>2. pc[u] \in {8, 9} => reg[u] \in 0 .. c - 1 /\ reg[u] \in 0 .. SIZE - 1
      BY <1>1, <2>1, <2>2, <3>1 DEF WorkerInv
    <3>3. CASE pc[u] \in {8, 9}
      <4>1. mem'[C(reg[u])] = 0 /\ reg[u] \in 0 .. c /\ pc[main] > N + 3
        BY <2>3, <3>1, <3>2, <3>3 DEF WorkerInv
      <4>2. pc'[u] = 9 /\ pc'[main] > N' + 3 /\ reg'[u] \in 0 .. c
        BY <1>1, <1>9, <2>2, <3>1, <3>3, <4>1 DEF HoldsLock
      <4>3. mem'[C(reg[u])] = 0 /\ reg'[u] = reg[u]
        BY <2>2, <4>1
      <4>4. QED BY <1>4, <2>1, <2>3, <4>2, <4>3 DEF WorkerInv, HoldsLock
    <3>4. CASE pc[u] \notin {8, 9}
      BY <1>1, <1>9, <3>1, <3>4 DEF WorkerInv, HoldsLock
    <3>5. QED BY <3>3, <3>4
  <2>7. ASSUME NEW u \in Workers, NEW v \in Workers PROVE OwnRow(u, v)'
    <3>1. \A x \in Workers \ {t} : pc[x] \in {8, 9} => reg[x] # c
      BY <1>6, <2>1, <2>2 DEF WorkerInv
    <3>2. OwnRow(u, v)
      BY <1>6
    <3>3. QED BY <1>9, <2>2, <3>1, <3>2 DEF OwnRow
  <2>8. StartInv'
    <3>1. pc[main] > N + 3
      BY <1>6, <2>2 DEF WorkerInv
    <3>2. QED BY <1>1, <1>2, <1>4, <1>6, <1>9, <2>2, <2>3, <3>1 DEF StartInv
  <2>9. ASSUME NEW r \in 0 .. SIZE - 1 PROVE RowInv(r)'
    <3>1. RowInv(r)
      BY <1>6
    <3>2. mem'[C(r)] \in {0, 1} /\ (mem'[C(r)] = 1 => r < c + 1)
      BY <2>1, <2>2, <2>3, <3>1 DEF RowInv
    <3>3. ASSUME r < c + 1, mem'[C(r)] = 0
          PROVE  \E u \in Workers : pc'[u] \in {8, 9} /\ reg'[u] = r
      <4>1. CASE r = c
        BY <2>2, <4>1
      <4>2. CASE r # c
        <5>1. PICK u \in Workers : pc[u] \in {8, 9} /\ reg[u] = r
          BY <2>1, <2>2, <2>3, <3>1, <3>3, <4>2 DEF RowInv
        <5>2. u # t
          BY <2>2, <5>1
        <5>3. QED BY <1>9, <2>2, <5>1, <5>2
      <4>3. QED BY <4>1, <4>2
    <3>4. QED BY <1>1, <1>4, <1>5, <2>3, <3>2, <3>3 DEF RowInv
  <2>10. QED BY <2>5, <2>6, <2>7, <2>8, <2>9
\* A thread has computed its row.
<1>13. CASE Steps(t, 9, 10) /\ Writes(C(reg[t]), mem[C(reg[t])] + 1)
  <2>1. PICK q : q = reg[t]
    OBVIOUS
  <2>2. /\ pc[t] = 9 /\ pc'[t] = 10 /\ owner' = owner /\ reg' = reg
        /\ q \in 0 .. mem[current_row] - 1 /\ q \in 0 .. SIZE - 1 /\ mem[C(q)] = 0
        /\ mem[current_row] \in 0 .. SIZE
    <3>1. pc[t] = 9 /\ pc'[t] = 10 /\ owner' = owner /\ reg' = reg
      BY <1>1, <1>2, <1>13 DEF Steps, Writes
    <3>2. WorkerInv(t) /\ StartInv
      BY <1>6
    <3>3. mem[current_row] \in 0 .. SIZE
      BY <1>1, <1>2, <3>1, <3>2 DEF WorkerInv, StartInv
    <3>4. QED BY <1>1, <2>1, <3>1, <3>2, <3>3 DEF WorkerInv
  <2>3. /\ mem'[current_row] = mem[current_row] /\ mem'[task_available] = mem[task_available]
        /\ mem'[C(q)] = 1
        /\ \A r \in 0 .. SIZE - 1 : r # q => mem'[C(r)] = mem[C(r)]
    <3>1. mem' = [mem EXCEPT ![C(q)] = 1]
      BY <1>13, <2>1, <2>2 DEF Writes
    <3>2. QED BY <1>2, <1>3, <1>4, <2>2, <3>1
  <2>4. WorkerInv(t)'
    <3>1. pc[main] > N + 3
      BY <1>6, <2>2 DEF WorkerInv
    <3>2. QED BY <1>1, <1>9, <2>2, <3>1 DEF WorkerInv, HoldsLock
  <2>5. ASSUME NEW u \in Workers \ {t} PROVE WorkerInv(u)'
    <3>1. WorkerInv(u) /\ OwnRow(t, u) /\ StartInv
      BY <1>6
    <3>2. pc[u] \in {8, 9} => reg[u] \in 0 .. SIZE - 1 /\ reg[u] # q
      BY <1>1, <2>1, <2>2, <3>1 DEF WorkerInv, OwnRow
    <3>3. QED BY <1>1, <1>4, <1>5, <1>9, <2>2, <2>3, <3>1, <3>2 DEF WorkerInv
  <2>6. \A u, v \in Workers : OwnRow(u, v)'
    BY <1>6, <1>9, <2>2 DEF OwnRow
  <2>7. StartInv'
    BY <1>1, <1>4, <1>6, <1>9, <2>2, <2>3 DEF StartInv
  <2>8. ASSUME NEW r \in 0 .. SIZE - 1 PROVE RowInv(r)'
    <3>1. RowInv(r)
      BY <1>6
    <3>2. mem'[C(r)] \in {0, 1} /\ (mem'[C(r)] = 1 => r < mem[current_row])
      BY <2>2, <2>3, <3>1 DEF RowInv
    <3>3. ASSUME r < mem[current_row], mem'[C(r)] = 0
          PROVE  \E u \in Workers : pc'[u] \in {8, 9} /\ reg'[u] = r
      <4>1. r # q
        BY <2>3, <3>3
      <4>2. PICK u \in Workers : pc[u] \in {8, 9} /\ reg[u] = r
        BY <2>3, <3>1, <3>3, <4>1 DEF RowInv
      <4>3. u # t
        BY <2>1, <4>1, <4>2
      <4>4. QED BY <1>9, <2>2, <4>2, <4>3
    <3>4. QED BY <1>1, <1>4, <1>5, <2>3, <3>2, <3>3 DEF RowInv
  <2>9. QED BY <2>4, <2>5, <2>6, <2>7, <2>8
<1>14. QED BY <1>10, <1>11, <1>12, <1>13 DEF MatrixStep, Steps

\* main() resets current_row, and then says that there is work, before any worker
\* can have got past its test for work.
LEMMA MatrixMainKept ==
    ASSUME Shape, Shape', Life, UNCHANGED <<program, transfers>>, program = "matrix",
           MatrixInv, MainStep
    PROVE  MatrixInv'
<1>1. /\ N \in Nat /\ N' = N /\ Workers = 1 .. N /\ Workers' = Workers /\ SIZE \in Nat
      /\ main \in Threads /\ \A u \in Workers : u \in Threads /\ u # None /\ u # main
      /\ main # None
  <2>1. N \in Nat /\ N' = N /\ Workers = 1 .. N /\ Workers' = Workers
    BY CellsSuffice, Fixed DEF Shape
  <2>2. SIZE \in Nat
    BY LockProgramsAssumption
  <2>3. QED BY <2>1, <2>2 DEF Threads, None, main
<1>2. /\ pc \in [Threads -> Nat] /\ mem \in [Cells -> Int] /\ reg \in [Threads -> Int]
      /\ owner \in [Cells -> Threads \cup {None}]
  BY DEF Shape
<1>3. /\ matrix_lock \in Cells /\ current_row \in Cells /\ task_available \in Cells
      /\ \A r \in 0 .. SIZE - 1 : C(r) \in Cells
  <2>1. \A r \in 0 .. SIZE - 1 : r \in 0 .. SIZE
    BY <1>1
  <2>2. QED BY <2>1, CellsAre
<1>4. /\ matrix_lock' = matrix_lock /\ current_row' = current_row
      /\ task_available' = task_available
      /\ \A r : C(r) # current_row /\ C(r) # task_available
      /\ current_row # task_available
  BY DEF matrix_lock, current_row, task_available, C
<1>5. \A r : C(r)' = C(r)
  BY DEF C
<1>6. /\ \A u \in Workers : WorkerInv(u) /\ \A v \in Workers : OwnRow(u, v)
      /\ StartInv
      /\ \A r \in 0 .. SIZE - 1 : RowInv(r)
  BY DEF MatrixInv
<1>7. SUFFICES /\ \A u \in Workers : WorkerInv(u)' /\ \A v \in Workers : OwnRow(u, v)'
               /\ StartInv'
               /\ \A r \in 0 .. SIZE - 1 : RowInv(r)'
  BY <1>1 DEF MatrixInv
<1>8. /\ \A u \in Workers : pc'[u] = pc[u] \/ (pc[u] = 0 /\ pc'[u] = 1)
      /\ reg' = reg
  BY MainStarts
<1>9. \A u, v \in Workers : OwnRow(u, v)'
  BY <1>6, <1>8 DEF OwnRow
<1>10. \/ \E k \in Workers : pc[main] = k /\ pc'[main] = k + 1 /\ Tests
       \/ \E k \in Workers : pc[main] = N + 5 + k /\ pc'[main] = N + 5 + k + 1 /\ Tests
       \/ pc[main] = N + 1 /\ pc'[main] = N + 2 /\ Takes(main, matrix_lock)
       \/ pc[main] = N + 2 /\ pc'[main] = N + 3 /\ Writes(current_row, 0)
       \/ pc[main] = N + 3 /\ pc'[main] = N + 4 /\ Writes(task_available, 1)
       \/ pc[main] = N + 4 /\ pc'[main] = N + 5 /\ Tests
       \/ pc[main] = N + 5 /\ pc'[main] = N + 6 /\ Gives(matrix_lock)
  <2>1. First = 0 /\ Joins = N + 5 /\ \A k \in Workers : First + k = k
    BY <1>1 DEF First, Mid, Joins
  <2>2. \A a, b : Steps(main, a, b) => pc[main] = a /\ pc'[main] = b
    BY <1>1, <1>2 DEF Steps
  <2>3. \A k \in Workers : pc' = [pc EXCEPT ![main] = First + k + 1, ![k] = 1]
                           => pc'[main] = k + 1
    BY <1>1, <1>2, <2>1
  <2>4. QED BY <2>1, <2>2, <2>3 DEF MainStep
<1>11. CASE pc[main] = N + 2 /\ pc'[main] = N + 3 /\ Writes(current_row, 0)
  <2>1. /\ mem'[current_row] = 0 /\ mem'[task_available] = mem[task_available]
        /\ \A r \in 0 .. SIZE - 1 : mem'[C(r)] = mem[C(r)]
        /\ owner' = owner
    BY <1>2, <1>3, <1>4, <1>11 DEF Writes
  <2>2. \A u \in Workers : pc[u] \in Nat /\ WorkerInv(u) /\ ~ (pc[u] >= 5) /\ ~ (pc'[u] >= 5)
    <3>1. \A u \in Workers : WorkerInv(u) /\ pc[u] \in Nat
      BY <1>1, <1>2, <1>6
    <3>2. ~ (pc[main] > N + 3)
      BY <1>1, <1>11
    <3>3. \A u \in Workers : ~ (pc[u] >= 5)
      BY <3>1, <3>2 DEF WorkerInv
    <3>4. QED BY <1>8, <3>1, <3>3
  <2>3. ASSUME NEW u \in Workers PROVE WorkerInv(u)'
    <3>1. pc[u] \in Nat /\ WorkerInv(u) /\ pc[u] < 5 /\ pc'[u] < 5 /\ pc'[u] \in Nat
      BY <1>8, <2>2
    <3>2. pc'[u] \in HoldsLock => owner'[matrix_lock] = u
      BY <1>8, <2>1, <3>1 DEF WorkerInv, HoldsLock
    <3>3. QED BY <1>4, <3>1, <3>2 DEF WorkerInv, HoldsLock
  <2>4. StartInv'
    BY <1>1, <1>4, <1>6, <1>11, <2>1 DEF StartInv
  <2>5. ASSUME NEW r \in 0 .. SIZE - 1 PROVE RowInv(r)'
    <3>1. mem[C(r)] = 0
      BY <1>1, <1>6, <1>11 DEF StartInv, RowInv
    <3>2. QED BY <1>4, <1>5, <2>1, <3>1 DEF RowInv
  <2>6. QED BY <1>9, <2>3, <2>4, <2>5
<1>12. CASE ~ (pc[main] = N + 2 /\ pc'[main] = N + 3)
  <2>1. /\ mem'[current_row] = mem[current_row]
        /\ \A r \in 0 .. SIZE - 1 : mem'[C(r)] = mem[C(r)]
    BY <1>2, <1>3, <1>4, <1>10, <1>12 DEF Tests, Takes, Gives, Writes
  <2>2. \A r \in 0 .. SIZE - 1 : RowInv(r)'
    <3>1. ASSUME NEW r \in 0 .. SIZE - 1, mem[C(r)] = 0, r < mem[current_row]
          PROVE  \E u \in Workers : pc'[u] \in {8, 9} /\ reg'[u] = r
      BY <1>6, <1>8, <3>1 DEF RowInv
    <3>2. QED BY <1>1, <1>4, <1>5, <1>6, <2>1, <3>1 DEF RowInv
  <2>3. /\ pc'[main] > pc[main] /\ pc[main] \in Nat /\ pc'[main] \in Nat
    BY <1>1, <1>10
  <2>4. \A u \in Workers : owner[matrix_lock] = u => owner'[matrix_lock] = u
    <3>1. pc[main] \in N + 2 .. N + 5 => owner[matrix_lock] = main
      BY <1>6 DEF StartInv
    <3>2. /\ \A x, v : Writes(x, v) => owner' = owner
          /\ Tests => owner' = owner
          /\ Takes(main, matrix_lock) => owner[matrix_lock] = None
      BY DEF Tests, Takes, Writes
    <3>3. \/ owner' = owner \/ owner[matrix_lock] = None
          \/ pc[main] = N + 5
      BY <1>10, <3>2
    <3>4. QED BY <1>1, <3>1, <3>3
  <2>5. ASSUME NEW u \in Workers PROVE WorkerInv(u)'
    <3>1. WorkerInv(u) /\ StartInv /\ pc[u] \in Nat
      BY <1>1, <1>2, <1>6
    <3>2. CASE pc[u] = 0 /\ pc'[u] = 1
      BY <3>2 DEF WorkerInv, HoldsLock
    <3>3. CASE pc'[u] = pc[u] /\ pc[u] \in {8, 9}
      <4>1. pc[main] > N + 3 /\ reg[u] \in 0 .. mem[current_row] - 1
        BY <3>1, <3>3 DEF WorkerInv
      <4>2. reg[u] \in 0 .. SIZE - 1
        BY <1>1, <2>3, <3>1, <4>1 DEF StartInv
      <4>3. mem'[C(reg[u])] = 0 /\ reg'[u] = reg[u]
        BY <1>8, <2>1, <3>1, <3>3, <4>2 DEF WorkerInv
      <4>4. pc'[main] > N + 3
        BY <1>1, <2>3, <4>1
      <4>5. QED BY <1>1, <1>4, <2>1, <2>4, <3>1, <3>3, <4>1, <4>3, <4>4 DEF WorkerInv
    <3>4. CASE pc'[u] = pc[u] /\ pc[u] \notin {8, 9}
      BY <1>1, <1>4, <1>8, <2>1, <2>3, <2>4, <3>1, <3>4 DEF WorkerInv
    <3>5. QED BY <1>8, <3>2, <3>3, <3>4
  <2>6. StartInv'
    <3>1. CASE pc[main] = N + 1 /\ pc'[main] = N + 2 /\ Takes(main, matrix_lock)
      BY <1>1, <1>2, <1>3, <1>4, <1>6, <2>1, <3>1 DEF StartInv, Takes
    <3>2. CASE pc[main] = N + 3 /\ pc'[main] = N + 4 /\ Writes(task_available, 1)
      BY <1>1, <1>2, <1>3, <1>4, <1>6, <2>1, <3>2 DEF StartInv, Writes
    <3>3. CASE pc[main] = N + 5 /\ pc'[main] = N + 6 /\ Gives(matrix_lock)
      BY <1>1, <1>2, <1>3, <1>4, <1>6, <2>1, <3>3 DEF StartInv, Gives
    <3>4. CASE Tests /\ \/ \E k \in Workers : pc[main] = k /\ pc'[main] = k + 1
                        \/ \E k \in Workers : /\ pc[main] = N + 5 + k
                                              /\ pc'[main] = N + 5 + k + 1
                        \/ pc[main] = N + 4 /\ pc'[main] = N + 5
      BY <1>1, <1>4, <1>6, <3>4 DEF StartInv, Tests
    <3>5. QED BY <1>10, <1>12, <3>1, <3>2, <3>3, <3>4
  <2>7. QED BY <1>9, <2>2, <2>5, <2>6
<1>13. QED BY <1>1, <1>10, <1>11, <1>12

-----------------------------------------------------------------------------
\* Initially nobody has started.
LEMMA InitSound ==
    ASSUME Init
    PROVE  IInv
<1>1. program \in Kinds /\ transfers \in Seq(deposit_thr_args)
  <2>1. program \in Kinds
    BY LockProgramsAssumption DEF Init, Kinds
  <2>2. <<>> \in Seq(deposit_thr_args)
    OBVIOUS
  <2>3. QED BY <2>1, <2>2, LockProgramsAssumption DEF Init
<1>2. /\ N \in Nat /\ Workers = 1 .. N
      /\ main \in Threads /\ \A t \in Workers : t \in Threads /\ t # main
  BY <1>1, CellsSuffice DEF Threads, main
<1>3. /\ pc = [t \in Threads |-> IF t = main THEN 1 ELSE 0]
      /\ owner = [l \in Cells |-> None] /\ reg = [t \in Threads |-> 0]
      /\ mem = [x \in Cells |-> IF x[1] = "balance" THEN Opening
                                ELSE IF x = current_row THEN -1 ELSE 0]
  BY DEF Init, Threads
<1>4. Shape
  <2>1. Opening \in Int /\ -1 \in Int /\ 0 \in Int /\ 0 \in Nat /\ 1 \in Nat
    BY LockProgramsAssumption
  <2>2. QED BY <1>1, <1>3, <2>1 DEF Shape
<1>5. pc[main] = 1 /\ \A t \in Workers : pc[t] = 0
  BY <1>2, <1>3
<1>6. Life
  <2>1. First \in Nat /\ Joins \in Nat /\ \A t \in Workers : 1 <= First + t /\ ~ (1 > Joins + t)
    <3>1. First \in Nat /\ Mid \in Nat
      BY DEF First, Mid
    <3>2. QED BY <1>2, <3>1 DEF Joins
  <2>2. QED BY <1>5, <2>1 DEF Life
<1>7. /\ \A a \in 1 .. 2 : Balance(a) \in Cells /\ Balance(a)[1] = "balance"
      /\ \A r \in 0 .. SIZE - 1 : C(r) \in Cells /\ C(r)[1] = "C" /\ C(r) # current_row
      /\ \A t \in 0 .. N : /\ freed(t) \in Cells /\ freed(t)[1] = "freed" /\ freed(t) # current_row
                           /\ next(t) \in Cells /\ next(t)[1] = "next" /\ next(t) # current_row
  <2>1. \A r \in 0 .. SIZE - 1 : r \in 0 .. SIZE
    BY LockProgramsAssumption
  <2>2. QED BY <1>4, <2>1, CellsAre DEF Balance, C, freed, next, current_row
<1>8. /\ mem[Balance(1)] = Opening /\ mem[Balance(2)] = Opening
      /\ \A r \in 0 .. SIZE - 1 : mem[C(r)] = 0
      /\ \A t \in 0 .. N : mem[freed(t)] = 0 /\ mem[next(t)] = 0
  BY <1>3, <1>7
<1>9. Unused
  BY <1>8 DEF Unused
<1>10. ASSUME program \in {"deadlock", "file_scope"} PROVE TransferInv
  <2>1. \A t \in Workers : Place(t) \in {0, -1}
    BY <1>5, <1>10 DEF Place
  <2>2. Balances = 2 * Opening /\ Opening >= 0
    BY <1>8, LockProgramsAssumption DEF Balances
  <2>3. QED BY <1>8, <2>1, <2>2 DEF TransferInv, HoldsFrom, HoldsTo
<1>11. FreedInv
  BY <1>2, <1>5, <1>8 DEF FreedInv
<1>12. ASSUME program = "hash_logger" PROVE HashInv
  <2>1. total_bytes \in Cells /\ total_bytes[1] # "balance" /\ total_bytes # current_row
    BY <1>4, CellsAre DEF total_bytes, current_row
  <2>2. mem[total_bytes] = 0
    BY <1>3, <2>1
  <2>3. Stored = {}
    BY <1>5 DEF Stored
  <2>4. PICK F : F = [i \in 0 .. N |-> 0]
    OBVIOUS
  <2>5. F \in [0 .. N -> Int] /\ \A i \in 0 .. N : F[i] = 0
    BY <2>4
  <2>6. Totals(F, Stored) /\ mem[total_bytes] = F[N]
    BY <1>2, <2>2, <2>3, <2>5 DEF Totals
  <2>7. \E G \in [0 .. N -> Int] : Totals(G, Stored) /\ mem[total_bytes] = G[N]
    BY <2>5, <2>6
  <2>8. \A t \in Workers : pc[t] \notin 2 .. 6 /\ pc[t] # 4
    BY <1>5
  <2>9. QED BY <2>7, <2>8 DEF HashInv
<1>13. ASSUME program = "matrix" PROVE MatrixInv
  <2>1. current_row \in Cells /\ task_available \in Cells /\ current_row[1] # "balance"
        /\ task_available[1] # "balance" /\ task_available # current_row
    BY <1>4, CellsAre DEF current_row, task_available
  <2>2. mem[current_row] = -1 /\ mem[task_available] = 0
    BY <1>3, <2>1
  <2>3. N \in Nat \ {0}
    BY <1>13, LockProgramsAssumption DEF N
  <2>4. \A t \in Workers : WorkerInv(t) /\ \A u \in Workers : OwnRow(t, u)
    BY <1>5 DEF WorkerInv, OwnRow, HoldsLock
  <2>5. StartInv
    BY <1>5, <2>2, <2>3 DEF StartInv
  <2>6. \A r \in 0 .. SIZE - 1 : RowInv(r)
    BY <1>8, <2>2 DEF RowInv
  <2>7. QED BY <2>4, <2>5, <2>6 DEF MatrixInv
<1>14. ASSUME program = "condition" PROVE ReadyInv
  <2>1. threads_ready \in Cells /\ threads_ready[1] # "balance" /\ threads_ready # current_row
    BY <1>4, CellsAre DEF threads_ready, current_row
  <2>2. mem[threads_ready] = 0
    BY <1>3, <2>1
  <2>3. {t \in Workers : pc[t] \in 2 .. 6} = {}
    BY <1>5
  <2>4. QED BY <2>2, <2>3, FS_EmptySet DEF ReadyInv
<1>15. ASSUME program = "counter" PROVE CounterInv
  <2>1. counter \in Cells /\ counter[1] # "balance" /\ counter # current_row
    BY <1>4, CellsAre DEF counter, current_row
  <2>2. mem[counter] = 0 /\ Increments \in Nat
    BY <1>3, <2>1, LockProgramsAssumption
  <2>3. {t \in Workers : pc[t] > 2 * Increments + 1} = {}
    BY <1>5, <2>2
  <2>4. Counted = 0
    BY <2>2, <2>3, FS_EmptySet DEF Counted
  <2>5. QED BY <1>5, <2>2, <2>4 DEF CounterInv
<1>16. ListInv
  <2>1. Linked = {}
    BY <1>5 DEF Linked
  <2>2. Cardinality(Linked) = 0
    BY <2>1, FS_EmptySet
  <2>3. PICK f : f = [i \in 0 .. 0 |-> 0]
    OBVIOUS
  <2>4. f \in [0 .. 0 -> 0 .. N] /\ f[0] = 0
    BY <1>2, <2>3
  <2>5. mem[next(0)] = 0
    BY <1>2, <1>8
  <2>6. Walk(f, 0, {})
    BY <2>4, <2>5 DEF Walk
  <2>7. \E g \in [0 .. Cardinality(Linked) -> 0 .. N] : Walk(g, Cardinality(Linked), Linked)
    BY <2>1, <2>2, <2>4, <2>6
  <2>8. \A t \in Workers : pc[t] \notin 2 .. 5 /\ pc[t] # 3 /\ pc[t] # 4
    BY <1>5
  <2>9. QED BY <2>7, <2>8 DEF ListInv
<1>17. QED BY <1>4, <1>6, <1>9, <1>10, <1>11, <1>12, <1>13, <1>14, <1>15, <1>16 DEF IInv, ProgramInv

\* No step breaks the invariant.
LEMMA IInvKept ==
    ASSUME IInv, [Next]_vars
    PROVE  IInv'
<1>1. Shape /\ Life /\ Unused /\ ProgramInv
  BY DEF IInv
<1>2. /\ Shape' /\ Life'
      /\ UNCHANGED <<program, transfers>>
      /\ \/ \E t \in Workers : Executes(t)
         \/ MainStep
         \/ UNCHANGED <<pc, owner, mem, reg>>
  BY <1>1, NextIs
<1>3. CASE UNCHANGED <<pc, owner, mem, reg>>
  <2>1. /\ N' = N /\ Workers' = Workers
        /\ \A t : From(t)' = From(t) /\ To(t)' = To(t) /\ Amount(t)' = Amount(t)
    BY <1>2, Fixed
  <2>2. Unused'
    BY <1>1, <1>2, <1>3 DEF Unused, Balance, C
  <2>3. TransferInv => TransferInv'
    BY <1>2, <1>3, <2>1 DEF TransferInv, Place, Balances, Balance
  <2>4. FreedInv => FreedInv'
    BY <1>3, <2>1 DEF FreedInv, freed
  <2>5. HashInv => HashInv'
    BY <1>3, <2>1 DEF HashInv, Totals, Stored, stats_mutex, total_bytes
  <2>6. MatrixInv => MatrixInv'
    BY <1>3, <2>1 DEF MatrixInv, WorkerInv, OwnRow, StartInv, RowInv, C, matrix_lock, current_row,
       task_available, main
  <2>7. ReadyInv => ReadyInv'
    BY <1>3, <2>1 DEF ReadyInv, threads_ready
  <2>8. CounterInv => CounterInv'
    BY <1>3, <2>1 DEF CounterInv, Counted, counter, counter_lock
  <2>9. ListInv => ListInv'
    <3>1. Linked' = Linked
      BY <1>3, <2>1 DEF Linked
    <3>2. \A f, m, S : Walk(f, m, S)' <=> Walk(f, m, S)
      BY <1>3 DEF Walk, next
    <3>3. /\ (\E f \in [0 .. Cardinality(Linked) -> 0 .. N] :
                    Walk(f, Cardinality(Linked), Linked))
          => \E f \in [0 .. Cardinality(Linked') -> 0 .. N'] :
                    Walk(f, Cardinality(Linked), Linked)'
      <4>1. PICK S : S = Linked /\ S = Linked'
        BY <3>1
      <4>2. \A f : Walk(f, Cardinality(Linked), Linked)' <=> Walk(f, Cardinality(S), S)'
        BY <4>1 DEF Walk
      <4>3. QED BY <2>1, <3>2, <4>1, <4>2
    <3>4. QED BY <1>3, <2>1, <3>3 DEF ListInv, next, insert_lock
  <2>10. ProgramInv'
    BY <1>1, <1>2, <2>3, <2>4, <2>5, <2>6, <2>7, <2>8, <2>9 DEF ProgramInv
  <2>11. QED BY <1>2, <2>2, <2>10 DEF IInv
<1>4. CASE MainStep \/ \E t \in Workers : Executes(t)
  <2>1. Unused'
    BY <1>1, <1>2, <1>4, UnusedKept
  <2>2. ASSUME program \in {"deadlock", "file_scope"} PROVE TransferInv'
    <3>1. Aside \/ \E t \in Workers : TransferStep(t)
      <4>1. CASE MainStep
        BY <1>1, <1>2, <2>2, <4>1, MainTransfers
      <4>2. CASE \E t \in Workers : Executes(t)
        BY <1>1, <1>2, <2>2, <4>2, DepositSteps, FileScopeSteps, DepositTransfers,
           FileScopeTransfers
      <4>3. QED BY <1>4, <4>1, <4>2
    <3>2. TransferInv
      BY <1>1, <2>2 DEF ProgramInv
    <3>3. QED BY <1>1, <1>2, <2>2, <3>1, <3>2, TransferKept
  <2>3. ASSUME program = "file_scope" PROVE FreedInv'
    <3>1. MainStep \/ \E t \in Workers : FileScopeStep(t)
      BY <1>1, <1>4, <2>3, FileScopeSteps
    <3>2. QED BY <1>1, <1>2, <2>3, <3>1, FreedKept DEF ProgramInv
  <2>4. ASSUME program = "hash_logger" PROVE HashInv'
    <3>1. MainStep \/ \E t \in Workers : HashStep(t)
      BY <1>1, <1>4, <2>4, HashSteps
    <3>2. QED BY <1>1, <1>2, <2>4, <3>1, HashKept DEF ProgramInv
  <2>5. ASSUME program = "matrix" PROVE MatrixInv'
    <3>1. MainStep \/ \E t \in Workers : MatrixStep(t)
      BY <1>1, <1>4, <2>5, MatrixSteps
    <3>2. MatrixInv
      BY <1>1, <2>5 DEF ProgramInv
    <3>3. QED BY <1>1, <1>2, <2>5, <3>1, <3>2, MatrixMainKept, MatrixWorkerKept
  <2>6. ASSUME program = "condition" PROVE ReadyInv'
    <3>1. MainStep \/ \E t \in Workers : WorkStep(t)
      BY <1>1, <1>4, <2>6, WorkSteps
    <3>2. QED BY <1>1, <1>2, <2>6, <3>1, ReadyKept DEF ProgramInv
  <2>7. ASSUME program = "counter" PROVE CounterInv'
    <3>1. MainStep \/ \E t \in Workers : CounterStep(t)
      BY <1>1, <1>4, <2>7, CounterSteps
    <3>2. QED BY <1>1, <1>2, <2>7, <3>1, CounterKept DEF ProgramInv
  <2>8. ASSUME program = "list" PROVE ListInv'
    <3>1. MainStep \/ \E t \in Workers : InsertStep(t)
      BY <1>1, <1>4, <2>8, InsertSteps
    <3>2. QED BY <1>1, <1>2, <2>8, <3>1, ListKept DEF ProgramInv
  <2>9. ProgramInv'
    BY <1>2, <2>2, <2>3, <2>4, <2>5, <2>6, <2>7, <2>8 DEF ProgramInv
  <2>10. QED BY <1>2, <2>1, <2>9 DEF IInv
<1>5. QED BY <1>2, <1>3, <1>4

\* The invariant holds in every state of every behaviour.
THEOREM LocksInv == Spec => []IInv
<1>1. Init => IInv
  BY InitSound
<1>2. IInv /\ [Next]_vars => IInv'
  BY IInvKept
<1>3. QED BY <1>1, <1>2, PTL DEF Spec

-----------------------------------------------------------------------------
\* No account is overdrawn and no row given out twice (deadlock.c,
\* DeadlockingFixed-File-ScopeLock.c, Matrix.c).
LEMMA NoneTakenTwiceHolds ==
    ASSUME IInv
    PROVE  NoneTakenTwice
<1>1. Shape /\ Unused /\ ProgramInv
  BY DEF IInv
<1>2. mem[Balance(1)] >= 0 /\ mem[Balance(2)] >= 0
  <2>1. CASE program \in {"deadlock", "file_scope"}
    BY <1>1, <2>1 DEF ProgramInv, TransferInv
  <2>2. CASE program \notin {"deadlock", "file_scope"}
    BY <1>1, <2>2, LockProgramsAssumption DEF Unused
  <2>3. QED BY <2>1, <2>2
<1>3. \A r \in 0 .. SIZE - 1 : mem[C(r)] <= 1
  <2>1. CASE program = "matrix"
    BY <1>1, <2>1 DEF ProgramInv, MatrixInv, RowInv
  <2>2. CASE program # "matrix"
    BY <1>1, <2>2 DEF Unused
  <2>3. QED BY <2>1, <2>2
<1>4. QED BY <1>2, <1>3 DEF NoneTakenTwice

\* The walk of a list of all nodes is the one Inserted takes.
LEMMA WalkOfAll ==
    ASSUME Shape, program = "list", ListInv, Linked = Workers
    PROVE  Inserted = Workers
<1>1. N \in Nat /\ Workers = 1 .. N /\ N = NUM_THREADS
  BY CellsSuffice DEF N, Shape
<1>2. Cardinality(Linked) = N
  BY <1>1, FS_Interval
<1>3. PICK f \in [0 .. N -> 0 .. N] : Walk(f, N, Workers)
  BY <1>2 DEF ListInv
<1>4. /\ f[0] = 0 /\ \A i \in 1 .. N : f[i] \in Workers /\ f[i] = mem[next(f[i - 1])]
      /\ \A x \in Workers : \E i \in 1 .. N : f[i] = x
  BY <1>3 DEF Walk
<1> DEFINE Follows(g) == g = [k \in 0 .. N |-> IF k = 0 THEN 0 ELSE mem[next(g[k - 1])]]
<1>5. Follows(f)
  <2>1. \A k \in 0 .. N : f[k] = IF k = 0 THEN 0 ELSE mem[next(f[k - 1])]
    BY <1>4
  <2>2. QED BY <2>1
<1>6. PICK node : node = CHOOSE g : Follows(g)
  OBVIOUS
<1>7. Follows(node)
  BY <1>5, <1>6
<1>8. Inserted = {node[k] : k \in 1 .. N}
  BY <1>1, <1>6 DEF Inserted
<1>9. node[0] = 0 /\ \A k \in 1 .. N : node[k] = mem[next(node[k - 1])]
  <2>1. 0 \in 0 .. N /\ \A k \in 1 .. N : k \in 0 .. N /\ k # 0
    BY <1>1
  <2>2. \A k \in 0 .. N : node[k] = IF k = 0 THEN 0 ELSE mem[next(node[k - 1])]
    BY <1>7
  <2>3. QED BY <2>1, <2>2
<1> HIDE DEF Follows
<1>10. \A k \in 0 .. N : k \in {m \in 0 .. N : node[m] = f[m]}
  <2>1. 0 \in {m \in 0 .. N : node[m] = f[m]}
    BY <1>1, <1>4, <1>9
  <2>2. ASSUME NEW k \in 0 .. N - 1, k \in {m \in 0 .. N : node[m] = f[m]}
        PROVE  k + 1 \in {m \in 0 .. N : node[m] = f[m]}
    <3>1. k + 1 \in 1 .. N /\ k + 1 \in 0 .. N /\ (k + 1) - 1 = k
      BY <1>1
    <3>2. node[k + 1] = mem[next(node[k])] /\ f[k + 1] = mem[next(f[k])]
      BY <1>4, <1>9, <3>1
    <3>3. QED BY <2>2, <3>1, <3>2
  <2>3. QED BY <1>1, <2>1, <2>2, SetInduction
<1>11. \A k \in 1 .. N : node[k] = f[k]
  BY <1>1, <1>10
<1>12. QED BY <1>4, <1>8, <1>11

\* What main() finds when it has joined its threads.
LEMMA ResultIsRightHolds ==
    ASSUME IInv
    PROVE  ResultIsRight
<1> SUFFICES ASSUME Ended
             PROVE  CASE program = "deadlock" -> mem[Balance(1)] + mem[Balance(2)] = 2 * Opening
                      [] program = "file_scope" ->
                            /\ mem[Balance(1)] + mem[Balance(2)] = 2 * Opening
                            /\ \A t \in Workers : mem[freed(t)] = 1
                      [] program = "hash_logger" -> mem[total_bytes] = TotalSize
                      [] program = "matrix" -> \A r \in 0 .. SIZE - 1 : mem[C(r)] = 1
                      [] program = "condition" -> mem[threads_ready] = 0
                      [] program = "counter" -> mem[counter] = NUM_THREADS * Increments
                      [] program = "list" -> Inserted = Workers
  BY DEF ResultIsRight
<1>1. Shape /\ Life /\ ProgramInv
  BY DEF IInv
<1>2. N \in Nat /\ Workers = 1 .. N
  BY <1>1, CellsSuffice DEF Shape
<1>3. pc \in [Threads -> Nat] /\ mem \in [Cells -> Int] /\ \A t \in Workers : t \in Threads
  BY <1>1 DEF Shape, Threads
\* Every thread has returned.
<1>4. \A t \in Workers : pc[t] > End /\ pc[t] \in Nat
  <2>1. pc[main] > Last /\ pc[main] \in Nat
    BY <1>1, <1>3, MainCode DEF Ended, Done, Threads
  <2>2. Joins \in Nat /\ Last \in Nat /\ Last >= Joins + N
    <3>1. First \in Nat /\ Mid \in Nat /\ Rest \in Nat
      BY <1>2 DEF First, Mid, Rest
    <3>2. QED BY <1>2, <3>1 DEF Joins, Last
  <2>3. ASSUME NEW t \in Workers PROVE pc[main] > Joins + t
    <3>1. t \in Nat /\ t <= N
      BY <1>2
    <3>2. QED BY <1>2, <2>1, <2>2, <3>1
  <2>4. QED BY <1>1, <1>3, <2>3 DEF Life
<1>5. CASE program \in {"deadlock", "file_scope"}
  <2>1. TransferInv
    BY <1>1, <1>5 DEF ProgramInv
  <2>2. \A t \in Workers : Place(t) \notin {8, 9}
    BY <1>4, <1>5 DEF End, Place
  <2>3. mem[Balance(1)] + mem[Balance(2)] = 2 * Opening
    BY <2>1, <2>2 DEF TransferInv, Balances
  <2>4. program = "file_scope" => \A t \in Workers : mem[freed(t)] = 1
    BY <1>1, <1>4 DEF ProgramInv, FreedInv, End
  <2>5. QED BY <1>5, <2>3, <2>4
<1>6. CASE program = "hash_logger"
  <2>1. PICK F \in [0 .. N -> Int] : Totals(F, Stored) /\ mem[total_bytes] = F[N]
    BY <1>1, <1>6 DEF ProgramInv, HashInv
  <2>2. Stored = 1 .. N
    BY <1>2, <1>4, <1>6 DEF Stored, End
  <2>3. N = Len(Sizes) /\ Sizes \in Seq(Nat)
    BY <1>6, LockProgramsAssumption DEF N
  <2>4. F[N] = TotalSize
    BY <1>2, <2>1, <2>2, <2>3, TotalsOfAll
  <2>5. QED BY <1>6, <2>1, <2>4
<1>7. CASE program = "matrix"
  <2>1. MatrixInv
    BY <1>1, <1>7 DEF ProgramInv
  <2>2. 1 \in Workers
    BY <1>2, <1>7, LockProgramsAssumption DEF N
  <2>3. \A t \in Workers : pc[t] >= 11 /\ pc[t] \notin {8, 9}
    BY <1>4, <1>7 DEF End
  <2>4. mem[current_row] >= SIZE
    BY <2>1, <2>2, <2>3 DEF MatrixInv, WorkerInv
  <2>5. mem[current_row] \in Int /\ SIZE \in Nat
    BY <1>1, <1>3, CellsAre, LockProgramsAssumption
  <2>6. \A r \in 0 .. SIZE - 1 : mem[C(r)] = 1
    BY <2>1, <2>3, <2>4, <2>5 DEF MatrixInv, RowInv
  <2>7. QED BY <1>7, <2>6
<1>8. CASE program = "condition"
  <2>1. {t \in Workers : pc[t] \in 2 .. 6} = {}
    BY <1>4, <1>8 DEF End
  <2>2. mem[threads_ready] = 0
    BY <1>1, <1>8, <2>1, FS_EmptySet DEF ProgramInv, ReadyInv
  <2>3. QED BY <1>8, <2>2
<1>9. CASE program = "counter"
  <2>1. Increments \in Nat
    BY LockProgramsAssumption
  <2>2. \A t \in Workers : pc[t] > 2 * Increments + 1 /\ pc[t] \notin 2 .. 2 * Increments + 1
    BY <1>4, <1>9, <2>1 DEF End
  <2>3. {t \in Workers : pc[t] > 2 * Increments + 1} = 1 .. N
    BY <1>2, <2>2
  <2>4. Cardinality(1 .. N) = N
    BY <1>2, FS_Interval
  <2>5. Counted = Increments * N
    BY <2>3, <2>4 DEF Counted
  <2>6. mem[counter] = Increments * N
    BY <1>1, <1>9, <2>2, <2>5 DEF ProgramInv, CounterInv
  <2>7. N = NUM_THREADS
    BY <1>9 DEF N
  <2>8. QED BY <1>2, <1>9, <2>1, <2>6, <2>7
<1>10. CASE program = "list"
  <2>1. Linked = Workers
    BY <1>4, <1>10 DEF Linked, End
  <2>2. Inserted = Workers
    BY <1>1, <1>10, <2>1, WalkOfAll DEF ProgramInv
  <2>3. QED BY <1>10, <2>2
<1>11. QED BY <1>1, <1>5, <1>6, <1>7, <1>8, <1>9, <1>10 DEF Shape, Kinds

\* No account is ever overdrawn and no row of the matrix given out twice, however
\* many threads there are and whatever they are to transfer.
THEOREM NothingTakenTwice == Spec => []NoneTakenTwice
<1>1. IInv => NoneTakenTwice
  BY NoneTakenTwiceHolds
<1>2. QED BY <1>1, LocksInv, PTL

\* When main() has joined its threads, each program shows what its threads would have
\* done one after the other.
THEOREM ProgramsRight == Spec => []ResultIsRight
<1>1. IInv => ResultIsRight
  BY ResultIsRightHolds
<1>2. QED BY <1>1, LocksInv, PTL
=============================================================================
