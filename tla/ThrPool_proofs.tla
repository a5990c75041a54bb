--------------------------- MODULE ThrPool_proofs ---------------------------
(***************************************************************************)
(* Proofs about ThrPool, for any number of workers, clients and jobs, any  *)
(* minimum and maximum.                                                    *)
(***************************************************************************)
EXTENDS ThrPool, TLAPS, FiniteSetTheorems

IdleLabels == {"idle", "linger", "timedout"}
ActiveLabels == {"run", "returned", "exiting"}
AliveLabels == WorkerLabels \ {"none"}
SleepLabels == {"idle", "linger"}
ClientLabels == {"client", "wait", "destroy_active", "destroy_workers", "gone"}

\* The workers whose place in q is one of L.
Members(q, L) == {w \in Workers : q[w] \in L}

PoolType ==
    [head : Seq(Jobs), active : SUBSET Workers, flags : SUBSET {Waiting, Destroying},
     nthreads : Int, idle : Int, workcv : SUBSET Workers,
     waitcv : SUBSET Clients, busycv : SUBSET Clients]

PcType == [Workers \cup Clients -> WorkerLabels \cup ClientLabels]

\* The books of pool p are those of threads that are where q says.
Agrees(p, q) ==
    /\ p \in PoolType
    /\ q \in PcType
    /\ \A w \in Workers : q[w] \in WorkerLabels
    /\ p.nthreads = Cardinality(Members(q, AliveLabels))
    /\ p.nthreads =< pool_maximum
    /\ p.idle = Cardinality(Members(q, IdleLabels))
    /\ p.active = Members(q, ActiveLabels)
    /\ p.workcv \subseteq Members(q, SleepLabels)

Books == Agrees(pool, pc) /\ job \in [Workers -> Jobs \cup {NULL}]

-----------------------------------------------------------------------------
One(b) == IF b THEN 1 ELSE 0

\* What moving one worker does to the number of those whose place is in L.
LEMMA MoveCount ==
    ASSUME NEW L, NEW q \in PcType, NEW w \in Workers, NEW l \in WorkerLabels
    PROVE  LET r == [q EXCEPT ![w] = l]
           IN  /\ Cardinality(Members(q, L)) \in Nat
               /\ Cardinality(Members(r, L))
                    = Cardinality(Members(q, L)) + One(l \in L) - One(q[w] \in L)
<1> DEFINE r == [q EXCEPT ![w] = l]
           S == Members(q, L)
           T == Members(r, L)
<1>1. IsFiniteSet(S) /\ Cardinality(S) \in Nat
  <2>1. S \subseteq Workers BY DEF Members
  <2>2. QED BY <2>1, ThrPoolAssumption, FS_Subset, FS_CardinalityType
<1>2. r[w] = l /\ \A v \in Workers : v # w => r[v] = q[v]
  BY DEF PcType
<1>3. /\ w \in T <=> l \in L
      /\ w \in S <=> q[w] \in L
      /\ \A v \in Workers : v # w => (v \in T <=> v \in S)
      /\ S \subseteq Workers /\ T \subseteq Workers
  BY <1>2 DEF Members
<1> HIDE DEF S, T, r
<1>4. CASE l \in L /\ q[w] \notin L
  <2>1. T = S \cup {w} /\ w \notin S BY <1>3, <1>4
  <2>2. Cardinality(T) = Cardinality(S) + 1 BY <1>1, <2>1, FS_AddElement
  <2>3. QED BY <1>1, <1>4, <2>2 DEF One, S, T, r
<1>5. CASE l \notin L /\ q[w] \in L
  <2>1. T = S \ {w} /\ w \in S BY <1>3, <1>5
  <2>2. Cardinality(T) = Cardinality(S) - 1 BY <1>1, <2>1, FS_RemoveElement
  <2>3. QED BY <1>1, <1>5, <2>2 DEF One, S, T, r
<1>6. CASE (l \in L) <=> (q[w] \in L)
  <2>1. T = S BY <1>3, <1>6
  <2>2. QED BY <1>1, <1>6, <2>1 DEF One, S, T, r
<1>7. QED BY <1>4, <1>5, <1>6

\* The books after worker w has moved to l.
LEMMA Relabel ==
    ASSUME NEW p, NEW q, Agrees(p, q), NEW w \in Workers, NEW l \in WorkerLabels,
           NEW n \in PoolType,
           n.nthreads = p.nthreads + One(l # "none") - One(q[w] # "none"),
           n.nthreads =< pool_maximum,
           n.idle = p.idle + One(l \in IdleLabels) - One(q[w] \in IdleLabels),
           n.active = IF l \in ActiveLabels THEN p.active \cup {w} ELSE p.active \ {w},
           \A v \in n.workcv : IF v = w THEN l \in SleepLabels ELSE v \in p.workcv
    PROVE  Agrees(n, [q EXCEPT ![w] = l])
<1> DEFINE r == [q EXCEPT ![w] = l]
<1>1. q \in PcType /\ q[w] \in WorkerLabels BY DEF Agrees
<1>2. /\ r \in PcType /\ r[w] = l
      /\ \A v \in Workers : v # w => r[v] = q[v]
      /\ \A v \in Workers : r[v] \in WorkerLabels
  BY DEF PcType, Agrees
<1>3. /\ One(l \in AliveLabels) = One(l # "none")
      /\ One(q[w] \in AliveLabels) = One(q[w] # "none")
  BY <1>1 DEF AliveLabels, One
<1>4. n.nthreads = Cardinality(Members(r, AliveLabels))
  BY <1>1, <1>3, MoveCount DEF Agrees
<1>5. n.idle = Cardinality(Members(r, IdleLabels))
  BY <1>1, MoveCount DEF Agrees
<1> HIDE DEF r
<1>6. n.active = Members(r, ActiveLabels)
  BY <1>2 DEF Agrees, Members
<1>7. n.workcv \subseteq Members(r, SleepLabels)
  BY <1>2 DEF Agrees, Members, PoolType
<1>8. QED BY <1>2, <1>4, <1>5, <1>6, <1>7 DEF Agrees, r

\* A step that moves no worker.
LEMMA SamePlaces ==
    ASSUME NEW p, NEW q, Agrees(p, q), NEW n \in PoolType, NEW r \in PcType,
           \A w \in Workers : r[w] = q[w],
           n.nthreads = p.nthreads, n.idle = p.idle, n.active = p.active,
           n.workcv \subseteq p.workcv
    PROVE  Agrees(n, r)
<1>1. \A L : Members(r, L) = Members(q, L) BY DEF Members
<1>2. QED BY <1>1, Zenon DEF Agrees

-----------------------------------------------------------------------------
\* notify_waiters changes the flags and the sleepers of pool_waitcv alone.
LEMMA NotifyFacts ==
    ASSUME NEW p \in PoolType
    PROVE  /\ NotifyIfWaiting(p) \in PoolType
           /\ NotifyIfWaiting(p).head = p.head
           /\ NotifyIfWaiting(p).active = p.active
           /\ NotifyIfWaiting(p).nthreads = p.nthreads
           /\ NotifyIfWaiting(p).idle = p.idle
           /\ NotifyIfWaiting(p).workcv = p.workcv
           /\ Destroying \in NotifyIfWaiting(p).flags <=> Destroying \in p.flags
BY DEF NotifyIfWaiting, notify_waiters, PoolType, Waiting, Destroying

\* What job_cleanup does.
LEMMA CleanupFacts ==
    ASSUME NEW p \in PoolType, NEW w \in Workers
    PROVE  /\ job_cleanup(p, w) \in PoolType
           /\ job_cleanup(p, w).head = p.head
           /\ job_cleanup(p, w).active = p.active \ {w}
           /\ job_cleanup(p, w).nthreads = p.nthreads
           /\ job_cleanup(p, w).idle = p.idle
           /\ job_cleanup(p, w).workcv = p.workcv
           /\ Destroying \in job_cleanup(p, w).flags <=> Destroying \in p.flags
<1> DEFINE n == [p EXCEPT !.active = @ \ {w}]
<1>1. /\ n \in PoolType /\ n.head = p.head /\ n.active = p.active \ {w}
      /\ n.nthreads = p.nthreads /\ n.idle = p.idle /\ n.workcv = p.workcv
      /\ n.flags = p.flags
  BY DEF PoolType
<1> HIDE DEF n
<1>2. job_cleanup(p, w) = NotifyIfWaiting(n) BY DEF job_cleanup, n
<1>3. QED BY <1>1, <1>2, NotifyFacts

\* A worker that comes to test for work is counted as idle, and at no job.
LEMMA AtTestAgrees ==
    ASSUME Books, NEW w \in Workers, Ready(w)
    PROVE  /\ Agrees(AtTest(w), [pc EXCEPT ![w] = "timedout"])
           /\ AtTest(w).head = pool.head
           /\ AtTest(w).nthreads = pool.nthreads
           /\ w \notin AtTest(w).workcv /\ AtTest(w).workcv \subseteq pool.workcv
           /\ Destroying \in AtTest(w).flags <=> IsDestroyed
<1> DEFINE n == AtTest(w)
<1>1. /\ pool \in PoolType /\ pc \in PcType /\ pc[w] \in WorkerLabels
      /\ w \in pool.workcv => pc[w] \in SleepLabels
      /\ w \in pool.active <=> pc[w] \in ActiveLabels
      /\ pool.nthreads =< pool_maximum
  BY DEF Books, Agrees, Members
<1>2. /\ n \in PoolType /\ n.head = pool.head /\ n.nthreads = pool.nthreads
      /\ n.idle = pool.idle + One(pc[w] \in {"start", "returned"})
      /\ n.active = IF pc[w] = "returned" THEN pool.active \ {w} ELSE pool.active
      /\ n.workcv = pool.workcv
      /\ Destroying \in n.flags <=> Destroying \in pool.flags
  <2>1. CASE pc[w] = "start"
    <3> DEFINE m == [pool EXCEPT !.idle = @ + 1]
    <3>1. /\ m \in PoolType /\ m.head = pool.head /\ m.nthreads = pool.nthreads
          /\ m.idle = pool.idle + 1 /\ m.active = pool.active /\ m.workcv = pool.workcv
          /\ m.flags = pool.flags
      BY <1>1 DEF PoolType
    <3> HIDE DEF m
    <3>2. n = NotifyIfWaiting(m) BY <2>1 DEF AtTest, m
    <3>3. One(pc[w] \in {"start", "returned"}) = 1 BY <2>1 DEF One
    <3>4. QED BY <2>1, <3>1, <3>2, <3>3, NotifyFacts
  <2>2. CASE pc[w] = "returned"
    <3> DEFINE k == job_cleanup(pool, w)
               m == [k EXCEPT !.idle = @ + 1]
    <3>1. /\ k \in PoolType /\ k.head = pool.head /\ k.active = pool.active \ {w}
          /\ k.nthreads = pool.nthreads /\ k.idle = pool.idle /\ k.workcv = pool.workcv
          /\ Destroying \in k.flags <=> Destroying \in pool.flags
      BY <1>1, CleanupFacts
    <3> HIDE DEF k
    <3>2. /\ m \in PoolType /\ m.head = pool.head /\ m.nthreads = pool.nthreads
          /\ m.idle = pool.idle + 1 /\ m.active = pool.active \ {w}
          /\ m.workcv = pool.workcv
          /\ Destroying \in m.flags <=> Destroying \in pool.flags
      BY <3>1 DEF PoolType
    <3>3. n = NotifyIfWaiting(m) BY <2>2 DEF AtTest, k
    <3> HIDE DEF m
    <3>4. One(pc[w] \in {"start", "returned"}) = 1 BY <2>2 DEF One
    <3>5. QED BY <2>2, <3>2, <3>3, <3>4, NotifyFacts
  <2>3. CASE pc[w] \notin {"start", "returned"}
    <3>1. n = pool BY <2>3 DEF AtTest
    <3>2. One(pc[w] \in {"start", "returned"}) = 0 BY <2>3 DEF One
    <3>3. QED BY <1>1, <2>3, <3>1, <3>2 DEF PoolType
  <2>4. QED BY <2>1, <2>2, <2>3
<1> HIDE DEF n
<1>3. w \notin pool.workcv /\ pc[w] \in {"start", "returned", "timedout", "idle", "linger"}
  BY <1>1 DEF Ready, SleepLabels
<1>4. n.idle = pool.idle + One("timedout" \in IdleLabels) - One(pc[w] \in IdleLabels)
  <2>1. One("timedout" \in IdleLabels) = 1 BY DEF One, IdleLabels
  <2>2. One(pc[w] \in {"start", "returned"}) = 1 - One(pc[w] \in IdleLabels)
    BY <1>3 DEF One, IdleLabels
  <2>3. pool.idle \in Int /\ One(pc[w] \in IdleLabels) \in Int
    BY <1>1 DEF PoolType, One
  <2>4. QED BY <1>2, <2>1, <2>2, <2>3
<1>5. n.nthreads = pool.nthreads + One("timedout" # "none") - One(pc[w] # "none")
  <2>1. pool.nthreads \in Int BY <1>1 DEF PoolType
  <2>2. QED BY <1>2, <1>3, <2>1 DEF One
<1>6. n.active = pool.active \ {w}
  BY <1>1, <1>2, <1>3 DEF ActiveLabels
<1>7. "timedout" \in WorkerLabels /\ "timedout" \notin ActiveLabels
  BY DEF WorkerLabels, ActiveLabels
<1>8. Agrees(n, [pc EXCEPT ![w] = "timedout"])
  BY <1>1, <1>2, <1>3, <1>4, <1>5, <1>6, <1>7, Relabel DEF Books
<1>9. QED BY <1>2, <1>3, <1>8 DEF n, IsDestroyed

\* With fewer workers than pool_maximum there is a thread left to be one.
LEMMA SomeoneIsFree ==
    ASSUME NEW p, NEW q, Agrees(p, q), p.nthreads < pool_maximum
    PROVE  LET x == CHOOSE w \in Workers : q[w] = "none"
           IN  x \in Workers /\ q[x] = "none"
<1>1. \A w \in Workers : q[w] \in WorkerLabels BY DEF Agrees
<1>2. Members(q, AliveLabels) # Workers
  BY ThrPoolAssumption, FS_CardinalityType DEF Agrees
<1>3. \E w \in Workers : q[w] = "none"
  BY <1>1, <1>2 DEF Members, AliveLabels
<1>4. QED BY <1>3

\* create_worker leaves the queue, the flags and the other threads alone.
LEMMA CreateFrame ==
    ASSUME NEW p, NEW q, Agrees(p, q), p.nthreads < pool_maximum, create_worker(p, q)
    PROVE  /\ pool'.head = p.head /\ pool'.flags = p.flags
           /\ pool'.nthreads >= p.nthreads
           /\ \A t \in Workers \cup Clients :
                 \/ pc'[t] = q[t]
                 \/ t \in Workers /\ q[t] = "none" /\ pc'[t] = "start"
<1> DEFINE x == CHOOSE w \in Workers : q[w] = "none"
<1>1. p \in PoolType /\ q \in PcType BY DEF Agrees
<1>2. x \in Workers /\ q[x] = "none" BY SomeoneIsFree
<1> HIDE DEF x
<1>3. CASE pool' = p /\ pc' = q
  BY <1>1, <1>3 DEF PoolType
<1>4. CASE pool' = [p EXCEPT !.nthreads = @ + 1] /\ pc' = [q EXCEPT ![x] = "start"]
  <2>1. /\ pool'.head = p.head /\ pool'.flags = p.flags
        /\ pool'.nthreads = p.nthreads + 1 /\ p.nthreads \in Int
    BY <1>1, <1>4 DEF PoolType
  <2>2. \A t \in Workers \cup Clients : pc'[t] = IF t = x THEN "start" ELSE q[t]
    BY <1>1, <1>4 DEF PcType
  <2>3. QED BY <1>2, <2>1, <2>2
<1>5. QED BY <1>3, <1>4 DEF create_worker, x

\* create_worker, with room for another worker, keeps the books of its caller.
LEMMA CreateAgrees ==
    ASSUME NEW p, NEW q, Agrees(p, q), p.nthreads < pool_maximum, create_worker(p, q)
    PROVE  Agrees(pool', pc')
<1> DEFINE x == CHOOSE w \in Workers : q[w] = "none"
<1>1. p \in PoolType /\ q \in PcType /\ \A w \in Workers : q[w] \in WorkerLabels
  BY DEF Agrees
<1>2. x \in Workers /\ q[x] = "none" BY SomeoneIsFree
<1> HIDE DEF x
<1>3. CASE pool' = p /\ pc' = q
  BY <1>3
<1>4. CASE pool' = [p EXCEPT !.nthreads = @ + 1] /\ pc' = [q EXCEPT ![x] = "start"]
  <2> DEFINE n == [p EXCEPT !.nthreads = @ + 1]
  <2>1. /\ n \in PoolType /\ n.nthreads = p.nthreads + 1 /\ n.idle = p.idle
        /\ n.active = p.active /\ n.workcv = p.workcv /\ p.nthreads \in Int /\ p.idle \in Int
    BY <1>1 DEF PoolType
  <2> HIDE DEF n
  <2>2. /\ "start" \in WorkerLabels
        /\ One("start" # "none") = 1 /\ One(q[x] # "none") = 0
        /\ One("start" \in IdleLabels) = 0 /\ One(q[x] \in IdleLabels) = 0
    BY <1>2 DEF WorkerLabels, One, IdleLabels
  <2>3. x \notin p.active /\ x \notin p.workcv /\ "start" \notin ActiveLabels
    BY <1>2 DEF Agrees, Members, ActiveLabels, SleepLabels
  <2>4. n.nthreads =< pool_maximum
    BY <2>1, ThrPoolAssumption
  <2>5. Agrees(n, [q EXCEPT ![x] = "start"])
    <3>1. n.nthreads = p.nthreads + One("start" # "none") - One(q[x] # "none")
      BY <2>1, <2>2
    <3>2. n.idle = p.idle + One("start" \in IdleLabels) - One(q[x] \in IdleLabels)
      BY <2>1, <2>2
    <3>3. n.active = IF "start" \in ActiveLabels THEN p.active \cup {x} ELSE p.active \ {x}
      BY <2>1, <2>3
    <3>4. \A v \in n.workcv : IF v = x THEN "start" \in SleepLabels ELSE v \in p.workcv
      BY <2>1, <2>3
    <3>5. QED BY <1>2, <2>1, <2>2, <2>4, <3>1, <3>2, <3>3, <3>4, Relabel
  <2>6. QED BY <1>4, <2>5 DEF n
<1>5. QED BY <1>3, <1>4 DEF create_worker, x

\* A worker that is at no job, and no longer counted as idle, counts itself out.
LEMMA LeaveCounts ==
    ASSUME NEW p, NEW w \in Workers, Agrees(p, [pc EXCEPT ![w] = "start"]), pc \in PcType
    PROVE  Agrees([p EXCEPT !.nthreads = @ - 1], [pc EXCEPT ![w] = "none"])
<1> DEFINE q == [pc EXCEPT ![w] = "start"]
           n == [p EXCEPT !.nthreads = @ - 1]
<1>1. /\ p \in PoolType /\ q[w] = "start"
      /\ [pc EXCEPT ![w] = "none"] = [q EXCEPT ![w] = "none"]
      /\ p.nthreads =< pool_maximum /\ w \notin p.active /\ w \notin p.workcv
  BY DEF Agrees, PcType, Members, ActiveLabels, SleepLabels
<1>2. /\ n \in PoolType /\ n.nthreads = p.nthreads - 1 /\ n.idle = p.idle
      /\ n.active = p.active /\ n.workcv = p.workcv
      /\ p.nthreads \in Int /\ p.idle \in Int
  BY <1>1 DEF PoolType
<1>3. Agrees(p, q) OBVIOUS
<1> HIDE DEF q, n
<1>4. "none" \in WorkerLabels BY DEF WorkerLabels
<1>5. n.nthreads = p.nthreads + One("none" # "none") - One(q[w] # "none")
  BY <1>1, <1>2 DEF One
<1>6. n.idle = p.idle + One("none" \in IdleLabels) - One(q[w] \in IdleLabels)
  BY <1>1, <1>2 DEF One, IdleLabels
<1>7. n.active = IF "none" \in ActiveLabels THEN p.active \cup {w} ELSE p.active \ {w}
  BY <1>1, <1>2 DEF ActiveLabels
<1>8. \A v \in n.workcv : IF v = w THEN "none" \in SleepLabels ELSE v \in p.workcv
  BY <1>1, <1>2
<1>9. n.nthreads =< pool_maximum BY <1>1, <1>2, ThrPoolAssumption
<1>10. Agrees(n, [q EXCEPT ![w] = "none"])
  BY <1>2, <1>3, <1>4, <1>5, <1>6, <1>7, <1>8, <1>9, Relabel
<1>11. QED BY <1>1, <1>10 DEF n

\* worker_cleanup keeps the books, the queue, and the other threads.
LEMMA LeaveAgrees ==
    ASSUME NEW p, NEW w \in Workers, Agrees(p, [pc EXCEPT ![w] = "start"]),
           pc \in PcType, worker_cleanup(p, w)
    PROVE  /\ Agrees(pool', pc')
           /\ pool'.head = p.head /\ (Destroying \in pool'.flags <=> Destroying \in p.flags)
           /\ pc'[w] \in {"none", "start"}
           /\ \A t \in Workers \cup Clients :
                 \/ t = w \/ pc'[t] = pc[t]
                 \/ t \in Workers /\ pc[t] = "none" /\ pc'[t] = "start"
<1> DEFINE n == [p EXCEPT !.nthreads = @ - 1]
           r == [pc EXCEPT ![w] = "none"]
<1>1. Agrees(n, r) BY LeaveCounts
<1>2. p \in PoolType BY DEF Agrees
<1>3. n \in PoolType /\ n.head = p.head /\ n.flags = p.flags
  BY <1>1, <1>2 DEF Agrees, PoolType
<1>4. \A t \in Workers \cup Clients : r[t] = IF t = w THEN "none" ELSE pc[t]
  BY DEF PcType
<1> HIDE DEF n, r
<1>5. CASE pool' = n /\ pc' = r
  BY <1>1, <1>3, <1>4, <1>5
<1>6. CASE pool' = [n EXCEPT !.busycv = {}] /\ pc' = r
  <2>1. /\ pool' \in PoolType /\ pool'.nthreads = n.nthreads /\ pool'.idle = n.idle
        /\ pool'.active = n.active /\ pool'.workcv = n.workcv
        /\ pool'.head = n.head /\ pool'.flags = n.flags
    BY <1>3, <1>6 DEF PoolType
  <2>2. r \in PcType BY <1>1 DEF Agrees
  <2>3. Agrees(pool', r) BY <1>1, <2>1, <2>2, SamePlaces
  <2>4. QED BY <1>3, <1>4, <1>6, <2>1, <2>3
<1>7. CASE n.nthreads < pool_maximum /\ create_worker(n, r)
  <2>1. Agrees(pool', pc') BY <1>1, <1>7, CreateAgrees
  <2>2. /\ pool'.head = n.head /\ pool'.flags = n.flags
        /\ \A t \in Workers \cup Clients :
              pc'[t] = r[t] \/ (t \in Workers /\ r[t] = "none" /\ pc'[t] = "start")
    BY <1>1, <1>7, CreateFrame
  <2>3. QED BY <1>3, <1>4, <2>1, <2>2
<1>8. QED
  BY <1>5, <1>6, <1>7 DEF worker_cleanup, n, r

-----------------------------------------------------------------------------
\* A worker that leaves the loop is at no job and no longer idle.
LEMMA LeaveReady ==
    ASSUME Books, NEW w \in Workers, Ready(w)
    PROVE  Agrees([AtTest(w) EXCEPT !.idle = @ - 1], [pc EXCEPT ![w] = "start"])
<1> DEFINE t == [pc EXCEPT ![w] = "timedout"]
           p == AtTest(w)
           n == [p EXCEPT !.idle = @ - 1]
<1>0. pc \in PcType BY DEF Books, Agrees
<1>1. Agrees(p, t) /\ w \notin p.workcv BY AtTestAgrees
<1>2. /\ t[w] = "timedout" /\ p \in PoolType /\ p.nthreads =< pool_maximum
      /\ w \notin p.active /\ [t EXCEPT ![w] = "start"] = [pc EXCEPT ![w] = "start"]
  BY <1>0, <1>1 DEF PcType, Agrees, Members, ActiveLabels
<1> HIDE DEF p, t
<1>3. /\ n \in PoolType /\ n.nthreads = p.nthreads /\ n.idle = p.idle - 1
      /\ n.active = p.active /\ n.workcv = p.workcv
      /\ p.nthreads \in Int /\ p.idle \in Int
  <2>1. p.nthreads \in Int /\ p.idle \in Int BY <1>2 DEF PoolType
  <2>2. p.idle - 1 \in Int BY <2>1
  <2>3. QED BY <1>2, <2>1, <2>2, Zenon DEF PoolType
<1> HIDE DEF n
<1>4. /\ One("start" # "none") = 1 /\ One(t[w] # "none") = 1
      /\ One("start" \in IdleLabels) = 0 /\ One(t[w] \in IdleLabels) = 1
      /\ "start" \notin ActiveLabels /\ "start" \in WorkerLabels
  BY <1>2 DEF One, IdleLabels, ActiveLabels, WorkerLabels
<1>5. n.nthreads = p.nthreads + One("start" # "none") - One(t[w] # "none")
  BY <1>3, <1>4
<1>6. n.idle = p.idle + One("start" \in IdleLabels) - One(t[w] \in IdleLabels)
  BY <1>3, <1>4
<1>7. n.active = IF "start" \in ActiveLabels THEN p.active \cup {w} ELSE p.active \ {w}
  BY <1>2, <1>3, <1>4
<1>8. \A v \in n.workcv : IF v = w THEN "start" \in SleepLabels ELSE v \in p.workcv
  BY <1>1, <1>3
<1>9. n.nthreads =< pool_maximum BY <1>2, <1>3
<1>10. Agrees(n, [t EXCEPT ![w] = "start"])
  BY <1>1, <1>3, <1>4, <1>5, <1>6, <1>7, <1>8, <1>9, Relabel
<1>11. QED BY <1>2, <1>10 DEF n, p

\* So is one whose job ended its thread, when job_cleanup is done.
LEMMA ExitReady ==
    ASSUME Books, NEW w \in Workers, pc[w] = "exiting"
    PROVE  Agrees(job_cleanup(pool, w), [pc EXCEPT ![w] = "start"])
<1> DEFINE n == job_cleanup(pool, w)
<1>0. pool \in PoolType /\ Agrees(pool, pc) BY DEF Books, Agrees
<1>1. /\ n \in PoolType /\ n.nthreads = pool.nthreads /\ n.idle = pool.idle
      /\ n.active = pool.active \ {w} /\ n.workcv = pool.workcv
      /\ pool.nthreads \in Int /\ pool.idle \in Int
  BY <1>0, CleanupFacts DEF PoolType
<1> HIDE DEF n
<1>2. /\ One("start" # "none") = One(pc[w] # "none")
      /\ One("start" \in IdleLabels) = One(pc[w] \in IdleLabels)
      /\ One(pc[w] # "none") \in Int /\ One(pc[w] \in IdleLabels) \in Int
      /\ "start" \notin ActiveLabels /\ "start" \in WorkerLabels
  BY DEF One, IdleLabels, ActiveLabels, WorkerLabels
<1>3. w \notin pool.workcv /\ pool.nthreads =< pool_maximum
  BY <1>0 DEF Agrees, Members, SleepLabels
<1>4. n.nthreads = pool.nthreads + One("start" # "none") - One(pc[w] # "none")
  BY <1>1, <1>2
<1>5. n.idle = pool.idle + One("start" \in IdleLabels) - One(pc[w] \in IdleLabels)
  BY <1>1, <1>2
<1>6. n.active = IF "start" \in ActiveLabels THEN pool.active \cup {w} ELSE pool.active \ {w}
  BY <1>1, <1>2
<1>7. \A v \in n.workcv : IF v = w THEN "start" \in SleepLabels ELSE v \in pool.workcv
  BY <1>1, <1>3
<1>8. n.nthreads =< pool_maximum BY <1>1, <1>3
<1>9. Agrees(n, [pc EXCEPT ![w] = "start"])
  BY <1>0, <1>1, <1>2, <1>4, <1>5, <1>6, <1>7, <1>8, Relabel
<1>10. QED BY <1>9 DEF n

\* The steps of a worker keep the books.
LEMMA WorkerBooks ==
    ASSUME Books, NEW w \in Workers, WorkerStep(w)
    PROVE  Books'
<1>0. /\ pool \in PoolType /\ pc \in PcType /\ job \in [Workers -> Jobs \cup {NULL}]
      /\ pc[w] \in WorkerLabels /\ Agrees(pool, pc)
  BY DEF Books, Agrees
<1>1. CASE Sleep(w)
  <2> DEFINE t == [pc EXCEPT ![w] = "timedout"]
  <2>1. PICK p : /\ Agrees(p, t)
                 /\ pool' = [p EXCEPT !.workcv = @ \cup {w}]
                 /\ pc' = [pc EXCEPT ![w] = IF Excess(p) THEN "linger" ELSE "idle"]
    <3>1. CASE pc[w] = "timedout"
      <4>1. t = pc BY <1>0, <3>1 DEF PcType
      <4>2. Agrees(NotifyIfWaiting(pool), t)
        BY <1>0, <4>1, NotifyFacts, SamePlaces
      <4>3. QED BY <1>1, <3>1, <4>2 DEF Sleep
    <3>2. CASE pc[w] # "timedout"
      BY <1>1, <3>2, AtTestAgrees DEF Sleep
    <3>3. QED BY <3>1, <3>2
  <2>2. PICK m \in SleepLabels : pc' = [t EXCEPT ![w] = m]
    BY <1>0, <2>1 DEF PcType, SleepLabels
  <2>3. /\ t[w] = "timedout" /\ m \in WorkerLabels
        /\ p \in PoolType /\ w \notin p.active /\ p.nthreads =< pool_maximum
    BY <1>0, <2>1 DEF PcType, WorkerLabels, SleepLabels, Agrees, Members, ActiveLabels
  <2>4. /\ pool' \in PoolType /\ pool'.nthreads = p.nthreads /\ pool'.idle = p.idle
        /\ pool'.active = p.active /\ pool'.workcv = p.workcv \cup {w}
        /\ p.nthreads \in Int /\ p.idle \in Int
    BY <2>1, <2>3 DEF PoolType
  <2>5. /\ One(m # "none") = 1 /\ One(t[w] # "none") = 1
        /\ One(m \in IdleLabels) = 1 /\ One(t[w] \in IdleLabels) = 1
        /\ m \notin ActiveLabels
    BY <2>3 DEF One, IdleLabels, SleepLabels, ActiveLabels
  <2> HIDE DEF t
  <2>6. Agrees(pool', [t EXCEPT ![w] = m])
    <3>1. pool'.nthreads = p.nthreads + One(m # "none") - One(t[w] # "none")
      BY <2>4, <2>5
    <3>2. pool'.idle = p.idle + One(m \in IdleLabels) - One(t[w] \in IdleLabels)
      BY <2>4, <2>5
    <3>3. pool'.active = IF m \in ActiveLabels THEN p.active \cup {w} ELSE p.active \ {w}
      BY <2>3, <2>4, <2>5
    <3>4. \A v \in pool'.workcv : IF v = w THEN m \in SleepLabels ELSE v \in p.workcv
      BY <2>4
    <3>5. QED BY <2>1, <2>3, <2>4, <3>1, <3>2, <3>3, <3>4, Relabel
  <2>7. job' \in [Workers -> Jobs \cup {NULL}] BY <1>0, <1>1 DEF Sleep
  <2>8. QED BY <2>2, <2>6, <2>7 DEF Books
<1>2. CASE TimesOut(w)
  <2>1. /\ pool' = [pool EXCEPT !.workcv = @ \ {w}] /\ pc[w] = "linger"
        /\ pc' = [pc EXCEPT ![w] = "timedout"] /\ job' = job
    BY <1>2 DEF TimesOut
  <2>2. /\ pool' \in PoolType /\ pool'.nthreads = pool.nthreads /\ pool'.idle = pool.idle
        /\ pool'.active = pool.active /\ pool'.workcv = pool.workcv \ {w}
        /\ pool.nthreads \in Int /\ pool.idle \in Int
    BY <1>0, <2>1 DEF PoolType
  <2>3. /\ One("timedout" # "none") = One(pc[w] # "none")
        /\ One("timedout" \in IdleLabels) = One(pc[w] \in IdleLabels)
        /\ One(pc[w] # "none") \in Int /\ One(pc[w] \in IdleLabels) \in Int
        /\ "timedout" \notin ActiveLabels /\ "timedout" \in WorkerLabels
    BY <2>1 DEF One, IdleLabels, ActiveLabels, WorkerLabels
  <2>4. w \notin pool.active /\ pool.nthreads =< pool_maximum
    BY <1>0, <2>1 DEF Agrees, Members, ActiveLabels
  <2>5. Agrees(pool', [pc EXCEPT ![w] = "timedout"])
    <3>1. pool'.nthreads = pool.nthreads + One("timedout" # "none") - One(pc[w] # "none")
      BY <2>2, <2>3
    <3>2. pool'.idle = pool.idle + One("timedout" \in IdleLabels) - One(pc[w] \in IdleLabels)
      BY <2>2, <2>3
    <3>3. pool'.active = IF "timedout" \in ActiveLabels THEN pool.active \cup {w}
                         ELSE pool.active \ {w}
      BY <2>2, <2>3, <2>4
    <3>4. \A v \in pool'.workcv :
            IF v = w THEN "timedout" \in SleepLabels ELSE v \in pool.workcv
      BY <2>2
    <3>5. pool'.nthreads =< pool_maximum BY <2>2, <2>4
    <3>6. QED BY <1>0, <2>2, <2>3, <3>1, <3>2, <3>3, <3>4, <3>5, Relabel
  <2>6. QED BY <1>0, <2>1, <2>5 DEF Books
<1>3. CASE TakeJob(w)
  <2> DEFINE t == [pc EXCEPT ![w] = "timedout"]
             p == AtTest(w)
  <2>1. /\ Ready(w) /\ p.head # <<>>
        /\ pool' = [p EXCEPT !.idle = @ - 1, !.head = Tail(@), !.active = @ \cup {w}]
        /\ pc' = [t EXCEPT ![w] = "run"]
        /\ job' = [job EXCEPT ![w] = Head(p.head)]
    BY <1>0, <1>3 DEF TakeJob, PcType
  <2>2. Agrees(p, t) /\ p.head = pool.head /\ w \notin p.workcv
    BY <2>1, AtTestAgrees
  <2>3. t[w] = "timedout" /\ p \in PoolType /\ p.nthreads =< pool_maximum
    BY <1>0, <2>2 DEF PcType, Agrees
  <2> HIDE DEF p, t
  <2>4. /\ pool' \in PoolType /\ pool'.nthreads = p.nthreads /\ pool'.idle = p.idle - 1
        /\ pool'.active = p.active \cup {w} /\ pool'.workcv = p.workcv
        /\ p.nthreads \in Int /\ p.idle \in Int /\ Head(p.head) \in Jobs
    <3>1. /\ p.head \in Seq(Jobs) /\ p.idle \in Int /\ p.nthreads \in Int
          /\ p.active \subseteq Workers
      BY <2>3 DEF PoolType
    <3>2. Tail(p.head) \in Seq(Jobs) /\ Head(p.head) \in Jobs BY <2>1, <3>1
    <3>3. p.idle - 1 \in Int /\ p.active \cup {w} \in SUBSET Workers BY <3>1
    <3>4. pool' = [p EXCEPT !.idle = p.idle - 1, !.head = Tail(p.head),
                            !.active = p.active \cup {w}]
      BY <2>1
    <3>5. QED BY <2>3, <3>1, <3>2, <3>3, <3>4, Zenon DEF PoolType
  <2>5. /\ One("run" # "none") = 1 /\ One(t[w] # "none") = 1
        /\ One("run" \in IdleLabels) = 0 /\ One(t[w] \in IdleLabels) = 1
        /\ "run" \in ActiveLabels /\ "run" \in WorkerLabels
    BY <2>3 DEF One, IdleLabels, ActiveLabels, WorkerLabels
  <2>6. Agrees(pool', [t EXCEPT ![w] = "run"])
    <3>1. pool'.nthreads = p.nthreads + One("run" # "none") - One(t[w] # "none")
      BY <2>4, <2>5
    <3>2. pool'.idle = p.idle + One("run" \in IdleLabels) - One(t[w] \in IdleLabels)
      BY <2>4, <2>5
    <3>3. pool'.active = IF "run" \in ActiveLabels THEN p.active \cup {w} ELSE p.active \ {w}
      BY <2>4, <2>5
    <3>4. \A v \in pool'.workcv : IF v = w THEN "run" \in SleepLabels ELSE v \in p.workcv
      BY <2>2, <2>4
    <3>5. pool'.nthreads =< pool_maximum BY <2>3, <2>4
    <3>6. QED BY <2>2, <2>4, <2>5, <3>1, <3>2, <3>3, <3>4, <3>5, Relabel
  <2>7. job' \in [Workers -> Jobs \cup {NULL}] BY <1>0, <2>1, <2>4
  <2>8. QED BY <2>1, <2>6, <2>7 DEF Books
<1>4. CASE Leave(w)
  <2>1. Agrees(pool', pc') BY <1>0, <1>4, LeaveReady, LeaveAgrees DEF Leave
  <2>2. job' \in [Workers -> Jobs \cup {NULL}] BY <1>0, <1>4 DEF Leave
  <2>3. QED BY <2>1, <2>2 DEF Books
<1>5. CASE JobReturns(w) \/ JobExits(w)
  <2>1. PICK l \in {"returned", "exiting"} :
          pc' = [pc EXCEPT ![w] = l] /\ pc[w] = "run" /\ UNCHANGED <<pool, job>>
    BY <1>5 DEF JobReturns, JobExits
  <2>2. /\ One(l # "none") = One(pc[w] # "none") /\ One(l \in IdleLabels) = One(pc[w] \in IdleLabels)
        /\ One(pc[w] # "none") \in Int /\ One(pc[w] \in IdleLabels) \in Int
        /\ l \in ActiveLabels /\ l \in WorkerLabels
    BY <2>1 DEF One, IdleLabels, ActiveLabels, WorkerLabels
  <2>3. /\ w \in pool.active /\ w \notin pool.workcv /\ pool.nthreads =< pool_maximum
        /\ pool.nthreads \in Int /\ pool.idle \in Int
    BY <1>0, <2>1 DEF Agrees, Members, ActiveLabels, SleepLabels, PoolType
  <2>4. Agrees(pool, [pc EXCEPT ![w] = l])
    <3>1. pool.nthreads = pool.nthreads + One(l # "none") - One(pc[w] # "none")
      BY <2>2, <2>3
    <3>2. pool.idle = pool.idle + One(l \in IdleLabels) - One(pc[w] \in IdleLabels)
      BY <2>2, <2>3
    <3>3. pool.active = IF l \in ActiveLabels THEN pool.active \cup {w}
                        ELSE pool.active \ {w}
      BY <2>2, <2>3
    <3>4. \A v \in pool.workcv : IF v = w THEN l \in SleepLabels ELSE v \in pool.workcv
      BY <2>3
    <3>5. QED BY <1>0, <2>2, <2>3, <3>1, <3>2, <3>3, <3>4, Relabel
  <2>5. QED BY <1>0, <2>1, <2>4 DEF Books
<1>6. CASE Exit(w)
  <2>1. Agrees(pool', pc') BY <1>0, <1>6, ExitReady, LeaveAgrees DEF Exit
  <2>2. job' \in [Workers -> Jobs \cup {NULL}] BY <1>0, <1>6 DEF Exit
  <2>3. QED BY <2>1, <2>2 DEF Books
<1>7. QED BY <1>1, <1>2, <1>3, <1>4, <1>5, <1>6 DEF WorkerStep

-----------------------------------------------------------------------------
\* A client that changes place is no worker.
LEMMA ClientMoves ==
    ASSUME NEW p, Agrees(p, pc), NEW n \in PoolType,
           n.nthreads = p.nthreads, n.idle = p.idle, n.active = p.active,
           n.workcv \subseteq p.workcv,
           NEW c \in Clients, NEW l \in ClientLabels
    PROVE  Agrees(n, [pc EXCEPT ![c] = l])
<1> DEFINE r == [pc EXCEPT ![c] = l]
<1>1. r \in PcType /\ \A w \in Workers : r[w] = pc[w]
  BY ThrPoolAssumption DEF PcType, Agrees
<1> HIDE DEF r
<1>2. Agrees(n, r) BY <1>1, SamePlaces
<1>3. QED BY <1>2 DEF r

\* Sleeping on pool_waitcv changes the flags and the sleepers alone.
LEMMA SleepFacts ==
    ASSUME NEW p \in PoolType, NEW c \in Clients
    PROVE  /\ SleepOnWaitcv(p, c) \in PoolType
           /\ SleepOnWaitcv(p, c).head = p.head
           /\ SleepOnWaitcv(p, c).nthreads = p.nthreads
           /\ SleepOnWaitcv(p, c).idle = p.idle
           /\ SleepOnWaitcv(p, c).active = p.active
           /\ SleepOnWaitcv(p, c).workcv = p.workcv
           /\ Destroying \in SleepOnWaitcv(p, c).flags <=> Destroying \in p.flags
BY DEF SleepOnWaitcv, PoolType, Waiting, Destroying

\* The steps of a client keep the books.
LEMMA ClientBooks ==
    ASSUME Books, NEW c \in Clients,
           \/ \E j \in Jobs : thr_pool_queue(c, j)
           \/ thr_pool_wait(c) \/ thr_pool_destroy(c) \/ ClientWakes(c)
    PROVE  Books'
<1>0. /\ pool \in PoolType /\ pc \in PcType /\ Agrees(pool, pc)
      /\ job \in [Workers -> Jobs \cup {NULL}]
  BY DEF Books, Agrees
<1>1. ASSUME NEW j \in Jobs, thr_pool_queue(c, j) PROVE Agrees(pool', pc')
  <2> DEFINE p == [pool EXCEPT !.head = Append(@, j)]
  <2>1. /\ p \in PoolType /\ p.nthreads = pool.nthreads /\ p.idle = pool.idle
        /\ p.active = pool.active /\ p.workcv = pool.workcv
    <3>1. pool.head \in Seq(Jobs) BY <1>0 DEF PoolType
    <3>2. Append(pool.head, j) \in Seq(Jobs) BY <3>1
    <3>3. QED BY <1>0, <3>2, Zenon DEF PoolType
  <2>2. \/ pool' = p /\ pc' = pc
        \/ \E w \in p.workcv : pool' = [p EXCEPT !.workcv = @ \ {w}] /\ pc' = pc
        \/ p.nthreads < pool_maximum /\ create_worker(p, pc)
    BY <1>1 DEF thr_pool_queue
  <2> HIDE DEF p
  <2>3. Agrees(p, pc) BY <1>0, <2>1, SamePlaces
  <2>4. CASE pool' = p /\ pc' = pc
    BY <2>3, <2>4
  <2>5. CASE \E w \in p.workcv : pool' = [p EXCEPT !.workcv = @ \ {w}] /\ pc' = pc
    <3>1. PICK w \in p.workcv : pool' = [p EXCEPT !.workcv = @ \ {w}] /\ pc' = pc
      BY <2>5
    <3>2. /\ pool' \in PoolType /\ pool'.nthreads = p.nthreads /\ pool'.idle = p.idle
          /\ pool'.active = p.active /\ pool'.workcv \subseteq p.workcv
      BY <2>1, <3>1 DEF PoolType
    <3>3. QED BY <1>0, <2>3, <3>1, <3>2, SamePlaces
  <2>6. CASE p.nthreads < pool_maximum /\ create_worker(p, pc)
    BY <2>3, <2>6, CreateAgrees
  <2>7. QED BY <2>2, <2>4, <2>5, <2>6
<1>4. ASSUME thr_pool_wait(c) PROVE Agrees(pool', pc')
  <2>1. pool' = SleepOnWaitcv(pool, c) /\ pc' = [pc EXCEPT ![c] = "wait"]
    BY <1>4 DEF thr_pool_wait
  <2>2. "wait" \in ClientLabels BY DEF ClientLabels
  <2>3. Agrees(SleepOnWaitcv(pool, c), [pc EXCEPT ![c] = "wait"])
    BY <1>0, <2>2, SleepFacts, ClientMoves
  <2>4. QED BY <2>1, <2>3
<1>5. ASSUME WaitAgain(c) PROVE Agrees(pool', pc')
  <2>1. CASE pool' = SleepOnWaitcv(pool, c) /\ pc' = pc
    BY <1>0, <2>1, SleepFacts, SamePlaces
  <2>2. CASE pool' = pool /\ pc' = [pc EXCEPT ![c] = "client"]
    <3>1. "client" \in ClientLabels BY DEF ClientLabels
    <3>2. Agrees(pool, [pc EXCEPT ![c] = "client"])
      BY <1>0, <3>1, ClientMoves
    <3>3. QED BY <2>2, <3>2
  <2>3. QED BY <1>5, <2>1, <2>2 DEF WaitAgain
<1>6. ASSUME NEW p, Agrees(p, pc), NEW first, DestroyLoops(p, c, first)
      PROVE  Agrees(pool', pc')
  <2>0. p \in PoolType BY <1>6 DEF Agrees
  <2>1. CASE pool' = SleepOnWaitcv(p, c) /\ pc' = [pc EXCEPT ![c] = "destroy_active"]
    <3>1. "destroy_active" \in ClientLabels BY DEF ClientLabels
    <3>2. Agrees(SleepOnWaitcv(p, c), [pc EXCEPT ![c] = "destroy_active"])
      BY <1>6, <2>0, <3>1, SleepFacts, ClientMoves
    <3>3. QED BY <2>1, <3>2
  <2>2. CASE /\ pool' = [p EXCEPT !.busycv = @ \cup {c}]
             /\ pc' = [pc EXCEPT ![c] = "destroy_workers"]
    <3>1. "destroy_workers" \in ClientLabels BY DEF ClientLabels
    <3>2. /\ pool' \in PoolType /\ pool'.nthreads = p.nthreads /\ pool'.idle = p.idle
          /\ pool'.active = p.active /\ pool'.workcv \subseteq p.workcv
      BY <2>0, <2>2 DEF PoolType
    <3>3. Agrees(pool', [pc EXCEPT ![c] = "destroy_workers"])
      BY <1>6, <3>1, <3>2, ClientMoves
    <3>4. QED BY <2>2, <3>3
  <2>3. CASE pool' = [p EXCEPT !.head = <<>>] /\ pc' = [pc EXCEPT ![c] = "gone"]
    <3>1. "gone" \in ClientLabels BY DEF ClientLabels
    <3>2. /\ pool' \in PoolType /\ pool'.nthreads = p.nthreads /\ pool'.idle = p.idle
          /\ pool'.active = p.active /\ pool'.workcv \subseteq p.workcv
      <4>1. <<>> \in Seq(Jobs) OBVIOUS
      <4>2. QED BY <2>0, <2>3, <4>1 DEF PoolType
    <3>3. Agrees(pool', [pc EXCEPT ![c] = "gone"])
      BY <1>6, <3>1, <3>2, ClientMoves
    <3>4. QED BY <2>3, <3>3
  <2>4. QED BY <1>6, <2>1, <2>2, <2>3 DEF DestroyLoops
<1>7. ASSUME thr_pool_destroy(c) PROVE Agrees(pool', pc')
  <2> DEFINE p == [pool EXCEPT !.flags = @ \cup {Destroying}, !.workcv = {}]
  <2>1. /\ p \in PoolType /\ p.nthreads = pool.nthreads /\ p.idle = pool.idle
        /\ p.active = pool.active /\ p.workcv \subseteq pool.workcv
    BY <1>0 DEF PoolType, Destroying
  <2>2. DestroyLoops(p, c, TRUE) BY <1>7 DEF thr_pool_destroy
  <2> HIDE DEF p
  <2>3. Agrees(p, pc) BY <1>0, <2>1, SamePlaces
  <2>4. QED BY <1>6, <2>1, <2>2, <2>3
<1>8. ASSUME DestroyAgain(c) PROVE Agrees(pool', pc')
  BY <1>0, <1>6, <1>8 DEF DestroyAgain
<1>9. job' = job
  BY DEF thr_pool_queue, thr_pool_wait, thr_pool_destroy, ClientWakes, WaitAgain, DestroyAgain
<1>10. QED
  BY <1>0, <1>1, <1>4, <1>5, <1>7, <1>8, <1>9 DEF Books, ClientWakes

\* A sleeper may wake unasked, without a change of the books.
LEMMA SpuriousBooks ==
    ASSUME Books, NEW t, SpuriousWakeup(t)
    PROVE  Books'
<1>1. /\ pool' \in PoolType /\ pool'.nthreads = pool.nthreads /\ pool'.idle = pool.idle
      /\ pool'.active = pool.active /\ pool'.workcv \subseteq pool.workcv
  BY DEF Books, Agrees, SpuriousWakeup, PoolType
<1>2. pc' = pc /\ job' = job /\ pc \in PcType BY DEF SpuriousWakeup, Books, Agrees
<1>3. QED BY <1>1, <1>2, SamePlaces DEF Books

\* The books at the start.
LEMMA InitBooks == Init => Books
<1> SUFFICES ASSUME Init PROVE Books OBVIOUS
<1>1. pool \in PoolType /\ pool.nthreads = 0 /\ pool.idle = 0 /\ pool.active = {}
      /\ pool.workcv = {}
  BY DEF Init, PoolType
<1>2. pc \in PcType /\ \A w \in Workers : pc[w] = "none"
  BY DEF Init, PcType, WorkerLabels, ClientLabels
<1>3. \A w \in Workers : pc[w] \in WorkerLabels BY <1>2 DEF WorkerLabels
<1>4. /\ Members(pc, AliveLabels) = {} /\ Members(pc, IdleLabels) = {}
      /\ Members(pc, ActiveLabels) = {}
  BY <1>2 DEF Members, AliveLabels, IdleLabels, ActiveLabels
<1>5. Cardinality({}) = 0 BY FS_EmptySet
<1>6. 0 =< pool_maximum BY ThrPoolAssumption
<1>7. Agrees(pool, pc) BY <1>1, <1>2, <1>3, <1>4, <1>5, <1>6 DEF Agrees
<1>8. job \in [Workers -> Jobs \cup {NULL}] BY DEF Init
<1>9. QED BY <1>7, <1>8 DEF Books

\* Every step keeps the books.
LEMMA NextBooks == Books /\ [Next]_vars => Books'
<1> SUFFICES ASSUME Books, [Next]_vars PROVE Books' OBVIOUS
<1>1. CASE UNCHANGED vars
  BY <1>1 DEF vars, Books, Agrees, Members
<1>2. CASE Next
  <2>1. CASE Ended BY <1>1, <2>1 DEF Ended
  <2>2. QED
    BY <1>2, <2>1, WorkerBooks, ClientBooks, SpuriousBooks DEF Next
<1>3. QED BY <1>1, <1>2

\* The pool's books agree with its threads at every moment (thr_pool.c: whoever
\* creates a worker counts it, whoever leaves counts itself out), and there are
\* never more workers than max_threads, for pools of any size.
THEOREM BooksAgree == Spec => []CountsExact
<1>1. Books => CountsExact
  <2> SUFFICES ASSUME Books PROVE CountsExact OBVIOUS
  <2>1. Alive = Members(pc, AliveLabels)
    BY DEF Alive, Members, AliveLabels, Books, Agrees
  <2>2. QED
    BY <2>1 DEF CountsExact, Books, Agrees, Members, IdleLabels, ActiveLabels, SleepLabels
<1>2. QED BY <1>1, InitBooks, NextBooks, PTL DEF Spec

-----------------------------------------------------------------------------
(***************************************************************************)
(* What becomes of the jobs, and of those that wait for them.              *)
(***************************************************************************)

Destroyer == {"destroy_active", "destroy_workers", "gone"}
Running(w) == pc[w] = "run"

\* At most one client destroys the pool, when no other uses it; what is freed
\* was queued.
DestroyOK ==
    /\ \A c \in Clients : pc[c] \in Destroyer => IsDestroyed
    /\ \A c, d \in Clients : pc[c] \in Destroyer /\ pc[d] \in Destroyer => c = d
    /\ \A c \in Clients : pc[c] = "wait" => ~IsDestroyed
    /\ discarded \in Seq(Jobs)
    /\ discarded # <<>> => pool.head = <<>> /\ \E c \in Clients : pc[c] = "gone"

Pend == IF discarded = <<>> THEN pool.head ELSE discarded

\* A job is in one place: queued once, or with one worker, or ended.
JobsOK ==
    /\ ended \subseteq Jobs
    /\ \A w \in Workers : Running(w) =>
          /\ job[w] \in Jobs /\ job[w] \notin ended
          /\ \A v \in Workers : Running(v) /\ job[v] = job[w] => v = w
          /\ \A n \in 1 .. Len(Pend) : Pend[n] # job[w]
    /\ \A w \in Workers : pc[w] \in {"returned", "exiting"} => job[w] \in ended
    /\ \A n \in 1 .. Len(Pend) :
          /\ Pend[n] \notin ended
          /\ \A m \in 1 .. Len(Pend) : Pend[m] = Pend[n] => m = n

\* Whatever was queued when a client called thr_pool_wait is still somewhere.
Live == {pool.head[n] : n \in 1 .. Len(pool.head)} \cup {job[w] : w \in {v \in Workers : Running(v)}}
          \cup ended
WaitOK ==
    /\ before = [c \in Clients |-> before[c]]
    /\ \A c \in Clients : pc[c] = "wait" => before[c] \subseteq Live

-----------------------------------------------------------------------------
\* What the code has queued, all told.
LEMMA QueuedIsLive ==
    ASSUME Books, JobsOK
    PROVE  Queued = Live
<1>1. /\ pool.head \in Seq(Jobs)
      /\ pool.active = {w \in Workers : pc[w] \in {"run", "returned", "exiting"}}
  BY DEF Books, Agrees, PoolType, Members, ActiveLabels
<1>2. ToSet(pool.head) = {pool.head[n] : n \in 1 .. Len(pool.head)}
  BY <1>1 DEF ToSet
<1>3. \A w \in pool.active : Running(w) \/ job[w] \in ended
  BY <1>1 DEF JobsOK, Running
<1>4. \A w \in Workers : Running(w) => w \in pool.active
  BY <1>1 DEF Running
<1>5. QED BY <1>1, <1>2, <1>3, <1>4 DEF Queued, Live

\* The steps that neither queue a job, nor start nor end one.
JobsKept ==
    /\ pool'.head = pool.head
    /\ UNCHANGED <<ended, discarded>>
    /\ \A v \in Workers : Running(v)' <=> Running(v)
    /\ \A v \in Workers : pc'[v] \in {"run", "returned", "exiting"} =>
          pc'[v] = pc[v] /\ job'[v] = job[v]

LEMMA KeptJobs ==
    ASSUME JobsOK, JobsKept
    PROVE  JobsOK' /\ Live' = Live
<1>1. Pend' = Pend BY DEF Pend, JobsKept
<1>2. \A v \in Workers : Running(v)' => Running(v) /\ job'[v] = job[v]
  BY DEF JobsKept, Running
<1>3. \A v \in Workers : pc'[v] \in {"returned", "exiting"} => pc'[v] = pc[v] /\ job'[v] = job[v]
  BY DEF JobsKept
<1>4. JobsOK'
  BY <1>1, <1>2, <1>3 DEF JobsOK, JobsKept
<1>5. {job'[w] : w \in {v \in Workers : Running(v)'}} = {job[w] : w \in {v \in Workers : Running(v)}}
  BY <1>2 DEF JobsKept
<1>6. Live' = Live BY <1>5 DEF Live, JobsKept
<1>7. QED BY <1>4, <1>6

\* What the clients see of a worker's step.
ClientsKept ==
    /\ \A c \in Clients : pc'[c] = pc[c]
    /\ Destroying \in pool'.flags <=> IsDestroyed
    /\ UNCHANGED <<before, discarded>>
    /\ discarded # <<>> /\ pool.head = <<>> => pool'.head = <<>>

LEMMA KeptClients ==
    ASSUME DestroyOK, WaitOK, ClientsKept, Live \subseteq Live'
    PROVE  DestroyOK' /\ WaitOK'
<1>1. IsDestroyed' <=> IsDestroyed BY DEF ClientsKept, IsDestroyed
<1>2. DestroyOK' BY <1>1 DEF ClientsKept, DestroyOK
<1>3. WaitOK' BY DEF ClientsKept, WaitOK
<1>4. QED BY <1>2, <1>3

-----------------------------------------------------------------------------
\* The three kinds of steps a worker takes.
Quiet(w) == Sleep(w) \/ TimesOut(w) \/ Leave(w) \/ Exit(w)
Ends(w) == JobReturns(w) \/ JobExits(w)

LEMMA QuietSteps ==
    ASSUME Books, NEW w \in Workers, Quiet(w)
    PROVE  JobsKept /\ ClientsKept
<1>0. /\ pool \in PoolType /\ pc \in PcType /\ job \in [Workers -> Jobs \cup {NULL}]
      /\ w \notin Clients
  BY ThrPoolAssumption DEF Books, Agrees
<1>1. SUFFICES /\ pool'.head = pool.head /\ (Destroying \in pool'.flags <=> IsDestroyed)
               /\ UNCHANGED <<ended, before, discarded>>
               /\ pc[w] # "run" /\ pc'[w] \notin {"run", "returned", "exiting"}
               /\ \A t \in Workers \cup Clients :
                     \/ t = w \/ pc'[t] = pc[t]
                     \/ t \in Workers /\ pc[t] = "none" /\ pc'[t] = "start"
               /\ \A v \in Workers : v = w \/ job'[v] = job[v]
  BY <1>0, ThrPoolAssumption DEF JobsKept, ClientsKept, Running
<1>2. CASE Sleep(w)
  <2>1. PICK p : /\ p \in PoolType /\ p.head = pool.head
                 /\ Destroying \in p.flags <=> IsDestroyed
                 /\ pool' = [p EXCEPT !.workcv = @ \cup {w}]
                 /\ pc' = [pc EXCEPT ![w] = IF Excess(p) THEN "linger" ELSE "idle"]
    <3>1. CASE pc[w] = "timedout"
      BY <1>0, <1>2, <3>1, NotifyFacts DEF Sleep, IsDestroyed
    <3>2. CASE pc[w] # "timedout"
      <4>1. AtTest(w) \in PoolType BY <1>2, AtTestAgrees DEF Sleep, Agrees
      <4>2. QED BY <1>2, <3>2, <4>1, AtTestAgrees DEF Sleep
    <3>3. QED BY <3>1, <3>2
  <2>2. pool'.head = pool.head /\ pool'.flags = p.flags
    BY <2>1 DEF PoolType
  <2>3. pc[w] # "run" BY <1>2 DEF Sleep, Ready
  <2>4. /\ pc'[w] \in {"linger", "idle"}
        /\ \A t \in Workers \cup Clients : t = w \/ pc'[t] = pc[t]
    BY <1>0, <2>1 DEF PcType
  <2>5. /\ \A v \in Workers : v = w \/ job'[v] = job[v]
        /\ UNCHANGED <<ended, before, discarded>>
    BY <1>0, <1>2 DEF Sleep
  <2>6. QED BY <2>1, <2>2, <2>3, <2>4, <2>5
<1>3. CASE TimesOut(w)
  <2>1. pool'.head = pool.head /\ pool'.flags = pool.flags
    BY <1>0, <1>3 DEF TimesOut, PoolType
  <2>2. /\ pc[w] = "linger" /\ pc'[w] = "timedout"
        /\ \A t \in Workers \cup Clients : t = w \/ pc'[t] = pc[t]
    BY <1>0, <1>3 DEF TimesOut, PcType
  <2>3. UNCHANGED <<job, ended, before, discarded>> BY <1>3 DEF TimesOut
  <2>4. QED BY <2>1, <2>2, <2>3 DEF IsDestroyed
<1>4. ASSUME NEW p, worker_cleanup(p, w), Agrees(p, [pc EXCEPT ![w] = "start"]),
             p.head = pool.head, Destroying \in p.flags <=> IsDestroyed,
             pc[w] # "run", job' = [job EXCEPT ![w] = NULL],
             UNCHANGED <<ended, before, discarded>>
      PROVE  /\ pool'.head = pool.head /\ (Destroying \in pool'.flags <=> IsDestroyed)
             /\ UNCHANGED <<ended, before, discarded>>
             /\ pc[w] # "run" /\ pc'[w] \notin {"run", "returned", "exiting"}
             /\ \A t \in Workers \cup Clients :
                   \/ t = w \/ pc'[t] = pc[t]
                   \/ t \in Workers /\ pc[t] = "none" /\ pc'[t] = "start"
             /\ \A v \in Workers : v = w \/ job'[v] = job[v]
  <2>1. /\ pool'.head = p.head /\ (Destroying \in pool'.flags <=> Destroying \in p.flags)
        /\ pc'[w] \in {"none", "start"}
        /\ \A t \in Workers \cup Clients :
              \/ t = w \/ pc'[t] = pc[t]
              \/ t \in Workers /\ pc[t] = "none" /\ pc'[t] = "start"
    BY <1>0, <1>4, LeaveAgrees
  <2>2. \A v \in Workers : v = w \/ job'[v] = job[v] BY <1>0, <1>4
  <2>3. QED BY <1>4, <2>1, <2>2
<1>5. CASE Leave(w)
  <2> DEFINE p == AtTest(w)
             n == [p EXCEPT !.idle = @ - 1]
  <2>1. Ready(w) /\ worker_cleanup(n, w) BY <1>5 DEF Leave
  <2>2. p \in PoolType /\ p.head = pool.head /\ (Destroying \in p.flags <=> IsDestroyed)
    BY <2>1, AtTestAgrees DEF Agrees
  <2>3. Agrees(n, [pc EXCEPT ![w] = "start"]) BY <2>1, LeaveReady
  <2> HIDE DEF p
  <2>4. n.head = p.head /\ n.flags = p.flags BY <2>2 DEF PoolType
  <2>5. pc[w] # "run" BY <2>1 DEF Ready
  <2>6. job' = [job EXCEPT ![w] = NULL] /\ UNCHANGED <<ended, before, discarded>>
    BY <1>5 DEF Leave
  <2> HIDE DEF n
  <2>7. QED BY <1>4, <2>1, <2>2, <2>3, <2>4, <2>5, <2>6
<1>6. CASE Exit(w)
  <2> DEFINE n == job_cleanup(pool, w)
  <2>1. /\ pc[w] = "exiting" /\ worker_cleanup(n, w)
        /\ job' = [job EXCEPT ![w] = NULL] /\ UNCHANGED <<ended, before, discarded>>
    BY <1>6 DEF Exit
  <2>2. n.head = pool.head /\ (Destroying \in n.flags <=> IsDestroyed)
    BY <1>0, CleanupFacts DEF IsDestroyed
  <2>3. Agrees(n, [pc EXCEPT ![w] = "start"]) BY <2>1, ExitReady
  <2> HIDE DEF n
  <2>4. QED BY <1>4, <2>1, <2>2, <2>3
<1>7. QED BY <1>2, <1>3, <1>5, <1>6 DEF Quiet

\* A job is started by a worker that had none, from the front of the queue.
LEMMA TakeFacts ==
    ASSUME Books, NEW w \in Workers, TakeJob(w)
    PROVE  /\ pool.head \in Seq(Jobs) /\ pool.head # <<>> /\ ~IsDestroyed
           /\ pool'.head = Tail(pool.head) /\ (Destroying \in pool'.flags <=> IsDestroyed)
           /\ pc' = [pc EXCEPT ![w] = "run"] /\ pc[w] \in AliveLabels \ {"run"}
           /\ job' = [job EXCEPT ![w] = Head(pool.head)]
           /\ UNCHANGED <<ended, before, discarded>>
<1> DEFINE p == AtTest(w)
<1>1. /\ Ready(w) /\ p.head # <<>> /\ ~IsDestroyed
      /\ pool' = [p EXCEPT !.idle = @ - 1, !.head = Tail(@), !.active = @ \cup {w}]
      /\ pc' = [pc EXCEPT ![w] = "run"] /\ job' = [job EXCEPT ![w] = Head(p.head)]
      /\ UNCHANGED <<ended, before, discarded>>
  BY DEF TakeJob
<1>2. p \in PoolType /\ p.head = pool.head /\ (Destroying \in p.flags <=> IsDestroyed)
  BY <1>1, AtTestAgrees DEF Agrees
<1> HIDE DEF p
<1>3. pool'.head = Tail(p.head) /\ pool'.flags = p.flags /\ p.head \in Seq(Jobs)
  BY <1>1, <1>2 DEF PoolType
<1>4. pc[w] \in AliveLabels \ {"run"}
  BY <1>1 DEF Ready, AliveLabels, WorkerLabels
<1>5. QED BY <1>1, <1>2, <1>3, <1>4

\* Taking the first of a sequence without repetition.
LEMMA TailFacts ==
    ASSUME NEW h \in Seq(Jobs), h # <<>>
    PROVE  /\ Len(h) \in Nat \ {0} /\ Head(h) = h[1] /\ Head(h) \in Jobs
           /\ Tail(h) \in Seq(Jobs) /\ Len(Tail(h)) = Len(h) - 1
           /\ \A n \in 1 .. Len(h) - 1 : n + 1 \in 1 .. Len(h) /\ Tail(h)[n] = h[n + 1]
OBVIOUS

\* A worker that takes a job keeps every job in one place.
LEMMA TakeJobs ==
    ASSUME Books, DestroyOK, JobsOK, NEW w \in Workers, TakeJob(w)
    PROVE  JobsOK' /\ Live \subseteq Live'
<1> DEFINE h == pool.head
           j == Head(h)
<1>1. /\ h \in Seq(Jobs) /\ h # <<>> /\ ~IsDestroyed
      /\ pool'.head = Tail(h)
      /\ pc' = [pc EXCEPT ![w] = "run"] /\ pc[w] # "run"
      /\ job' = [job EXCEPT ![w] = j]
      /\ UNCHANGED <<ended, discarded>>
  BY TakeFacts
<1>2. pc \in PcType /\ job \in [Workers -> Jobs \cup {NULL}]
  BY DEF Books, Agrees
<1>3. discarded = <<>> /\ Pend = h /\ Pend' = Tail(h)
  BY <1>1 DEF DestroyOK, Destroyer, Pend
<1>4. /\ Len(h) \in Nat \ {0} /\ j = h[1] /\ j \in Jobs
      /\ Len(Tail(h)) = Len(h) - 1
      /\ \A n \in 1 .. Len(h) - 1 : n + 1 \in 1 .. Len(h) /\ Tail(h)[n] = h[n + 1]
  BY <1>1, TailFacts
<1>5. /\ pc'[w] = "run" /\ job'[w] = j
      /\ \A v \in Workers : v # w => pc'[v] = pc[v] /\ job'[v] = job[v]
  BY <1>1, <1>2 DEF PcType
<1> HIDE DEF h, j
<1>6. /\ j \notin ended
      /\ \A v \in Workers : Running(v) => job[v] # j
      /\ \A n \in 1 .. Len(h) - 1 : Tail(h)[n] # j
  <2>1. 1 \in 1 .. Len(h) BY <1>4
  <2>2. j \notin ended /\ \A v \in Workers : Running(v) => job[v] # j
    BY <1>3, <1>4, <2>1 DEF JobsOK
  <2>3. \A n \in 1 .. Len(h) : h[n] = j => n = 1
    BY <1>3, <1>4, <2>1 DEF JobsOK
  <2>4. \A n \in 1 .. Len(h) - 1 : Tail(h)[n] # j
    BY <1>4, <2>3
  <2>5. QED BY <2>2, <2>4
<1>7. ASSUME NEW v \in Workers, Running(v)'
      PROVE  /\ job'[v] \in Jobs /\ job'[v] \notin ended'
             /\ \A u \in Workers : Running(u)' /\ job'[u] = job'[v] => u = v
             /\ \A n \in 1 .. Len(Pend') : Pend'[n] # job'[v]
  <2>1. CASE v = w
    <3>1. \A u \in Workers : Running(u)' /\ job'[u] = j => u = w
      BY <1>5, <1>6 DEF Running
    <3>2. \A n \in 1 .. Len(Pend') : Pend'[n] # j BY <1>3, <1>4, <1>6
    <3>3. QED BY <1>1, <1>4, <1>5, <1>6, <2>1, <3>1, <3>2
  <2>2. CASE v # w
    <3>1. Running(v) /\ job'[v] = job[v] BY <1>5, <1>7, <2>2 DEF Running
    <3>2. /\ job[v] \in Jobs /\ job[v] \notin ended /\ job[v] # j
          /\ \A u \in Workers : Running(u) /\ job[u] = job[v] => u = v
          /\ \A n \in 1 .. Len(h) : h[n] # job[v]
      BY <1>3, <1>6, <3>1 DEF JobsOK
    <3>3. \A u \in Workers : Running(u)' /\ job'[u] = job'[v] => u = v
      BY <1>5, <3>1, <3>2 DEF Running
    <3>4. \A n \in 1 .. Len(Pend') : Pend'[n] # job[v] BY <1>3, <1>4, <3>2
    <3>5. QED BY <1>1, <3>1, <3>2, <3>3, <3>4
  <2>3. QED BY <2>1, <2>2
<1>8. \A v \in Workers : pc'[v] \in {"returned", "exiting"} => job'[v] \in ended'
  BY <1>1, <1>5 DEF JobsOK
<1>9. ASSUME NEW n \in 1 .. Len(Pend')
      PROVE  /\ Pend'[n] \notin ended'
             /\ \A m \in 1 .. Len(Pend') : Pend'[m] = Pend'[n] => m = n
  <2>1. n \in 1 .. Len(h) - 1 /\ n + 1 \in 1 .. Len(h) /\ Pend'[n] = h[n + 1]
    BY <1>3, <1>4
  <2>2. h[n + 1] \notin ended /\ \A m \in 1 .. Len(h) : h[m] = h[n + 1] => m = n + 1
    BY <1>3, <2>1 DEF JobsOK
  <2>3. \A m \in 1 .. Len(Pend') : Pend'[m] = Pend'[n] => m = n
    BY <1>3, <1>4, <2>1, <2>2
  <2>4. QED BY <1>1, <2>1, <2>2, <2>3
<1>10. ended' \subseteq Jobs BY <1>1 DEF JobsOK
<1>11. JobsOK' BY ONLY <1>7, <1>8, <1>9, <1>10, Zenon DEF JobsOK
<1>12. Live \subseteq Live'
  <2>1. ASSUME NEW n \in 1 .. Len(h) PROVE h[n] \in Live'
    <3>1. CASE n = 1
      <4>1. Running(w)' /\ job'[w] = h[n] BY <1>4, <1>5, <3>1 DEF Running
      <4>2. QED BY <4>1 DEF Live
    <3>2. CASE n # 1
      <4>1. n - 1 \in 1 .. Len(h) - 1 /\ n - 1 + 1 = n BY <1>4, <3>2
      <4>2. h[n] = Tail(h)[n - 1] /\ n - 1 \in 1 .. Len(Tail(h)) BY <1>4, <4>1
      <4>3. QED BY <1>1, <4>2 DEF Live
    <3>3. QED BY <3>1, <3>2
  <2>2. ASSUME NEW v \in Workers, Running(v) PROVE job[v] \in Live'
    <3>1. v # w BY <1>1, <2>2 DEF Running
    <3>2. Running(v)' /\ job'[v] = job[v] BY <1>5, <2>2, <3>1 DEF Running
    <3>3. QED BY <3>2 DEF Live
  <2>3. ended \subseteq Live' BY <1>1 DEF Live
  <2>4. QED BY <2>1, <2>2, <2>3 DEF Live, h
<1>13. QED BY <1>11, <1>12

\* What the end of a job changes.
LEMMA EndFacts ==
    ASSUME Books, JobsOK, NEW w \in Workers, Ends(w)
    PROVE  /\ Running(w) /\ job[w] \in Jobs
           /\ ended' = ended \cup {job[w]}
           /\ UNCHANGED <<pool, job, before, discarded>>
           /\ pc'[w] \in {"returned", "exiting"}
           /\ \A t \in Workers \cup Clients : t # w => pc'[t] = pc[t]
<1>1. pc \in PcType BY DEF Books, Agrees
<1>2. Running(w) BY DEF Ends, JobReturns, JobExits, Running
<1>3. job[w] \in Jobs BY <1>2 DEF JobsOK
<1>4. QED BY <1>1, <1>2, <1>3 DEF Ends, JobReturns, JobExits, PcType

\* A job that ends is in no other place.
LEMMA EndJobs ==
    ASSUME Books, JobsOK, NEW w \in Workers, Ends(w)
    PROVE  JobsOK' /\ Live \subseteq Live'
<1>1. /\ Running(w) /\ job[w] \in Jobs
      /\ ended' = ended \cup {job[w]}
      /\ UNCHANGED <<pool, job, discarded>>
      /\ pc'[w] \in {"returned", "exiting"}
      /\ \A v \in Workers : v # w => pc'[v] = pc[v]
  BY EndFacts
<1>2. Pend' = Pend BY <1>1 DEF Pend
<1>3. \A v \in Workers : Running(v)' <=> (Running(v) /\ v # w)
  BY <1>1 DEF Running
<1>4. /\ \A v \in Workers : Running(v) /\ job[v] = job[w] => v = w
      /\ \A n \in 1 .. Len(Pend) : Pend[n] # job[w]
  BY <1>1 DEF JobsOK
<1>5. ASSUME NEW v \in Workers, Running(v)'
      PROVE  /\ job'[v] \in Jobs /\ job'[v] \notin ended'
             /\ \A u \in Workers : Running(u)' /\ job'[u] = job'[v] => u = v
             /\ \A n \in 1 .. Len(Pend') : Pend'[n] # job'[v]
  BY <1>1, <1>2, <1>3, <1>4, <1>5 DEF JobsOK
<1>6. \A v \in Workers : pc'[v] \in {"returned", "exiting"} => job'[v] \in ended'
  BY <1>1 DEF JobsOK
<1>7. ASSUME NEW n \in 1 .. Len(Pend')
      PROVE  /\ Pend'[n] \notin ended'
             /\ \A m \in 1 .. Len(Pend') : Pend'[m] = Pend'[n] => m = n
  BY <1>1, <1>2, <1>4 DEF JobsOK
<1>8. ended' \subseteq Jobs BY <1>1 DEF JobsOK
<1>9. JobsOK' BY ONLY <1>5, <1>6, <1>7, <1>8, Zenon DEF JobsOK
<1>10. Live \subseteq Live' BY <1>1, <1>3 DEF Live
<1>11. QED BY <1>9, <1>10

\* The invariant the clients rely on.
IInv == Books /\ DestroyOK /\ JobsOK /\ WaitOK

\* The workers keep it.
LEMMA WorkerInv ==
    ASSUME IInv, NEW w \in Workers, WorkerStep(w)
    PROVE  IInv'
<1>0. w \notin Clients BY ThrPoolAssumption
<1>1. Books' BY WorkerBooks DEF IInv
<1>2. CASE Quiet(w)
  <2>1. JobsKept /\ ClientsKept BY <1>2, QuietSteps DEF IInv
  <2>2. JobsOK' /\ Live' = Live BY <2>1, KeptJobs DEF IInv
  <2>3. DestroyOK' /\ WaitOK' BY <2>1, <2>2, KeptClients DEF IInv
  <2>4. QED BY <1>1, <2>2, <2>3 DEF IInv
<1>3. CASE TakeJob(w)
  <2>1. JobsOK' /\ Live \subseteq Live' BY <1>3, TakeJobs DEF IInv
  <2>2. ClientsKept
    <3>1. /\ pool.head # <<>> /\ (Destroying \in pool'.flags <=> IsDestroyed)
          /\ pc' = [pc EXCEPT ![w] = "run"] /\ UNCHANGED <<before, discarded>>
      BY <1>3, TakeFacts DEF IInv
    <3>2. \A c \in Clients : pc'[c] = pc[c]
      BY <1>0, <3>1 DEF IInv, Books, Agrees, PcType
    <3>3. QED BY <3>1, <3>2 DEF ClientsKept
  <2>3. DestroyOK' /\ WaitOK' BY <2>1, <2>2, KeptClients DEF IInv
  <2>4. QED BY <1>1, <2>1, <2>3 DEF IInv
<1>4. CASE Ends(w)
  <2>1. JobsOK' /\ Live \subseteq Live' BY <1>4, EndJobs DEF IInv
  <2>2. ClientsKept
    BY <1>0, <1>4, EndFacts DEF IInv, ClientsKept, IsDestroyed
  <2>3. DestroyOK' /\ WaitOK' BY <2>1, <2>2, KeptClients DEF IInv
  <2>4. QED BY <1>1, <2>1, <2>3 DEF IInv
<1>5. QED BY <1>2, <1>3, <1>4 DEF WorkerStep, Quiet, Ends

-----------------------------------------------------------------------------
\* thr_pool_queue adds a job that is new to a pool that is not being destroyed.
LEMMA QueueFacts ==
    ASSUME IInv, NEW c \in Clients, NEW j \in Jobs, thr_pool_queue(c, j)
    PROVE  /\ pool.head \in Seq(Jobs) /\ pool'.head = Append(pool.head, j)
           /\ Destroying \in pool'.flags <=> IsDestroyed
           /\ ~IsDestroyed /\ j \notin Live
           /\ UNCHANGED <<job, ended, before, discarded>>
           /\ \A t \in Workers \cup Clients :
                 \/ pc'[t] = pc[t]
                 \/ t \in Workers /\ pc[t] = "none" /\ pc'[t] = "start"
<1> DEFINE p == [pool EXCEPT !.head = Append(@, j)]
<1>0. pool \in PoolType /\ Agrees(pool, pc) BY DEF IInv, Books, Agrees
<1>1. /\ pool.head \in Seq(Jobs) /\ Append(pool.head, j) \in Seq(Jobs)
  <2>1. pool.head \in Seq(Jobs) BY <1>0 DEF PoolType
  <2>2. QED BY <2>1
<1>2. /\ p \in PoolType /\ p.head = Append(pool.head, j) /\ p.flags = pool.flags
      /\ p.nthreads = pool.nthreads /\ p.idle = pool.idle
      /\ p.active = pool.active /\ p.workcv = pool.workcv
  BY <1>0, <1>1, Zenon DEF PoolType
<1>3. /\ \/ pool' = p /\ pc' = pc
         \/ \E w \in p.workcv : pool' = [p EXCEPT !.workcv = @ \ {w}] /\ pc' = pc
         \/ p.nthreads < pool_maximum /\ create_worker(p, pc)
      /\ j \notin Queued /\ ~IsDestroyed
      /\ UNCHANGED <<job, ended, before, discarded>>
  BY DEF thr_pool_queue
<1> HIDE DEF p
<1>4. /\ pool'.head = p.head /\ pool'.flags = p.flags
      /\ \A t \in Workers \cup Clients :
            pc'[t] = pc[t] \/ (t \in Workers /\ pc[t] = "none" /\ pc'[t] = "start")
  <2>1. CASE pool' = p /\ pc' = pc BY <2>1
  <2>2. CASE \E w \in p.workcv : pool' = [p EXCEPT !.workcv = @ \ {w}] /\ pc' = pc
    BY <1>2, <2>2 DEF PoolType
  <2>3. CASE p.nthreads < pool_maximum /\ create_worker(p, pc)
    <3>1. Agrees(p, pc)
      <4>1. pc \in PcType BY <1>0 DEF Agrees
      <4>2. QED BY <1>0, <1>2, <4>1, SamePlaces
    <3>2. QED BY <2>3, <3>1, CreateFrame
  <2>4. QED BY <1>3, <2>1, <2>2, <2>3
<1>5. j \notin Live BY <1>3, QueuedIsLive DEF IInv
<1>6. QED BY <1>1, <1>2, <1>3, <1>4, <1>5 DEF IsDestroyed

\* Adding to a sequence.
LEMMA AppendFacts ==
    ASSUME NEW h \in Seq(Jobs), NEW j \in Jobs
    PROVE  /\ Len(h) \in Nat /\ Len(Append(h, j)) = Len(h) + 1
           /\ Append(h, j)[Len(h) + 1] = j
           /\ \A n \in 1 .. Len(h) : Append(h, j)[n] = h[n]
OBVIOUS

\* thr_pool_queue keeps the invariant.
LEMMA QueueInv ==
    ASSUME IInv, NEW c \in Clients, NEW j \in Jobs, thr_pool_queue(c, j)
    PROVE  IInv'
<1> DEFINE h == pool.head
<1>1. /\ h \in Seq(Jobs) /\ pool'.head = Append(h, j)
      /\ Destroying \in pool'.flags <=> IsDestroyed
      /\ ~IsDestroyed /\ j \notin Live
      /\ UNCHANGED <<job, ended, before, discarded>>
      /\ \A t \in Workers \cup Clients :
            \/ pc'[t] = pc[t]
            \/ t \in Workers /\ pc[t] = "none" /\ pc'[t] = "start"
  BY QueueFacts
<1>2. discarded = <<>> /\ Pend = h /\ Pend' = Append(h, j)
  BY <1>1 DEF IInv, DestroyOK, Destroyer, Pend
<1>3. /\ Len(h) \in Nat /\ Len(Append(h, j)) = Len(h) + 1
      /\ Append(h, j)[Len(h) + 1] = j
      /\ \A n \in 1 .. Len(h) : Append(h, j)[n] = h[n]
  BY <1>1, AppendFacts
<1>4. /\ j \notin ended
      /\ \A n \in 1 .. Len(h) : h[n] # j
      /\ \A v \in Workers : Running(v) => job[v] # j
  BY <1>1 DEF Live
<1> HIDE DEF h
<1>5. \A v \in Workers : Running(v)' <=> Running(v)
  BY <1>1 DEF Running
<1>6. ASSUME NEW n \in 1 .. Len(Pend')
      PROVE  \/ n = Len(h) + 1 /\ Pend'[n] = j
             \/ n \in 1 .. Len(h) /\ Pend'[n] = h[n]
  BY <1>2, <1>3
<1>7. ASSUME NEW v \in Workers, Running(v)'
      PROVE  /\ job'[v] \in Jobs /\ job'[v] \notin ended'
             /\ \A u \in Workers : Running(u)' /\ job'[u] = job'[v] => u = v
             /\ \A n \in 1 .. Len(Pend') : Pend'[n] # job'[v]
  <2>1. /\ Running(v) /\ job'[v] = job[v] /\ job[v] # j
        /\ \A n \in 1 .. Len(h) : h[n] # job[v]
    BY <1>1, <1>2, <1>4, <1>5, <1>7 DEF IInv, JobsOK
  <2>2. \A n \in 1 .. Len(Pend') : Pend'[n] # job[v] BY <1>6, <2>1
  <2>3. QED BY <1>1, <1>5, <2>1, <2>2 DEF IInv, JobsOK
<1>8. \A v \in Workers : pc'[v] \in {"returned", "exiting"} => job'[v] \in ended'
  BY <1>1 DEF IInv, JobsOK
<1>9. ASSUME NEW n \in 1 .. Len(Pend')
      PROVE  /\ Pend'[n] \notin ended'
             /\ \A m \in 1 .. Len(Pend') : Pend'[m] = Pend'[n] => m = n
  <2>1. CASE n = Len(h) + 1 /\ Pend'[n] = j
    BY <1>1, <1>4, <1>6, <2>1
  <2>2. CASE n \in 1 .. Len(h) /\ Pend'[n] = h[n]
    <3>1. h[n] \notin ended /\ \A m \in 1 .. Len(h) : h[m] = h[n] => m = n
      BY <1>2, <2>2 DEF IInv, JobsOK
    <3>2. \A m \in 1 .. Len(Pend') : Pend'[m] = Pend'[n] => m = n
      BY <1>4, <1>6, <2>2, <3>1
    <3>3. QED BY <1>1, <2>2, <3>1, <3>2
  <2>3. QED BY <1>6, <2>1, <2>2
<1>10. ended' \subseteq Jobs BY <1>1 DEF IInv, JobsOK
<1>11. JobsOK' BY ONLY <1>7, <1>8, <1>9, <1>10, Zenon DEF JobsOK
<1>12. Live \subseteq Live'
  <2>1. ASSUME NEW n \in 1 .. Len(h) PROVE h[n] \in Live'
    <3>1. n \in 1 .. Len(Append(h, j)) /\ h[n] = Append(h, j)[n] BY <1>3
    <3>2. QED BY <1>1, <3>1 DEF Live
  <2>2. QED BY <1>1, <1>5, <2>1 DEF Live, h
<1>13. ClientsKept
  <2>1. \A d \in Clients : pc'[d] = pc[d] BY <1>1, ThrPoolAssumption
  <2>2. QED BY <1>1, <1>2, <2>1 DEF ClientsKept
<1>14. DestroyOK' /\ WaitOK' BY <1>12, <1>13, KeptClients DEF IInv
<1>15. Books' BY ClientBooks DEF IInv
<1>16. QED BY <1>11, <1>14, <1>15 DEF IInv

\* What a client that sleeps for the jobs, or is woken, changes.
LEMMA WaitFacts ==
    ASSUME IInv, NEW c \in Clients, thr_pool_wait(c) \/ WaitAgain(c)
    PROVE  /\ JobsKept
           /\ \A d \in Clients : d # c => pc'[d] = pc[d] /\ before'[d] = before[d]
           /\ before' = [d \in Clients |-> before'[d]]
           /\ Destroying \in pool'.flags <=> IsDestroyed
           /\ \/ /\ ~IsDestroyed /\ pc[c] \in {"client", "wait"} /\ pc'[c] = "wait"
                 /\ before'[c] = Queued \/ (pc[c] = "wait" /\ before'[c] = before[c])
              \/ /\ pc'[c] = "client" /\ ~Busy(pool)
<1>0. /\ pool \in PoolType /\ pc \in PcType /\ c \notin Workers
      /\ before = [d \in Clients |-> before[d]]
  BY ThrPoolAssumption DEF IInv, Books, Agrees, WaitOK
<1>1. CASE thr_pool_wait(c)
  <2>1. /\ pool' = SleepOnWaitcv(pool, c) /\ pc' = [pc EXCEPT ![c] = "wait"]
        /\ before' = [before EXCEPT ![c] = Queued] /\ pc[c] = "client" /\ ~IsDestroyed
        /\ UNCHANGED <<job, ended, discarded>>
    BY <1>1 DEF thr_pool_wait
  <2>2. /\ pc'[c] = "wait" /\ \A t \in Workers \cup Clients : t # c => pc'[t] = pc[t]
    BY <1>0, <2>1 DEF PcType
  <2>3. /\ before'[c] = Queued /\ before' = [d \in Clients |-> before'[d]]
        /\ \A d \in Clients : d # c => before'[d] = before[d]
    BY <1>0, <2>1
  <2>4. pool'.head = pool.head /\ (Destroying \in pool'.flags <=> IsDestroyed)
    BY <1>0, <2>1, SleepFacts DEF IsDestroyed
  <2>5. QED BY <1>0, <2>1, <2>2, <2>3, <2>4 DEF JobsKept, Running
<1>2. CASE WaitAgain(c) /\ Busy(pool)
  <2>1. /\ pool' = SleepOnWaitcv(pool, c) /\ pc[c] = "wait"
        /\ UNCHANGED <<pc, before, job, ended, discarded>>
    BY <1>2 DEF WaitAgain
  <2>2. pool'.head = pool.head /\ (Destroying \in pool'.flags <=> IsDestroyed)
    BY <1>0, <2>1, SleepFacts DEF IsDestroyed
  <2>3. ~IsDestroyed BY <2>1 DEF IInv, DestroyOK
  <2>4. QED BY <1>0, <2>1, <2>2, <2>3 DEF JobsKept, Running
<1>3. CASE WaitAgain(c) /\ ~Busy(pool)
  <2>1. /\ pool' = pool /\ pc' = [pc EXCEPT ![c] = "client"]
        /\ before' = [before EXCEPT ![c] = {}]
        /\ UNCHANGED <<job, ended, discarded>>
    BY <1>3 DEF WaitAgain
  <2>2. /\ pc'[c] = "client" /\ \A t \in Workers \cup Clients : t # c => pc'[t] = pc[t]
    BY <1>0, <2>1 DEF PcType
  <2>3. /\ before' = [d \in Clients |-> before'[d]]
        /\ \A d \in Clients : d # c => before'[d] = before[d]
    BY <1>0, <2>1
  <2>4. QED BY <1>0, <1>3, <2>1, <2>2, <2>3 DEF JobsKept, Running, IsDestroyed
<1>4. QED BY <1>1, <1>2, <1>3

\* Those who wait keep the invariant.
LEMMA WaitInv ==
    ASSUME IInv, NEW c \in Clients, thr_pool_wait(c) \/ WaitAgain(c)
    PROVE  IInv'
<1>1. Books' BY ClientBooks DEF IInv, ClientWakes
<1>2. JobsOK' /\ Live' = Live BY WaitFacts, KeptJobs DEF IInv
<1>3. Queued = Live BY QueuedIsLive DEF IInv
<1>4. /\ \A d \in Clients : d # c => pc'[d] = pc[d] /\ before'[d] = before[d]
      /\ before' = [d \in Clients |-> before'[d]]
      /\ IsDestroyed' <=> IsDestroyed
      /\ pool'.head = pool.head /\ discarded' = discarded
      /\ pc'[c] \in {"wait", "client"} /\ (pc'[c] = "wait" => ~IsDestroyed)
  BY WaitFacts DEF IsDestroyed, JobsKept
<1>5. pc[c] \in {"client", "wait"} BY DEF thr_pool_wait, WaitAgain
<1>6. DestroyOK' BY <1>4, <1>5 DEF IInv, DestroyOK, Destroyer
<1>7. pc'[c] = "wait" => before'[c] \subseteq Live'
  BY <1>2, <1>3, WaitFacts DEF IInv, WaitOK
<1>8. WaitOK' BY <1>2, <1>4, <1>7 DEF IInv, WaitOK
<1>9. QED BY <1>1, <1>2, <1>6, <1>8 DEF IInv

\* What the one that destroys the pool changes.
LEMMA DestroyFacts ==
    ASSUME IInv, NEW c \in Clients, thr_pool_destroy(c) \/ DestroyAgain(c)
    PROVE  /\ Destroying \in pool'.flags /\ pc'[c] \in Destroyer
           /\ \A t \in Workers \cup Clients : t # c => pc'[t] = pc[t]
           /\ \A d \in Clients : d # c => pc[d] \notin Destroyer \cup {"wait"}
           /\ discarded = <<>> /\ UNCHANGED <<job, ended, before>>
           /\ \/ pool'.head = pool.head /\ discarded' = discarded
              \/ pool'.head = <<>> /\ discarded' = pool.head /\ pc'[c] = "gone"
<1>0. /\ pool \in PoolType /\ pc \in PcType /\ c \notin Workers
  BY ThrPoolAssumption DEF IInv, Books, Agrees
<1>1. ASSUME NEW p \in PoolType, p.head = pool.head, Destroying \in p.flags,
             NEW first, DestroyLoops(p, c, first)
      PROVE  /\ Destroying \in pool'.flags /\ pc'[c] \in Destroyer
             /\ \A t \in Workers \cup Clients : t # c => pc'[t] = pc[t]
             /\ \/ pool'.head = pool.head /\ discarded' = discarded
                \/ pool'.head = <<>> /\ discarded' = pool.head /\ pc'[c] = "gone"
  <2>1. ASSUME NEW l \in Destroyer, pc' = [pc EXCEPT ![c] = l]
        PROVE  pc'[c] = l /\ \A t \in Workers \cup Clients : t # c => pc'[t] = pc[t]
    BY <1>0, <2>1 DEF PcType
  <2>2. CASE /\ pool' = SleepOnWaitcv(p, c)
             /\ pc' = [pc EXCEPT ![c] = "destroy_active"] /\ discarded' = discarded
    BY <1>1, <2>1, <2>2, SleepFacts DEF Destroyer
  <2>3. CASE /\ pool' = [p EXCEPT !.busycv = @ \cup {c}]
             /\ pc' = [pc EXCEPT ![c] = "destroy_workers"] /\ discarded' = discarded
    <3>1. pool'.head = p.head /\ pool'.flags = p.flags BY <1>1, <2>3 DEF PoolType
    <3>2. QED BY <1>1, <2>1, <2>3, <3>1 DEF Destroyer
  <2>4. CASE /\ pool' = [p EXCEPT !.head = <<>>]
             /\ pc' = [pc EXCEPT ![c] = "gone"] /\ discarded' = p.head
    <3>1. pool'.head = <<>> /\ pool'.flags = p.flags BY <1>1, <2>4 DEF PoolType
    <3>2. QED BY <1>1, <2>1, <2>4, <3>1 DEF Destroyer
  <2>5. QED BY <1>1, <2>2, <2>3, <2>4 DEF DestroyLoops
<1>2. CASE thr_pool_destroy(c)
  <2> DEFINE p == [pool EXCEPT !.flags = @ \cup {Destroying}, !.workcv = {}]
  <2>1. p \in PoolType /\ p.head = pool.head /\ Destroying \in p.flags
    BY <1>0 DEF PoolType, Destroying
  <2>2. /\ DestroyLoops(p, c, TRUE) /\ ~IsDestroyed
        /\ \A d \in Clients : pc[d] = "client"
        /\ UNCHANGED <<job, ended, before>>
    BY <1>2 DEF thr_pool_destroy
  <2> HIDE DEF p
  <2>3. discarded = <<>> BY <2>2 DEF IInv, DestroyOK
  <2>4. QED BY <1>1, <2>1, <2>2, <2>3 DEF Destroyer
<1>3. CASE DestroyAgain(c)
  <2>1. /\ pc[c] \in {"destroy_active", "destroy_workers"}
        /\ \E first \in BOOLEAN : DestroyLoops(pool, c, first)
        /\ UNCHANGED <<job, ended, before>>
    BY <1>3 DEF DestroyAgain
  <2>2. IsDestroyed /\ \A d \in Clients : d # c => pc[d] \notin Destroyer \cup {"wait"}
    BY <2>1 DEF IInv, DestroyOK, Destroyer
  <2>3. discarded = <<>> BY <2>1, <2>2 DEF IInv, DestroyOK, Destroyer
  <2>4. QED BY <1>0, <1>1, <2>1, <2>2, <2>3 DEF IsDestroyed
<1>4. QED BY <1>2, <1>3

\* It keeps the invariant too.
LEMMA DestroyInv ==
    ASSUME IInv, NEW c \in Clients, thr_pool_destroy(c) \/ DestroyAgain(c)
    PROVE  IInv'
<1>1. /\ IsDestroyed' /\ pc'[c] \in Destroyer
      /\ \A t \in Workers \cup Clients : t # c => pc'[t] = pc[t]
      /\ \A d \in Clients : d # c => pc[d] \notin Destroyer \cup {"wait"}
      /\ discarded = <<>> /\ UNCHANGED <<job, ended, before>>
      /\ \/ pool'.head = pool.head /\ discarded' = discarded
         \/ pool'.head = <<>> /\ discarded' = pool.head /\ pc'[c] = "gone"
  BY DestroyFacts DEF IsDestroyed
<1>2. Pend' = Pend BY <1>1 DEF Pend
<1>3. \A v \in Workers : pc'[v] = pc[v] BY <1>1, ThrPoolAssumption
<1>4. JobsOK' BY <1>1, <1>2, <1>3 DEF IInv, JobsOK, Running
<1>5. pool.head \in Seq(Jobs) BY DEF IInv, Books, Agrees, PoolType
<1>6. DestroyOK' BY <1>1, <1>5 DEF IInv, DestroyOK, Destroyer
<1>7. WaitOK' BY <1>1 DEF IInv, WaitOK, Destroyer
<1>8. Books' BY ClientBooks DEF IInv, ClientWakes
<1>9. QED BY <1>4, <1>6, <1>7, <1>8 DEF IInv

\* A spurious wakeup changes who sleeps, and nothing else.
LEMMA SpuriousInv ==
    ASSUME IInv, NEW t, SpuriousWakeup(t)
    PROVE  IInv'
<1>1. pool'.head = pool.head /\ pool'.flags = pool.flags
  BY DEF IInv, Books, Agrees, PoolType, SpuriousWakeup
<1>2. JobsKept /\ ClientsKept
  BY <1>1 DEF SpuriousWakeup, JobsKept, ClientsKept, Running, IsDestroyed
<1>3. JobsOK' /\ Live' = Live BY <1>2, KeptJobs DEF IInv
<1>4. DestroyOK' /\ WaitOK' BY <1>2, <1>3, KeptClients DEF IInv
<1>5. Books' BY SpuriousBooks DEF IInv
<1>6. QED BY <1>3, <1>4, <1>5 DEF IInv

\* The invariant holds at the start.
LEMMA InitInv == Init => IInv
<1> SUFFICES ASSUME Init PROVE IInv OBVIOUS
<1>1. /\ pool.head = <<>> /\ discarded = <<>> /\ ended = {}
      /\ \A c \in Clients : pc[c] = "client"
      /\ \A w \in Workers : pc[w] = "none"
      /\ before = [c \in Clients |-> {}]
  BY ThrPoolAssumption DEF Init
<1>2. DestroyOK BY <1>1 DEF DestroyOK, Destroyer
<1>3. JobsOK BY <1>1 DEF JobsOK, Running, Pend
<1>4. WaitOK BY <1>1 DEF WaitOK
<1>5. QED BY <1>2, <1>3, <1>4, InitBooks DEF IInv

\* And every step keeps it.
LEMMA NextInv == IInv /\ [Next]_vars => IInv'
<1> SUFFICES ASSUME IInv, [Next]_vars PROVE IInv' OBVIOUS
<1>1. CASE UNCHANGED vars
  BY <1>1 DEF vars, IInv, Books, Agrees, Members, DestroyOK, IsDestroyed, JobsOK, Running,
              Pend, WaitOK, Live
<1>2. CASE Next
  <2>1. CASE Ended BY <1>1, <2>1 DEF Ended
  <2>2. QED
    BY <1>2, <2>1, WorkerInv, QueueInv, WaitInv, DestroyInv, SpuriousInv
    DEF Next, ClientWakes
<1>3. QED BY <1>1, <1>2

\* Every reachable state satisfies it.
THEOREM Invariance == Spec => []IInv
BY InitInv, NextInv, PTL DEF Spec

-----------------------------------------------------------------------------
\* Workers do not move clients.
LEMMA ClientsStay ==
    ASSUME IInv, NEW w \in Workers, WorkerStep(w), NEW c \in Clients
    PROVE  pc'[c] = pc[c]
<1>1. w \notin Clients /\ pc \in PcType BY ThrPoolAssumption DEF IInv, Books, Agrees
<1>2. CASE Quiet(w) BY <1>2, QuietSteps DEF IInv, ClientsKept
<1>3. CASE TakeJob(w)
  <2>1. pc' = [pc EXCEPT ![w] = "run"] BY <1>3, TakeFacts DEF IInv
  <2>2. QED BY <1>1, <2>1 DEF PcType
<1>4. CASE Ends(w) BY <1>1, <1>4, EndFacts DEF IInv
<1>5. QED BY <1>2, <1>3, <1>4 DEF WorkerStep, Quiet, Ends

\* thr_pool_wait waits for all queued jobs to complete (thr_pool.h): whatever was
\* queued when it was called has ended when it returns, for any number of
\* workers, clients and jobs, however often the waiter was woken in between.
THEOREM WaitWaitsForAll == Spec => WaitIsComplete
<1>1. ASSUME IInv, [Next]_vars, NEW c \in Clients, pc[c] = "wait", pc'[c] # "wait"
      PROVE  before[c] \subseteq ended
  <2>0. c \notin Workers BY ThrPoolAssumption
  <2>1. ~ \E w \in Workers : WorkerStep(w) BY <1>1, ClientsStay
  <2>2. ~ \E d \in Clients, j \in Jobs : thr_pool_queue(d, j) BY <1>1, <2>0, QueueFacts
  <2>3. ~ \E d \in Clients : thr_pool_destroy(d) \/ DestroyAgain(d)
    <3>1. SUFFICES ASSUME NEW d \in Clients, thr_pool_destroy(d) \/ DestroyAgain(d)
                   PROVE  FALSE
      OBVIOUS
    <3>2. d # c BY <1>1, <3>1 DEF thr_pool_destroy, DestroyAgain
    <3>3. QED BY <1>1, <3>1, <3>2, DestroyFacts
  <2>4. ~ \E t \in Workers \cup Clients : SpuriousWakeup(t)
    BY <1>1 DEF SpuriousWakeup
  <2>5. ~ UNCHANGED vars BY <1>1 DEF vars
  <2>6. PICK d \in Clients : thr_pool_wait(d) \/ WaitAgain(d)
    BY <1>1, <2>1, <2>2, <2>3, <2>4, <2>5 DEF Next, ClientWakes, Ended
  <2>7. d = c /\ ~Busy(pool) BY <1>1, <2>6, WaitFacts
  <2>8. pool.head = <<>> /\ pool.active = {} BY <2>7 DEF Busy
  <2>9. Queued = ended
    <3>1. ToSet(pool.head) = {} BY <2>8 DEF ToSet
    <3>2. QED BY <2>8, <3>1 DEF Queued
  <2>10. Queued = Live BY <1>1, QueuedIsLive DEF IInv
  <2>11. QED BY <1>1, <2>9, <2>10 DEF IInv, WaitOK
<1>2. IInv /\ [Next]_vars =>
        \A c \in Clients : pc[c] = "wait" /\ pc'[c] # "wait" => before[c] \subseteq ended
  BY <1>1
<1>3. QED BY <1>2, Invariance, PTL DEF Spec, WaitIsComplete

-----------------------------------------------------------------------------
\* Only a worker that leaves, or whose job ends its thread, makes the pool smaller.
LEMMA WhoShrinks ==
    ASSUME IInv, [Next]_vars, pool'.nthreads < pool.nthreads
    PROVE  \E w \in Workers : Leave(w) \/ Exit(w)
<1>0. /\ pool \in PoolType /\ pc \in PcType /\ pool.nthreads \in Int /\ Agrees(pool, pc)
  BY DEF IInv, Books, Agrees, PoolType
<1>1. ASSUME NEW w \in Workers, Sleep(w) PROVE pool'.nthreads = pool.nthreads
  <2>1. PICK p : /\ p \in PoolType /\ p.nthreads = pool.nthreads
                 /\ pool' = [p EXCEPT !.workcv = @ \cup {w}]
    <3>1. CASE pc[w] = "timedout"
      BY <1>0, <1>1, <3>1, NotifyFacts DEF Sleep
    <3>2. CASE pc[w] # "timedout"
      <4>1. AtTest(w) \in PoolType /\ AtTest(w).nthreads = pool.nthreads
        BY <1>1, AtTestAgrees DEF Sleep, Agrees, IInv
      <4>2. QED BY <1>1, <3>2, <4>1 DEF Sleep
    <3>3. QED BY <3>1, <3>2
  <2>2. QED BY <2>1 DEF PoolType
<1>2. ASSUME NEW w \in Workers, TakeJob(w) PROVE pool'.nthreads = pool.nthreads
  <2>1. AtTest(w) \in PoolType /\ AtTest(w).nthreads = pool.nthreads
    BY <1>2, AtTestAgrees DEF TakeJob, Agrees, IInv
  <2>2. QED BY <1>2, <2>1 DEF TakeJob, PoolType
<1>3. ASSUME NEW w \in Workers, TimesOut(w) \/ Ends(w) PROVE pool'.nthreads = pool.nthreads
  BY <1>0, <1>3 DEF TimesOut, Ends, JobReturns, JobExits, PoolType
<1>4. ASSUME NEW c \in Clients, NEW j \in Jobs, thr_pool_queue(c, j)
      PROVE  pool'.nthreads >= pool.nthreads
  <2> DEFINE p == [pool EXCEPT !.head = Append(@, j)]
  <2>1. p.nthreads = pool.nthreads /\ p.idle = pool.idle /\ p.active = pool.active
        /\ p.workcv = pool.workcv /\ p \in PoolType
    <3>1. pool.head \in Seq(Jobs) BY <1>0 DEF PoolType
    <3>2. Append(pool.head, j) \in Seq(Jobs) BY <3>1
    <3>3. QED BY <1>0, <3>2, Zenon DEF PoolType
  <2>2. \/ pool' = p
        \/ \E w \in p.workcv : pool' = [p EXCEPT !.workcv = @ \ {w}]
        \/ p.nthreads < pool_maximum /\ create_worker(p, pc)
    BY <1>4 DEF thr_pool_queue
  <2> HIDE DEF p
  <2>3. Agrees(p, pc) BY <1>0, <2>1, SamePlaces
  <2>4. CASE pool' = p BY <1>0, <2>1, <2>4
  <2>5. CASE \E w \in p.workcv : pool' = [p EXCEPT !.workcv = @ \ {w}]
    BY <1>0, <2>1, <2>5 DEF PoolType
  <2>6. CASE p.nthreads < pool_maximum /\ create_worker(p, pc)
    BY <1>0, <2>1, <2>3, <2>6, CreateFrame
  <2>7. QED BY <2>2, <2>4, <2>5, <2>6
<1>5. ASSUME NEW c \in Clients, thr_pool_wait(c) \/ WaitAgain(c)
      PROVE  pool'.nthreads = pool.nthreads
  BY <1>0, <1>5, SleepFacts DEF thr_pool_wait, WaitAgain
<1>6. ASSUME NEW c \in Clients, NEW p \in PoolType, NEW first, DestroyLoops(p, c, first)
      PROVE  pool'.nthreads = p.nthreads
  <2>1. CASE pool' = SleepOnWaitcv(p, c) BY <2>1, SleepFacts
  <2>2. CASE pool' = [p EXCEPT !.busycv = @ \cup {c}] BY <2>2 DEF PoolType
  <2>3. CASE pool' = [p EXCEPT !.head = <<>>] BY <2>3 DEF PoolType
  <2>4. QED BY <1>6, <2>1, <2>2, <2>3 DEF DestroyLoops
<1>7. ASSUME NEW c \in Clients, thr_pool_destroy(c) PROVE pool'.nthreads = pool.nthreads
  <2> DEFINE p == [pool EXCEPT !.flags = @ \cup {Destroying}, !.workcv = {}]
  <2>1. p \in PoolType /\ p.nthreads = pool.nthreads BY <1>0 DEF PoolType, Destroying
  <2>2. DestroyLoops(p, c, TRUE) BY <1>7 DEF thr_pool_destroy
  <2> HIDE DEF p
  <2>3. QED BY <1>6, <2>1, <2>2
<1>8. ASSUME NEW c \in Clients, DestroyAgain(c) PROVE pool'.nthreads = pool.nthreads
  BY <1>0, <1>6, <1>8 DEF DestroyAgain
<1>9. ASSUME NEW t, SpuriousWakeup(t) PROVE pool'.nthreads = pool.nthreads
  BY <1>0, <1>9 DEF SpuriousWakeup, PoolType
<1>10. ~ UNCHANGED vars BY <1>0 DEF vars
<1>11. pool'.nthreads # pool.nthreads /\ ~(pool'.nthreads >= pool.nthreads)
  <2>1. CASE pool'.nthreads \in Int BY <1>0, <2>1
  <2>2. QED BY <2>1, NextInv DEF IInv, Books, Agrees, PoolType
<1>12. PICK w \in Workers : WorkerStep(w)
  BY <1>4, <1>5, <1>7, <1>8, <1>9, <1>10, <1>11 DEF Next, ClientWakes, Ended
<1>13. Leave(w) \/ Exit(w)
  BY <1>1, <1>2, <1>3, <1>11, <1>12 DEF WorkerStep, Ends
<1>14. QED BY <1>13

\* min_threads are kept in the pool (thr_pool.h), whatever the two bounds are:
\* from there down it shrinks only by jobs that end their thread, and by
\* thr_pool_destroy.
THEOREM MinimumIsKept == Spec => MinimumKept
<1>1. ASSUME IInv, [Next]_vars, pool'.nthreads < pool.nthreads,
             pool.nthreads =< pool_minimum, ~IsDestroyed
      PROVE  \E w \in Workers : pc[w] = "exiting" /\ pc'[w] # "exiting"
  <2>1. PICK w \in Workers : Leave(w) \/ Exit(w) BY <1>1, WhoShrinks
  <2>2. ~Leave(w)
    <3>1. pool.nthreads \in Int /\ pool_minimum \in Nat
      BY <1>1, ThrPoolAssumption DEF IInv, Books, Agrees, PoolType
    <3>2. QED BY <1>1, <3>1 DEF Leave, GivesUp, Excess
  <2>3. Exit(w) BY <2>1, <2>2
  <2>4. pc[w] = "exiting" BY <2>3 DEF Exit
  <2>5. pc'[w] \in {"none", "start"}
    BY <1>1, <2>3, <2>4, ExitReady, LeaveAgrees DEF Exit, IInv, Books, Agrees
  <2>6. QED BY <2>4, <2>5
<1>2. IInv /\ [Next]_vars =>
        (pool'.nthreads < pool.nthreads /\ pool.nthreads =< pool_minimum =>
           IsDestroyed \/ \E w \in Workers : pc[w] = "exiting" /\ pc'[w] # "exiting")
  BY <1>1
<1>3. QED BY <1>2, Invariance, PTL DEF Spec, MinimumKept

-----------------------------------------------------------------------------
Executing == {job[w] : w \in {v \in Workers : Running(v)}}

\* What is pending, for JobPool.
LEMMA PendingIsPend == IInv => pool.head \o discarded = Pend
<1> SUFFICES ASSUME IInv PROVE pool.head \o discarded = Pend OBVIOUS
<1>1. pool.head \in Seq(Jobs) /\ discarded \in Seq(Jobs)
  BY DEF IInv, Books, Agrees, PoolType, DestroyOK
<1>2. CASE discarded = <<>> BY <1>1, <1>2 DEF Pend
<1>3. CASE discarded # <<>>
  <2>1. pool.head = <<>> BY <1>3 DEF IInv, DestroyOK
  <2>2. QED BY <1>1, <1>3, <2>1 DEF Pend
<1>4. QED BY <1>2, <1>3

\* A worker that takes a job is counted, and runs none: there are fewer jobs under
\* way than workers, and no more workers than pool_maximum.
LEMMA RoomForOneMore ==
    ASSUME IInv, NEW w \in Workers, pc[w] \in AliveLabels \ {"run"}
    PROVE  Cardinality(Executing) < pool_maximum
<1> DEFINE busy == {v \in Workers : Running(v)}
           alive == Members(pc, AliveLabels)
           f == [v \in busy |-> job[v]]
<1>1. f \in Surjection(busy, Executing)
  BY DEF Surjection, Executing
<1>2. f \in Injection(busy, Executing)
  BY <1>1 DEF Surjection, Injection, IsInjective, IInv, JobsOK
<1>3. ExistsBijection(busy, Executing)
  BY <1>1, <1>2 DEF ExistsBijection, Bijection
<1> HIDE DEF f
<1>4. busy \subseteq alive /\ w \in alive /\ w \notin busy
  BY DEF Members, AliveLabels, WorkerLabels, Running
<1>5. IsFiniteSet(alive) /\ Cardinality(alive) =< pool_maximum
  <2>1. alive \subseteq Workers BY DEF Members
  <2>2. IsFiniteSet(alive) BY <2>1, ThrPoolAssumption, FS_Subset
  <2>3. QED BY <2>2 DEF IInv, Books, Agrees
<1> HIDE DEF busy, alive
<1>6. IsFiniteSet(busy) /\ Cardinality(busy) < Cardinality(alive)
  <2>1. busy # alive BY <1>4
  <2>2. QED BY <1>4, <1>5, <2>1, FS_Subset, FS_CardinalityType
<1>7. Cardinality(Executing) = Cardinality(busy)
  BY <1>3, <1>6, FS_Bijection
<1>8. Cardinality(busy) \in Nat /\ Cardinality(alive) \in Nat
  BY <1>5, <1>6, FS_CardinalityType
<1>9. QED BY <1>5, <1>6, <1>7, <1>8, ThrPoolAssumption

\* One step of the pool is one step of JobPool, or none.
LEMMA StepImplementsJobPool ==
    ASSUME IInv, [Next]_vars
    PROVE  [Abstract!PoolNext]_(Abstract!poolVars)
<1>0. IInv' /\ pool.head \o discarded = Pend /\ (pool.head \o discarded)' = Pend'
  <2>1. IInv' BY NextInv
  <2>2. (pool.head \o discarded = Pend)' BY <2>1, PendingIsPend, PTL
  <2>3. QED BY <2>1, <2>2, PendingIsPend
<1>1. ASSUME JobsKept \/ UNCHANGED vars
      PROVE  UNCHANGED Abstract!poolVars
  <2>1. CASE UNCHANGED vars
    <3>1. UNCHANGED <<pool, pc, job, ended, discarded>> BY <2>1 DEF vars
    <3>2. QED BY <3>1 DEF Abstract!poolVars
  <2>2. CASE JobsKept
    <3>1. {job'[w] : w \in {v \in Workers : Running(v)'}} = Executing
      BY <2>2 DEF JobsKept, Running, Executing
    <3>2. pool'.head = pool.head /\ UNCHANGED <<ended, discarded>> BY <2>2 DEF JobsKept
    <3>3. Executing' = Executing BY <3>1 DEF Executing, Running
    <3>4. (pool.head \o discarded)' = pool.head \o discarded BY <3>2
    <3>5. QED BY <3>2, <3>3, <3>4 DEF Abstract!poolVars, Executing, Running
  <2>3. QED BY <1>1, <2>1, <2>2
<1>2. ASSUME NEW c \in Clients, NEW j \in Jobs, thr_pool_queue(c, j)
      PROVE  Abstract!Submit(j)
  <2>1. /\ pool.head \in Seq(Jobs) /\ pool'.head = Append(pool.head, j)
        /\ ~IsDestroyed /\ j \notin Live
        /\ UNCHANGED <<job, ended, discarded>>
        /\ \A t \in Workers \cup Clients :
              \/ pc'[t] = pc[t]
              \/ t \in Workers /\ pc[t] = "none" /\ pc'[t] = "start"
    BY <1>2, QueueFacts
  <2>2. discarded = <<>> /\ Pend = pool.head /\ Pend' = Append(pool.head, j)
    BY <2>1 DEF IInv, DestroyOK, Destroyer, Pend
  <2>3. Executing' = Executing BY <2>1 DEF Executing, Running
  <2>4. j \notin Executing /\ j \notin ended /\ \A n \in 1 .. Len(pool.head) : pool.head[n] # j
    BY <2>1 DEF Live, Executing
  <2>5. j \notin Abstract!Pending
    BY <1>0, <2>1, <2>2, <2>4 DEF Abstract!Pending
  <2>6. QED BY <1>0, <2>1, <2>2, <2>3, <2>4, <2>5 DEF Abstract!Submit, Executing, Running
<1>3. ASSUME NEW w \in Workers, TakeJob(w)
      PROVE  Abstract!Begin
  <2>1. /\ pool.head \in Seq(Jobs) /\ pool.head # <<>> /\ ~IsDestroyed
        /\ pool'.head = Tail(pool.head)
        /\ pc' = [pc EXCEPT ![w] = "run"] /\ pc[w] \in AliveLabels \ {"run"}
        /\ job' = [job EXCEPT ![w] = Head(pool.head)]
        /\ UNCHANGED <<ended, discarded>>
    BY <1>3, TakeFacts DEF IInv
  <2>2. discarded = <<>> /\ Pend = pool.head /\ Pend' = Tail(pool.head)
    BY <2>1 DEF IInv, DestroyOK, Destroyer, Pend
  <2>3. Abstract!Cardinality(Executing) < pool_maximum
    BY <2>1, RoomForOneMore, Zenon DEF Abstract!Cardinality, Cardinality
  <2>4. Executing' = Executing \cup {Head(pool.head)}
    <3>1. /\ Running(w)' /\ job'[w] = Head(pool.head) /\ ~Running(w)
          /\ \A v \in Workers : v # w => (Running(v)' <=> Running(v)) /\ job'[v] = job[v]
      BY <2>1 DEF Running, IInv, Books, Agrees, PcType
    <3>2. QED BY <3>1 DEF Executing
  <2>5. QED BY <1>0, <2>1, <2>2, <2>3, <2>4 DEF Abstract!Begin, Executing, Running
<1>4. ASSUME NEW w \in Workers, Ends(w)
      PROVE  job[w] \in Jobs /\ Abstract!End(job[w])
  <2>1. /\ Running(w) /\ job[w] \in Jobs /\ ended' = ended \cup {job[w]}
        /\ UNCHANGED <<pool, job, discarded>>
        /\ \A v \in Workers : Running(v)' <=> (Running(v) /\ v # w)
    BY <1>4, EndFacts DEF IInv, Running
  <2>2. \A v \in Workers : Running(v) /\ job[v] = job[w] => v = w
    BY <2>1 DEF IInv, JobsOK
  <2>3. job[w] \in Executing /\ Executing' = Executing \ {job[w]}
    BY <2>1, <2>2 DEF Executing
  <2>4. QED BY <2>1, <2>3 DEF Abstract!End, Executing, Running
<1>5. ASSUME NEW c \in Clients, thr_pool_destroy(c) \/ DestroyAgain(c)
      PROVE  UNCHANGED Abstract!poolVars
  <2>1. /\ \A t \in Workers \cup Clients : t # c => pc'[t] = pc[t]
        /\ discarded = <<>> /\ UNCHANGED <<job, ended>>
        /\ \/ pool'.head = pool.head /\ discarded' = discarded
           \/ pool'.head = <<>> /\ discarded' = pool.head
    BY <1>5, DestroyFacts
  <2>2. Pend' = Pend BY <2>1 DEF Pend
  <2>3. \A v \in Workers : pc'[v] = pc[v] BY <2>1, ThrPoolAssumption
  <2>4. Executing' = Executing BY <2>1, <2>3 DEF Executing, Running
  <2>5. QED BY <1>0, <2>1, <2>2, <2>4 DEF Abstract!poolVars, Executing, Running
<1>6. ASSUME NEW t, SpuriousWakeup(t)
      PROVE  JobsKept
  BY <1>6 DEF SpuriousWakeup, JobsKept, Running, IInv, Books, Agrees, PoolType
<1>7. CASE UNCHANGED vars \/ Ended
  BY <1>1, <1>7 DEF Ended
<1>8. CASE \E w \in Workers : Quiet(w)
  BY <1>1, <1>8, QuietSteps DEF IInv
<1>9. CASE \E w \in Workers : TakeJob(w)
  BY <1>3, <1>9 DEF Abstract!PoolNext
<1>10. CASE \E w \in Workers : Ends(w)
  <2>1. PICK w \in Workers : Ends(w) BY <1>10
  <2>2. job[w] \in Jobs /\ Abstract!End(job[w]) BY <1>4, <2>1
  <2>3. QED BY <2>2 DEF Abstract!PoolNext, Abstract!End
<1>11. CASE \E c \in Clients, j \in Jobs : thr_pool_queue(c, j)
  BY <1>2, <1>11, Zenon DEF Abstract!PoolNext
<1>12. CASE \E c \in Clients : thr_pool_wait(c) \/ WaitAgain(c)
  BY <1>1, <1>12, WaitFacts
<1>13. CASE \E c \in Clients : thr_pool_destroy(c) \/ DestroyAgain(c)
  BY <1>5, <1>13
<1>14. CASE \E t \in Workers \cup Clients : SpuriousWakeup(t)
  BY <1>1, <1>6, <1>14
<1>15. QED
  BY <1>7, <1>8, <1>9, <1>10, <1>11, <1>12, <1>13, <1>14
  DEF Next, WorkerStep, ClientWakes, Quiet, Ends

\* This pool too is a job pool, whatever its size: each job is started once, in
\* the order of thr_pool_queue, at most max_threads run at a time, and what
\* thr_pool_destroy frees is never started.
THEOREM ThrPoolImplementsJobPool == Spec => ImplementsJobPool
<1>1. Init => Abstract!PoolInit
  <2> SUFFICES ASSUME Init PROVE Abstract!PoolInit OBVIOUS
  <2>1. pool.head = <<>> /\ discarded = <<>> /\ ended = {} BY DEF Init
  <2>2. pool.head \o discarded = <<>> BY <2>1
  <2>3. {v \in Workers : pc[v] = "run"} = {} BY DEF Init
  <2>4. QED BY <2>1, <2>2, <2>3 DEF Abstract!PoolInit
<1>2. IInv /\ [Next]_vars => [Abstract!PoolNext]_(Abstract!poolVars)
  BY StepImplementsJobPool
<1>3. QED
  BY <1>1, <1>2, Invariance, PTL DEF Spec, ImplementsJobPool, Abstract!PoolSpec
=============================================================================
