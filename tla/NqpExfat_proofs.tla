--------------------------- MODULE NqpExfat_proofs ---------------------------
(***************************************************************************)
(* The reads and the listings of NqpExfat and of the programs that use it, *)
(* for any volume, paths, descriptors and size of the open file table; and *)
(* what cat, ls and paste print of them.                                   *)
(***************************************************************************)
EXTENDS NqpExfatPrograms, CommonLemmas, SequenceTheorems

-----------------------------------------------------------------------------
(* Chains of clusters.                                                     *)

\* The clusters after c, up to the n-th.
After(c, n) ==
    CHOOSE after : after = [k \in 0 .. n |-> IF k = 0 THEN c ELSE Link[after[k - 1]]]

\* A link leads to a cluster or to the end.
LEMMA LinkType == Link \in [Links -> Links] /\ EOC \in Links /\ Link[EOC] = EOC
BY ExfatAssumption DEF Link, Links

\* They begin with c, and each is the one that the one before is linked to.
LEMMA AfterSteps ==
    ASSUME NEW c \in Links, NEW n \in Nat
    PROVE  /\ After(c, n)[0] = c
           /\ \A k \in 1 .. n : After(c, n)[k] = Link[After(c, n)[k - 1]]
           /\ \A k \in 0 .. n : After(c, n)[k] \in Links
<1> DEFINE Body(f) == [k \in 0 .. n |-> IF k = 0 THEN c ELSE Link[f[k - 1]]]
           step == [k \in 1 .. n |-> Link]
<1>1. step \in [1 .. n -> [Links -> Links]]
  BY LinkType
<1>2. PICK F \in [0 .. n -> Links] : Solves(F, n, c, step)
  <2> HIDE DEF step
  <2> QED BY <1>1, RecursionHasSolution
<1>3. F = Body(F)
  <2>1. ASSUME NEW k \in 0 .. n
        PROVE  F[k] = Body(F)[k]
    <3>1. CASE k = 0
      BY <1>2, <3>1 DEF Solves
    <3>2. CASE k # 0
      <4>1. k \in 1 .. n
        BY <3>2
      <4>2. F[k] = Link[F[k - 1]]
        BY <1>2, <4>1 DEF Solves
      <4>3. QED BY <4>2, <3>2
    <3>3. QED BY <3>1, <3>2
  <2>2. QED BY <1>2, <2>1
<1> DEFINE A == After(c, n)
<1>4. A = Body(A)
  <2>1. A = CHOOSE f : f = Body(f)
    BY DEF After
  <2> HIDE DEF Body, A
  <2>2. QED BY <1>3, <2>1
<1> HIDE DEF A
<1>5. A[0] = c /\ \A k \in 1 .. n : A[k] = Link[A[k - 1]]
  <2>1. \A k \in 0 .. n : A[k] = IF k = 0 THEN c ELSE Link[A[k - 1]]
    BY <1>4
  <2>2. 0 \in 0 .. n /\ \A k \in 1 .. n : k \in 0 .. n /\ k # 0
    OBVIOUS
  <2>3. QED BY <2>1, <2>2
<1>6. \A k \in 0 .. n : A[k] \in Links
  <2>1. \A k \in 1 .. n : A[k - 1] \in Links => A[k] \in Links
    BY <1>5, LinkType
  <2>2. QED BY <1>5, <2>1, RecursionStaysIn
<1>7. QED BY <1>5, <1>6 DEF A

\* The n-th cluster after c is linked to the next one.
LEMMA SkipSteps ==
    ASSUME NEW c \in Links, NEW n \in Nat
    PROVE  /\ Skip(c, 0) = c
           /\ Skip(c, n) \in Links
           /\ Skip(c, n + 1) = Link[Skip(c, n)]
<1>1. \A m \in Nat : Skip(c, m) = After(c, m)[m]
  BY DEF Skip, After
<1>2. Skip(c, 0) = c
  BY <1>1, AfterSteps
<1>3. Skip(c, n) \in Links
  <2>1. n \in 0 .. n
    OBVIOUS
  <2>2. QED BY <1>1, <2>1, AfterSteps
<1> DEFINE F == After(c, n)
           G == After(c, n + 1)
           Same == {k \in 0 .. n : G[k] = F[k]}
<1>4. /\ F[0] = c /\ \A k \in 1 .. n : F[k] = Link[F[k - 1]]
      /\ G[0] = c /\ \A k \in 1 .. n + 1 : G[k] = Link[G[k - 1]]
  BY AfterSteps
<1> HIDE DEF F, G
<1>5. 0 \in Same
  BY <1>4
<1>6. ASSUME NEW k \in 0 .. n - 1, k \in Same
      PROVE  k + 1 \in Same
  <2>1. k + 1 \in 1 .. n /\ k + 1 \in 1 .. n + 1 /\ (k + 1) - 1 = k /\ k + 1 \in 0 .. n
    OBVIOUS
  <2>2. G[k + 1] = Link[G[k]] /\ F[k + 1] = Link[F[k]]
    BY <1>4, <2>1
  <2>3. QED BY <1>6, <2>1, <2>2
<1>7. G[n] = F[n]
  <2>1. \A k \in 0 .. n : k \in Same
    <3> HIDE DEF Same
    <3> QED BY <1>5, <1>6, SetInduction
  <2>2. n \in 0 .. n
    OBVIOUS
  <2>3. QED BY <2>1, <2>2
<1>8. G[n + 1] = Link[G[n]]
  <2>1. n + 1 \in 1 .. n + 1 /\ (n + 1) - 1 = n
    OBVIOUS
  <2>2. QED BY <1>4, <2>1
<1>9. Skip(c, n + 1) = G[n + 1] /\ Skip(c, n) = F[n]
  BY <1>1 DEF F, G
<1>10. QED BY <1>2, <1>3, <1>7, <1>8, <1>9

\* Links are followed one after the other.
LEMMA SkipAdds ==
    ASSUME NEW c \in Links, NEW m \in Nat, NEW n \in Nat
    PROVE  Skip(Skip(c, m), n) = Skip(c, m + n)
<1> DEFINE d == Skip(c, m)
           Right == {k \in 0 .. n : Skip(d, k) = Skip(c, m + k)}
<1>1. d \in Links
  BY SkipSteps
<1>2. 0 \in Right
  <2>1. Skip(d, 0) = d /\ m + 0 = m
    BY <1>1, SkipSteps
  <2>2. QED BY <2>1
<1>3. ASSUME NEW k \in 0 .. n - 1, k \in Right
      PROVE  k + 1 \in Right
  <2>1. Skip(d, k + 1) = Link[Skip(d, k)]
    <3> HIDE DEF d
    <3> QED BY <1>1, SkipSteps
  <2>2. Skip(c, (m + k) + 1) = Link[Skip(c, m + k)]
    BY SkipSteps
  <2>3. (m + k) + 1 = m + (k + 1) /\ k + 1 \in 0 .. n
    OBVIOUS
  <2>4. QED BY <1>3, <2>1, <2>2, <2>3
<1>4. \A k \in 0 .. n : k \in Right
  <2> HIDE DEF Right
  <2> QED BY <1>2, <1>3, SetInduction
<1>5. n \in 0 .. n
  OBVIOUS
<1>6. QED BY <1>4, <1>5

\* There is nothing behind the end of a chain.
LEMMA SkipEnd ==
    ASSUME NEW c \in Links, NEW m \in Nat, NEW n \in Nat, m =< n, Skip(c, m) = EOC
    PROVE  Skip(c, n) = EOC
<1>1. n - m \in Nat /\ m + (n - m) = n
  OBVIOUS
<1>2. Skip(c, n) = Skip(EOC, n - m)
  BY <1>1, SkipAdds
<1>3. \A k \in 0 .. n - m : Skip(EOC, k) = EOC
  <2> DEFINE Ended == {k \in 0 .. n - m : Skip(EOC, k) = EOC}
  <2>1. 0 \in Ended
    BY LinkType, SkipSteps, <1>1
  <2>2. ASSUME NEW k \in 0 .. (n - m) - 1, k \in Ended
        PROVE  k + 1 \in Ended
    <3>1. k + 1 \in 0 .. n - m /\ k \in Nat
      BY <1>1
    <3>2. Skip(EOC, k + 1) = Link[Skip(EOC, k)]
      BY <3>1, LinkType, SkipSteps
    <3>3. QED BY <2>2, <3>1, <3>2, LinkType
  <2>3. \A k \in 0 .. n - m : k \in Ended
    <3> HIDE DEF Ended
    <3> QED BY <1>1, <2>1, <2>2, SetInduction
  <2>4. QED BY <2>3
<1>4. n - m \in 0 .. n - m
  BY <1>1
<1>5. QED BY <1>2, <1>3, <1>4

\* Every chain ends within LongestChain clusters.
LEMMA ChainEnds ==
    ASSUME NEW c \in Links
    PROVE  /\ LongestChain \in Lengths
           /\ \A n \in Nat : n >= LongestChain => Skip(c, n) = EOC
           /\ \A n \in Nat : Skip(c, n) # EOC => n \in 0 .. LongestChain - 1
<1>1. LongestChain \in Nat /\ LongestChain \in Lengths
  BY ExfatAssumption DEF Lengths
<1>2. Skip(c, LongestChain) = EOC
  <2>1. CASE c \in Clusters
    BY <2>1, ExfatAssumption
  <2>2. CASE c = EOC
    <3>1. Skip(c, 0) = EOC
      BY <2>2, SkipSteps, <1>1
    <3>2. QED BY <1>1, <3>1, SkipEnd
  <2>3. QED BY <2>1, <2>2 DEF Links
<1>3. \A n \in Nat : n >= LongestChain => Skip(c, n) = EOC
  BY <1>1, <1>2, SkipEnd
<1>4. QED BY <1>1, <1>3

\* A directory's chain leads through the directory.
LEMMA ChainOfDirectory ==
    ASSUME NEW c \in DOMAIN Directory \cup {EOC}, NEW n \in Nat
    PROVE  c \in Links /\ Skip(c, n) \in DOMAIN Directory \cup {EOC}
<1> DEFINE D == DOMAIN Directory \cup {EOC}
<1>1. c \in Links /\ D \subseteq Links
  BY ExfatAssumption DEF Links
<1>2. \A d \in D : Link[d] \in D
  BY <1>1, ExfatAssumption, DirectoryAssumption DEF Link
<1> DEFINE f == [k \in 0 .. n |-> Skip(c, k)]
<1>3. f[0] \in D
  BY <1>1, SkipSteps
<1>4. ASSUME NEW k \in 1 .. n, f[k - 1] \in D
      PROVE  f[k] \in D
  <2>1. k - 1 \in Nat /\ (k - 1) + 1 = k /\ k \in 0 .. n /\ k - 1 \in 0 .. n
    OBVIOUS
  <2>2. Skip(c, (k - 1) + 1) = Link[Skip(c, k - 1)]
    BY <1>1, <2>1, SkipSteps
  <2>3. f[k] = Link[f[k - 1]]
    BY <2>1, <2>2
  <2>4. QED BY <1>2, <1>4, <2>3
<1>5. \A k \in 0 .. n : f[k] \in D
  <2> HIDE DEF f, D
  <2> QED BY <1>3, <1>4, RecursionStaysIn
<1>6. n \in 0 .. n
  OBVIOUS
<1>7. QED BY <1>1, <1>5, <1>6

-----------------------------------------------------------------------------
(* The bytes of a file.                                                    *)

\* The byte i, counted from 0, of the file whose first cluster is c.
ByteAt(c, i) == <<Skip(c, i \div CLUSTER_SIZE), i % CLUSTER_SIZE>>
Bytes == Clusters \X Nat

\* The lesser of two numbers.
LEMMA MinOfTwo ==
    ASSUME NEW a \in Nat, NEW b \in Nat
    PROVE  Min({a, b}) \in {a, b} /\ Min({a, b}) =< a /\ Min({a, b}) =< b
<1>1. {a, b} \in SUBSET Nat /\ {a, b} # {}
  OBVIOUS
<1>2. QED BY <1>1, MinIsLeast

\* Division with remainder.
LEMMA DivMod ==
    ASSUME NEW n \in Nat \ {0}, NEW i \in Nat
    PROVE  i \div n \in Nat /\ i % n \in 0 .. n - 1 /\ i = n * (i \div n) + (i % n)
OBVIOUS

\* ... and back.
LEMMA DivModOfSum ==
    ASSUME NEW n \in Nat \ {0}, NEW m \in Nat, NEW r \in 0 .. n - 1
    PROVE  (n * m + r) \div n = m /\ (n * m + r) % n = r
OBVIOUS

\* Place r of the m-th cluster holds byte CLUSTER_SIZE * m + r of the file.
LEMMA InCluster ==
    ASSUME NEW c, NEW m \in Nat, NEW r \in 0 .. CLUSTER_SIZE - 1
    PROVE  ByteAt(c, CLUSTER_SIZE * m + r) = <<Skip(c, m), r>>
<1>1. CLUSTER_SIZE \in Nat \ {0}
  BY ExfatAssumption
<1>2. QED BY <1>1, DivModOfSum DEF ByteAt

\* What is read from place at of a cluster on is the file from there on.
LEMMA ReadChainBytes ==
    ASSUME NEW c \in Links, NEW at \in 0 .. CLUSTER_SIZE - 1, NEW count \in Nat
    PROVE  /\ ReadChain(c, at, count) \in Seq(Bytes)
           /\ Len(ReadChain(c, at, count)) =< count
           /\ \A i \in 1 .. Len(ReadChain(c, at, count)) :
                 ReadChain(c, at, count)[i] = ByteAt(c, at + i - 1)
           /\ c # EOC /\ count # 0 => Len(ReadChain(c, at, count)) # 0
<1> DEFINE Portion(p) == Min({count - Len(p.data), CLUSTER_SIZE - p.offset})
           Taken(p) == [i \in 1 .. Portion(p) |-> <<p.cluster, p.offset + i - 1>>]
           Step(p) == IF p.cluster = EOC \/ Len(p.data) = count THEN p
                      ELSE [cluster |-> Fat[p.cluster], offset |-> 0,
                            data |-> p.data \o Taken(p)]
           s0 == [cluster |-> c, offset |-> at, data |-> <<>>]
           IsFile(data) == \A i \in 1 .. Len(data) : data[i] = ByteAt(c, at + i - 1)
           Goes(p) == \E m \in Nat :
                         p.cluster = Skip(c, m) /\ at + Len(p.data) = CLUSTER_SIZE * m + p.offset
           P == [cluster : Links, offset : 0 .. CLUSTER_SIZE - 1, data : Seq(Bytes)]
           S == {p \in P : /\ Len(p.data) =< count
                           /\ IsFile(p.data)
                           /\ Len(p.data) # count => Goes(p)}
           Body(f) == [j \in 0 .. count |-> IF j = 0 THEN s0 ELSE Step(f[j - 1])]
           pass == CHOOSE f : f = Body(f)
           step == [j \in 1 .. count |-> [p \in S |-> Step(p)]]
<1>1. CLUSTER_SIZE \in Nat \ {0} /\ 0 \in 0 .. CLUSTER_SIZE - 1 /\ at \in Nat
  BY ExfatAssumption
<1>2. s0 \in S
  <2>1. <<>> \in Seq(Bytes) /\ Len(<<>>) = 0 /\ 1 .. 0 = {}
    BY EmptySeq
  <2>2. Skip(c, 0) = c /\ 0 \in Nat /\ at + 0 = CLUSTER_SIZE * 0 + at
    BY <1>1, SkipSteps
  <2>3. Goes(s0)
    BY <2>1, <2>2
  <2>4. s0 \in P
    BY <2>1
  <2>5. QED BY <2>1, <2>3, <2>4
<1>3. ASSUME NEW p \in S
      PROVE  /\ Step(p) \in S
             /\ \/ Len(p.data) # 0
                \/ p.cluster # EOC /\ Len(p.data) # count
                => Len(Step(p).data) # 0
  <2>1. CASE p.cluster = EOC \/ Len(p.data) = count
    BY <2>1
  <2>2. CASE p.cluster # EOC /\ Len(p.data) # count
    <3>0. /\ p \in P /\ Len(p.data) =< count /\ IsFile(p.data)
          /\ \E m \in Nat :
                p.cluster = Skip(c, m) /\ at + Len(p.data) = CLUSTER_SIZE * m + p.offset
      BY <2>2
    <3> HIDE DEF S, Step
    <3>1. PICK q, o, old : q = p.cluster /\ o = p.offset /\ old = p.data
      OBVIOUS
    <3>2. /\ q \in Clusters /\ o \in 0 .. CLUSTER_SIZE - 1
          /\ old \in Seq(Bytes) /\ Len(old) \in Nat /\ Len(old) < count
          /\ IsFile(old)
      <4>1. p \in P /\ Len(p.data) =< count /\ IsFile(p.data)
        BY <3>0
      <4>2. q \in Links /\ o \in 0 .. CLUSTER_SIZE - 1 /\ old \in Seq(Bytes)
        BY <3>1, <4>1
      <4>3. Len(old) \in Nat /\ Len(old) < count
        <5>1. Len(old) \in Nat /\ Len(old) =< count /\ Len(old) # count
          BY <2>2, <3>1, <4>1, <4>2, LenProperties
        <5>2. QED BY <5>1
      <4>4. QED BY <2>2, <3>1, <4>1, <4>2, <4>3 DEF Links
    <3>3. PICK m \in Nat : q = Skip(c, m) /\ at + Len(old) = CLUSTER_SIZE * m + o
      BY <3>0, <3>1
    <3>4. PICK k : k = Min({count - Len(old), CLUSTER_SIZE - o})
      OBVIOUS
    <3>5. /\ k \in Nat \ {0} /\ Len(old) + k =< count
          /\ o + k =< CLUSTER_SIZE
          /\ k = count - Len(old) \/ k = CLUSTER_SIZE - o
      <4>1. count - Len(old) \in Nat \ {0} /\ CLUSTER_SIZE - o \in Nat \ {0}
        BY <1>1, <3>2
      <4>2. k \in {count - Len(old), CLUSTER_SIZE - o}
            /\ k =< count - Len(old) /\ k =< CLUSTER_SIZE - o
        BY <3>4, <4>1, MinOfTwo
      <4>3. QED BY <1>1, <3>2, <4>1, <4>2
    <3>6. PICK new : new = [i \in 1 .. k |-> <<q, o + i - 1>>]
      OBVIOUS
    <3>7. /\ new \in Seq(Bytes) /\ Len(new) = k
          /\ \A i \in 1 .. k : new[i] = <<q, o + i - 1>>
      <4>1. \A i \in 1 .. k : <<q, o + i - 1>> \in Bytes
        BY <3>2, <3>5 DEF Bytes
      <4>2. new \in [1 .. k -> Bytes] /\ \A i \in 1 .. k : new[i] = <<q, o + i - 1>>
        BY <3>6, <4>1
      <4>3. new \in Seq(Bytes) /\ Len(new) = k
        BY <3>5, <4>2, LenProperties
      <4>4. QED BY <4>2, <4>3
    <3>8. PICK data : data = old \o new
      OBVIOUS
    <3>9. /\ data \in Seq(Bytes) /\ Len(data) = Len(old) + k
          /\ \A i \in 1 .. Len(old) + k :
                data[i] = IF i <= Len(old) THEN old[i] ELSE new[i - Len(old)]
      <4>1. /\ old \o new \in Seq(Bytes) /\ Len(old \o new) = Len(old) + Len(new)
            /\ \A i \in 1 .. Len(old) + Len(new) :
                  (old \o new)[i] = IF i <= Len(old) THEN old[i] ELSE new[i - Len(old)]
        <5>1. old \in Seq(Bytes) /\ new \in Seq(Bytes)
          BY <3>2, <3>7
        <5>2. QED BY <5>1, ConcatProperties
      <4>2. Len(new) = k
        BY <3>7
      <4>3. QED BY <3>8, <4>1, <4>2
    <3>10. ASSUME NEW i \in 1 .. Len(old) + k
           PROVE  data[i] = ByteAt(c, at + i - 1)
      <4>1. CASE i <= Len(old)
        <5>1. i \in 1 .. Len(old)
          BY <3>2, <4>1
        <5>2. QED BY <3>2, <3>9, <4>1, <5>1
      <4>2. CASE ~ (i <= Len(old))
        <5>1. PICK j, r : j = i - Len(old) /\ r = o + j - 1
          OBVIOUS
        <5>2. j \in 1 .. k /\ data[i] = new[j]
          BY <3>2, <3>5, <3>9, <4>2, <5>1
        <5>3. new[j] = <<Skip(c, m), r>>
          BY <3>3, <3>7, <5>1, <5>2
        <5>4. r \in 0 .. CLUSTER_SIZE - 1
          <6>1. o \in 0 .. CLUSTER_SIZE - 1 /\ k \in Nat /\ o + k =< CLUSTER_SIZE
            BY <3>2, <3>5
          <6>2. j \in 1 .. k /\ r = o + j - 1
            BY <5>1, <5>2
          <6>3. QED BY <1>1, <6>1, <6>2
        <5>5. at + i - 1 = CLUSTER_SIZE * m + r
          <6>1. PICK z : z = CLUSTER_SIZE * m
            OBVIOUS
          <6>2. z \in Nat
            BY <1>1, <6>1
          <6>3. at + Len(old) = z + o
            BY <3>3, <6>1
          <6>4. at \in Nat /\ o \in Nat /\ Len(old) \in Nat /\ i \in Nat /\ r \in Nat
            BY <1>1, <3>2, <3>5, <5>4
          <6>5. r = o + (i - Len(old)) - 1
            BY <5>1
          <6>6. at + i - 1 = z + r
            BY <6>2, <6>3, <6>4, <6>5
          <6>7. QED BY <6>1, <6>6
        <5>6. ByteAt(c, CLUSTER_SIZE * m + r) = <<Skip(c, m), r>>
          BY <5>4, InCluster
        <5>7. QED BY <5>2, <5>3, <5>5, <5>6
      <4>3. QED BY <4>1, <4>2
    <3>11. PICK next : next = Fat[q]
      OBVIOUS
    <3>12. next = Skip(c, m + 1) /\ next \in Links
      <4>1. Skip(c, m + 1) = Link[Skip(c, m)] /\ Skip(c, m + 1) \in Links
        <5>1. m + 1 \in Nat
          OBVIOUS
        <5>2. Skip(c, m + 1) \in Links
          BY <5>1, SkipSteps
        <5>3. QED BY <5>2, SkipSteps
      <4>2. Link[q] = Fat[q]
        BY <2>2, <3>1, <3>2 DEF Link, Links
      <4>3. QED BY <3>3, <3>11, <4>1, <4>2
    <3>13. Step(p) = [cluster |-> next, offset |-> 0, data |-> data]
      BY <2>2, <3>1, <3>4, <3>6, <3>8, <3>11 DEF Step
    <3>14. Len(data) # count => at + Len(data) = CLUSTER_SIZE * (m + 1) + 0
      <4>1. PICK z : z = CLUSTER_SIZE * m
        OBVIOUS
      <4>2. z \in Nat /\ CLUSTER_SIZE * (m + 1) = z + CLUSTER_SIZE
        BY <1>1, <4>1
      <4>3. at + Len(old) = z + o
        BY <3>3, <4>1
      <4>4. at \in Nat /\ o \in Nat /\ Len(old) \in Nat /\ k \in Nat /\ CLUSTER_SIZE \in Nat
            /\ Len(data) = Len(old) + k /\ (Len(data) # count => k = CLUSTER_SIZE - o)
        <5>1. k = count - Len(old) \/ k = CLUSTER_SIZE - o
          BY <3>5
        <5>2. k = count - Len(old) => Len(data) = count
          BY <3>2, <3>5, <3>9
        <5>3. QED BY <1>1, <3>2, <3>5, <3>9, <5>1, <5>2
      <4>5. QED BY <4>2, <4>3, <4>4
    <3>15. Step(p) \in P
      BY <1>1, <3>9, <3>12, <3>13
    <3>16. Len(data) # count => Goes([cluster |-> next, offset |-> 0, data |-> data])
      <4>1. m + 1 \in Nat
        OBVIOUS
      <4>2. QED BY <3>12, <3>14, <4>1
    <3>17. Len(data) =< count
      BY <3>5, <3>9
    <3>18. IsFile(data)
      BY <3>9, <3>10
    <3> HIDE DEF Goes, P, IsFile
    <3>19. Step(p) \in S
      BY <3>13, <3>15, <3>16, <3>17, <3>18 DEF S
    <3>20. Len(Step(p).data) # 0
      BY <3>2, <3>5, <3>9, <3>13
    <3>21. QED BY <3>19, <3>20
  <2>3. QED BY <2>1, <2>2
<1> HIDE DEF Step, S, s0
<1>4. pass = Body(pass)
  <2>1. step \in [1 .. count -> [S -> S]]
    BY <1>3
  <2>2. PICK F \in [0 .. count -> S] : Solves(F, count, s0, step)
    <3> HIDE DEF step
    <3> QED BY <1>2, <2>1, RecursionHasSolution
  <2>3. \A j \in 1 .. count : F[j] = Step(F[j - 1])
    <3> SUFFICES ASSUME NEW j \in 1 .. count PROVE F[j] = Step(F[j - 1])
      OBVIOUS
    <3>1. j - 1 \in 0 .. count
      OBVIOUS
    <3>2. F[j - 1] \in S
      BY <2>2, <3>1
    <3>3. F[j] = step[j][F[j - 1]]
      BY <2>2 DEF Solves
    <3>4. QED BY <3>2, <3>3
  <2>4. F = Body(F)
    <3>1. ASSUME NEW j \in 0 .. count
          PROVE  F[j] = Body(F)[j]
      <4>1. CASE j = 0
        BY <2>2, <4>1 DEF Solves
      <4>2. CASE j # 0
        <5>1. j \in 1 .. count
          BY <4>2
        <5>2. QED BY <2>3, <4>2, <5>1
      <4>3. QED BY <4>1, <4>2
    <3>2. QED BY <2>2, <3>1
  <2> HIDE DEF Body
  <2>5. QED BY <2>4
<1>5. ReadChain(c, at, count) = pass[count].data
  BY DEF ReadChain, Step, s0
<1> HIDE DEF pass
<1>6. pass[0] = s0 /\ \A j \in 1 .. count : pass[j] = Step(pass[j - 1])
  <2>1. \A j \in 0 .. count : pass[j] = IF j = 0 THEN s0 ELSE Step(pass[j - 1])
    BY <1>4
  <2>2. 0 \in 0 .. count /\ \A j \in 1 .. count : j \in 0 .. count /\ j # 0
    OBVIOUS
  <2>3. QED BY <2>1, <2>2
<1>7. \A j \in 1 .. count : pass[j - 1] \in S => pass[j] \in S
  BY <1>3, <1>6
<1>8. \A j \in 0 .. count : pass[j] \in S
  BY <1>2, <1>6, <1>7, RecursionStaysIn
<1>9. pass[count] \in S
  BY <1>8
<1>10. ASSUME c # EOC, count # 0
       PROVE  Len(pass[count].data) # 0
  <2> DEFINE A == {j \in 0 .. count : j # 0 => Len(pass[j].data) # 0}
  <2>1. 0 \in A
    OBVIOUS
  <2>2. ASSUME NEW j \in 0 .. count - 1, j \in A
        PROVE  j + 1 \in A
    <3>1. /\ j + 1 \in 1 .. count /\ j + 1 \in 0 .. count /\ (j + 1) - 1 = j /\ j \in 0 .. count
      OBVIOUS
    <3>2. pass[j] \in S /\ pass[j + 1] = Step(pass[j])
      BY <1>6, <1>8, <3>1
    <3>3. CASE j = 0
      <4>1. s0.cluster # EOC /\ Len(s0.data) # count
        BY <1>10, EmptySeq DEF s0
      <4>2. QED BY <1>3, <1>6, <3>1, <3>2, <3>3, <4>1
    <3>4. CASE j # 0
      BY <1>3, <2>2, <3>1, <3>2, <3>4
    <3>5. QED BY <3>3, <3>4
  <2>3. \A j \in 0 .. count : j \in A
    <3> HIDE DEF A
    <3> QED BY <2>1, <2>2, SetInduction
  <2>4. count \in 0 .. count
    OBVIOUS
  <2>5. QED BY <1>10, <2>3, <2>4
<1>11. QED BY <1>5, <1>9, <1>10 DEF S

\* What one nqp_read copies is the file from the slot's offset on, and ends with
\* the file at the latest.
LEMMA ReadSlotBytes ==
    ASSUME NEW file, file.start_cluster \in Clusters, file.file_size \in Nat,
           file.offset \in Nat, file.offset =< file.file_size, NEW count \in Nat \ {0}
    PROVE  /\ ReadSlot(file, count) \in Seq(Bytes)
           /\ file.offset + Len(ReadSlot(file, count)) =< file.file_size
           /\ \A i \in 1 .. Len(ReadSlot(file, count)) :
                 ReadSlot(file, count)[i] = ByteAt(file.start_cluster, file.offset + i - 1)
           /\ Len(ReadSlot(file, count)) =< count
           /\ /\ file.offset # file.file_size
              /\ Skip(file.start_cluster, file.offset \div CLUSTER_SIZE) # EOC
              => Len(ReadSlot(file, count)) # 0
<1>1. PICK c, o, left, q, at, n :
          /\ c = file.start_cluster /\ o = file.offset /\ left = file.file_size - o
          /\ q = o \div CLUSTER_SIZE /\ at = o % CLUSTER_SIZE /\ n = Min({count, left})
  OBVIOUS
<1>2. c \in Links /\ o \in Nat /\ left \in Nat
  BY <1>1 DEF Links
<1>3. CLUSTER_SIZE \in Nat \ {0}
  BY ExfatAssumption
<1>4. q \in Nat /\ at \in 0 .. CLUSTER_SIZE - 1 /\ o = CLUSTER_SIZE * q + at
  BY <1>1, <1>2, <1>3, DivMod
<1>5. CASE left = 0
  <2>1. ReadSlot(file, count) = <<>>
    BY <1>1, <1>5 DEF ReadSlot
  <2>2. file.offset = file.file_size
    BY <1>1, <1>5
  <2>3. <<>> \in Seq(Bytes) /\ Len(<<>>) = 0
    BY EmptySeq
  <2>4. QED BY <2>1, <2>2, <2>3
<1>6. CASE left # 0
  <2>1. n \in Nat /\ n =< left /\ n =< count /\ n # 0
    BY <1>1, <1>2, <1>6, MinOfTwo
  <2>2. PICK d : d = Skip(c, q)
    OBVIOUS
  <2>3. d \in Links
    BY <1>2, <1>4, <2>2, SkipSteps
  <2>4. PICK data : data = ReadChain(d, at, n)
    OBVIOUS
  <2>5. /\ data \in Seq(Bytes) /\ Len(data) =< n
        /\ \A i \in 1 .. Len(data) : data[i] = ByteAt(d, at + i - 1)
        /\ d # EOC => Len(data) # 0
    BY <1>4, <2>1, <2>3, <2>4, ReadChainBytes
  <2>6. ReadSlot(file, count) = data
    BY <1>1, <1>2, <1>6, <2>2, <2>4 DEF ReadSlot
  <2>7. ASSUME NEW i \in 1 .. Len(data)
        PROVE  data[i] = ByteAt(c, o + i - 1)
    <3>1. PICK x, y, z : x = at + i - 1 /\ y = x \div CLUSTER_SIZE /\ z = x % CLUSTER_SIZE
      OBVIOUS
    <3>2. i \in Nat \ {0} /\ at \in Nat
      BY <1>3, <1>4, <2>5, LenProperties
    <3>3. x \in Nat /\ o + i - 1 = CLUSTER_SIZE * q + x
      <4>1. PICK w : w = CLUSTER_SIZE * q
        OBVIOUS
      <4>2. w \in Nat
        BY <1>3, <1>4, <4>1
      <4>3. QED BY <1>4, <3>1, <3>2, <4>1, <4>2
    <3>4. y \in Nat /\ z \in 0 .. CLUSTER_SIZE - 1 /\ x = CLUSTER_SIZE * y + z
      BY <1>3, <3>1, <3>3, DivMod
    <3>5. o + i - 1 = CLUSTER_SIZE * (q + y) + z
      <4>1. CLUSTER_SIZE * (q + y) = CLUSTER_SIZE * q + CLUSTER_SIZE * y
        BY <1>3, <1>4, <3>4
      <4>2. CLUSTER_SIZE * q \in Nat /\ CLUSTER_SIZE * y \in Nat
        BY <1>3, <1>4, <3>4
      <4>3. PICK w, v : w = CLUSTER_SIZE * q /\ v = CLUSTER_SIZE * y
        OBVIOUS
      <4>4. QED BY <3>3, <3>4, <4>1, <4>2, <4>3
    <3>6. q + y \in Nat
      BY <1>4, <3>4
    <3>7. ByteAt(c, o + i - 1) = <<Skip(c, q + y), z>>
      BY <3>4, <3>5, <3>6, InCluster
    <3>8. Skip(d, y) = Skip(c, q + y)
      BY <1>2, <1>4, <2>2, <3>4, SkipAdds
    <3>9. ByteAt(d, x) = <<Skip(d, y), z>>
      BY <3>1 DEF ByteAt
    <3>10. QED BY <2>5, <3>1, <3>7, <3>8, <3>9
  <2>8. o + Len(data) =< file.file_size
    <3>1. Len(data) \in Nat /\ Len(data) =< left /\ left = file.file_size - o
      BY <1>1, <1>2, <2>1, <2>5, LenProperties
    <3>2. QED BY <1>2, <3>1
  <2>9. Len(data) =< count
    BY <2>1, <2>5, LenProperties
  <2>10. QED BY <1>1, <2>2, <2>5, <2>6, <2>7, <2>8, <2>9
<1>7. QED BY <1>5, <1>6

-----------------------------------------------------------------------------
(* Directories, and the open file table.                                   *)

\* The entries of the volume.
Entries ==
    {e \in EntrySets : \E c \in DOMAIN Directory :
                          \E i \in DOMAIN Directory[c] : Directory[c][i] = e}

\* A cluster of a directory is a sequence of entries and END.
LEMMA DirectoryTypes ==
    ASSUME NEW c \in DOMAIN Directory
    PROVE  /\ Len(Directory[c]) \in Nat /\ DOMAIN Directory[c] = 1 .. Len(Directory[c])
           /\ \A i \in DOMAIN Directory[c] : Directory[c][i] # END => Directory[c][i] \in Entries
<1>1. Directory[c] \in Seq(EntrySets \cup {END})
  BY DirectoryAssumption
<1>2. Len(Directory[c]) \in Nat /\ DOMAIN Directory[c] = 1 .. Len(Directory[c])
  BY <1>1, LenProperties
<1>3. \A i \in DOMAIN Directory[c] : Directory[c][i] \in EntrySets \cup {END}
  BY <1>1, <1>2, ElementOfSeq
<1>4. QED BY <1>2, <1>3 DEF Entries

\* Entries have the fields of an entry set, and none is the answer "not found".
LEMMA EntryFields ==
    ASSUME NEW e \in Entries
    PROVE  /\ e.name \in STRING /\ e.cluster \in Clusters \cup {0} /\ e.size \in Nat
           /\ e # NotFound /\ e # END
<1>1. e \in EntrySets
  BY DEF Entries
<1>2. e.name \in STRING /\ e.cluster \in Clusters \cup {0} /\ e.size \in Nat
  BY <1>1 DEF EntrySets
<1>3. e # NotFound
  <2>1. NotFound.cluster = EOC
    BY DEF NotFound
  <2>2. QED BY <1>2, <2>1, ExfatAssumption
<1>4. e # END
  BY <1>1, DirectoryAssumption
<1>5. QED BY <1>2, <1>3, <1>4

\* What is found in a directory is an entry of the volume.
LEMMA LookUpFinds ==
    ASSUME NEW dir \in Links \cup {0}, NEW name \in PathNames
    PROVE  LookUp[dir][name] \in Entries \cup {NotFound}
<1> DEFINE found(c) == c = EOC \/ Matches(c, name) # {}
           N == {n \in Lengths : found(Skip(dir, n))}
           c == Skip(dir, Min(N))
<1>1. LookUp[dir][name] = IF dir \notin DOMAIN Directory \/ c = EOC THEN NotFound
                          ELSE Directory[c][Min(Matches(c, name))]
  BY DEF LookUp
<1>2. CASE dir \notin DOMAIN Directory
  BY <1>1, <1>2
<1>3. CASE dir \in DOMAIN Directory
  <2>1. dir \in Links /\ \A n \in Nat : Skip(dir, n) \in DOMAIN Directory \cup {EOC}
    BY <1>3, ChainOfDirectory
  <2>2. LongestChain \in N
    <3>1. LongestChain \in Nat /\ LongestChain \in Lengths
      BY ExfatAssumption DEF Lengths
    <3>2. Skip(dir, LongestChain) = EOC
      BY <2>1, <3>1, ChainEnds
    <3>3. QED BY <3>1, <3>2
  <2>3. N \in SUBSET Nat /\ N # {}
    BY <2>2, ExfatAssumption DEF Lengths
  <2>4. Min(N) \in N
    <3> HIDE DEF N
    <3> QED BY <2>3, MinIsLeast
  <2>5. Min(N) \in Nat /\ found(c)
    BY <2>3, <2>4
  <2> HIDE DEF N
  <2>6. c \in DOMAIN Directory \cup {EOC}
    BY <2>1, <2>5
  <2> HIDE DEF c
  <2>7. CASE c = EOC
    BY <1>1, <2>7
  <2>8. CASE c # EOC
    <3> DEFINE M == Matches(c, name)
    <3>1. M # {} /\ c \in DOMAIN Directory
      BY <2>5, <2>6, <2>8 DEF c
    <3>2. M \in SUBSET Nat
      BY <3>1, DirectoryTypes DEF Matches
    <3>3. Min(M) \in M
      <4> HIDE DEF M
      <4> QED BY <3>1, <3>2, MinIsLeast
    <3>4. Min(M) \in DOMAIN Directory[c] /\ Directory[c][Min(M)] # END
      BY <3>3 DEF Matches, IsEntry
    <3>5. Directory[c][Min(M)] \in Entries
      BY <3>1, <3>4, DirectoryTypes
    <3>6. QED BY <1>1, <1>3, <2>8, <3>5
  <2>9. QED BY <2>7, <2>8
<1>4. QED BY <1>2, <1>3

\* The step from what the first k - 1 components have found to what the first k have.
WalkStep(path, k, before) ==
    LET dir == IF k = 1 THEN Root ELSE before[k - 1].cluster
    IN  IF Len(before) < k - 1 \/ LookUp[dir][path[k]] = NotFound
        THEN before ELSE Append(before, LookUp[dir][path[k]])

\* What the first components of a path have found.
WalkSteps(upTo, path) ==
    /\ upTo[0] = <<>> /\ upTo[Len(path)] = Walk(path)
    /\ \A k \in 1 .. Len(path) : upTo[k] = WalkStep(path, k, upTo[k - 1])
    /\ \A k \in 0 .. Len(path) : upTo[k] \in Seq(Entries) /\ Len(upTo[k]) =< k

\* The way along a path goes from component to component, along entries of the volume.
LEMMA WalkTakesSteps ==
    ASSUME NEW path \in Seq(PathNames)
    PROVE  \E upTo : WalkSteps(upTo, path)
<1> DEFINE n == Len(path)
           S == Seq(Entries)
           dirOf(k, before) == IF k = 1 THEN Root ELSE before[k - 1].cluster
           Step(k, before) ==
               IF Len(before) < k - 1 \/ LookUp[dirOf(k, before)][path[k]] = NotFound
               THEN before ELSE Append(before, LookUp[dirOf(k, before)][path[k]])
           Body(f) == [k \in 0 .. n |-> IF k = 0 THEN <<>> ELSE Step(k, f[k - 1])]
           upTo == CHOOSE f : f = Body(f)
           step == [k \in 1 .. n |-> [before \in S |-> Step(k, before)]]
<1>2. n \in Nat /\ \A k \in 1 .. n : path[k] \in PathNames
  BY LenProperties, ElementOfSeq
<1>3. ASSUME NEW k \in 1 .. n, NEW before \in S
      PROVE  Step(k, before) \in S /\ Len(Step(k, before)) =< Len(before) + 1
  <2>0. Len(before) \in Nat
    BY LenProperties
  <2>1. CASE Len(before) < k - 1
    BY <2>0, <2>1
  <2>2. CASE ~ (Len(before) < k - 1)
    <3>1. PICK dir, e : dir = dirOf(k, before) /\ e = LookUp[dir][path[k]]
      OBVIOUS
    <3>2. dir \in Links \cup {0}
      <4>1. CASE k = 1
        BY <3>1, <4>1, ExfatAssumption DEF Links
      <4>2. CASE k # 1
        <5>1. k - 1 \in 1 .. Len(before)
          BY <1>2, <2>2, <4>2, LenProperties
        <5>2. before[k - 1] \in Entries
          BY <5>1, ElementOfSeq
        <5>3. before[k - 1].cluster \in Clusters \cup {0}
          BY <5>2, EntryFields
        <5>4. QED BY <3>1, <4>2, <5>3 DEF Links
      <4>3. QED BY <4>1, <4>2
    <3>3. e \in Entries \cup {NotFound}
      BY <1>2, <3>1, <3>2, LookUpFinds
    <3>4. Step(k, before) = IF e = NotFound THEN before ELSE Append(before, e)
      BY <2>2, <3>1
    <3> HIDE DEF Step
    <3>5. CASE e = NotFound
      BY <2>0, <3>4, <3>5
    <3>6. CASE e # NotFound
      <4>1. e \in Entries
        BY <3>3, <3>6
      <4>2. Append(before, e) \in S /\ Len(Append(before, e)) = Len(before) + 1
        BY <4>1, AppendProperties
      <4>3. QED BY <3>4, <3>6, <4>2
    <3>7. QED BY <3>5, <3>6
  <2>3. QED BY <2>1, <2>2
<1>4. <<>> \in S
  BY EmptySeq
<1> HIDE DEF Step, S
<1>5. upTo = Body(upTo)
  <2>1. step \in [1 .. n -> [S -> S]]
    BY <1>3
  <2>2. PICK F \in [0 .. n -> S] : Solves(F, n, <<>>, step)
    <3> HIDE DEF step, n
    <3> QED BY <1>2, <1>4, <2>1, RecursionHasSolution
  <2>3. \A k \in 1 .. n : F[k] = Step(k, F[k - 1])
    <3> SUFFICES ASSUME NEW k \in 1 .. n PROVE F[k] = Step(k, F[k - 1])
      OBVIOUS
    <3>1. k - 1 \in 0 .. n
      BY <1>2
    <3>2. F[k - 1] \in S
      BY <2>2, <3>1
    <3>3. F[k] = step[k][F[k - 1]]
      BY <2>2 DEF Solves
    <3>4. QED BY <3>2, <3>3
  <2>4. F = Body(F)
    <3>1. ASSUME NEW k \in 0 .. n
          PROVE  F[k] = Body(F)[k]
      <4>1. CASE k = 0
        BY <2>2, <4>1 DEF Solves
      <4>2. CASE k # 0
        <5>1. k \in 1 .. n
          BY <4>2
        <5>2. QED BY <2>3, <4>2, <5>1
      <4>3. QED BY <4>1, <4>2
    <3>2. QED BY <2>2, <3>1
  <2> HIDE DEF Body
  <2>5. QED BY <2>4
<1>6. Walk(path) = upTo[n]
  BY DEF Walk, Step
<1> HIDE DEF upTo, n
<1>7. upTo[0] = <<>> /\ \A k \in 1 .. n : upTo[k] = Step(k, upTo[k - 1])
  <2>1. \A k \in 0 .. n : upTo[k] = IF k = 0 THEN <<>> ELSE Step(k, upTo[k - 1])
    BY <1>5
  <2>2. 0 \in 0 .. n /\ \A k \in 1 .. n : k \in 0 .. n /\ k # 0
    BY <1>2
  <2>3. QED BY <2>1, <2>2
<1>8. \A k \in 1 .. n : upTo[k - 1] \in S => upTo[k] \in S
  BY <1>3, <1>7
<1>9. \A k \in 0 .. n : upTo[k] \in S
  BY <1>2, <1>4, <1>7, <1>8, RecursionStaysIn
<1> DEFINE Short == {k \in 0 .. n : Len(upTo[k]) =< k}
<1>10. 0 \in Short
  BY <1>2, <1>7
<1>11. ASSUME NEW k \in 0 .. n - 1, k \in Short PROVE k + 1 \in Short
  <2>1. PICK before : before = upTo[k] /\ before \in S /\ Len(before) \in Nat
    BY <1>2, <1>9, LenProperties DEF S
  <2>2. k + 1 \in 1 .. n /\ k + 1 \in 0 .. n /\ (k + 1) - 1 = k
    BY <1>2
  <2>3. upTo[k + 1] = Step(k + 1, before)
    BY <1>7, <2>1, <2>2
  <2>4. Step(k + 1, before) \in S /\ Len(Step(k + 1, before)) =< Len(before) + 1
    BY <1>3, <2>1, <2>2
  <2>5. Len(upTo[k + 1]) \in Nat /\ Len(before) =< k
    BY <1>11, <2>1, <2>3, <2>4, LenProperties DEF S
  <2>6. Len(upTo[k + 1]) =< k + 1
    BY <1>2, <2>1, <2>2, <2>3, <2>4, <2>5
  <2>7. QED BY <2>2, <2>6
<1>12. \A k \in 0 .. n : k \in Short
  <2> HIDE DEF Short
  <2>1. \A k \in 0 .. n - 1 : k \in Short => k + 1 \in Short
    BY <1>11
  <2>2. QED BY <1>2, <1>10, <2>1, SetInduction
<1>13. \A k \in 1 .. n : upTo[k] = WalkStep(path, k, upTo[k - 1])
  BY <1>7 DEF Step, WalkStep
<1>14. \A k \in 0 .. n : upTo[k] \in Seq(Entries) /\ Len(upTo[k]) =< k
  BY <1>9, <1>12 DEF S
<1>15. WalkSteps(upTo, path)
  BY <1>6, <1>7, <1>13, <1>14 DEF WalkSteps, n
<1>16. QED BY <1>15

\* The entries on the way are entries of the volume.
LEMMA WalkFinds ==
    ASSUME NEW path \in Seq(PathNames)
    PROVE  Walk(path) \in Seq(Entries) /\ Len(Walk(path)) =< Len(path)
<1>1. PICK upTo : WalkSteps(upTo, path)
  BY WalkTakesSteps
<1>2. Len(path) \in 0 .. Len(path)
  BY LenProperties
<1>3. QED BY <1>1, <1>2 DEF WalkSteps

\* Slot s is the first one in use that names its cluster.
FirstSlot(table, s) ==
    /\ table[s].in_use
    /\ \A t \in Slots : t < s /\ table[t].in_use => table[t].start_cluster # table[s].start_cluster

\* A slot in use is that of an entry of the volume.
SlotOK(slot) ==
    /\ slot \in SlotType /\ slot.offset =< slot.file_size
    /\ slot.in_use => \E e \in Entries : e.cluster = slot.start_cluster /\ e.size = slot.file_size

\* The slots in use are the first ones of the table.  g is what has been read with
\* each descriptor: the first slot of the descriptor counts it, and nothing has been
\* read without a slot.
TableOK(table, g) ==
    /\ table \in [Slots -> SlotType]
    /\ \A s \in Slots : SlotOK(table[s])
    /\ \A s, t \in Slots : s < t /\ table[t].in_use => table[s].in_use
    /\ \A s \in Slots, fd \in Files :
          FirstSlot(table, s) /\ table[s].start_cluster = fd => table[s].offset = Len(g[fd])
    /\ \A fd \in Files : g[fd] # <<>> =>
          \E s \in Slots : table[s].in_use /\ table[s].start_cluster = fd

\* Every byte that was read is the next one of the file.
BytesOK(g) ==
    /\ g \in [Files -> Seq(Bytes)]
    /\ \A fd \in Files : \A i \in 1 .. Len(g[fd]) : g[fd][i] = ByteAt(fd, i - 1)
    /\ \A fd \in Files : g[fd] # <<>> => fd \in Clusters

\* The slots are numbered from 0.
LEMMA SlotNumbers == Slots \subseteq Nat /\ 0 \in Slots
BY ExfatAssumption DEF Slots

\* Opening a file leaves the slots in use as they are, and the slot it takes is
\* the first one of its descriptor only if nothing was read with it yet.
LEMMA RecordKeeps ==
    ASSUME NEW table, NEW g, TableOK(table, g), NEW e \in Entries
    PROVE  TableOK(Record(table, e), g)
<1> DEFINE free == FreeSlots(table)
           new == [in_use |-> TRUE, start_cluster |-> e.cluster,
                   file_size |-> e.size, offset |-> 0]
<1>1. CASE free = {}
  BY <1>1 DEF Record
<1>2. CASE free # {}
  <2>1. PICK n : n = Min(free)
    OBVIOUS
  <2>2. n \in free /\ \A s \in free : n =< s
    <3>1. free \in SUBSET Nat
      BY SlotNumbers DEF FreeSlots
    <3> HIDE DEF free
    <3>2. QED BY <1>2, <2>1, <3>1, MinIsLeast
  <2>3. n \in Slots /\ n \in Nat /\ ~ table[n].in_use
    BY <2>2, SlotNumbers DEF FreeSlots
  <2>4. \A s \in Slots : table[s].in_use <=> s < n
    <3>1. ASSUME NEW s \in Slots, s < n
          PROVE  table[s].in_use
      <4>1. s \in Nat /\ ~ (n =< s)
        BY <2>3, <3>1, SlotNumbers
      <4>2. QED BY <2>2, <4>1 DEF FreeSlots
    <3>2. ASSUME NEW s \in Slots, table[s].in_use
          PROVE  s < n
      <4>1. s \in Nat /\ s # n
        BY <2>3, <3>2, SlotNumbers
      <4>2. ~ (n < s)
        BY <2>3, <3>2 DEF TableOK
      <4>3. QED BY <2>3, <4>1, <4>2
    <3>3. QED BY <3>1, <3>2
  <2>5. PICK T : T = Record(table, e)
    OBVIOUS
  <2>6. T = [table EXCEPT ![n] = new]
    BY <1>2, <2>1, <2>5 DEF Record
  <2>7. new \in SlotType /\ SlotOK(new)
    <3>1. e.cluster \in Clusters \cup {0} /\ e.size \in Nat
      BY EntryFields
    <3>2. new \in SlotType
      BY <3>1 DEF SlotType
    <3>3. QED BY <3>1, <3>2 DEF SlotOK
  <2>8. /\ T \in [Slots -> SlotType] /\ T[n] = new
        /\ \A s \in Slots : s # n => T[s] = table[s]
    BY <2>3, <2>6, <2>7 DEF TableOK
  <2>9. new.in_use /\ new.start_cluster = e.cluster /\ new.offset = 0
    OBVIOUS
  <2> HIDE DEF new, free
  <2>10. \A s \in Slots : SlotOK(T[s])
    BY <2>7, <2>8 DEF TableOK
  <2>11. \A s \in Slots : T[s].in_use <=> s < n \/ s = n
    BY <2>4, <2>8, <2>9
  <2>12. \A s, t \in Slots : s < t /\ T[t].in_use => T[s].in_use
    BY <2>3, <2>11, SlotNumbers
  <2>13. ASSUME NEW s \in Slots, NEW fd \in Files, FirstSlot(T, s), T[s].start_cluster = fd
         PROVE  T[s].offset = Len(g[fd])
    <3>1. CASE s = n
      <4>1. \A t \in Slots : t < n => table[t].start_cluster # fd
        BY <2>8, <2>11, <2>13, <3>1, <2>3, SlotNumbers DEF FirstSlot
      <4>2. g[fd] = <<>>
        BY <2>4, <4>1 DEF TableOK
      <4>3. QED BY <2>8, <2>9, <3>1, <4>2, EmptySeq
    <3>2. CASE s # n
      <4>1. s < n /\ T[s] = table[s] /\ table[s].in_use
        BY <2>4, <2>8, <2>11, <2>13, <3>2 DEF FirstSlot
      <4>2. \A t \in Slots : t < s => T[t] = table[t] /\ T[t].in_use
        BY <2>3, <2>8, <2>11, <4>1, SlotNumbers
      <4>3. FirstSlot(table, s)
        BY <2>13, <4>1, <4>2 DEF FirstSlot
      <4>4. QED BY <2>13, <4>1, <4>3 DEF TableOK
    <3>3. QED BY <3>1, <3>2
  <2>14. ASSUME NEW fd \in Files, g[fd] # <<>>
         PROVE  \E s \in Slots : T[s].in_use /\ T[s].start_cluster = fd
    <3>1. PICK s \in Slots : table[s].in_use /\ table[s].start_cluster = fd
      BY <2>14 DEF TableOK
    <3>2. T[s] = table[s]
      BY <2>3, <2>8, <3>1
    <3>3. QED BY <3>1, <3>2
  <2>15. QED BY <2>5, <2>8, <2>10, <2>12, <2>13, <2>14 DEF TableOK
<1>3. QED BY <1>1, <1>2

\* The tables that the components of a path leave behind, one after the other.
RecordSteps(after, table, g, entries) ==
    /\ after[0] = table /\ after[Len(entries)] = RecordAll(table, entries)
    /\ \A k \in 1 .. Len(entries) : after[k] = Record(after[k - 1], entries[k])
    /\ \A k \in 0 .. Len(entries) : TableOK(after[k], g)

\* Opening a path records each of its components.
LEMMA RecordAllSteps ==
    ASSUME NEW table, NEW g, TableOK(table, g), NEW entries \in Seq(Entries)
    PROVE  \E after : RecordSteps(after, table, g, entries)
<1> DEFINE n == Len(entries)
           S == {T \in [Slots -> SlotType] : TableOK(T, g)}
           Step(k, T) == Record(T, entries[k])
           Body(f) == [k \in 0 .. n |-> IF k = 0 THEN table ELSE Step(k, f[k - 1])]
           after == CHOOSE f : f = Body(f)
           step == [k \in 1 .. n |-> [T \in S |-> Step(k, T)]]
<1>1. n \in Nat
  BY LenProperties
<1>2. ASSUME NEW k \in 1 .. n, NEW T \in S
      PROVE  Step(k, T) \in S
  <2>1. entries[k] \in Entries
    BY ElementOfSeq
  <2>2. TableOK(Step(k, T), g)
    BY <2>1, RecordKeeps
  <2>3. QED BY <2>2 DEF TableOK
<1>3. table \in S
  BY DEF TableOK
<1> HIDE DEF Step, S
<1>4. after = Body(after)
  <2>1. step \in [1 .. n -> [S -> S]]
    BY <1>2
  <2>2. PICK F \in [0 .. n -> S] : Solves(F, n, table, step)
    <3> HIDE DEF step, n
    <3> QED BY <1>1, <1>3, <2>1, RecursionHasSolution
  <2>3. \A k \in 1 .. n : F[k] = Step(k, F[k - 1])
    <3> SUFFICES ASSUME NEW k \in 1 .. n PROVE F[k] = Step(k, F[k - 1])
      OBVIOUS
    <3>1. k - 1 \in 0 .. n
      BY <1>1
    <3>2. F[k - 1] \in S
      BY <2>2, <3>1
    <3>3. F[k] = step[k][F[k - 1]]
      BY <2>2 DEF Solves
    <3>4. QED BY <3>2, <3>3
  <2>4. F = Body(F)
    <3>1. ASSUME NEW k \in 0 .. n
          PROVE  F[k] = Body(F)[k]
      <4>1. CASE k = 0
        BY <2>2, <4>1 DEF Solves
      <4>2. CASE k # 0
        <5>1. k \in 1 .. n
          BY <4>2
        <5>2. QED BY <2>3, <4>2, <5>1
      <4>3. QED BY <4>1, <4>2
    <3>2. QED BY <2>2, <3>1
  <2> HIDE DEF Body
  <2>5. QED BY <2>4
<1>5. RecordAll(table, entries) = after[n]
  BY DEF RecordAll, Step
<1> HIDE DEF after, n
<1>6. after[0] = table /\ \A k \in 1 .. n : after[k] = Step(k, after[k - 1])
  <2>1. \A k \in 0 .. n : after[k] = IF k = 0 THEN table ELSE Step(k, after[k - 1])
    BY <1>4
  <2>2. 0 \in 0 .. n /\ \A k \in 1 .. n : k \in 0 .. n /\ k # 0
    BY <1>1
  <2>3. QED BY <2>1, <2>2
<1>7. \A k \in 1 .. n : after[k - 1] \in S => after[k] \in S
  BY <1>2, <1>6
<1>8. \A k \in 0 .. n : after[k] \in S
  BY <1>1, <1>3, <1>6, <1>7, RecursionStaysIn
<1>9. \A k \in 0 .. n : TableOK(after[k], g)
  BY <1>8 DEF S
<1>10. \A k \in 1 .. n : after[k] = Record(after[k - 1], entries[k])
  BY <1>6 DEF Step
<1>11. RecordSteps(after, table, g, entries)
  BY <1>5, <1>6, <1>9, <1>10 DEF RecordSteps, n
<1>12. QED BY <1>11

\* And keeps the table in order.
LEMMA RecordAllKeeps ==
    ASSUME NEW table, NEW g, TableOK(table, g), NEW entries \in Seq(Entries)
    PROVE  TableOK(RecordAll(table, entries), g)
<1>1. PICK after : RecordSteps(after, table, g, entries)
  BY RecordAllSteps
<1>2. Len(entries) \in 0 .. Len(entries)
  BY LenProperties
<1>3. QED BY <1>1, <1>2 DEF RecordSteps

\* A read moves the slot and the bytes read on together.
LEMMA ReadKeepsTable ==
    ASSUME NEW table, NEW g, TableOK(table, g), g \in [Files -> Seq(Bytes)],
           NEW fd \in Files, NEW s \in Slots, FirstSlot(table, s), table[s].start_cluster = fd,
           NEW data \in Seq(Bytes), table[s].offset + Len(data) =< table[s].file_size
    PROVE  TableOK([table EXCEPT ![s].offset = @ + Len(data)], [g EXCEPT ![fd] = @ \o data])
<1>1. PICK T, h : /\ T = [table EXCEPT ![s].offset = @ + Len(data)]
                  /\ h = [g EXCEPT ![fd] = @ \o data]
  OBVIOUS
<1>2. /\ table \in [Slots -> SlotType] /\ table[s] \in SlotType /\ SlotOK(table[s])
      /\ table[s].offset = Len(g[fd])
  BY DEF TableOK
<1>3. Len(data) \in Nat /\ table[s].offset \in Nat /\ table[s].file_size \in Nat
  BY <1>2, LenProperties DEF SlotType
<1>4. PICK new : new = [table[s] EXCEPT !.offset = @ + Len(data)]
  OBVIOUS
<1>5. /\ new \in SlotType /\ new.in_use = table[s].in_use
      /\ new.start_cluster = table[s].start_cluster /\ new.file_size = table[s].file_size
      /\ new.offset = table[s].offset + Len(data)
  <2>1. PICK f, o : f = table[s] /\ o = f.offset + Len(data)
    OBVIOUS
  <2>2. o \in Nat /\ f \in SlotType /\ new = [f EXCEPT !.offset = o]
    BY <1>2, <1>3, <1>4, <2>1
  <2>3. QED BY <2>1, <2>2 DEF SlotType
<1>6. /\ T \in [Slots -> SlotType] /\ T[s] = new
      /\ \A t \in Slots : t # s => T[t] = table[t]
  BY <1>1, <1>2, <1>4, <1>5
<1>7. g[fd] \in Seq(Bytes) /\ Len(g[fd]) \in Nat
  BY LenProperties
<1>8. h[fd] = g[fd] \o data /\ \A f \in Files : f # fd => h[f] = g[f]
  BY <1>1
<1>9. Len(g[fd] \o data) = Len(g[fd]) + Len(data)
  BY <1>7, ConcatProperties
<1>10. SlotOK(new)
  BY <1>2, <1>5 DEF SlotOK
<1>11. \A t \in Slots : /\ T[t].in_use = table[t].in_use
                        /\ T[t].start_cluster = table[t].start_cluster
  BY <1>5, <1>6
<1>12. \A t \in Slots : FirstSlot(T, t) <=> FirstSlot(table, t)
  BY <1>11 DEF FirstSlot
<1>13. \A t \in Slots : SlotOK(T[t])
  BY <1>6, <1>10 DEF TableOK
<1>14. \A t, u \in Slots : t < u /\ T[u].in_use => T[t].in_use
  BY <1>11 DEF TableOK
<1>15. ASSUME NEW t \in Slots, NEW f \in Files, FirstSlot(T, t), T[t].start_cluster = f
       PROVE  T[t].offset = Len(h[f])
  <2>1. FirstSlot(table, t) /\ table[t].start_cluster = f /\ table[t].offset = Len(g[f])
    BY <1>11, <1>12, <1>15 DEF TableOK
  <2>2. CASE t = s
    <3>1. f = fd
      BY <2>1, <2>2
    <3>2. QED BY <1>2, <1>5, <1>6, <1>8, <1>9, <2>2, <3>1
  <2>3. CASE t # s
    <3>1. f # fd
      <4>1. s \in Nat /\ t \in Nat /\ (s < t \/ t < s)
        BY <2>3, SlotNumbers
      <4>2. QED BY <2>1, <4>1 DEF FirstSlot
    <3>2. QED BY <1>6, <1>8, <2>1, <2>3, <3>1
  <2>4. QED BY <2>2, <2>3
<1>16. ASSUME NEW f \in Files, h[f] # <<>>
       PROVE  \E t \in Slots : T[t].in_use /\ T[t].start_cluster = f
  <2>1. CASE f = fd
    BY <1>11, <2>1 DEF FirstSlot
  <2>2. CASE f # fd
    <3>1. g[f] # <<>>
      BY <1>8, <1>16, <2>2
    <3>2. PICK t \in Slots : table[t].in_use /\ table[t].start_cluster = f
      BY <3>1 DEF TableOK
    <3>3. QED BY <1>11, <3>2
  <2>3. QED BY <2>1, <2>2
<1>17. TableOK(T, h)
  BY <1>6, <1>13, <1>14, <1>15, <1>16 DEF TableOK
<1>18. QED BY <1>1, <1>17

\* ... and what it adds is the file from there on.
LEMMA ReadKeepsBytes ==
    ASSUME NEW g, BytesOK(g), NEW fd \in Files, fd \in Clusters,
           NEW data \in Seq(Bytes),
           \A i \in 1 .. Len(data) : data[i] = ByteAt(fd, Len(g[fd]) + i - 1)
    PROVE  BytesOK([g EXCEPT ![fd] = @ \o data])
<1>1. PICK h, old, L : h = [g EXCEPT ![fd] = @ \o data] /\ old = g[fd] /\ L = Len(old)
  OBVIOUS
<1>2. /\ g \in [Files -> Seq(Bytes)] /\ old \in Seq(Bytes) /\ L \in Nat
      /\ \A i \in 1 .. L : old[i] = ByteAt(fd, i - 1)
  BY <1>1, LenProperties DEF BytesOK
<1>3. PICK new, K : new = old \o data /\ K = Len(data)
  OBVIOUS
<1>4. K \in Nat
  BY <1>3, LenProperties
<1>5. /\ new \in Seq(Bytes) /\ Len(new) = L + K
      /\ \A i \in 1 .. L + K : new[i] = IF i <= L THEN old[i] ELSE data[i - L]
  BY <1>1, <1>2, <1>3, ConcatProperties
<1>6. ASSUME NEW i \in 1 .. L + K
      PROVE  new[i] = ByteAt(fd, i - 1)
  <2>1. CASE i <= L
    <3>1. i \in 1 .. L
      BY <1>2, <2>1
    <3>2. QED BY <1>2, <1>5, <2>1, <3>1
  <2>2. CASE ~ (i <= L)
    <3>1. PICK j : j = i - L
      OBVIOUS
    <3>2. j \in 1 .. K /\ L + j - 1 = i - 1
      BY <1>2, <1>4, <2>2, <3>1
    <3>3. data[j] = ByteAt(fd, L + j - 1)
      BY <1>1, <1>3, <3>2
    <3>4. QED BY <1>5, <2>2, <3>1, <3>2, <3>3
  <2>3. QED BY <2>1, <2>2
<1>7. h \in [Files -> Seq(Bytes)] /\ h[fd] = new /\ \A f \in Files : f # fd => h[f] = g[f]
  BY <1>1, <1>2, <1>3, <1>5
<1>8. ASSUME NEW f \in Files, NEW i \in 1 .. Len(h[f])
      PROVE  h[f][i] = ByteAt(f, i - 1)
  <2>1. CASE f = fd
    BY <1>5, <1>6, <1>7, <2>1
  <2>2. CASE f # fd
    BY <1>7, <2>2 DEF BytesOK
  <2>3. QED BY <2>1, <2>2
<1>9. \A f \in Files : h[f] # <<>> => f \in Clusters
  BY <1>7 DEF BytesOK
<1>10. QED BY <1>1, <1>7, <1>8, <1>9 DEF BytesOK

\* The slot that is read is the first one of the descriptor.
LEMMA SlotIsFirst ==
    ASSUME NEW fd \in Files, SlotsOf(fd) # {}
    PROVE  /\ Min(SlotsOf(fd)) \in Slots
           /\ FirstSlot(open_files, Min(SlotsOf(fd)))
           /\ open_files[Min(SlotsOf(fd))].start_cluster = fd
<1> DEFINE S == SlotsOf(fd)
<1>1. S \in SUBSET Nat /\ S # {}
  BY SlotNumbers DEF SlotsOf
<1>2. PICK s : s = Min(S)
  OBVIOUS
<1>3. s \in S /\ \A t \in S : s =< t
  <2> HIDE DEF S
  <2> QED BY <1>1, <1>2, MinIsLeast
<1>4. s \in Slots /\ open_files[s].in_use /\ open_files[s].start_cluster = fd
  BY <1>3 DEF SlotsOf
<1>5. ASSUME NEW t \in Slots, t < s, open_files[t].in_use
      PROVE  open_files[t].start_cluster # fd
  <2>1. s \in Nat /\ t \in Nat /\ ~ (s =< t)
    BY <1>4, <1>5, SlotNumbers
  <2>2. t \notin S
    BY <1>3, <2>1
  <2>3. QED BY <1>5, <2>2 DEF SlotsOf
<1>6. QED BY <1>2, <1>4, <1>5 DEF FirstSlot

\* What nqp_read does to the table and to what was read.
LEMMA ReadStep ==
    ASSUME TableOK(open_files, got), BytesOK(got), NEW fd \in Files, NEW count \in Nat \ {0},
           nqp_read(fd, count)
    PROVE  TableOK(open_files', got') /\ BytesOK(got')
<1>1. PICK s, data : s = Min(SlotsOf(fd)) /\ data = ReadSlot(open_files[s], count)
  OBVIOUS
<1>2. /\ fd >= 2 /\ SlotsOf(fd) # {}
      /\ open_files' = [open_files EXCEPT ![s].offset = @ + Len(data)]
      /\ got' = [got EXCEPT ![fd] = @ \o data]
  BY <1>1 DEF nqp_read
<1>3. s \in Slots /\ FirstSlot(open_files, s) /\ open_files[s].start_cluster = fd
  BY <1>1, <1>2, SlotIsFirst
<1>4. /\ open_files[s] \in SlotType /\ open_files[s].offset =< open_files[s].file_size
      /\ open_files[s].offset = Len(got[fd])
  BY <1>3 DEF TableOK, SlotOK
<1>5. fd \in Clusters /\ open_files[s].file_size \in Nat /\ open_files[s].offset \in Nat
  BY <1>2, <1>3, <1>4 DEF SlotType
<1>7. /\ data \in Seq(Bytes)
      /\ open_files[s].offset + Len(data) =< open_files[s].file_size
      /\ \A i \in 1 .. Len(data) : data[i] = ByteAt(fd, open_files[s].offset + i - 1)
  <2>1. PICK file : file = open_files[s]
    OBVIOUS
  <2>2. /\ file.start_cluster \in Clusters /\ file.file_size \in Nat
        /\ file.offset \in Nat /\ file.offset =< file.file_size
    BY <1>3, <1>4, <1>5, <2>1
  <2>3. /\ ReadSlot(file, count) \in Seq(Bytes)
        /\ file.offset + Len(ReadSlot(file, count)) =< file.file_size
        /\ \A i \in 1 .. Len(ReadSlot(file, count)) :
              ReadSlot(file, count)[i] = ByteAt(file.start_cluster, file.offset + i - 1)
    BY <2>2, ReadSlotBytes
  <2>4. QED BY <1>1, <1>3, <2>1, <2>3
<1>8. TableOK(open_files', got')
  BY <1>2, <1>3, <1>7, ReadKeepsTable DEF BytesOK
<1>9. BytesOK(got')
  BY <1>2, <1>4, <1>5, <1>7, ReadKeepsBytes
<1>10. QED BY <1>8, <1>9

-----------------------------------------------------------------------------
(* The search for the next entry.                                          *)

\* Where the search begins in the n-th cluster from the one it starts at, whether
\* it finds nothing there, and what it answers at place i of a cluster.
Place(index, n) == IF n = 0 THEN index ELSE 0
Passed(cluster, index, n) ==
    /\ Skip(cluster, n) # EOC
    /\ ~ (Place(index, n) < Len(Directory[Skip(cluster, n)]))
AnswerAt(c, i) ==
    IF c = EOC
    THEN [cluster |-> EOC, index |-> 0, entry |-> NotFound, initialized |-> TRUE]
    ELSE IF Directory[c][i + 1] = END
    THEN [cluster |-> c, index |-> i, entry |-> NotFound, initialized |-> FALSE]
    ELSE [cluster |-> c, index |-> i + 1, entry |-> Directory[c][i + 1], initialized |-> TRUE]

\* It passes the clusters in which nothing is left, and stops at the next one.
LEMMA NextEntryStops ==
    ASSUME NEW cluster \in DOMAIN Directory \cup {EOC}, NEW index \in Nat
    PROVE  \E n \in Lengths :
              /\ \A m \in 0 .. n - 1 : Passed(cluster, index, m)
              /\ ~ Passed(cluster, index, n)
              /\ NextEntry(cluster, index) = AnswerAt(Skip(cluster, n), Place(index, n))
<1> DEFINE N == {m \in Lengths : ~ Passed(cluster, index, m)}
<1>1. cluster \in Links
  BY ChainOfDirectory
<1>2. LongestChain \in Nat /\ LongestChain \in Lengths
  BY ExfatAssumption DEF Lengths
<1>3. Skip(cluster, LongestChain) = EOC
  BY <1>1, <1>2, ChainEnds
<1>4. N \in SUBSET Nat /\ N # {}
  BY <1>2, <1>3 DEF Passed, Lengths
<1>5. PICK n : n = Min(N)
  OBVIOUS
<1>6. n \in N /\ \A m \in N : n =< m
  <2> HIDE DEF N
  <2> QED BY <1>4, <1>5, MinIsLeast
<1>7. n \in Lengths /\ ~ Passed(cluster, index, n)
  BY <1>6
<1>8. \A m \in 0 .. n - 1 : Passed(cluster, index, m)
  <2>1. ASSUME NEW m \in 0 .. n - 1
        PROVE  m \in Lengths /\ ~ (n =< m)
    BY <1>2, <1>7 DEF Lengths
  <2>2. QED BY <1>6, <2>1
<1>9. N = {m \in Lengths : \/ Skip(cluster, m) = EOC
                           \/ Place(index, m) < Len(Directory[Skip(cluster, m)])}
  BY DEF Passed
<1> HIDE DEF N
<1>10. NextEntry(cluster, index) = AnswerAt(Skip(cluster, n), Place(index, n))
  BY <1>5, <1>9 DEF NextEntry, AnswerAt, Place
<1>11. QED BY <1>7, <1>8, <1>10

\* It stops within the directory or at the end of the chain.
LEMMA NextEntryTypes ==
    ASSUME NEW cluster \in DOMAIN Directory \cup {EOC}, NEW index \in Nat
    PROVE  /\ NextEntry(cluster, index).cluster \in DOMAIN Directory \cup {EOC}
           /\ NextEntry(cluster, index).index \in Nat
           /\ NextEntry(cluster, index).initialized \in BOOLEAN
<1>1. PICK n \in Lengths :
          NextEntry(cluster, index) = AnswerAt(Skip(cluster, n), Place(index, n))
  BY NextEntryStops
<1>2. n \in Nat
  BY ExfatAssumption DEF Lengths
<1>3. Skip(cluster, n) \in DOMAIN Directory \cup {EOC} /\ Place(index, n) \in Nat
  BY <1>2, ChainOfDirectory DEF Place
<1>4. QED BY <1>1, <1>3 DEF AnswerAt

-----------------------------------------------------------------------------
(* The invariant.                                                          *)

\* The variables that have no part in the reads.
OthersOK ==
    /\ fs_image \in {"open", "null"} /\ is_mounted \in BOOLEAN
    /\ status \in {"running", "crashed"}
    /\ dents \in [cluster : Links \cup {0}, index : Nat, initialized : BOOLEAN]
    /\ dents.initialized => dents.cluster \in DOMAIN Directory \cup {EOC}
    /\ listing.dir \in Dirs \cup {Root}
    /\ reopened \subseteq Files

\* nqp_size answers for the descriptor it was called with.
SizeOK == answer.call = "size" => answer.fd \in Files /\ answer.ret = SizeOf(answer.fd)

ReadsInv == TableOK(open_files, got) /\ BytesOK(got) /\ OthersOK /\ SizeOK

\* Nothing is open, and nothing was read.
LEMMA InitReads == Init => ReadsInv
<1> SUFFICES ASSUME Init PROVE ReadsInv
  OBVIOUS
<1>1. Free \in SlotType /\ SlotOK(Free) /\ ~ Free.in_use
  BY DEF Free, SlotType, SlotOK
<1>2. /\ open_files \in [Slots -> SlotType] /\ \A s \in Slots : open_files[s] = Free
      /\ \A fd \in Files : got[fd] = <<>>
      /\ got \in [Files -> Seq(Bytes)] /\ \A fd \in Files : Len(got[fd]) = 0
  BY <1>1, EmptySeq DEF Init
<1>3. TableOK(open_files, got)
  BY <1>1, <1>2 DEF TableOK, FirstSlot
<1>4. BytesOK(got)
  BY <1>2 DEF BytesOK
<1>5. OthersOK
  BY DEF Init, OthersOK
<1>6. SizeOK
  BY DEF Init, SizeOK
<1>7. QED BY <1>3, <1>4, <1>5, <1>6 DEF ReadsInv

\* A call as Spec makes it, or as a program does: with any path of the names that
\* are looked for, in portions of any size, and with descriptors that are refused.
MayCall ==
    \/ nqp_mount_ok \/ nqp_mount_fails \/ nqp_unmount
    \/ \E path \in Seq(PathNames) : nqp_open(path)
    \/ \E fd \in Files : nqp_size(fd)
    \/ \E fd \in Files, count \in Nat \ {0} : nqp_read(fd, count)
    \/ \E fd \in Dirs : nqp_getdents(fd)
    \/ Crash \/ NotMounted("open") \/ NotMounted("getdents")
    \/ \E fd, count : ReadNotOpen(fd, count)
    \/ \E fd : DentsRefused(fd) \/ nqp_close(fd)
    \/ UNCHANGED vars

\* A path consists of names.
LEMMA PathsAreNames == Paths \subseteq Seq(PathNames)
<1> SUFFICES ASSUME NEW path \in Paths PROVE path \in Seq(PathNames)
  OBVIOUS
<1>1. path \in [1 .. Len(path) -> STRING] /\ Len(path) \in Nat
  BY PathsAssumption, LenProperties
<1>2. \A k \in 1 .. Len(path) : path[k] \in PathNames
  BY <1>1 DEF PathNames, Range
<1>3. path \in [1 .. Len(path) -> PathNames]
  BY <1>1, <1>2
<1>4. QED BY <1>1, <1>3, SeqDef

\* Every step of Spec is a call, or none.
LEMMA NextIsCall == Call \/ [Next]_vars => MayCall
<1>1. CASE Call
  BY <1>1, PathsAreNames, ExfatAssumption DEF Call, UseImage, MayCall
<1>2. CASE UNCHANGED vars
  BY <1>2 DEF MayCall
<1>3. QED BY <1>1, <1>2 DEF Next

\* Every call keeps the invariant.
LEMMA CallReads == ReadsInv /\ MayCall => ReadsInv'
<1> SUFFICES ASSUME ReadsInv, MayCall PROVE ReadsInv'
  OBVIOUS
<1> USE DEF ReadsInv
<1>1. ASSUME UNCHANGED <<open_files, got>>
      PROVE  TableOK(open_files', got') /\ BytesOK(got')
  BY <1>1
<1>2. CASE UNCHANGED vars
  BY <1>1, <1>2 DEF vars, OthersOK, SizeOK
<1>3. CASE nqp_mount_ok \/ nqp_mount_fails \/ nqp_unmount
  <2>1. UNCHANGED <<open_files, dents, got, reopened, listing, status>> /\ answer'.call # "size"
    BY <1>3 DEF nqp_mount_ok, nqp_mount_fails, nqp_unmount
  <2>2. fs_image' \in {"open", "null"} /\ is_mounted' \in BOOLEAN
    <3>1. fs_image \in {"open", "null"} /\ is_mounted \in BOOLEAN
      BY DEF OthersOK
    <3>2. QED BY <1>3, <3>1 DEF nqp_mount_ok, nqp_mount_fails, nqp_unmount
  <2>3. QED BY <1>1, <2>1, <2>2 DEF OthersOK, SizeOK
<1>4. ASSUME NEW path \in Seq(PathNames), nqp_open(path)
      PROVE  ReadsInv'
  <2>1. PICK found : found = Walk(path) /\ open_files' = RecordAll(open_files, found)
                     /\ answer'.call = "open"
    BY <1>4 DEF nqp_open
  <2>2. found \in Seq(Entries)
    BY <2>1, WalkFinds
  <2>3. TableOK(open_files', got)
    BY <2>1, <2>2, RecordAllKeeps
  <2>4. /\ UNCHANGED <<fs_image, is_mounted, dents, got, listing, status>>
        /\ reopened \subseteq Files => reopened' \subseteq Files
    BY <1>4 DEF nqp_open
  <2>5. QED BY <2>1, <2>3, <2>4 DEF OthersOK, SizeOK
<1>5. ASSUME NEW fd \in Files, nqp_size(fd)
      PROVE  ReadsInv'
  <2>1. UNCHANGED <<fs_image, is_mounted, open_files, dents, got, reopened, listing>>
    BY <1>5 DEF nqp_size
  <2>2. \/ answer' = [call |-> "size", fd |-> fd, ret |-> SizeOf(fd)] /\ UNCHANGED status
        \/ status' = "crashed" /\ UNCHANGED answer
    BY <1>5 DEF nqp_size
  <2>3. OthersOK' /\ SizeOK'
    BY <2>1, <2>2 DEF OthersOK, SizeOK
  <2>4. QED BY <1>1, <2>1, <2>3
<1>6. ASSUME NEW fd \in Files, NEW count \in Nat \ {0}, nqp_read(fd, count)
      PROVE  ReadsInv'
  <2>1. TableOK(open_files', got') /\ BytesOK(got')
    BY <1>6, ReadStep
  <2>2. UNCHANGED <<fs_image, is_mounted, dents, reopened, listing, status>> /\ answer'.call = "read"
    BY <1>6 DEF nqp_read
  <2>3. QED BY <2>1, <2>2 DEF OthersOK, SizeOK
<1>7. ASSUME NEW fd \in Dirs, nqp_getdents(fd)
      PROVE  ReadsInv'
  <2>1. PICK next : next = IF dents.initialized THEN NextEntry(dents.cluster, dents.index)
                                                ELSE NextEntry(fd, 0)
    OBVIOUS
  <2>2. /\ dents' = [cluster |-> next.cluster, index |-> next.index,
                     initialized |-> next.initialized]
        /\ listing'.dir = IF dents.initialized THEN listing.dir ELSE fd
        /\ answer'.call = "getdents"
        /\ UNCHANGED <<fs_image, is_mounted, open_files, got, reopened, status>>
    BY <1>7, <2>1 DEF nqp_getdents
  <2>3. /\ next.cluster \in DOMAIN Directory \cup {EOC} /\ next.index \in Nat
        /\ next.initialized \in BOOLEAN
    <3>1. CASE dents.initialized
      <4>1. dents.cluster \in DOMAIN Directory \cup {EOC} /\ dents.index \in Nat
        BY <3>1 DEF OthersOK
      <4>2. QED BY <2>1, <3>1, <4>1, NextEntryTypes
    <3>2. CASE ~ dents.initialized
      <4>1. fd \in DOMAIN Directory \cup {EOC} /\ 0 \in Nat
        BY ExfatAssumption
      <4>2. QED BY <2>1, <3>2, <4>1, NextEntryTypes
    <3>3. QED BY <3>1, <3>2
  <2>4. DOMAIN Directory \cup {EOC} \subseteq Links
    BY ExfatAssumption DEF Links
  <2>5. OthersOK' /\ SizeOK'
    BY <2>2, <2>3, <2>4 DEF OthersOK, SizeOK
  <2>6. QED BY <1>1, <2>2, <2>5
<1>8. CASE Crash \/ NotMounted("open") \/ NotMounted("getdents")
  BY <1>1, <1>8 DEF Crash, NotMounted, OthersOK, SizeOK
<1>9. ASSUME NEW fd, NEW count, ReadNotOpen(fd, count)
      PROVE  ReadsInv'
  BY <1>1, <1>9 DEF ReadNotOpen, OthersOK, SizeOK
<1>10. ASSUME NEW fd, DentsRefused(fd) \/ nqp_close(fd)
       PROVE  ReadsInv'
  BY <1>1, <1>10 DEF DentsRefused, nqp_close, OthersOK, SizeOK
<1>11. QED
  BY <1>2, <1>3, <1>4, <1>5, <1>6, <1>7, <1>8, <1>9, <1>10 DEF MayCall

\* A byte of a file is followed by the next byte of the file.
LEMMA NextByteFollows ==
    ASSUME NEW c \in Links, NEW i \in Nat, ByteAt(c, i) \in Bytes
    PROVE  Follows(ByteAt(c, i), ByteAt(c, i + 1))
<1>1. PICK q, r, d : /\ q = i \div CLUSTER_SIZE /\ r = i % CLUSTER_SIZE
                     /\ d = Skip(c, q)
  OBVIOUS
<1>2. CLUSTER_SIZE \in Nat \ {0}
  BY ExfatAssumption
<1>3. q \in Nat /\ r \in 0 .. CLUSTER_SIZE - 1 /\ i = CLUSTER_SIZE * q + r
  BY <1>1, <1>2, DivMod
<1>4. ByteAt(c, i) = <<d, r>> /\ d \in Clusters
  BY <1>1 DEF ByteAt, Bytes
<1>5. CASE r + 1 < CLUSTER_SIZE
  <2>1. r + 1 \in 0 .. CLUSTER_SIZE - 1
    BY <1>2, <1>3, <1>5
  <2>2. i + 1 = CLUSTER_SIZE * q + (r + 1)
    <3>1. PICK w : w = CLUSTER_SIZE * q
      OBVIOUS
    <3>2. w \in Nat
      BY <1>2, <1>3, <3>1
    <3>3. QED BY <1>3, <3>1, <3>2
  <2>3. ByteAt(c, i + 1) = <<d, r + 1>>
    BY <1>1, <1>3, <2>1, <2>2, InCluster
  <2>4. QED BY <1>4, <1>5, <2>3 DEF Follows
<1>6. CASE ~ (r + 1 < CLUSTER_SIZE)
  <2>1. r = CLUSTER_SIZE - 1 /\ 0 \in 0 .. CLUSTER_SIZE - 1 /\ q + 1 \in Nat
    BY <1>2, <1>3, <1>6
  <2>2. i + 1 = CLUSTER_SIZE * (q + 1) + 0
    <3>1. PICK w : w = CLUSTER_SIZE * q
      OBVIOUS
    <3>2. w \in Nat /\ CLUSTER_SIZE * (q + 1) = w + CLUSTER_SIZE
      BY <1>2, <1>3, <3>1
    <3>3. QED BY <1>2, <1>3, <2>1, <3>1, <3>2
  <2>3. ByteAt(c, i + 1) = <<Skip(c, q + 1), 0>>
    BY <2>1, <2>2, InCluster
  <2>4. Skip(c, q + 1) = Fat[d]
    <3>1. Skip(c, q + 1) = Link[d]
      BY <1>1, <1>3, SkipSteps
    <3>2. Link[d] = Fat[d]
      BY <1>4, ExfatAssumption DEF Link, Links
    <3>3. QED BY <3>1, <3>2
  <2>5. QED BY <1>4, <2>1, <2>3, <2>4 DEF Follows
<1>7. QED BY <1>5, <1>6

\* nqp_size answers with the size of an entry of the volume, or with -1.
LEMMA SizeIsThatOfAnEntry ==
    ASSUME NEW fd, SizeOf(fd) >= 0
    PROVE  \E e \in Entries : e.cluster = fd /\ e.size = SizeOf(fd)
<1> DEFINE places == {i \in DOMAIN Directory[Root] :
                         IsEntry(Directory[Root][i]) /\ Directory[Root][i].cluster = fd}
<1>1. places # {} /\ SizeOf(fd) = Directory[Root][Min(places)].size
  <2>1. PICK first : first = Directory[Root][Min(places)].size
    OBVIOUS
  <2>2. SizeOf(fd) = IF fd < 2 \/ places = {} THEN -1 ELSE first
    BY <2>1 DEF SizeOf
  <2> HIDE DEF places
  <2>3. QED BY <2>1, <2>2
<1>2. Root \in DOMAIN Directory
  BY ExfatAssumption
<1>3. places \in SUBSET Nat
  BY <1>2, DirectoryTypes
<1>4. Min(places) \in places
  <2> HIDE DEF places
  <2> QED BY <1>1, <1>3, MinIsLeast
<1>5. Directory[Root][Min(places)] \in Entries /\ Directory[Root][Min(places)].cluster = fd
  BY <1>2, <1>4, DirectoryTypes DEF IsEntry
<1>6. QED BY <1>1, <1>5

\* The entries of one cluster agree on the size.
LEMMA OneSize ==
    ASSUME NEW d \in Entries, NEW e \in Entries, d.cluster = e.cluster
    PROVE  d.size = e.size
<1>1. PICK b \in DOMAIN Directory : \E i \in DOMAIN Directory[b] : Directory[b][i] = d
  BY DEF Entries
<1>2. PICK c \in DOMAIN Directory : \E i \in DOMAIN Directory[c] : Directory[c][i] = e
  BY DEF Entries
<1>3. d # END /\ e # END
  BY EntryFields
<1>4. QED BY <1>1, <1>2, <1>3, DirectoryAssumption

\* No more has been read with a descriptor than its file's size, as any of its
\* entries gives it.
LEMMA ReadWithinFile ==
    ASSUME TableOK(open_files, got), BytesOK(got), NEW fd \in Files,
           NEW e \in Entries, e.cluster = fd
    PROVE  Len(got[fd]) =< e.size
<1>1. e.size \in Nat
  BY EntryFields
<1>2. CASE got[fd] = <<>>
  BY <1>1, <1>2, EmptySeq
<1>3. CASE got[fd] # <<>>
  <2>1. SlotsOf(fd) # {}
    BY <1>3 DEF TableOK, SlotsOf
  <2>2. PICK s \in Slots : FirstSlot(open_files, s) /\ open_files[s].start_cluster = fd
    BY <2>1, SlotIsFirst
  <2>3. /\ SlotOK(open_files[s]) /\ open_files[s].in_use
        /\ open_files[s].offset = Len(got[fd])
    BY <2>2 DEF TableOK, FirstSlot
  <2>4. PICK d \in Entries : d.cluster = fd /\ d.size = open_files[s].file_size
    BY <2>2, <2>3 DEF SlotOK
  <2>5. d.size = e.size
    BY <2>4, OneSize
  <2>6. QED BY <2>3, <2>4, <2>5 DEF SlotOK
<1>4. QED BY <1>2, <1>3

-----------------------------------------------------------------------------
(* The names in a directory.                                               *)

\* A sequence of one element.
LEMMA SequenceOfOne ==
    ASSUME NEW S, NEW x \in S
    PROVE  <<x>> \in Seq(S)
<1>1. <<x>> \in [1 .. 1 -> S]
  OBVIOUS
<1>2. QED BY <1>1, SeqDef

\* Prefixes of sequences, element by element.
LEMMA PrefixPointwise ==
    ASSUME NEW S, NEW s \in Seq(S), NEW t \in Seq(S)
    PROVE  IsPrefix(s, t) <=> Len(s) =< Len(t) /\ \A i \in 1 .. Len(s) : s[i] = t[i]
<1>1. Len(s) \in Nat /\ Len(t) \in Nat /\ DOMAIN s = 1 .. Len(s) /\ DOMAIN t = 1 .. Len(t)
  BY LenProperties
<1>2. SubSeq(s, 1, Len(s)) = s
  BY SubSeqFull
<1>3. CASE Len(s) =< Len(t)
  <2>1. PICK u, n : u = SubSeq(t, 1, Len(s)) /\ n = Len(s)
    OBVIOUS
  <2>2. \A i \in 1 .. n : t[i] \in S
    <3>1. \A i \in 1 .. n : i \in 1 .. Len(t)
      BY <1>1, <1>3, <2>1
    <3>2. QED BY <3>1, ElementOfSeq
  <2>3. /\ u \in Seq(S) /\ Len(u) = n
        /\ \A i \in 1 .. n : u[i] = t[i]
    <3>1. 1 \in Int /\ n \in Int
      BY <1>1, <2>1
    <3>2. /\ u \in Seq(S) /\ Len(u) = IF 1 <= n THEN n - 1 + 1 ELSE 0
          /\ \A i \in 1 .. n - 1 + 1 : u[i] = t[1 + i - 1]
      BY <2>1, <2>2, <3>1, SubSeqProperties
    <3>3. n \in Nat /\ n - 1 + 1 = n /\ \A i \in 1 .. n : 1 + i - 1 = i
      BY <1>1, <2>1
    <3>4. Len(u) = n
      BY <3>2, <3>3
    <3>5. QED BY <3>2, <3>3, <3>4
  <2>4. s = u <=> \A i \in 1 .. n : s[i] = u[i]
    BY <2>1, <2>3, SeqEqual
  <2>5. QED BY <1>2, <1>3, <2>1, <2>3, <2>4 DEF IsPrefix
<1>4. QED BY <1>3 DEF IsPrefix

\* A prefix of a prefix, and the first part of a concatenation.
LEMMA PrefixLaws ==
    ASSUME NEW S, NEW s \in Seq(S), NEW t \in Seq(S), NEW u \in Seq(S)
    PROVE  /\ IsPrefix(s, s)
           /\ IsPrefix(s, t) /\ IsPrefix(t, u) => IsPrefix(s, u)
           /\ IsPrefix(s, s \o t)
           /\ IsPrefix(t, u) => IsPrefix(s \o t, s \o u)
<1>1. Len(s) \in Nat /\ Len(t) \in Nat /\ Len(u) \in Nat
  BY LenProperties
<1>2. IsPrefix(s, s)
  BY <1>1, PrefixPointwise
<1>3. IsPrefix(s, t) /\ IsPrefix(t, u) => IsPrefix(s, u)
  BY <1>1, PrefixPointwise
<1>4. /\ s \o t \in Seq(S) /\ Len(s \o t) = Len(s) + Len(t)
      /\ \A i \in 1 .. Len(s) + Len(t) :
            (s \o t)[i] = IF i <= Len(s) THEN s[i] ELSE t[i - Len(s)]
  BY ConcatProperties
<1>5. /\ s \o u \in Seq(S) /\ Len(s \o u) = Len(s) + Len(u)
      /\ \A i \in 1 .. Len(s) + Len(u) :
            (s \o u)[i] = IF i <= Len(s) THEN s[i] ELSE u[i - Len(s)]
  BY ConcatProperties
<1>6. PICK st, su : st = s \o t /\ su = s \o u
  OBVIOUS
<1>7. IsPrefix(s, st)
  <2>1. Len(s) =< Len(st) /\ \A i \in 1 .. Len(s) : s[i] = st[i]
    BY <1>1, <1>4, <1>6
  <2>2. QED BY <1>4, <1>6, <2>1, PrefixPointwise
<1>8. ASSUME IsPrefix(t, u)
      PROVE  IsPrefix(st, su)
  <2>1. Len(t) =< Len(u) /\ \A i \in 1 .. Len(t) : t[i] = u[i]
    BY <1>8, PrefixPointwise
  <2>2. ASSUME NEW i \in 1 .. Len(s) + Len(t)
        PROVE  st[i] = su[i]
    <3>1. i \in 1 .. Len(s) + Len(u)
      BY <1>1, <2>1
    <3>2. ~ (i <= Len(s)) => i - Len(s) \in 1 .. Len(t)
      BY <1>1
    <3>3. QED BY <1>4, <1>5, <1>6, <2>1, <3>1, <3>2
  <2>3. Len(st) = Len(s) + Len(t) /\ Len(st) =< Len(su)
    BY <1>1, <1>4, <1>5, <1>6, <2>1
  <2>4. st \in Seq(S) /\ su \in Seq(S)
    BY <1>4, <1>5, <1>6
  <2>5. QED BY <2>2, <2>3, <2>4, PrefixPointwise
<1>9. QED BY <1>2, <1>3, <1>6, <1>7, <1>8

\* The names in a cluster are those of its entries; END follows the last one if
\* the cluster has it.
LEMMA NamesInCluster ==
    ASSUME NEW c \in DOMAIN Directory
    PROVE  /\ NamesOf(c) \in Seq(STRING) /\ Len(NamesOf(c)) \in Nat
           /\ \A i \in 1 .. Len(NamesOf(c)) :
                 /\ Directory[c][i] \in Entries
                 /\ NamesOf(c)[i] = Directory[c][i].name
           /\ Marked(c) => /\ Len(Directory[c]) = Len(NamesOf(c)) + 1
                           /\ Directory[c][Len(NamesOf(c)) + 1] = END
           /\ ~ Marked(c) => Len(Directory[c]) = Len(NamesOf(c))
<1>1. PICK d, L, n : d = Directory[c] /\ L = Len(d) /\ n = L - (IF Marked(c) THEN 1 ELSE 0)
  OBVIOUS
<1>2. /\ L \in Nat /\ DOMAIN d = 1 .. L
      /\ \A i \in 1 .. L : d[i] # END => d[i] \in Entries
  BY <1>1, DirectoryTypes
<1>3. \A i \in 1 .. L : d[i] = END => i = L
  BY <1>1, <1>2, DirectoryAssumption
<1>4. Marked(c) <=> \E i \in 1 .. L : d[i] = END
  BY <1>1, <1>2 DEF Marked
<1>5. /\ n \in Nat
      /\ Marked(c) => L = n + 1 /\ d[n + 1] = END
      /\ ~ Marked(c) => L = n
  BY <1>1, <1>2, <1>3, <1>4
<1>6. \A i \in 1 .. n : d[i] \in Entries
  <2> SUFFICES ASSUME NEW i \in 1 .. n PROVE d[i] \in Entries
    OBVIOUS
  <2>1. i \in 1 .. L /\ (Marked(c) => i # L)
    BY <1>2, <1>5
  <2>2. QED BY <1>2, <1>3, <1>4, <2>1
<1>7. PICK names : names = [i \in 1 .. n |-> d[i].name]
  OBVIOUS
<1>8. NamesOf(c) = names
  BY <1>1, <1>7, ExfatAssumption DEF NamesOf
<1>9. names \in [1 .. n -> STRING] /\ \A i \in 1 .. n : names[i] = d[i].name
  BY <1>6, <1>7, EntryFields
<1>10. names \in Seq(STRING) /\ Len(names) = n
  BY <1>5, <1>9, LenProperties
<1>11. QED BY <1>1, <1>5, <1>6, <1>8, <1>9, <1>10

\* The names in the first clusters of a directory, cluster after cluster.
LEMMA NamesUpToSteps ==
    ASSUME NEW dir \in DOMAIN Directory
    PROVE  /\ NamesUpTo(dir)[0] = <<>>
           /\ \A k \in Lengths : NamesUpTo(dir)[k] \in Seq(STRING)
           /\ \A k \in 0 .. LongestChain - 1 :
                 NamesUpTo(dir)[k + 1] = NamesUpTo(dir)[k] \o NamesOf(Skip(dir, k))
<1> DEFINE S == Seq(STRING)
           n == LongestChain
           of(k) == NamesOf(Skip(dir, k - 1))
           Body(f) == [k \in Lengths |-> IF k = 0 THEN <<>> ELSE f[k - 1] \o of(k)]
           upTo == CHOOSE f : f = Body(f)
           step == [k \in 1 .. n |-> [names \in S |-> names \o of(k)]]
<1>1. n \in Nat /\ Lengths = 0 .. n
  BY ExfatAssumption DEF Lengths
<1>2. \A k \in 1 .. n : of(k) \in S
  <2> SUFFICES ASSUME NEW k \in 1 .. n PROVE of(k) \in S
    OBVIOUS
  <2>1. k - 1 \in Nat
    OBVIOUS
  <2>2. Skip(dir, k - 1) \in DOMAIN Directory \cup {EOC}
    BY <2>1, ChainOfDirectory
  <2>3. CASE Skip(dir, k - 1) \in DOMAIN Directory
    BY <2>3, NamesInCluster
  <2>4. CASE Skip(dir, k - 1) = EOC
    BY <2>4, EmptySeq DEF NamesOf
  <2>5. QED BY <2>2, <2>3, <2>4
<1> HIDE DEF of
<1>3. \A k \in 1 .. n, names \in S : names \o of(k) \in S
  BY <1>2, ConcatProperties
<1>4. <<>> \in S
  BY EmptySeq
<1> HIDE DEF S, n
<1>5. upTo = Body(upTo)
  <2>1. step \in [1 .. n -> [S -> S]]
    BY <1>3
  <2>2. PICK F \in [0 .. n -> S] : Solves(F, n, <<>>, step)
    <3> HIDE DEF step
    <3> QED BY <1>1, <1>4, <2>1, RecursionHasSolution
  <2>3. \A k \in 1 .. n : F[k] = F[k - 1] \o of(k)
    <3> SUFFICES ASSUME NEW k \in 1 .. n PROVE F[k] = F[k - 1] \o of(k)
      OBVIOUS
    <3>1. k - 1 \in 0 .. n
      BY <1>1
    <3>2. F[k - 1] \in S
      BY <2>2, <3>1
    <3>3. F[k] = step[k][F[k - 1]]
      BY <2>2 DEF Solves
    <3>4. QED BY <3>2, <3>3
  <2>4. F = Body(F)
    <3>1. ASSUME NEW k \in 0 .. n
          PROVE  F[k] = Body(F)[k]
      <4>1. CASE k = 0
        BY <1>1, <2>2, <4>1 DEF Solves
      <4>2. CASE k # 0
        <5>1. k \in 1 .. n
          BY <1>1, <4>2
        <5>2. QED BY <1>1, <2>3, <4>2, <5>1
      <4>3. QED BY <4>1, <4>2
    <3>2. QED BY <1>1, <2>2, <3>1
  <2> HIDE DEF Body
  <2>5. QED BY <2>4
<1>6. NamesUpTo(dir) = upTo
  BY DEF NamesUpTo, of
<1> HIDE DEF upTo
<1>7. upTo[0] = <<>> /\ \A k \in 1 .. n : upTo[k] = upTo[k - 1] \o of(k)
  <2>1. \A k \in 0 .. n : upTo[k] = IF k = 0 THEN <<>> ELSE upTo[k - 1] \o of(k)
    BY <1>1, <1>5
  <2>2. 0 \in 0 .. n /\ \A k \in 1 .. n : k \in 0 .. n /\ k # 0
    BY <1>1
  <2>3. QED BY <2>1, <2>2
<1>8. \A k \in 1 .. n : upTo[k - 1] \in S => upTo[k] \in S
  BY <1>3, <1>7
<1>9. \A k \in 0 .. n : upTo[k] \in S
  BY <1>1, <1>4, <1>7, <1>8, RecursionStaysIn
<1>10. \A k \in 0 .. n - 1 : upTo[k + 1] = upTo[k] \o NamesOf(Skip(dir, k))
  <2> SUFFICES ASSUME NEW k \in 0 .. n - 1
               PROVE  upTo[k + 1] = upTo[k] \o NamesOf(Skip(dir, k))
    OBVIOUS
  <2>1. k + 1 \in 1 .. n /\ (k + 1) - 1 = k
    BY <1>1
  <2>2. upTo[k + 1] = upTo[(k + 1) - 1] \o of(k + 1)
    BY <1>7, <2>1
  <2>3. QED BY <2>1, <2>2 DEF of
<1>11. QED BY <1>1, <1>6, <1>7, <1>9, <1>10 DEF S, n

\* There are no names behind the cluster that has END.
LEMMA NamesEndAtMark ==
    ASSUME NEW dir \in DOMAIN Directory, NEW k \in 0 .. LongestChain - 1,
           Skip(dir, k) \in DOMAIN Directory, Marked(Skip(dir, k))
    PROVE  Names(dir) = NamesUpTo(dir)[k + 1]
<1> DEFINE n == LongestChain - (k + 1)
           Ended(c) == c = EOC \/ (c \in DOMAIN Directory /\ Directory[c] = <<END>>)
           Behind == {m \in 0 .. n : Ended(Skip(dir, (k + 1) + m))}
           Same == {m \in 0 .. n : NamesUpTo(dir)[(k + 1) + m] = NamesUpTo(dir)[k + 1]}
<1>1. LongestChain \in Nat /\ k \in Nat /\ n \in Nat /\ dir \in Links
  BY ExfatAssumption, ChainOfDirectory
<1>2. \A c \in DOMAIN Directory : Link[c] = Fat[c]
  BY ExfatAssumption DEF Link, Links
<1>3. \A c \in DOMAIN Directory : Marked(c) => Ended(Link[c])
  BY <1>2, DirectoryAssumption DEF Marked
<1>4. \A c \in DOMAIN Directory : Directory[c] = <<END>> => Marked(c)
  <2> SUFFICES ASSUME NEW c \in DOMAIN Directory, Directory[c] = <<END>> PROVE Marked(c)
    OBVIOUS
  <2>1. 1 \in DOMAIN <<END>> /\ <<END>>[1] = END
    OBVIOUS
  <2>2. QED BY <2>1 DEF Marked
<1>5. \A c : Ended(c) => Ended(Link[c])
  BY <1>3, <1>4, LinkType
<1>6. \A c : Ended(c) => NamesOf(c) = <<>>
  <2> SUFFICES ASSUME NEW c \in DOMAIN Directory, Directory[c] = <<END>>
               PROVE  NamesOf(c) = <<>>
    BY DEF NamesOf
  <2>1. Len(Directory[c]) = Len(NamesOf(c)) + 1
    BY <1>4, NamesInCluster
  <2>2. Len(<<END>>) = 1
    OBVIOUS
  <2>3. NamesOf(c) \in Seq(STRING) /\ Len(NamesOf(c)) = 0
    BY <2>1, <2>2, NamesInCluster
  <2>4. QED BY <2>3, EmptySeq
<1> HIDE DEF Ended
<1>7. 0 \in Behind
  <2>1. Skip(dir, k + 1) = Link[Skip(dir, k)]
    BY <1>1, SkipSteps
  <2>2. (k + 1) + 0 = k + 1
    BY <1>1
  <2>3. Ended(Skip(dir, (k + 1) + 0))
    BY <1>3, <2>1, <2>2
  <2>4. QED BY <1>1, <2>3
<1>8. ASSUME NEW m \in 0 .. n - 1, m \in Behind
      PROVE  m + 1 \in Behind
  <2>1. (k + 1) + m \in Nat /\ (k + 1) + (m + 1) = ((k + 1) + m) + 1 /\ m + 1 \in 0 .. n
    BY <1>1
  <2>2. Skip(dir, ((k + 1) + m) + 1) = Link[Skip(dir, (k + 1) + m)]
    BY <1>1, <2>1, SkipSteps
  <2>3. QED BY <1>5, <1>8, <2>1, <2>2
<1>9. \A m \in 0 .. n : m \in Behind
  <2> HIDE DEF Behind, n
  <2> QED BY <1>1, <1>7, <1>8, SetInduction
<1>10. 0 \in Same
  BY <1>1
<1>11. ASSUME NEW m \in 0 .. n - 1, m \in Same
       PROVE  m + 1 \in Same
  <2>1. PICK j : j = (k + 1) + m
    OBVIOUS
  <2>2. /\ j \in 0 .. LongestChain - 1 /\ j \in Lengths /\ m + 1 \in 0 .. n /\ m \in 0 .. n
        /\ (k + 1) + (m + 1) = j + 1
    BY <1>1, <2>1 DEF Lengths
  <2>3. Ended(Skip(dir, j))
    BY <1>9, <2>1, <2>2
  <2>4. NamesUpTo(dir)[j + 1] = NamesUpTo(dir)[j] \o <<>>
    BY <1>6, <2>2, <2>3, NamesUpToSteps
  <2>5. NamesUpTo(dir)[j] \in Seq(STRING)
    BY <2>2, NamesUpToSteps
  <2>6. NamesUpTo(dir)[j + 1] = NamesUpTo(dir)[j]
    BY <2>4, <2>5, ConcatEmptySeq
  <2>7. QED BY <1>11, <2>1, <2>2, <2>6
<1>12. \A m \in 0 .. n : m \in Same
  <2> HIDE DEF Same, n
  <2> QED BY <1>1, <1>10, <1>11, SetInduction
<1>13. n \in 0 .. n /\ (k + 1) + n = LongestChain
  BY <1>1
<1>14. QED BY <1>12, <1>13 DEF Names

\* The names up to a cluster are a prefix of all names.
LEMMA NamesUpToIsPrefix ==
    ASSUME NEW dir \in DOMAIN Directory, NEW k \in Lengths
    PROVE  IsPrefix(NamesUpTo(dir)[k], Names(dir)) /\ Names(dir) \in Seq(STRING)
<1> DEFINE n == LongestChain - k
           A == {m \in 0 .. n : IsPrefix(NamesUpTo(dir)[k], NamesUpTo(dir)[k + m])}
<1>1. LongestChain \in Nat /\ k \in Nat /\ n \in Nat /\ LongestChain \in Lengths
  BY ExfatAssumption DEF Lengths
<1>2. 0 \in A
  <2>1. NamesUpTo(dir)[k] \in Seq(STRING)
    BY NamesUpToSteps
  <2>2. IsPrefix(NamesUpTo(dir)[k], NamesUpTo(dir)[k])
    BY <2>1, PrefixLaws
  <2>3. k + 0 = k
    BY <1>1
  <2>4. QED BY <1>1, <2>2, <2>3
<1>3. ASSUME NEW m \in 0 .. n - 1, m \in A
      PROVE  m + 1 \in A
  <2>1. PICK j : j = k + m
    OBVIOUS
  <2>2. /\ j \in 0 .. LongestChain - 1 /\ j \in Lengths /\ j + 1 \in Lengths
        /\ m + 1 \in 0 .. n /\ k + (m + 1) = j + 1 /\ j \in Nat
    BY <1>1, <2>1 DEF Lengths
  <2>3. PICK r, s, t, u : /\ r = NamesUpTo(dir)[k] /\ s = NamesUpTo(dir)[j]
                          /\ t = NamesOf(Skip(dir, j)) /\ u = NamesUpTo(dir)[j + 1]
    OBVIOUS
  <2>4. r \in Seq(STRING) /\ s \in Seq(STRING) /\ u \in Seq(STRING) /\ u = s \o t
    BY <2>2, <2>3, NamesUpToSteps
  <2>5. t \in Seq(STRING)
    <3>1. Skip(dir, j) \in DOMAIN Directory \cup {EOC}
      BY <2>2, ChainOfDirectory
    <3>2. CASE Skip(dir, j) \in DOMAIN Directory
      BY <2>3, <3>2, NamesInCluster
    <3>3. CASE Skip(dir, j) = EOC
      BY <2>3, <3>3, EmptySeq DEF NamesOf
    <3>4. QED BY <3>1, <3>2, <3>3
  <2>6. IsPrefix(r, s)
    BY <1>3, <2>1, <2>3
  <2>7. IsPrefix(s, u)
    BY <2>4, <2>5, PrefixLaws
  <2>8. IsPrefix(r, u)
    BY <2>4, <2>6, <2>7, PrefixLaws
  <2>9. QED BY <2>2, <2>3, <2>8
<1>4. \A m \in 0 .. n : m \in A
  <2> HIDE DEF A, n
  <2> QED BY <1>1, <1>2, <1>3, SetInduction
<1>5. n \in 0 .. n /\ k + n = LongestChain
  BY <1>1
<1>6. Names(dir) \in Seq(STRING)
  BY <1>1, NamesUpToSteps DEF Names
<1>7. QED BY <1>4, <1>5, <1>6 DEF Names

-----------------------------------------------------------------------------
(* A listing.                                                              *)

\* The listing of dir is at place i of the directory's cluster number k, and has
\* yielded the names before it.
At(dir, k, i, names) ==
    /\ k \in 0 .. LongestChain - 1 /\ Skip(dir, k) \in DOMAIN Directory
    /\ i \in 0 .. Len(NamesOf(Skip(dir, k)))
    /\ \A j \in 0 .. k - 1 : ~ Marked(Skip(dir, j))
    /\ names = NamesUpTo(dir)[k] \o SubSeq(NamesOf(Skip(dir, k)), 1, i)

\* What it means to be at the beginning, or at the end, of a cluster.
LEMMA AtBothEnds ==
    ASSUME NEW c \in DOMAIN Directory, NEW names \in Seq(STRING)
    PROVE  /\ names \o SubSeq(NamesOf(c), 1, 0) = names
           /\ SubSeq(NamesOf(c), 1, Len(NamesOf(c))) = NamesOf(c)
<1>1. SubSeq(NamesOf(c), 1, 0) = <<>>
  BY SubSeqEmpty
<1>2. SubSeq(NamesOf(c), 1, Len(NamesOf(c))) = NamesOf(c)
  BY NamesInCluster, SubSeqFull
<1>3. names \o <<>> = names
  BY ConcatEmptySeq
<1>4. QED BY <1>1, <1>2, <1>3

\* A directory's chain does not end before END.
LEMMA GoesOn ==
    ASSUME NEW dir \in DOMAIN Directory, EndMarked(dir), NEW k \in 0 .. LongestChain - 1,
           \A j \in 0 .. k : ~ Marked(Skip(dir, j))
    PROVE  k + 1 \in 0 .. LongestChain - 1 /\ Skip(dir, k + 1) \in DOMAIN Directory
<1>1. LongestChain \in Nat /\ k \in Nat /\ k + 1 \in Nat /\ dir \in Links
  BY ExfatAssumption, ChainOfDirectory
<1>2. PICK n \in Lengths : Skip(dir, n) # EOC /\ Marked(Skip(dir, n))
  BY DEF EndMarked
<1>3. n \in Nat /\ k + 1 =< n
  BY <1>1, <1>2 DEF Lengths
<1>4. Skip(dir, k + 1) # EOC
  BY <1>1, <1>2, <1>3, SkipEnd
<1>5. QED BY <1>1, <1>4, ChainEnds, ChainOfDirectory

\* A cluster in which nothing is left has no END, and the search goes on to the
\* beginning of the next one.
LEMMA PassOn ==
    ASSUME NEW dir \in DOMAIN Directory, EndMarked(dir), NEW k, NEW i, NEW names,
           At(dir, k, i, names), ~ (i < Len(Directory[Skip(dir, k)]))
    PROVE  At(dir, k + 1, 0, names)
<1>1. PICK c, n : c = Skip(dir, k) /\ n = Len(NamesOf(c))
  OBVIOUS
<1>2. /\ k \in 0 .. LongestChain - 1 /\ c \in DOMAIN Directory /\ i \in 0 .. n
      /\ \A j \in 0 .. k - 1 : ~ Marked(Skip(dir, j))
      /\ names = NamesUpTo(dir)[k] \o SubSeq(NamesOf(c), 1, i)
  BY <1>1 DEF At
<1>3. n \in Nat /\ (Marked(c) => Len(Directory[c]) = n + 1) /\ (~ Marked(c) => Len(Directory[c]) = n)
  BY <1>1, <1>2, NamesInCluster
<1>4. ~ Marked(c) /\ i = n
  BY <1>1, <1>2, <1>3
<1>5. LongestChain \in Nat
  BY ExfatAssumption
<1>6. ASSUME NEW j \in 0 .. k
      PROVE  ~ Marked(Skip(dir, j))
  <2>1. j = k \/ j \in 0 .. k - 1
    BY <1>2, <1>5
  <2>2. QED BY <1>1, <1>2, <1>4, <2>1
<1>7. k + 1 \in 0 .. LongestChain - 1 /\ Skip(dir, k + 1) \in DOMAIN Directory
  BY <1>2, <1>6, GoesOn
<1>8. k \in Lengths /\ k + 1 \in Lengths
  BY <1>2, <1>5, <1>7 DEF Lengths
<1>9. names = NamesUpTo(dir)[k + 1]
  <2>1. SubSeq(NamesOf(c), 1, n) = NamesOf(c)
    BY <1>1, <1>2, NamesInCluster, SubSeqFull
  <2>2. NamesUpTo(dir)[k + 1] = NamesUpTo(dir)[k] \o NamesOf(c)
    BY <1>1, <1>2, NamesUpToSteps
  <2>3. QED BY <1>2, <1>4, <2>1, <2>2
<1>10. names = NamesUpTo(dir)[k + 1] \o SubSeq(NamesOf(Skip(dir, k + 1)), 1, 0)
  <2>1. NamesUpTo(dir)[k + 1] \in Seq(STRING)
    BY <1>8, NamesUpToSteps
  <2>2. QED BY <1>7, <1>9, <2>1, AtBothEnds
<1>11. 0 \in 0 .. Len(NamesOf(Skip(dir, k + 1)))
  BY <1>7, NamesInCluster
<1>12. \A j \in 0 .. (k + 1) - 1 : ~ Marked(Skip(dir, j))
  <2>1. (k + 1) - 1 = k
    BY <1>2, <1>5
  <2>2. QED BY <1>6, <2>1
<1>13. QED BY <1>7, <1>10, <1>11, <1>12 DEF At

\* ... and so it goes through all the clusters that it passes.
LEMMA SearchGoesOn ==
    ASSUME NEW dir \in DOMAIN Directory, EndMarked(dir), NEW k, NEW i, NEW names,
           At(dir, k, i, names), NEW n \in Nat, \A m \in 0 .. n - 1 : Passed(Skip(dir, k), i, m)
    PROVE  /\ At(dir, k + n, Place(i, n), names)
           /\ Skip(Skip(dir, k), n) = Skip(dir, k + n)
<1> DEFINE A == {m \in 0 .. n : At(dir, k + m, Place(i, m), names)}
<1>1. k \in Nat /\ dir \in Links
  BY ExfatAssumption, ChainOfDirectory DEF At
<1>2. \A m \in Nat : Skip(Skip(dir, k), m) = Skip(dir, k + m)
  BY <1>1, SkipAdds
<1>3. 0 \in A
  <2>1. k + 0 = k /\ Place(i, 0) = i
    BY <1>1 DEF Place
  <2>2. QED BY <2>1
<1>4. ASSUME NEW m \in 0 .. n - 1, m \in A
      PROVE  m + 1 \in A
  <2>1. At(dir, k + m, Place(i, m), names) /\ m \in Nat
    BY <1>4
  <2>2. ~ (Place(i, m) < Len(Directory[Skip(dir, k + m)]))
    BY <1>2, <2>1 DEF Passed
  <2>3. At(dir, (k + m) + 1, 0, names)
    BY <2>1, <2>2, PassOn
  <2>4. (k + m) + 1 = k + (m + 1) /\ Place(i, m + 1) = 0 /\ m + 1 \in 0 .. n
    BY <1>1, <2>1 DEF Place
  <2>5. QED BY <2>3, <2>4
<1>5. \A m \in 0 .. n : m \in A
  <2> HIDE DEF A
  <2> QED BY <1>3, <1>4, SetInduction
<1>6. n \in 0 .. n
  OBVIOUS
<1>7. QED BY <1>2, <1>5, <1>6

\* At an entry: the listing yields its name and is behind it.
LEMMA AtEntry ==
    ASSUME NEW dir \in DOMAIN Directory, NEW k, NEW i, NEW names, At(dir, k, i, names),
           i < Len(Directory[Skip(dir, k)]), Directory[Skip(dir, k)][i + 1] # END
    PROVE  /\ Directory[Skip(dir, k)][i + 1] \in Entries
           /\ At(dir, k, i + 1, Append(names, Directory[Skip(dir, k)][i + 1].name))
<1>1. PICK c, L, of, up : /\ c = Skip(dir, k) /\ of = NamesOf(c) /\ L = Len(of)
                          /\ up = NamesUpTo(dir)[k]
  OBVIOUS
<1>2. /\ k \in 0 .. LongestChain - 1 /\ c \in DOMAIN Directory /\ i \in 0 .. L
      /\ names = up \o SubSeq(of, 1, i)
  BY <1>1 DEF At
<1>3. /\ of \in Seq(STRING) /\ L \in Nat
      /\ \A j \in 1 .. L : Directory[c][j] \in Entries /\ of[j] = Directory[c][j].name
      /\ Marked(c) => Len(Directory[c]) = L + 1 /\ Directory[c][L + 1] = END
      /\ ~ Marked(c) => Len(Directory[c]) = L
  BY <1>1, <1>2, NamesInCluster
<1>4. i + 1 \in 1 .. L
  BY <1>1, <1>2, <1>3
<1>5. Directory[c][i + 1] \in Entries /\ of[i + 1] = Directory[c][i + 1].name
  BY <1>3, <1>4
<1>6. k \in Lengths
  BY <1>2, ExfatAssumption DEF Lengths
<1>7. up \in Seq(STRING)
  BY <1>1, <1>6, NamesUpToSteps
<1>8. PICK part, name : part = SubSeq(of, 1, i) /\ name = of[i + 1]
  OBVIOUS
<1>9. name \in STRING /\ of \in Seq(STRING) /\ Len(of) = L
  BY <1>1, <1>3, <1>5, <1>8, EntryFields
<1>10. SubSeq(of, 1, i + 1) = part \o <<name>>
  <2>1. 1 \in 1 .. Len(of) /\ i + 1 \in 1 .. Len(of) /\ (i + 1) - 1 = i
    BY <1>2, <1>3, <1>4, <1>9
  <2>2. SubSeq(of, 1, i + 1) = SubSeq(of, 1, (i + 1) - 1) \o <<of[i + 1]>>
    BY <1>9, <2>1, SubSeqRecursiveSecond
  <2>3. QED BY <1>8, <2>1, <2>2
<1>11. part \in Seq(STRING)
  <2>1. 1 \in Int /\ i \in Int /\ \A j \in 1 .. i : j \in 1 .. Len(of)
    BY <1>2, <1>3, <1>9
  <2>2. \A j \in 1 .. i : of[j] \in STRING
    BY <1>9, <2>1, ElementOfSeq
  <2>3. QED BY <1>8, <2>1, <2>2, SubSeqProperties
<1>12. <<name>> \in Seq(STRING)
  BY <1>9, SequenceOfOne
<1>13. Append(names, name) = up \o SubSeq(of, 1, i + 1)
  <2>1. names = up \o part /\ names \in Seq(STRING)
    <3>1. up \o part \in Seq(STRING)
      BY <1>7, <1>11, ConcatProperties
    <3>2. QED BY <1>2, <1>8, <3>1
  <2>2. Append(names, name) = names \o <<name>>
    BY <1>9, <2>1, AppendIsConcat
  <2>3. (up \o part) \o <<name>> = up \o (part \o <<name>>)
    BY <1>7, <1>11, <1>12, ConcatAssociative
  <2>4. QED BY <1>10, <2>1, <2>2, <2>3
<1>14. i + 1 \in 0 .. L
  BY <1>2, <1>3, <1>4
<1>15. \A j \in 0 .. k - 1 : ~ Marked(Skip(dir, j))
  BY DEF At
<1>16. At(dir, k, i + 1, Append(names, Directory[c][i + 1].name))
  BY <1>1, <1>2, <1>5, <1>8, <1>13, <1>14, <1>15 DEF At
<1>17. QED BY <1>1, <1>5, <1>16

\* At END: the listing has yielded all names.
LEMMA AtMark ==
    ASSUME NEW dir \in DOMAIN Directory, NEW k, NEW i, NEW names, At(dir, k, i, names),
           i < Len(Directory[Skip(dir, k)]), Directory[Skip(dir, k)][i + 1] = END
    PROVE  names = Names(dir)
<1>1. PICK c, L : c = Skip(dir, k) /\ L = Len(NamesOf(c))
  OBVIOUS
<1>2. /\ k \in 0 .. LongestChain - 1 /\ c \in DOMAIN Directory /\ i \in 0 .. L
      /\ names = NamesUpTo(dir)[k] \o SubSeq(NamesOf(c), 1, i)
  BY <1>1 DEF At
<1>3. /\ L \in Nat /\ \A j \in 1 .. L : Directory[c][j] \in Entries
      /\ ~ Marked(c) => Len(Directory[c]) = L
  BY <1>1, <1>2, NamesInCluster
<1>4. i = L
  <2>1. i + 1 \in 1 .. L => Directory[c][i + 1] # END
    BY <1>3, EntryFields
  <2>2. QED BY <1>1, <1>2, <1>3, <2>1
<1>5. Marked(c)
  BY <1>1, <1>3, <1>4
<1>6. SubSeq(NamesOf(c), 1, L) = NamesOf(c)
  BY <1>1, <1>2, NamesInCluster, SubSeqFull
<1>7. NamesUpTo(dir)[k + 1] = NamesUpTo(dir)[k] \o NamesOf(c)
  BY <1>1, <1>2, NamesUpToSteps
<1>8. Names(dir) = NamesUpTo(dir)[k + 1]
  BY <1>1, <1>2, <1>5, NamesEndAtMark
<1>9. QED BY <1>2, <1>4, <1>6, <1>7, <1>8

\* What a listing has yielded is the beginning of the directory's names.
LEMMA AtIsPrefix ==
    ASSUME NEW dir \in DOMAIN Directory, NEW k, NEW i, NEW names, At(dir, k, i, names)
    PROVE  IsPrefix(names, Names(dir))
<1>1. PICK c, of, up, part : /\ c = Skip(dir, k) /\ of = NamesOf(c)
                             /\ up = NamesUpTo(dir)[k] /\ part = SubSeq(of, 1, i)
  OBVIOUS
<1>2. /\ k \in 0 .. LongestChain - 1 /\ c \in DOMAIN Directory /\ i \in 0 .. Len(of)
      /\ names = up \o part
  BY <1>1 DEF At
<1>3. k \in Lengths /\ k + 1 \in Lengths
  BY <1>2, ExfatAssumption DEF Lengths
<1>4. of \in Seq(STRING) /\ Len(of) \in Nat /\ up \in Seq(STRING)
  BY <1>1, <1>2, <1>3, NamesInCluster, NamesUpToSteps
<1>5. part \in Seq(STRING) /\ IsPrefix(part, of)
  <2>1. 1 \in Int /\ i \in Int /\ i \in Nat /\ i =< Len(of) /\ \A j \in 1 .. i : j \in 1 .. Len(of)
    BY <1>2, <1>4
  <2>2. \A j \in 1 .. i : of[j] \in STRING
    BY <1>4, <2>1, ElementOfSeq
  <2>3. /\ part \in Seq(STRING) /\ Len(part) = IF 1 <= i THEN i - 1 + 1 ELSE 0
        /\ \A j \in 1 .. i - 1 + 1 : part[j] = of[1 + j - 1]
    BY <1>1, <2>1, <2>2, SubSeqProperties
  <2>4. i - 1 + 1 = i /\ \A j \in 1 .. i : 1 + j - 1 = j
    BY <2>1
  <2>5. Len(part) = i
    BY <2>1, <2>3, <2>4
  <2>6. \A j \in 1 .. Len(part) : part[j] = of[j]
    BY <2>3, <2>4, <2>5
  <2>7. QED BY <1>4, <2>1, <2>3, <2>5, <2>6, PrefixPointwise
<1>6. IsPrefix(up \o part, up \o of)
  BY <1>4, <1>5, PrefixLaws
<1>7. NamesUpTo(dir)[k + 1] = up \o of
  BY <1>1, <1>2, NamesUpToSteps
<1>8. IsPrefix(up \o of, Names(dir)) /\ Names(dir) \in Seq(STRING)
  BY <1>3, <1>7, NamesUpToIsPrefix
<1>9. up \o part \in Seq(STRING) /\ up \o of \in Seq(STRING)
  BY <1>4, <1>5, ConcatProperties
<1>10. QED BY <1>2, <1>6, <1>8, <1>9, PrefixLaws

\* A listing under way is somewhere in the directory it was begun with, and one
\* that has ended has yielded all names.
UnderWay ==
    /\ listing.dir \in Dirs
    /\ \E k \in Lengths : /\ dents.cluster = Skip(listing.dir, k)
                          /\ At(listing.dir, k, dents.index, listing.names)
ListingInv ==
    /\ listing.dir \in Dirs \cup {Root}
    /\ IF dents.initialized THEN UnderWay ELSE listing.names = <<>>
    /\ answer.call = "getdents" /\ answer.ret = 0 => answer.listed = Names(listing.dir)

\* What one nqp_getdents answers, and where it leaves the listing.
LEMMA ListingStep ==
    ASSUME \A dir \in Dirs : EndMarked(dir), ListingInv, NEW fd \in Dirs, nqp_getdents(fd)
    PROVE  ListingInv'
<1>1. PICK dir, names, cluster, index, next :
          /\ dir = IF dents.initialized THEN listing.dir ELSE fd
          /\ names = IF dents.initialized THEN listing.names ELSE <<>>
          /\ cluster = IF dents.initialized THEN dents.cluster ELSE fd
          /\ index = IF dents.initialized THEN dents.index ELSE 0
          /\ next = NextEntry(cluster, index)
  OBVIOUS
<1>2. dir \in Dirs /\ dir \in DOMAIN Directory /\ EndMarked(dir)
  BY <1>1, ExfatAssumption DEF ListingInv, UnderWay
<1>3. PICK k \in 0 .. LongestChain - 1 : cluster = Skip(dir, k) /\ At(dir, k, index, names)
  <2>1. CASE dents.initialized
    BY <1>1, <2>1 DEF ListingInv, UnderWay, At
  <2>2. CASE ~ dents.initialized
    <3>1. fd \in Links /\ Skip(fd, 0) = fd /\ dir = fd /\ names = <<>> /\ index = 0 /\ cluster = fd
      BY <1>1, <1>2, <2>2, ChainOfDirectory, SkipSteps
    <3>2. 0 \in 0 .. LongestChain - 1
      <4>1. Skip(fd, 0) # EOC
        BY <1>2, <3>1, ExfatAssumption
      <4>2. QED BY <3>1, <4>1, ChainEnds
    <3>3. names = NamesUpTo(dir)[0] \o SubSeq(NamesOf(Skip(dir, 0)), 1, 0)
      <4>1. NamesUpTo(dir)[0] = <<>> /\ <<>> \in Seq(STRING)
        BY <1>2, NamesUpToSteps, EmptySeq
      <4>2. QED BY <1>2, <3>1, <4>1, AtBothEnds
    <3>4. 0 \in 0 .. Len(NamesOf(Skip(dir, 0)))
      BY <1>2, <3>1, NamesInCluster
    <3>5. 0 .. 0 - 1 = {}
      OBVIOUS
    <3>6. At(dir, 0, 0, names)
      BY <1>2, <3>1, <3>2, <3>3, <3>4, <3>5 DEF At
    <3>7. QED BY <3>1, <3>2, <3>6
  <2>3. QED BY <2>1, <2>2
<1>4. cluster \in DOMAIN Directory /\ index \in Nat
  <2>1. index \in 0 .. Len(NamesOf(cluster)) /\ cluster \in DOMAIN Directory
    BY <1>3 DEF At
  <2>2. QED BY <2>1, NamesInCluster
<1>5. PICK n \in Lengths :
          /\ \A m \in 0 .. n - 1 : Passed(cluster, index, m)
          /\ ~ Passed(cluster, index, n)
          /\ next = AnswerAt(Skip(cluster, n), Place(index, n))
  BY <1>1, <1>4, NextEntryStops
<1>6. PICK c, i, m : c = Skip(cluster, n) /\ i = Place(index, n) /\ m = k + n
  OBVIOUS
<1>7. n \in Nat
  BY <1>5, ExfatAssumption DEF Lengths
<1>8. At(dir, m, i, names) /\ c = Skip(dir, m)
  BY <1>2, <1>3, <1>5, <1>6, <1>7, SearchGoesOn
<1>9. c \in DOMAIN Directory /\ c # EOC /\ i < Len(Directory[c]) /\ m \in Lengths
  <2>1. c \in DOMAIN Directory /\ m \in 0 .. LongestChain - 1
    BY <1>8 DEF At
  <2>2. c # EOC /\ m \in Lengths
    BY <2>1, ExfatAssumption DEF Lengths
  <2>3. QED BY <1>5, <1>6, <2>1, <2>2 DEF Passed
<1>10. next = AnswerAt(c, i)
  BY <1>5, <1>6
<1>11. /\ dents' = [cluster |-> next.cluster, index |-> next.index,
                    initialized |-> next.initialized]
       /\ next.entry = NotFound =>
             /\ listing' = [dir |-> dir, names |-> <<>>]
             /\ answer'.ret = 0 /\ answer'.listed = names
       /\ next.entry # NotFound =>
             /\ listing' = [dir |-> dir, names |-> Append(names, next.entry.name)]
             /\ answer'.ret = 1
  <2>1. next = IF dents.initialized THEN NextEntry(dents.cluster, dents.index)
                                    ELSE NextEntry(fd, 0)
    BY <1>1
  <2>2. PICK before : before = IF dents.initialized THEN listing
                                                    ELSE [dir |-> fd, names |-> <<>>]
    OBVIOUS
  <2>3. before.dir = dir /\ before.names = names
    BY <1>1, <2>2
  <2>4. PICK found : found = IF next.entry = NotFound THEN before.names
                             ELSE Append(before.names, next.entry.name)
    OBVIOUS
  <2>5. PICK ret : ret = IF next.entry = NotFound THEN 0 ELSE 1
    OBVIOUS
  <2>6. /\ dents' = [cluster |-> next.cluster, index |-> next.index,
                     initialized |-> next.initialized]
        /\ listing' = [dir |-> before.dir, names |-> IF ret = 0 THEN <<>> ELSE found]
        /\ answer' = [call |-> "getdents", ret |-> ret,
                      entry |-> next.entry, listed |-> found]
    BY <2>1, <2>2, <2>4, <2>5 DEF nqp_getdents
  <2>7. answer'.ret = ret /\ answer'.listed = found
    BY <2>6
  <2>8. ASSUME next.entry = NotFound
        PROVE  /\ listing' = [dir |-> dir, names |-> <<>>]
               /\ answer'.ret = 0 /\ answer'.listed = names
    <3>1. ret = 0 /\ found = names
      BY <2>3, <2>4, <2>5, <2>8
    <3>2. QED BY <2>3, <2>6, <2>7, <3>1
  <2>9. ASSUME next.entry # NotFound
        PROVE  /\ listing' = [dir |-> dir, names |-> Append(names, next.entry.name)]
               /\ answer'.ret = 1
    <3>1. ret = 1 /\ found = Append(names, next.entry.name)
      BY <2>3, <2>4, <2>5, <2>9
    <3>2. QED BY <2>3, <2>6, <2>7, <3>1
  <2>10. QED BY <2>6, <2>8, <2>9
<1>12. CASE Directory[c][i + 1] = END
  <2>1. next.entry = NotFound /\ next.initialized = FALSE
    BY <1>9, <1>10, <1>12 DEF AnswerAt
  <2>2. names = Names(dir)
    BY <1>2, <1>8, <1>9, <1>12, AtMark
  <2>3. /\ dents'.initialized = FALSE /\ listing'.dir = dir /\ listing'.names = <<>>
        /\ answer'.listed = names
    BY <1>11, <2>1
  <2>4. QED BY <1>2, <2>2, <2>3 DEF ListingInv
<1>13. CASE Directory[c][i + 1] # END
  <2>1. PICK e : e = Directory[c][i + 1]
    OBVIOUS
  <2>2. e \in Entries /\ At(dir, m, i + 1, Append(names, e.name))
    BY <1>2, <1>8, <1>9, <1>13, <2>1, AtEntry
  <2>3. /\ next.entry = e /\ next.initialized = TRUE
        /\ next.cluster = c /\ next.index = i + 1
    BY <1>9, <1>10, <1>13, <2>1 DEF AnswerAt
  <2>4. e # NotFound
    BY <2>2, EntryFields
  <2>5. /\ dents'.initialized = TRUE /\ dents'.cluster = c /\ dents'.index = i + 1
        /\ listing'.dir = dir /\ listing'.names = Append(names, e.name) /\ answer'.ret = 1
    BY <1>11, <2>3, <2>4
  <2>6. UnderWay'
    BY <1>2, <1>8, <1>9, <2>2, <2>5 DEF UnderWay
  <2>7. QED BY <1>2, <2>5, <2>6 DEF ListingInv
<1>14. QED BY <1>12, <1>13

\* A listing has not begun when the program begins.
LEMMA InitListing == Init => ListingInv
<1> SUFFICES ASSUME Init PROVE ListingInv
  OBVIOUS
<1>1. /\ dents.initialized = FALSE /\ listing.dir = Root /\ listing.names = <<>>
      /\ answer.call = "none"
  BY DEF Init
<1>2. QED BY <1>1 DEF ListingInv

\* Every call keeps the invariant.
LEMMA CallListing ==
    ASSUME \A dir \in Dirs : EndMarked(dir), ListingInv, MayCall
    PROVE  ListingInv'
<1>1. ASSUME UNCHANGED <<dents, listing>>,
             UNCHANGED answer \/ answer'.call # "getdents" \/ answer'.ret # 0
      PROVE  ListingInv'
  BY <1>1 DEF ListingInv, UnderWay
<1>2. CASE UNCHANGED vars
  BY <1>1, <1>2 DEF vars
<1>3. CASE nqp_mount_ok \/ nqp_mount_fails \/ nqp_unmount
  <2>1. UNCHANGED <<dents, listing>> /\ answer'.call # "getdents"
    BY <1>3 DEF nqp_mount_ok, nqp_mount_fails, nqp_unmount
  <2>2. QED BY <1>1, <2>1
<1>4. ASSUME NEW path \in Seq(PathNames), nqp_open(path)
      PROVE  ListingInv'
  <2>1. UNCHANGED <<dents, listing>> /\ answer'.call # "getdents"
    BY <1>4 DEF nqp_open
  <2>2. QED BY <1>1, <2>1
<1>5. ASSUME NEW fd \in Files, nqp_size(fd)
      PROVE  ListingInv'
  <2>1. UNCHANGED <<dents, listing>> /\ (UNCHANGED answer \/ answer'.call # "getdents")
    BY <1>5 DEF nqp_size
  <2>2. QED BY <1>1, <2>1
<1>6. ASSUME NEW fd, NEW count, nqp_read(fd, count) \/ ReadNotOpen(fd, count)
      PROVE  ListingInv'
  <2>1. CASE nqp_read(fd, count)
    <3>1. UNCHANGED <<dents, listing>> /\ answer'.call # "getdents"
      BY <2>1 DEF nqp_read
    <3>2. QED BY <1>1, <3>1
  <2>2. CASE ReadNotOpen(fd, count)
    <3>1. UNCHANGED <<dents, listing>> /\ answer'.call # "getdents"
      BY <2>2 DEF ReadNotOpen
    <3>2. QED BY <1>1, <3>1
  <2>3. QED BY <1>6, <2>1, <2>2
<1>7. ASSUME NEW call, NotMounted(call)
      PROVE  ListingInv'
  <2>1. UNCHANGED <<dents, listing>> /\ answer' = [call |-> call, ret |-> -1]
    BY <1>7 DEF NotMounted
  <2>2. answer'.ret # 0
    <3>1. answer'.ret = -1
      BY <2>1
    <3>2. QED BY <3>1
  <2>3. QED BY <1>1, <2>1, <2>2
<1>8. CASE Crash
  BY <1>1, <1>8 DEF Crash
<1>9. ASSUME NEW fd, nqp_close(fd)
      PROVE  ListingInv'
  <2>1. UNCHANGED <<dents, listing>> /\ answer'.call # "getdents"
    BY <1>9 DEF nqp_close
  <2>2. QED BY <1>1, <2>1
<1>10. ASSUME NEW fd, DentsRefused(fd)
       PROVE  ListingInv'
  <2>1. UNCHANGED <<dents, listing>> /\ answer' = [call |-> "getdents", ret |-> -1]
    BY <1>10 DEF DentsRefused
  <2>2. answer'.ret # 0
    <3>1. answer'.ret = -1
      BY <2>1
    <3>2. QED BY <3>1
  <2>3. QED BY <1>1, <2>1, <2>2
<1>11. QED
  BY <1>2, <1>3, <1>4, <1>5, <1>6, <1>7, <1>8, <1>9, <1>10, ListingStep DEF MayCall

-----------------------------------------------------------------------------
(* The programs of the command line and the interpreter (NqpExfatPrograms). *)

\* A descriptor that nqp_read, or nqp_getdents, refuses, or one of a file, or of a
\* directory.
Readable(fd) == fd \in Int /\ (fd >= 2 => fd \in Files)
Listable(fd) == fd \in Int /\ (fd >= 2 => fd \in Dirs)

\* A file may be read, a directory listed, and 0 is refused.
LEMMA KindsOfDescriptors ==
    /\ \A fd \in {0} \cup Files : Readable(fd)
    /\ \A fd \in {0} \cup Dirs : Listable(fd)
<1>1. Files \subseteq Int /\ Dirs \subseteq DOMAIN Directory /\ DOMAIN Directory \subseteq Clusters
  BY ExfatAssumption
<1>2. Clusters \subseteq Nat
  BY ExfatAssumption
<1>3. QED BY <1>1, <1>2 DEF Readable, Listable

\* What a program holds when it makes a call: cat and ls the descriptor they opened
\* last, paste two, the interpreter the one that was typed.
ProgramOK ==
    /\ job \in Jobs /\ arg \in Nat \ {0} /\ fds \in Seq(Int)
    /\ job.program \in {"cat", "paste"} => \A k \in 1 .. Len(fds) : Readable(fds[k])
    /\ job.program = "ls" => \A k \in 1 .. Len(fds) : Listable(fds[k])
    /\ job.program \in {"cat", "ls"} /\ pc = "read" => Len(fds) > 0
    /\ job.program = "paste" /\ pc \in {"mount", "open"} => arg \in {1, 2} /\ Len(fds) = arg - 1
    /\ job.program = "paste" /\ pc \in {"read", "read2"} => Len(fds) = 2
    /\ job.program = "cli" /\ pc = "read" => fds[1] \in Files
    /\ job.program = "cli" /\ pc = "getdents" => fds[1] \in Dirs

\* What a program gets for a path of its command line is of the kind it is made for.
LEMMA OpenReturns ==
    ASSUME job \in Jobs, NEW k \in 1 .. Len(job.args), nqp_open(job.args[k])
    PROVE  /\ job.args[k] \in Seq(PathNames)
           /\ job.program \in {"cat", "paste"} => Readable(answer'.ret)
           /\ job.program = "ls" => Listable(answer'.ret)
<1>1. PICK path, found : path = job.args[k] /\ found = Walk(path)
  OBVIOUS
<1>2. job.args \in Seq(Seq(PathNames))
  BY ProgramsAssumption
<1>3. path \in Seq(PathNames) /\ k \in DOMAIN job.args
  BY <1>1, <1>2, ElementOfSeq, LenProperties
<1>4. found \in Seq(Entries) /\ Len(found) =< Len(path)
  BY <1>1, <1>3, WalkFinds
<1>5. Len(found) \in Nat /\ Len(path) \in Nat
  BY <1>3, <1>4, LenProperties
<1>6. answer'.ret = IF Len(found) < Len(path) THEN -1
                    ELSE IF path = <<>> THEN 0 ELSE Last(found).cluster
  BY <1>1 DEF nqp_open
<1>7. CASE Len(found) < Len(path)
  <2>1. answer'.ret = -1
    BY <1>6, <1>7
  <2>2. QED BY <1>1, <1>3, <2>1 DEF Readable, Listable
<1>8. CASE ~ (Len(found) < Len(path)) /\ path = <<>>
  <2>1. answer'.ret = 0
    BY <1>6, <1>8
  <2>2. QED BY <1>1, <1>3, <2>1 DEF Readable, Listable
<1>9. CASE ~ (Len(found) < Len(path)) /\ path # <<>>
  <2>1. Len(found) = Len(path)
    BY <1>4, <1>5, <1>9
  <2>2. Found(path) /\ Entry(path) = Last(found)
    BY <1>1, <1>9, <2>1 DEF Found, Entry
  <2>3. answer'.ret \in {0} \cup (IF job.program = "ls" THEN Dirs ELSE Files)
    <3>1. answer'.ret = Last(found).cluster
      BY <1>6, <1>9
    <3>2. QED BY <1>1, <1>3, <2>2, <3>1, JobsAssumption
  <2>4. /\ job.program = "ls" => answer'.ret \in {0} \cup Dirs
        /\ job.program \in {"cat", "paste"} => answer'.ret \in {0} \cup Files
    BY <2>3
  <2>5. QED BY <1>1, <1>3, <2>4, KindsOfDescriptors
<1>10. QED BY <1>7, <1>8, <1>9

\* Reading a descriptor that may be read is a call, and so is listing.
LEMMA ReadsAndListsAreCalls ==
    ASSUME NEW fd, NEW count \in Nat \ {0}
    PROVE  /\ Readable(fd) /\ Reads(fd, count) => MayCall
           /\ Listable(fd) /\ Lists(fd) => MayCall
<1>1. ASSUME Readable(fd), Reads(fd, count) PROVE MayCall
  <2>1. CASE nqp_read(fd, count)
    <3>1. fd \in Files
      BY <1>1, <2>1 DEF Readable, nqp_read
    <3>2. QED BY <2>1, <3>1 DEF MayCall
  <2>2. CASE ReadNotOpen(fd, count)
    BY <2>2 DEF MayCall
  <2>3. QED BY <1>1, <2>1, <2>2 DEF Reads
<1>2. ASSUME Listable(fd), Lists(fd) PROVE MayCall
  BY <1>2 DEF Listable, Lists, MayCall
<1>3. QED BY <1>1, <1>2

\* Every step of a program is a call, or none.
LEMMA ProgramCalls ==
    ASSUME ProgramOK, [ProgramsNext]_allVars
    PROVE  MayCall
<1> USE DEF Runs, Calls
<1>1. CASE UNCHANGED vars
  BY <1>1 DEF MayCall
<1>2. CASE AnyCall
  BY <1>2, NextIsCall DEF AnyCall
<1>3. CASE Mount \/ Unmount
  BY <1>3 DEF Mount, Unmount, MayCall
<1>4. CASE Open
  <2>1. arg \in 1 .. Len(job.args) /\ nqp_open(job.args[arg])
    <3>1. Len(job.args) \in Nat
      BY ProgramsAssumption, LenProperties DEF ProgramOK
    <3>2. arg \in Nat \ {0} /\ arg <= Len(job.args) /\ nqp_open(job.args[arg])
      BY <1>4 DEF Open, Args, ProgramOK
    <3>3. QED BY <3>1, <3>2
  <2>2. job.args[arg] \in Seq(PathNames)
    BY <2>1, OpenReturns DEF ProgramOK
  <2>3. QED BY <2>1, <2>2 DEF MayCall
<1>5. CASE Close
  BY <1>5 DEF Close, MayCall
<1>6. 1 \in Nat \ {0} /\ CHUNK \in Nat \ {0}
  BY ProgramsAssumption
<1>7. Len(fds) \in Nat
  BY LenProperties DEF ProgramOK
<1>8. CASE cat_loop
  <2>1. job.program = "cat" /\ pc = "read" /\ Reads(fds[Len(fds)], CHUNK)
    BY <1>8 DEF cat_loop, Last
  <2>2. Len(fds) \in 1 .. Len(fds)
    BY <1>7, <2>1 DEF ProgramOK
  <2>3. Readable(fds[Len(fds)])
    BY <2>1, <2>2 DEF ProgramOK
  <2>4. QED BY <1>6, <2>1, <2>3, ReadsAndListsAreCalls
<1>9. CASE ls_loop
  <2>1. job.program = "ls" /\ pc = "read" /\ Lists(fds[Len(fds)])
    BY <1>9 DEF ls_loop, Last
  <2>2. Len(fds) \in 1 .. Len(fds)
    BY <1>7, <2>1 DEF ProgramOK
  <2>3. Listable(fds[Len(fds)])
    BY <2>1, <2>2 DEF ProgramOK
  <2>4. QED BY <1>6, <2>1, <2>3, ReadsAndListsAreCalls
<1>10. CASE paste_first \/ paste_second
  <2>1. job.program = "paste" /\ pc \in {"read", "read2"}
    BY <1>10 DEF paste_first, paste_second
  <2>2. Reads(fds[1], 1) \/ Reads(fds[2], 1)
    BY <1>10 DEF paste_first, paste_second, paste_turn
  <2>3. Readable(fds[1]) /\ Readable(fds[2])
    BY <2>1 DEF ProgramOK
  <2>4. QED BY <1>6, <2>2, <2>3, ReadsAndListsAreCalls
<1>11. CASE cli_command
  <2>1. \A path \in Paths : nqp_open(path) => MayCall
    BY PathsAreNames DEF MayCall
  <2>2. QED BY <1>11, <2>1 DEF cli_command, MayCall
<1>12. CASE cli_loop
  BY <1>1, <1>12 DEF cli_loop
<1>13. CASE cli_step
  <2>1. \/ pc = "read" /\ Reads(fds[1], CHUNK)
        \/ pc = "getdents" /\ Lists(fds[1])
    BY <1>13 DEF cli_step
  <2>2. /\ pc = "read" => Readable(fds[1])
        /\ pc = "getdents" => Listable(fds[1])
    <3>1. job.program = "cli"
      BY <1>13 DEF cli_step
    <3>2. /\ pc = "read" => fds[1] \in Files
          /\ pc = "getdents" => fds[1] \in Dirs
      BY <3>1 DEF ProgramOK
    <3>3. QED BY <3>2, KindsOfDescriptors
  <2>3. QED BY <1>6, <2>1, <2>2, ReadsAndListsAreCalls
<1>14. CASE cli_crash \/ cleanup
  BY <1>14 DEF cli_crash, cleanup, MayCall
<1>15. CASE UNCHANGED allVars
  BY <1>1, <1>15 DEF allVars
<1>16. QED
  BY <1>2, <1>3, <1>4, <1>5, <1>8, <1>9, <1>10, <1>11, <1>12, <1>13, <1>14, <1>15
  DEF ProgramsNext, CommandLine

\* And leaves the program with descriptors of its kind.
LEMMA ProgramStays ==
    ASSUME ProgramOK, [ProgramsNext]_allVars
    PROVE  ProgramOK'
<1> USE DEF Runs, Calls
<1>1. ASSUME UNCHANGED <<job, arg, fds>>,
             \/ pc' = pc
             \/ job.program \in {"cat", "ls", "paste"} /\ pc' \in {"close", "unmount", "done"}
             \/ job.program = "cli" /\ pc' \in {"prompt", "done"}
             \/ job.program \in {"cat", "ls", "paste"} /\ pc = "mount" /\ pc' = "open"
             \/ job.program = "paste" /\ pc \in {"read", "read2"} /\ pc' \in {"read", "read2"}
      PROVE  ProgramOK'
  BY <1>1 DEF ProgramOK
<1>2. CASE UNCHANGED programVars
  BY <1>1, <1>2 DEF programVars
<1>3. CASE AnyCall
  BY <1>2, <1>3 DEF AnyCall
<1>4. CASE Mount
  BY <1>1, <1>4 DEF Mount
<1>5. CASE Open
  <2>1. PICK ret : ret = answer'.ret
    OBVIOUS
  <2>2. /\ job.program \in {"cat", "ls", "paste"} /\ pc = "open" /\ arg =< Len(job.args)
        /\ nqp_open(job.args[arg]) /\ fds' = Append(fds, ret) /\ job' = job
        /\ IF job.program = "paste" /\ arg < 2
           THEN arg' = arg + 1 /\ pc' = pc
           ELSE pc' = "read" /\ arg' = arg
    BY <1>5, <2>1 DEF Open, Args
  <2>3. job \in Jobs /\ arg \in Nat \ {0} /\ fds \in Seq(Int) /\ Len(fds) \in Nat
    BY LenProperties DEF ProgramOK
  <2>4. arg \in 1 .. Len(job.args)
    <3>1. job.args \in Seq(Seq(PathNames))
      BY <2>3, ProgramsAssumption
    <3>2. Len(job.args) \in Nat
      BY <3>1, LenProperties
    <3>3. QED BY <2>2, <2>3, <3>2
  <2>5. /\ job.program \in {"cat", "paste"} => Readable(ret)
        /\ job.program = "ls" => Listable(ret)
    BY <2>1, <2>2, <2>3, <2>4, OpenReturns
  <2>6. ret \in Int
    BY <2>2, <2>5 DEF Readable, Listable
  <2>7. /\ fds' \in Seq(Int) /\ Len(fds') = Len(fds) + 1 /\ fds'[Len(fds) + 1] = ret
        /\ \A k \in 1 .. Len(fds) : fds'[k] = fds[k]
    BY <2>2, <2>3, <2>6, AppendProperties
  <2>8. \A k \in 1 .. Len(fds') : k \in 1 .. Len(fds) \/ k = Len(fds) + 1
    BY <2>3, <2>7
  <2>9. /\ job.program \in {"cat", "paste"} => \A k \in 1 .. Len(fds') : Readable(fds'[k])
        /\ job.program = "ls" => \A k \in 1 .. Len(fds') : Listable(fds'[k])
    BY <2>5, <2>7, <2>8 DEF ProgramOK
  <2>10. job.program = "paste" => arg \in {1, 2} /\ Len(fds) = arg - 1
    BY <2>2 DEF ProgramOK
  <2>11. /\ job.program = "paste" /\ pc' \in {"mount", "open"}
               => arg' \in {1, 2} /\ Len(fds') = arg' - 1
         /\ job.program = "paste" /\ pc' \in {"read", "read2"} => Len(fds') = 2
    BY <2>2, <2>3, <2>7, <2>10
  <2>12. arg' \in Nat \ {0} /\ Len(fds') > 0
    BY <2>2, <2>3, <2>7
  <2>13. QED BY <2>2, <2>3, <2>7, <2>9, <2>11, <2>12 DEF ProgramOK
<1>6. CASE Close
  <2>1. /\ job.program \in {"cat", "ls", "paste"} /\ UNCHANGED <<job, fds>> /\ arg' = arg + 1
        /\ pc' = IF job.program = "cat" THEN "open" ELSE "unmount"
    BY <1>6 DEF Close
  <2>2. arg' \in Nat \ {0}
    BY <2>1 DEF ProgramOK
  <2>3. QED BY <2>1, <2>2 DEF ProgramOK
<1>7. CASE Unmount
  BY <1>1, <1>7 DEF Unmount
<1>8. CASE cat_loop
  <2>1. job.program = "cat" /\ UNCHANGED <<job, arg, fds>> /\ (pc' = pc \/ pc' = "close")
    BY <1>8 DEF cat_loop
  <2>2. QED BY <1>1, <2>1
<1>9. CASE ls_loop
  <2>1. job.program = "ls" /\ UNCHANGED <<job, arg, fds>> /\ (pc' = pc \/ pc' = "close")
    BY <1>9 DEF ls_loop
  <2>2. QED BY <1>1, <2>1
<1>10. CASE paste_first \/ paste_second
  <2>1. /\ job.program = "paste" /\ pc \in {"read", "read2"} /\ UNCHANGED <<job, arg, fds>>
        /\ pc' = pc \/ pc' \in {"read", "read2", "close"}
    BY <1>10 DEF paste_first, paste_second, paste_turn
  <2>2. QED BY <1>1, <2>1
<1>11. CASE cli_command \/ cli_crash
  BY <1>2, <1>11 DEF cli_command, cli_crash
<1>12. CASE cli_loop
  <2>1. PICK call \in {"read", "getdents"}, fd \in Files \cup Dirs :
            /\ pc' = call /\ fds' = <<fd>>
            /\ fd \in IF call = "read" THEN Files ELSE Dirs
    BY <1>12 DEF cli_loop
  <2>2. job.program = "cli" /\ UNCHANGED <<job, arg>>
    BY <1>12 DEF cli_loop
  <2>3. fd \in Int
    BY <2>1, KindsOfDescriptors DEF Readable, Listable
  <2>4. fds' \in Seq(Int) /\ fds'[1] = fd
    BY <2>1, <2>3, SequenceOfOne
  <2>5. QED BY <2>1, <2>2, <2>4 DEF ProgramOK
<1>13. CASE cli_step
  <2>1. /\ job.program = "cli" /\ UNCHANGED <<job, arg>>
        /\ \/ pc' = pc /\ fds' = fds
           \/ pc' = "prompt" /\ fds' = <<>>
    BY <1>13 DEF cli_step
  <2>2. CASE pc' = pc /\ fds' = fds
    BY <1>1, <2>1, <2>2
  <2>3. CASE pc' = "prompt" /\ fds' = <<>>
    <3>1. fds' \in Seq(Int)
      BY <2>3
    <3>2. QED BY <2>1, <2>3, <3>1 DEF ProgramOK
  <2>4. QED BY <2>1, <2>2, <2>3
<1>14. CASE cleanup
  BY <1>1, <1>14 DEF cleanup
<1>15. CASE UNCHANGED allVars
  BY <1>2, <1>15 DEF allVars
<1>16. QED
  BY <1>3, <1>4, <1>5, <1>6, <1>7, <1>8, <1>9, <1>10, <1>11, <1>12, <1>13, <1>14, <1>15
  DEF ProgramsNext, CommandLine

\* A program has opened nothing when it begins.
LEMMA ProgramBegins == ProgramsInit => Init /\ ProgramOK
<1> SUFFICES ASSUME ProgramsInit PROVE ProgramOK
  BY DEF ProgramsInit
<1>1. job \in Jobs /\ arg = 1 /\ fds = <<>> /\ pc \in {"prompt", "mount"}
  BY DEF ProgramsInit
<1>2. fds \in Seq(Int) /\ Len(fds) = 0
  BY <1>1, EmptySeq
<1>3. QED BY <1>1, <1>2 DEF ProgramOK
-----------------------------------------------------------------------------
(* The theorems: of any calls in any order, and of the programs.           *)

\* The reads are in order whatever calls are made, and whichever program runs.
THEOREM ReadsInvariance == (Spec => []ReadsInv) /\ (ProgramsSpec => [](ReadsInv /\ ProgramOK))
<1>1. Spec => []ReadsInv
  BY InitReads, NextIsCall, CallReads, PTL DEF Spec
<1>2. ReadsInv /\ ProgramOK /\ [ProgramsNext]_allVars => (ReadsInv /\ ProgramOK)'
  BY ProgramCalls, ProgramStays, CallReads
<1>3. ProgramsInit => ReadsInv /\ ProgramOK
  BY InitReads, ProgramBegins
<1>4. ProgramsSpec => [](ReadsInv /\ ProgramOK)
  BY <1>2, <1>3, PTL DEF ProgramsSpec
<1>5. QED BY <1>1, <1>4

\* The table says where the reader of a descriptor opened once is, and it is never
\* behind the end of its file (nqp_open, nqp_read: open_files[slot].offset).
THEOREM OffsetsMatch ==
    (Spec => []OffsetIsWhatWasRead) /\ (ProgramsSpec => []OffsetIsWhatWasRead)
<1>1. ReadsInv => OffsetIsWhatWasRead
  <2> SUFFICES ASSUME ReadsInv PROVE OffsetIsWhatWasRead
    OBVIOUS
  <2>1. TypeOK
    BY DEF ReadsInv, TableOK, SlotOK, OthersOK, TypeOK
  <2>2. ASSUME NEW fd \in Files, SlotsOf(fd) # {}
        PROVE  open_files[Min(SlotsOf(fd))].offset = Len(got[fd])
    BY <2>2, SlotIsFirst DEF ReadsInv, TableOK
  <2>3. QED BY <2>1, <2>2 DEF OffsetIsWhatWasRead, OpenedOnce
<1>2. QED BY <1>1, ReadsInvariance, PTL

\* What is read with a descriptor that nqp_open has returned once is its file from
\* the first byte on, in order and without a gap, and not more than nqp_size says
\* (nqp_read, nqp_size).
THEOREM ReadsStayInOrder ==
    (Spec => []ReadsInOrder) /\ (ProgramsSpec => []ReadsInOrder)
<1>1. ReadsInv => ReadsInOrder
  <2> SUFFICES ASSUME ReadsInv PROVE ReadsInOrder
    OBVIOUS
  <2>1. TableOK(open_files, got) /\ BytesOK(got) /\ SizeOK
    BY DEF ReadsInv
  <2>2. ASSUME answer.call = "size", answer.ret >= 0
        PROVE  Len(got[answer.fd]) <= answer.ret
    <3>1. answer.fd \in Files /\ answer.ret = SizeOf(answer.fd)
      BY <2>1, <2>2 DEF SizeOK
    <3>2. PICK e \in Entries : e.cluster = answer.fd /\ e.size = SizeOf(answer.fd)
      BY <2>2, <3>1, SizeIsThatOfAnEntry
    <3>3. Len(got[answer.fd]) =< e.size
      BY <2>1, <3>1, <3>2, ReadWithinFile
    <3>4. QED BY <3>1, <3>2, <3>3
  <2>3. ASSUME NEW fd \in Files, NEW i \in Nat \ {0}, i =< Len(got[fd])
        PROVE  got[fd][i] = ByteAt(fd, i - 1) /\ got[fd][i] \in Bytes
    <3>1. got[fd] \in Seq(Bytes) /\ Len(got[fd]) \in Nat
      BY <2>1, LenProperties DEF BytesOK
    <3>2. i \in 1 .. Len(got[fd])
      BY <2>3, <3>1
    <3>3. QED BY <2>1, <3>1, <3>2, ElementOfSeq DEF BytesOK
  <2>4. ASSUME NEW fd \in Files, got[fd] # <<>>
        PROVE  fd \in Clusters /\ got[fd][1] = <<fd, 0>>
    <3>1. got[fd] \in Seq(Bytes) /\ Len(got[fd]) \in Nat /\ 1 =< Len(got[fd])
      BY <2>1, <2>4, LenProperties, EmptySeq DEF BytesOK
    <3>2. got[fd][1] = ByteAt(fd, 0) /\ got[fd][1] \in Bytes
      BY <2>3, <3>1
    <3>3. fd \in Clusters
      BY <2>1, <2>4 DEF BytesOK
    <3>4. Skip(fd, 0) = fd
      BY <3>3, SkipSteps DEF Links
    <3>5. 0 \div CLUSTER_SIZE = 0 /\ 0 % CLUSTER_SIZE = 0
      BY ExfatAssumption
    <3>6. ByteAt(fd, 0) = <<Skip(fd, 0), 0>>
      BY <3>5 DEF ByteAt
    <3>7. QED BY <3>2, <3>3, <3>4, <3>6
  <2>5. ASSUME NEW fd \in Files, NEW i \in 1 .. Len(got[fd]) - 1
        PROVE  Follows(got[fd][i], got[fd][i + 1])
    <3>1. got[fd] \in Seq(Bytes) /\ Len(got[fd]) \in Nat
      BY <2>1, LenProperties DEF BytesOK
    <3>2. got[fd] # <<>>
      BY <2>5, <3>1, EmptySeq
    <3>3. fd \in Links
      BY <2>4, <3>2 DEF Links
    <3>4. i \in Nat \ {0} /\ i + 1 \in Nat \ {0} /\ i =< Len(got[fd]) /\ i + 1 =< Len(got[fd])
          /\ i - 1 \in Nat /\ (i + 1) - 1 = (i - 1) + 1
      BY <2>5, <3>1
    <3>5. got[fd][i] = ByteAt(fd, i - 1) /\ got[fd][i] \in Bytes
      BY <2>3, <3>4
    <3>6. got[fd][i + 1] = ByteAt(fd, (i - 1) + 1)
      BY <2>3, <3>4
    <3>7. QED BY <3>3, <3>4, <3>5, <3>6, NextByteFollows
  <2>6. QED BY <2>2, <2>4, <2>5 DEF ReadsInOrder, OpenedOnce
<1>2. QED BY <1>1, ReadsInvariance, PTL

\* If every directory has END behind its entries, a listing yields the names of
\* the directory it was begun with, each once and in order, and ends behind the
\* last (nqp_getdents).  A directory whose entries fill its last cluster has no
\* END: behind it nqp_getdents does not begin anew.
THEOREM ListingsInOrder ==
    ASSUME \A dir \in Dirs : EndMarked(dir)
    PROVE  (Spec => []ListingInOrder) /\ (ProgramsSpec => []ListingInOrder)
<1>1. Init => ListingInv
  BY InitListing
<1>2. ListingInv /\ [Next]_vars => ListingInv'
  BY NextIsCall, CallListing
<1>3. ListingInv => ListingInOrder
  <2> SUFFICES ASSUME ListingInv PROVE ListingInOrder
    OBVIOUS
  <2>1. listing.dir \in DOMAIN Directory
    BY ExfatAssumption DEF ListingInv
  <2>2. CASE dents.initialized
    <3>1. PICK k : At(listing.dir, k, dents.index, listing.names)
      BY <2>2 DEF ListingInv, UnderWay
    <3>2. IsPrefix(listing.names, Names(listing.dir))
      BY <2>1, <3>1, AtIsPrefix
    <3>3. QED BY <3>2 DEF ListingInv, ListingInOrder
  <2>3. CASE ~ dents.initialized
    <3>1. listing.names = <<>>
      BY <2>3 DEF ListingInv
    <3>2. NamesUpTo(listing.dir)[0] = <<>> /\ 0 \in Lengths
      BY <2>1, NamesUpToSteps, ExfatAssumption DEF Lengths
    <3>3. IsPrefix(listing.names, Names(listing.dir))
      BY <2>1, <3>1, <3>2, NamesUpToIsPrefix
    <3>4. QED BY <3>3 DEF ListingInv, ListingInOrder
  <2>4. QED BY <2>2, <2>3
<1>4. Spec => []ListingInOrder
  BY <1>1, <1>2, <1>3, PTL DEF Spec
<1>5. ListingInv /\ ProgramOK /\ [ProgramsNext]_allVars => (ListingInv /\ ProgramOK)'
  BY ProgramCalls, ProgramStays, CallListing
<1>6. ProgramsInit => ListingInv /\ ProgramOK
  BY <1>1, ProgramBegins
<1>7. ProgramsSpec => []ListingInOrder
  BY <1>3, <1>5, <1>6, PTL DEF ProgramsSpec
<1>8. QED BY <1>4, <1>7
-----------------------------------------------------------------------------
(* What the programs print.  First, paths and the slots they take.          *)

\* The first k components of a path are found as they are on the whole path.
LEMMA WalkOfPart ==
    ASSUME NEW path \in Seq(PathNames), NEW k \in 1 .. Len(path), k =< Len(Walk(path))
    PROVE  /\ Len(Walk(SubSeq(path, 1, k))) = k
           /\ Walk(SubSeq(path, 1, k))[k] = Walk(path)[k]
<1>1. PICK n, p, f : n = Len(path) /\ p = SubSeq(path, 1, k) /\ WalkSteps(f, path)
  BY WalkTakesSteps
<1>2. /\ n \in Nat /\ k \in 1 .. n /\ p \in Seq(PathNames) /\ Len(p) = k
      /\ \A i \in 1 .. k : p[i] = path[i]
  <2>1. n \in Nat /\ k \in 1 .. n
    BY <1>1, LenProperties
  <2>2. \A i \in 1 .. k : path[i] \in PathNames
    BY <1>1, <2>1, ElementOfSeq
  <2>3. 1 \in 1 .. Len(path) + 1 /\ k \in 1 - 1 .. Len(path)
    BY <1>1, <2>1
  <2>4. p \in Seq(PathNames) /\ Len(p) = k /\ \A i \in 1 .. k : p[i] = path[i]
    <3>1. p = [i \in 1 .. k |-> path[i]]
      BY <1>1, <2>1
    <3>2. p \in [1 .. k -> PathNames]
      BY <2>2, <3>1
    <3>3. k \in Nat
      BY <2>1
    <3>4. p \in Seq(PathNames) /\ Len(p) = k
      BY <3>2, <3>3, LenProperties
    <3>5. QED BY <3>1, <3>4
  <2>5. QED BY <2>1, <2>4
<1>3. PICK h : WalkSteps(h, p)
  BY <1>2, WalkTakesSteps
<1>4. /\ f[0] = <<>> /\ f[n] = Walk(path)
      /\ \A i \in 1 .. n : f[i] = WalkStep(path, i, f[i - 1])
      /\ \A i \in 0 .. n : f[i] \in Seq(Entries) /\ Len(f[i]) =< i /\ Len(f[i]) \in Nat
  BY <1>1, LenProperties DEF WalkSteps
<1>5. /\ h[0] = <<>> /\ h[k] = Walk(p)
      /\ \A i \in 1 .. k : h[i] = WalkStep(p, i, h[i - 1])
  BY <1>2, <1>3 DEF WalkSteps
<1>6. h[k] = f[k]
  <2> DEFINE A == {i \in 0 .. k : h[i] = f[i]}
  <2>1. 0 \in A
    BY <1>2, <1>4, <1>5
  <2>2. ASSUME NEW i \in 0 .. k - 1, i \in A
        PROVE  i + 1 \in A
    <3>1. i + 1 \in 1 .. k /\ i + 1 \in 1 .. n /\ i + 1 \in 0 .. k /\ (i + 1) - 1 = i
      BY <1>2
    <3>2. p[i + 1] = path[i + 1]
      BY <1>2, <3>1
    <3>3. WalkStep(p, i + 1, f[i]) = WalkStep(path, i + 1, f[i])
      BY <3>2 DEF WalkStep
    <3>4. QED BY <1>4, <1>5, <2>2, <3>1, <3>3
  <2>3. \A i \in 0 .. k : i \in A
    <3>1. k \in Nat
      BY <1>2
    <3> HIDE DEF A
    <3>2. QED BY <2>1, <2>2, <3>1, SetInduction
  <2>4. k \in 0 .. k
    BY <1>2
  <2>5. QED BY <2>3, <2>4
<1>7. Len(f[n]) >= k => Len(f[k]) = k /\ f[k][k] = f[n][k]
  <2> DEFINE Same(j) == Len(f[j]) >= k => Len(f[k]) = k /\ f[k][k] = f[j][k]
             A == {m \in 0 .. n - k : Same(k + m)}
  <2>1. 0 \in A
    <3>1. k \in 0 .. n /\ k + 0 = k /\ 0 \in 0 .. n - k
      BY <1>2
    <3>2. Len(f[k]) >= k => Len(f[k]) = k
      BY <1>2, <1>4, <3>1
    <3>3. QED BY <3>1, <3>2
  <2>2. ASSUME NEW m \in 0 .. (n - k) - 1, m \in A
        PROVE  m + 1 \in A
    <3>1. PICK j, before : j = k + m /\ before = f[j]
      OBVIOUS
    <3>2. /\ j \in 0 .. n /\ j + 1 \in 1 .. n /\ (j + 1) - 1 = j /\ k + (m + 1) = j + 1
          /\ m + 1 \in 0 .. n - k /\ k =< j /\ Same(j)
      BY <1>2, <2>2, <3>1
    <3>3. before \in Seq(Entries) /\ Len(before) \in Nat
      BY <1>4, <3>1, <3>2
    <3>4. f[j + 1] = WalkStep(path, j + 1, before)
      BY <1>4, <3>1, <3>2
    <3>5. \/ f[j + 1] = before
          \/ ~ (Len(before) < j) /\ \E e : f[j + 1] = Append(before, e)
      BY <3>2, <3>4 DEF WalkStep
    <3>6. ASSUME f[j + 1] = before
          PROVE  Same(j + 1)
      BY <3>1, <3>2, <3>6
    <3>7. ASSUME ~ (Len(before) < j), NEW e, f[j + 1] = Append(before, e)
          PROVE  Same(j + 1)
      <4>1. Len(before) >= k
        BY <1>2, <3>2, <3>3, <3>7
      <4>2. Append(before, e)[k] = before[k]
        BY <1>2, <3>3, <4>1
      <4>3. QED BY <3>1, <3>2, <3>7, <4>1, <4>2
    <3> HIDE DEF Same
    <3>8. Same(j + 1)
      BY <3>5, <3>6, <3>7
    <3>9. QED BY <3>2, <3>8
  <2>3. n - k \in Nat /\ n - k \in 0 .. n - k /\ k + (n - k) = n
    BY <1>2
  <2>4. \A m \in 0 .. n - k : m \in A
    <3> HIDE DEF A
    <3>1. QED BY <2>1, <2>2, <2>3, SetInduction
  <2>5. Same(k + (n - k))
    <3> HIDE DEF Same
    <3>1. QED BY <2>3, <2>4
  <2>6. QED BY <2>3, <2>5
<1>8. Len(f[n]) >= k
  BY <1>1, <1>2, <1>4
<1>9. QED BY <1>1, <1>4, <1>5, <1>6, <1>7, <1>8

\* A path leads through directories, the component it leads to excepted.
LEMMA WayOfDirectories ==
    ASSUME NEW path \in Seq(PathNames), LeadsThroughDirectories(path),
           NEW k \in 1 .. Len(Walk(path)), k # Len(path)
    PROVE  Walk(path)[k].cluster \in DOMAIN Directory
<1>1. Walk(path) \in Seq(Entries) /\ Len(Walk(path)) =< Len(path)
  BY WalkFinds
<1>2. Len(Walk(path)) \in Nat /\ Len(path) \in Nat
  BY <1>1, LenProperties
<1>3. k \in 1 .. Len(path) /\ k \in 1 .. Len(path) - 1 /\ k =< Len(Walk(path))
  BY <1>1, <1>2
<1>4. PICK before : before = Walk(SubSeq(path, 1, k))
  OBVIOUS
<1>5. Len(before) = k /\ before[k] = Walk(path)[k]
  BY <1>3, <1>4, WalkOfPart
<1>6. before[k].cluster \in DOMAIN Directory
  BY <1>3, <1>4, <1>5 DEF LeadsThroughDirectories
<1>7. QED BY <1>5, <1>6

\* The slots that a command line takes: none, and with every path as many more as it
\* has components that are found.
LEMMA SlotsForSteps ==
    ASSUME NEW args \in Seq(Seq(PathNames))
    PROVE  /\ SlotsFor(args)[0] = 0
           /\ \A k \in 1 .. Len(args) :
                 SlotsFor(args)[k] = SlotsFor(args)[k - 1] + Len(Walk(args[k]))
           /\ \A k \in 0 .. Len(args) : SlotsFor(args)[k] \in Nat
<1> DEFINE n == Len(args)
           of(k) == Len(Walk(args[k]))
           Body(f) == [k \in 0 .. n |-> IF k = 0 THEN 0 ELSE f[k - 1] + of(k)]
           upTo == CHOOSE f : f = Body(f)
           step == [k \in 1 .. n |-> [m \in Nat |-> m + of(k)]]
<1>1. n \in Nat
  BY LenProperties
<1>2. \A k \in 1 .. n : of(k) \in Nat
  <2> SUFFICES ASSUME NEW k \in 1 .. n PROVE of(k) \in Nat
    OBVIOUS
  <2>1. args[k] \in Seq(PathNames)
    BY ElementOfSeq
  <2>2. Walk(args[k]) \in Seq(Entries)
    BY <2>1, WalkFinds
  <2>3. QED BY <2>2, LenProperties
<1> HIDE DEF n, of
<1>3. upTo = Body(upTo)
  <2>1. step \in [1 .. n -> [Nat -> Nat]]
    BY <1>2
  <2>2. PICK F \in [0 .. n -> Nat] : Solves(F, n, 0, step)
    <3> HIDE DEF step
    <3> QED BY <1>1, <2>1, RecursionHasSolution
  <2>3. \A k \in 1 .. n : F[k] = F[k - 1] + of(k)
    <3> SUFFICES ASSUME NEW k \in 1 .. n PROVE F[k] = F[k - 1] + of(k)
      OBVIOUS
    <3>1. k - 1 \in 0 .. n
      BY <1>1
    <3>2. F[k - 1] \in Nat
      BY <2>2, <3>1
    <3>3. F[k] = step[k][F[k - 1]]
      BY <2>2 DEF Solves
    <3>4. QED BY <3>2, <3>3
  <2>4. F = Body(F)
    <3>1. ASSUME NEW k \in 0 .. n
          PROVE  F[k] = Body(F)[k]
      <4>1. CASE k = 0
        BY <2>2, <4>1 DEF Solves
      <4>2. CASE k # 0
        <5>1. k \in 1 .. n
          BY <1>1, <4>2
        <5>2. QED BY <2>3, <4>2, <5>1
      <4>3. QED BY <4>1, <4>2
    <3>2. QED BY <2>2, <3>1
  <2> HIDE DEF Body
  <2>5. QED BY <2>4
<1>4. SlotsFor(args) = upTo
  BY DEF SlotsFor, n, of
<1> HIDE DEF upTo
<1>5. upTo[0] = 0 /\ \A k \in 1 .. n : upTo[k] = upTo[k - 1] + of(k)
  <2>1. \A k \in 0 .. n : upTo[k] = IF k = 0 THEN 0 ELSE upTo[k - 1] + of(k)
    BY <1>3
  <2>2. 0 \in 0 .. n /\ \A k \in 1 .. n : k \in 0 .. n /\ k # 0
    BY <1>1
  <2>3. QED BY <2>1, <2>2
<1>6. \A k \in 0 .. n : upTo[k] \in Nat
  <2>1. PICK S : S = Nat
    OBVIOUS
  <2>2. upTo[0] \in S /\ \A k \in 1 .. n : upTo[k - 1] \in S => upTo[k] \in S
    BY <1>2, <1>5, <2>1
  <2>3. \A k \in 0 .. n : upTo[k] \in S
    BY <1>1, <2>2, RecursionStaysIn
  <2>4. QED BY <2>1, <2>3
<1>7. QED BY <1>4, <1>5, <1>6 DEF n, of

\* An earlier path of a command line takes earlier slots.
LEMMA SlotsForGrow ==
    ASSUME NEW args \in Seq(Seq(PathNames)), NEW k \in 0 .. Len(args), NEW j \in 0 .. k
    PROVE  SlotsFor(args)[j] =< SlotsFor(args)[k]
<1>1. PICK n, F : n = Len(args) /\ F = SlotsFor(args)
  OBVIOUS
<1>2. n \in Nat /\ k \in 0 .. n /\ \A i \in 0 .. n : F[i] \in Nat
  BY <1>1, LenProperties, SlotsForSteps
<1>3. ASSUME NEW i \in 1 .. n
      PROVE  F[i - 1] =< F[i]
  <2>1. Len(Walk(args[i])) \in Nat
    <3>1. args[i] \in Seq(PathNames)
      BY <1>1, <1>3, ElementOfSeq
    <3>2. Walk(args[i]) \in Seq(Entries)
      BY <3>1, WalkFinds
    <3>3. QED BY <3>2, LenProperties
  <2>2. F[i] = F[i - 1] + Len(Walk(args[i]))
    <3>1. i \in 1 .. Len(args)
      BY <1>1, <1>3
    <3>2. SlotsFor(args)[i] = SlotsFor(args)[i - 1] + Len(Walk(args[i]))
      BY <3>1, SlotsForSteps
    <3>3. QED BY <1>1, <3>2
  <2>3. i - 1 \in 0 .. n
    BY <1>2
  <2>4. QED BY <1>2, <2>1, <2>2, <2>3
<1> DEFINE A == {m \in 0 .. k - j : F[j] =< F[j + m]}
<1>4. 0 \in A
  BY <1>2
<1>5. ASSUME NEW m \in 0 .. (k - j) - 1, m \in A
      PROVE  m + 1 \in A
  <2>1. /\ j + m \in 0 .. n /\ j + (m + 1) \in 1 .. n /\ j + (m + 1) \in 0 .. n /\ j \in 0 .. n
        /\ (j + (m + 1)) - 1 = j + m /\ m + 1 \in 0 .. k - j
    BY <1>2
  <2>2. F[j + m] =< F[j + (m + 1)]
    BY <1>3, <2>1
  <2>3. F[j] =< F[j + m] /\ F[j] \in Nat /\ F[j + m] \in Nat /\ F[j + (m + 1)] \in Nat
    BY <1>2, <1>5, <2>1
  <2>4. F[j] =< F[j + (m + 1)]
    BY <2>2, <2>3
  <2>5. QED BY <2>1, <2>4
<1>6. k - j \in Nat /\ k - j \in 0 .. k - j /\ j + (k - j) = k
  BY <1>2
<1>7. \A m \in 0 .. k - j : m \in A
  <2> HIDE DEF A
  <2> QED BY <1>4, <1>5, <1>6, SetInduction
<1>8. QED BY <1>1, <1>6, <1>7

\* The first m slots of a table are in use, and no other.
InUse(table, m) == \A s \in Slots : table[s].in_use <=> s < m

\* A component takes the first slot that is not in use, if there is one.
LEMMA RecordFills ==
    ASSUME NEW table, NEW g, TableOK(table, g), NEW m \in Nat, InUse(table, m), NEW e \in Entries
    PROVE  /\ InUse(Record(table, e), m + 1)
           /\ \A s \in Slots : s # m => Record(table, e)[s] = table[s]
           /\ m \in Slots => Record(table, e)[m].start_cluster = e.cluster
<1> DEFINE free == FreeSlots(table)
           new == [in_use |-> TRUE, start_cluster |-> e.cluster,
                   file_size |-> e.size, offset |-> 0]
<1>1. table \in [Slots -> SlotType]
  BY DEF TableOK
<1>2. Slots \subseteq Nat /\ \A s \in Slots : s \in free <=> ~ (s < m)
  BY SlotNumbers DEF FreeSlots, InUse
<1>3. CASE free = {}
  <2>1. Record(table, e) = table
    BY <1>3 DEF Record
  <2>2. m \notin Slots
    <3>1. ~ (m < m)
      OBVIOUS
    <3>2. QED BY <1>2, <1>3, <3>1
  <2>3. \A s \in Slots : s < m
    BY <1>2, <1>3
  <2>4. \A s \in Slots : s < m + 1
    BY <1>2, <2>3
  <2>5. InUse(table, m + 1)
    BY <2>3, <2>4 DEF InUse
  <2>6. QED BY <2>1, <2>2, <2>5
<1>4. CASE free # {}
  <2>1. PICK n : n = Min(free)
    OBVIOUS
  <2>2. n \in free /\ \A s \in free : n =< s
    <3>1. free \in SUBSET Nat
      BY SlotNumbers DEF FreeSlots
    <3> HIDE DEF free
    <3>2. QED BY <1>4, <2>1, <3>1, MinIsLeast
  <2>3. n \in Slots /\ n \in Nat /\ ~ (n < m)
    BY <1>2, <2>2 DEF FreeSlots
  <2>4. m \in Slots
    <3>1. n =< MAX_OPEN_FILES - 1 /\ MAX_OPEN_FILES \in Nat /\ m =< n
      BY <2>3, ExfatAssumption DEF Slots
    <3>2. QED BY <2>3, <3>1 DEF Slots
  <2>5. n =< m
    <3>1. m \in free
      BY <1>2, <2>4
    <3>2. QED BY <2>2, <3>1
  <2>6. n = m
    BY <2>3, <2>5
  <2>7. Record(table, e) = [table EXCEPT ![m] = new]
    BY <1>4, <2>1, <2>6 DEF Record
  <2>8. PICK T : T = Record(table, e)
    OBVIOUS
  <2>9. T[m] = new /\ \A s \in Slots : s # m => T[s] = table[s]
    BY <1>1, <2>4, <2>7, <2>8
  <2>10. new.in_use /\ new.start_cluster = e.cluster
    OBVIOUS
  <2> HIDE DEF new, free
  <2>11. ASSUME NEW s \in Slots
         PROVE  T[s].in_use <=> s < m + 1
    <3>1. CASE s = m
      BY <2>9, <2>10, <3>1
    <3>2. CASE s # m
      <4>1. s < m + 1 <=> s < m
        BY <1>2, <3>2
      <4>2. T[s].in_use <=> s < m
        BY <2>9, <3>2 DEF InUse
      <4>3. QED BY <4>1, <4>2
    <3>3. QED BY <3>1, <3>2
  <2>12. InUse(T, m + 1)
    BY <2>11 DEF InUse
  <2>13. QED BY <2>8, <2>9, <2>10, <2>12
<1>5. QED BY <1>3, <1>4

\* The components of a path take the next slots, in order.
LEMMA RecordAllFills ==
    ASSUME NEW table, NEW g, TableOK(table, g), NEW m \in Nat, InUse(table, m),
           NEW entries \in Seq(Entries)
    PROVE  /\ InUse(RecordAll(table, entries), m + Len(entries))
           /\ \A s \in Slots : s < m => RecordAll(table, entries)[s] = table[s]
           /\ \A j \in 1 .. Len(entries) : m + j - 1 \in Slots =>
                 RecordAll(table, entries)[m + j - 1].start_cluster = entries[j].cluster
<1>1. PICK n, f : n = Len(entries) /\ RecordSteps(f, table, g, entries)
  BY RecordAllSteps
<1>2. /\ n \in Nat /\ f[0] = table /\ f[n] = RecordAll(table, entries)
      /\ \A k \in 1 .. n : f[k] = Record(f[k - 1], entries[k])
      /\ \A k \in 0 .. n : TableOK(f[k], g)
  BY <1>1, LenProperties DEF RecordSteps
<1> DEFINE Starts(k, j) == m + j - 1 \in Slots => f[k][m + j - 1].start_cluster = entries[j].cluster
           Filled(k) == /\ InUse(f[k], m + k)
                        /\ \A s \in Slots : s < m => f[k][s] = table[s]
                        /\ \A j \in 1 .. k : Starts(k, j)
           A == {k \in 0 .. n : Filled(k)}
<1>3. 0 \in A
  <2>1. m + 0 = m /\ 1 .. 0 = {} /\ 0 \in 0 .. n
    BY <1>2
  <2>2. Filled(0)
    BY <1>2, <2>1
  <2>3. QED BY <2>1, <2>2
<1>4. ASSUME NEW k \in 0 .. n - 1, k \in A
      PROVE  k + 1 \in A
  <2>1. /\ k + 1 \in 1 .. n /\ k + 1 \in 0 .. n /\ (k + 1) - 1 = k /\ k \in 0 .. n
        /\ m + k \in Nat /\ (m + k) + 1 = m + (k + 1) /\ k \in Nat
    BY <1>2
  <2>2. PICK T, U, e : T = f[k] /\ U = f[k + 1] /\ e = entries[k + 1]
    OBVIOUS
  <2>3. e \in Entries /\ TableOK(T, g) /\ InUse(T, m + k) /\ U = Record(T, e)
    <3>1. e \in Entries
      BY <1>1, <2>1, <2>2, ElementOfSeq
    <3>2. QED BY <1>2, <1>4, <2>1, <2>2, <3>1
  <2>4. /\ InUse(U, (m + k) + 1)
        /\ \A s \in Slots : s # m + k => U[s] = T[s]
        /\ m + k \in Slots => U[m + k].start_cluster = e.cluster
    BY <2>1, <2>3, RecordFills
  <2>5. \A s \in Slots : s < m => U[s] = table[s]
    <3> SUFFICES ASSUME NEW s \in Slots, s < m PROVE U[s] = table[s]
      OBVIOUS
    <3>1. s # m + k
      BY <2>1, SlotNumbers
    <3>2. QED BY <1>4, <2>2, <2>4, <3>1
  <2>6. ASSUME NEW j \in 1 .. k + 1, m + j - 1 \in Slots
        PROVE  U[m + j - 1].start_cluster = entries[j].cluster
    <3>1. CASE j = k + 1
      <4>1. m + j - 1 = m + k
        BY <2>1, <3>1
      <4>2. QED BY <2>2, <2>4, <2>6, <3>1, <4>1
    <3>2. CASE j # k + 1
      <4>1. j \in 1 .. k /\ m + j - 1 # m + k
        BY <2>1, <3>2
      <4>2. Starts(k, j)
        BY <1>4, <4>1
      <4>3. QED BY <2>2, <2>4, <2>6, <4>1, <4>2
    <3>3. QED BY <3>1, <3>2
  <2>7. Filled(k + 1)
    BY <2>1, <2>2, <2>4, <2>5, <2>6
  <2>8. QED BY <2>1, <2>7
<1>5. \A k \in 0 .. n : k \in A
  <2> HIDE DEF A
  <2> QED BY <1>2, <1>3, <1>4, SetInduction
<1>6. Filled(n)
  <2>1. n \in 0 .. n
    BY <1>2
  <2> HIDE DEF Filled
  <2>2. QED BY <1>5, <2>1
<1>7. QED BY <1>1, <1>2, <1>6

\* The k-th path of a command line leads to something, and that has a slot.
Kept(args, k) == Found(args[k]) /\ SlotsFor(args)[k] <= MAX_OPEN_FILES

\* The slots that the first n paths have taken: the first ones of the table, and a
\* file has one exactly if one of these paths leads to it and had room.
Slotted(table, c) == \E s \in Slots : table[s].in_use /\ table[s].start_cluster = c
KeptBy(args, n, c) == \E k \in 1 .. n : Kept(args, k) /\ Entry(args[k]).cluster = c
SlotsRight(table, args, n) ==
    /\ InUse(table, SlotsFor(args)[n])
    /\ \A c \in Clusters \ DOMAIN Directory : Slotted(table, c) <=> KeptBy(args, n, c)

\* What is found at the end of a path.
LEMMA FoundEntry ==
    ASSUME NEW path \in Seq(PathNames), Found(path)
    PROVE  /\ Len(Walk(path)) = Len(path) /\ Len(path) \in Nat \ {0}
           /\ Entry(path) = Walk(path)[Len(path)] /\ Entry(path) \in Entries
<1>1. Walk(path) \in Seq(Entries) /\ Len(Walk(path)) = Len(path) /\ path # <<>>
  BY WalkFinds DEF Found
<1>2. Len(path) \in Nat \ {0}
  BY <1>1, LenProperties, EmptySeq
<1>3. Len(path) \in 1 .. Len(Walk(path))
  BY <1>1, <1>2
<1>4. Walk(path)[Len(path)] \in Entries
  BY <1>1, <1>3, ElementOfSeq
<1>5. QED BY <1>1, <1>2, <1>4 DEF Entry, Last

\* Opening the next path keeps it so.
LEMMA OpenFills ==
    ASSUME NEW table, NEW g, TableOK(table, g), NEW args \in Seq(Seq(PathNames)),
           NEW n \in 0 .. Len(args) - 1, LeadsThroughDirectories(args[n + 1]),
           SlotsRight(table, args, n)
    PROVE  SlotsRight(RecordAll(table, Walk(args[n + 1])), args, n + 1)
<1>1. PICK path, w, m, T : /\ path = args[n + 1] /\ w = Walk(path) /\ m = SlotsFor(args)[n]
                           /\ T = RecordAll(table, w)
  OBVIOUS
<1>2. n + 1 \in 1 .. Len(args) /\ n \in 0 .. Len(args) /\ (n + 1) - 1 = n /\ n \in Nat
  BY LenProperties
<1>3. path \in Seq(PathNames) /\ LeadsThroughDirectories(path)
  BY <1>1, <1>2, ElementOfSeq
<1>4. w \in Seq(Entries) /\ Len(w) =< Len(path) /\ Len(w) \in Nat /\ Len(path) \in Nat
  BY <1>1, <1>3, WalkFinds, LenProperties
<1>5. m \in Nat /\ SlotsFor(args)[n + 1] = m + Len(w)
  BY <1>1, <1>2, SlotsForSteps
<1>6. InUse(table, m)
  BY <1>1 DEF SlotsRight
<1>7. /\ InUse(T, m + Len(w))
      /\ \A s \in Slots : s < m => T[s] = table[s]
      /\ \A j \in 1 .. Len(w) : m + j - 1 \in Slots =>
            T[m + j - 1].start_cluster = w[j].cluster
  BY <1>1, <1>4, <1>5, <1>6, RecordAllFills
<1>8. ASSUME NEW c \in Clusters \ DOMAIN Directory, Slotted(T, c)
      PROVE  KeptBy(args, n + 1, c)
  <2>1. PICK s \in Slots : T[s].in_use /\ T[s].start_cluster = c
    BY <1>8 DEF Slotted
  <2>2. s \in Nat /\ s < m + Len(w)
    BY <1>7, <2>1, SlotNumbers DEF InUse
  <2>3. CASE s < m
    <3>1. table[s].in_use /\ table[s].start_cluster = c
      BY <1>7, <2>1, <2>3
    <3>2. KeptBy(args, n, c)
      BY <3>1 DEF Slotted, SlotsRight
    <3>3. 1 .. n \subseteq 1 .. n + 1
      BY <1>2
    <3>4. QED BY <3>2, <3>3 DEF KeptBy
  <2>4. CASE ~ (s < m)
    <3>1. PICK j : j = s - m + 1
      OBVIOUS
    <3>2. j \in 1 .. Len(w) /\ m + j - 1 = s
      BY <1>4, <1>5, <2>2, <2>4, <3>1
    <3>3. w[j].cluster = c
      BY <1>7, <2>1, <3>2
    <3>4. j = Len(path)
      BY <1>1, <1>3, <3>2, <3>3, WayOfDirectories
    <3>5. Len(w) = Len(path) /\ path # <<>>
      BY <1>4, <3>2, <3>4, EmptySeq
    <3>6. Found(path)
      BY <1>1, <3>5 DEF Found
    <3>7. Entry(path).cluster = c
      BY <1>1, <1>3, <3>3, <3>4, <3>6, FoundEntry
    <3>8. s + 1 = m + Len(w) /\ s + 1 =< MAX_OPEN_FILES
      <4>1. s =< MAX_OPEN_FILES - 1 /\ MAX_OPEN_FILES \in Nat
        BY ExfatAssumption DEF Slots
      <4>2. QED BY <1>4, <1>5, <2>2, <3>2, <3>4, <3>5, <4>1
    <3>9. Kept(args, n + 1)
      BY <1>1, <1>5, <3>6, <3>8 DEF Kept
    <3>10. n + 1 \in 1 .. n + 1
      BY <1>2
    <3>11. QED BY <1>1, <3>7, <3>9, <3>10 DEF KeptBy
  <2>5. QED BY <2>3, <2>4
<1>9. ASSUME NEW c \in Clusters \ DOMAIN Directory, KeptBy(args, n + 1, c)
      PROVE  Slotted(T, c)
  <2>1. PICK k \in 1 .. n + 1 : Kept(args, k) /\ Entry(args[k]).cluster = c
    BY <1>9 DEF KeptBy
  <2>2. CASE k # n + 1
    <3>1. k \in 1 .. n
      BY <1>2, <2>2
    <3>2. Slotted(table, c)
      BY <2>1, <3>1 DEF KeptBy, SlotsRight
    <3>3. PICK s \in Slots : table[s].in_use /\ table[s].start_cluster = c
      BY <3>2 DEF Slotted
    <3>4. s < m
      BY <1>6, <3>3 DEF InUse
    <3>5. T[s] = table[s]
      BY <1>7, <3>4
    <3>6. QED BY <3>3, <3>5 DEF Slotted
  <2>3. CASE k = n + 1
    <3>1. Found(path) /\ m + Len(w) =< MAX_OPEN_FILES /\ Entry(path).cluster = c
      BY <1>1, <1>5, <2>1, <2>3 DEF Kept
    <3>2. Len(w) = Len(path) /\ Len(w) \in Nat \ {0} /\ Entry(path) = w[Len(w)]
      BY <1>1, <1>3, <3>1, FoundEntry
    <3>3. PICK s : s = m + Len(w) - 1
      OBVIOUS
    <3>4. s \in Slots /\ s < m + Len(w) /\ Len(w) \in 1 .. Len(w)
      BY <1>5, <3>1, <3>2, <3>3, ExfatAssumption DEF Slots
    <3>5. T[s].in_use
      BY <1>7, <3>4 DEF InUse
    <3>6. T[s].start_cluster = c
      BY <1>7, <3>1, <3>2, <3>3, <3>4
    <3>7. QED BY <3>4, <3>5, <3>6 DEF Slotted
  <2>4. QED BY <2>2, <2>3
<1>10. QED BY <1>1, <1>5, <1>7, <1>8, <1>9 DEF SlotsRight
-----------------------------------------------------------------------------
(* One read, and what has been read so far.                                *)

\* Division keeps the order.
LEMMA DivMonotone ==
    ASSUME NEW n \in Nat \ {0}, NEW i \in Nat, NEW j \in Nat, i =< j
    PROVE  i \div n =< j \div n
<1>1. PICK q, r, p, s : q = i \div n /\ r = i % n /\ p = j \div n /\ s = j % n
  OBVIOUS
<1>2. /\ q \in Nat /\ r \in 0 .. n - 1 /\ i = n * q + r
      /\ p \in Nat /\ s \in 0 .. n - 1 /\ j = n * p + s
  BY <1>1, DivMod
<1>3. SUFFICES ASSUME ~ (q =< p) PROVE FALSE
  BY <1>1
<1>4. PICK d : d = q - (p + 1)
  OBVIOUS
<1>5. d \in Nat /\ q = (p + 1) + d
  BY <1>2, <1>3, <1>4
<1>6. n * q = n * p + n + n * d
  BY <1>2, <1>5
<1>7. PICK x, y, z : x = n * q /\ y = n * p /\ z = n * d
  OBVIOUS
<1>8. x \in Nat /\ y \in Nat /\ z \in Nat
  BY <1>2, <1>5, <1>7
<1>9. QED BY <1>2, <1>6, <1>7, <1>8

\* A file that is whole has a cluster for each of its bytes.
LEMMA ByteIsThere ==
    ASSUME NEW e \in Entries, Holds(e), NEW o \in Nat, o < e.size
    PROVE  e.cluster \in Clusters /\ Skip(e.cluster, o \div CLUSTER_SIZE) # EOC
<1>1. e.size \in Nat /\ e.size > 0 /\ e.cluster \in Clusters \cup {0}
  BY EntryFields
<1>2. PICK m, k : m = (e.size - 1) \div CLUSTER_SIZE /\ k = o \div CLUSTER_SIZE
  OBVIOUS
<1>3. e.cluster # 0 /\ Skip(e.cluster, m) # EOC
  BY <1>1, <1>2 DEF Holds
<1>4. CLUSTER_SIZE \in Nat \ {0} /\ e.size - 1 \in Nat /\ o =< e.size - 1
  BY <1>1, ExfatAssumption
<1>5. m \in Nat /\ k \in Nat
  BY <1>2, <1>4, DivMod
<1>6. k =< m
  BY <1>2, <1>4, DivMonotone
<1>7. e.cluster \in Links
  BY <1>1, <1>3 DEF Links
<1>8. QED BY <1>1, <1>2, <1>3, <1>5, <1>6, <1>7, SkipEnd

\* The end of a concatenation.
LEMMA ConcatEnd ==
    ASSUME NEW S, NEW s \in Seq(S), NEW t \in Seq(S), Len(t) # 0
    PROVE  SubSeq(s \o t, Len(s) + 1, Len(s \o t)) = t
<1>1. PICK k, n : k = Len(s) /\ n = Len(t)
  OBVIOUS
<1>2. k \in Nat /\ n \in Nat /\ n # 0
  BY <1>1, LenProperties
<1>3. Len(s \o t) = k + n
  BY <1>1, ConcatProperties
<1>4. k + 1 \in k + 1 .. k + n /\ k + n \in k + 1 .. k + n /\ k + 1 - k = 1 /\ k + n - k = n
  BY <1>2
<1>5. SubSeq(s \o t, k + 1, k + n) = SubSeq(t, 1, n)
  BY <1>1, <1>4, SubSeqOfConcat2
<1>6. SubSeq(t, 1, n) = t
  BY <1>1, SubSeqFull
<1>7. QED BY <1>1, <1>3, <1>5, <1>6

\* A read copies what follows on what was read: of a file that is whole, and at whose
\* end it is not, something.
ReadTakes(fd, count, size, whole, data) ==
    /\ got' = [got EXCEPT ![fd] = @ \o data]
    /\ answer'.ret = Len(data) /\ Copied(fd) = data
    /\ Len(data) =< count /\ Len(got[fd]) + Len(data) =< size
    /\ whole /\ Len(got[fd]) # size => Len(data) # 0

\* nqp_read, of a file that has a slot, is such a read.
LEMMA ReadOnce ==
    ASSUME ReadsInv, NEW fd \in Files, NEW count \in Nat \ {0}, nqp_read(fd, count),
           NEW e \in Entries, e.cluster = fd
    PROVE  \E data \in Seq(Bytes) : ReadTakes(fd, count, e.size, Holds(e), data)
<1>1. PICK s, file, data :
         s = Min(SlotsOf(fd)) /\ file = open_files[s] /\ data = ReadSlot(file, count)
  OBVIOUS
<1>2. /\ fd >= 2 /\ SlotsOf(fd) # {}
      /\ got' = [got EXCEPT ![fd] = @ \o data]
      /\ answer'.ret = Len(data)
  BY <1>1 DEF nqp_read
<1>3. s \in Slots /\ FirstSlot(open_files, s) /\ file.start_cluster = fd
  BY <1>1, <1>2, SlotIsFirst
<1>4. TableOK(open_files, got) /\ BytesOK(got)
  BY DEF ReadsInv
<1>5. file \in SlotType /\ file.offset =< file.file_size /\ file.offset = Len(got[fd])
  BY <1>1, <1>3, <1>4 DEF TableOK, SlotOK
<1>6. file.file_size = e.size
  <2>1. file.in_use
    BY <1>1, <1>3 DEF FirstSlot
  <2>2. SlotOK(file)
    BY <1>1, <1>3, <1>4 DEF TableOK
  <2>3. PICK d \in Entries : d.cluster = file.start_cluster /\ d.size = file.file_size
    BY <2>1, <2>2 DEF SlotOK
  <2>4. QED BY <1>3, <2>3, OneSize
<1>7. /\ fd \in Clusters /\ file.start_cluster \in Clusters
      /\ file.file_size \in Nat /\ file.offset \in Nat
  BY <1>2, <1>3, <1>5 DEF SlotType
<1>8. /\ data \in Seq(Bytes) /\ file.offset + Len(data) =< file.file_size /\ Len(data) =< count
      /\ /\ file.offset # file.file_size
         /\ Skip(file.start_cluster, file.offset \div CLUSTER_SIZE) # EOC
         => Len(data) # 0
  BY <1>1, <1>5, <1>7, ReadSlotBytes
<1>9. ASSUME Holds(e), Len(got[fd]) # e.size
      PROVE  Len(data) # 0
  <2>1. file.offset < e.size
    BY <1>5, <1>6, <1>7, <1>9
  <2>2. Skip(fd, file.offset \div CLUSTER_SIZE) # EOC
    BY <1>7, <1>9, <2>1, ByteIsThere
  <2>3. QED BY <1>3, <1>5, <1>6, <1>8, <1>9, <2>2
<1>10. Copied(fd) = data
  <2>1. got[fd] \in Seq(Bytes) /\ Len(got[fd]) \in Nat /\ Len(data) \in Nat
    BY <1>4, <1>8, LenProperties DEF BytesOK
  <2>2. CASE Len(data) = 0
    <3>1. data = <<>>
      BY <1>8, <2>2, EmptySeq
    <3>2. answer'.ret <= 0
      BY <1>2, <2>2
    <3>3. QED BY <3>1, <3>2 DEF Copied
  <2>3. CASE Len(data) # 0
    <3>1. ~ (answer'.ret <= 0)
      BY <1>2, <2>1, <2>3
    <3>2. got'[fd] = got[fd] \o data
      BY <1>2, <1>4 DEF BytesOK
    <3>3. SubSeq(got[fd] \o data, Len(got[fd]) + 1, Len(got[fd] \o data)) = data
      BY <1>8, <2>1, <2>3, ConcatEnd
    <3>4. QED BY <3>1, <3>2, <3>3 DEF Copied
  <2>4. QED BY <2>2, <2>3
<1>11. ReadTakes(fd, count, e.size, Holds(e), data)
  BY <1>2, <1>5, <1>6, <1>8, <1>9, <1>10 DEF ReadTakes
<1>12. QED BY <1>8, <1>11

\* The slots stay where they are.
LEMMA ReadKeepsSlots ==
    ASSUME ReadsInv, NEW fd, NEW count, nqp_read(fd, count), NEW args, NEW n,
           SlotsRight(open_files, args, n)
    PROVE  SlotsRight(open_files', args, n)
<1>1. PICK s, len : open_files' = [open_files EXCEPT ![s].offset = @ + len]
  BY DEF nqp_read
<1>2. open_files \in [Slots -> SlotType]
  BY DEF ReadsInv, TableOK
<1>3. \A t \in Slots : /\ open_files'[t].in_use = open_files[t].in_use
                       /\ open_files'[t].start_cluster = open_files[t].start_cluster
  BY <1>1, <1>2 DEF SlotType
<1>4. QED BY <1>3 DEF SlotsRight, InUse, Slotted

\* The bytes of a file and the end of its chain.
Places == Links \X Nat

\* The bytes of a path that leads to a whole file: as many as the entry says, each the
\* byte of the file's chain at its place.
LEMMA ContentTypes ==
    ASSUME NEW path \in Seq(PathNames), Found(path), Holds(Entry(path))
    PROVE  /\ Content(path) \in Seq(Places) /\ Len(Content(path)) = Entry(path).size
           /\ Entry(path).size \in Nat
           /\ \A i \in 1 .. Entry(path).size :
                 Content(path)[i] = ByteAt(Entry(path).cluster, i - 1)
<1>1. PICK c, n, f : c = Entry(path).cluster /\ n = Entry(path).size /\ f = Content(path)
  OBVIOUS
<1>2. Entry(path) \in Entries
  BY FoundEntry
<1>3. n \in Nat
  BY <1>1, <1>2, EntryFields
<1>4. f = [i \in 1 .. n |-> <<Skip(c, (i - 1) \div CLUSTER_SIZE), (i - 1) % CLUSTER_SIZE>>]
  BY <1>1 DEF Content
<1>5. ASSUME NEW i \in 1 .. n
      PROVE  f[i] = ByteAt(c, i - 1) /\ f[i] \in Places
  <2>1. i - 1 \in Nat /\ i - 1 < n
    BY <1>3
  <2>2. c \in Clusters
    BY <1>1, <1>2, <2>1, ByteIsThere
  <2>3. f[i] = ByteAt(c, i - 1)
    BY <1>4 DEF ByteAt
  <2>4. PICK q, r : q = (i - 1) \div CLUSTER_SIZE /\ r = (i - 1) % CLUSTER_SIZE
    OBVIOUS
  <2>5. q \in Nat /\ r \in Nat
    <3>1. CLUSTER_SIZE \in Nat \ {0}
      BY ExfatAssumption
    <3>2. (i - 1) \div CLUSTER_SIZE \in Nat /\ (i - 1) % CLUSTER_SIZE \in 0 .. CLUSTER_SIZE - 1
      BY <2>1, <3>1, DivMod
    <3>3. QED BY <2>4, <3>1, <3>2
  <2>6. Skip(c, q) \in Links
    BY <2>2, <2>5, SkipSteps DEF Links
  <2>7. QED BY <2>3, <2>4, <2>5, <2>6 DEF ByteAt, Places
<1>6. f \in [1 .. n -> Places]
  BY <1>4, <1>5
<1>7. f \in Seq(Places) /\ Len(f) = n
  BY <1>3, <1>6, LenProperties
<1>8. QED BY <1>1, <1>3, <1>5, <1>7

\* What was read of a file that is whole is the beginning of what it contains.
LEMMA ReadIsContent ==
    ASSUME BytesOK(got), NEW path \in Seq(PathNames), Found(path), Holds(Entry(path)),
           NEW fd \in Files, Entry(path).cluster = fd, Len(got[fd]) =< Entry(path).size
    PROVE  /\ got[fd] = SubSeq(Content(path), 1, Len(got[fd]))
           /\ Len(got[fd]) = Entry(path).size => got[fd] = Content(path)
<1>1. PICK f, n, g, m : f = Content(path) /\ n = Entry(path).size /\ g = got[fd] /\ m = Len(g)
  OBVIOUS
<1>2. /\ f \in Seq(Places) /\ Len(f) = n /\ n \in Nat
      /\ \A i \in 1 .. n : f[i] = ByteAt(fd, i - 1)
  BY <1>1, ContentTypes
<1>3. /\ g \in Seq(Bytes) /\ m \in Nat /\ m =< n
      /\ \A i \in 1 .. m : g[i] = ByteAt(fd, i - 1)
  BY <1>1, LenProperties DEF BytesOK
<1>4. /\ g \in Seq(Places)
      /\ \A i \in 1 .. m : g[i] = f[i] /\ f[i] \in Places
  <2>1. Bytes \subseteq Places
    BY DEF Bytes, Places, Links
  <2>2. g \in Seq(Places)
    BY <1>3, <2>1, SeqMonotonic
  <2>3. ASSUME NEW i \in 1 .. m
        PROVE  g[i] = f[i] /\ f[i] \in Places
    <3>1. i \in 1 .. n /\ i \in 1 .. Len(g)
      BY <1>1, <1>2, <1>3
    <3>2. g[i] = f[i]
      BY <1>2, <1>3, <2>3, <3>1
    <3>3. QED BY <2>2, <3>1, <3>2, ElementOfSeq
  <2>4. QED BY <2>2, <2>3
<1>5. g = SubSeq(f, 1, m)
  <2>1. PICK t : t = SubSeq(f, 1, m)
    OBVIOUS
  <2>2. 1 \in Int /\ m \in Int /\ m - 1 + 1 = m
    BY <1>3
  <2>3. /\ t \in Seq(Places) /\ Len(t) = IF 1 <= m THEN m - 1 + 1 ELSE 0
        /\ \A i \in 1 .. m - 1 + 1 : t[i] = f[1 + i - 1]
    BY <1>4, <2>1, <2>2, SubSeqProperties
  <2>4. Len(t) = m
    BY <1>3, <2>3
  <2>5. \A i \in 1 .. m : t[i] = g[i]
    <3> SUFFICES ASSUME NEW i \in 1 .. m PROVE t[i] = g[i]
      OBVIOUS
    <3>1. 1 + i - 1 = i
      OBVIOUS
    <3>2. QED BY <1>4, <2>2, <2>3, <3>1
  <2>6. Len(g) = Len(t) /\ \A i \in 1 .. Len(g) : g[i] = t[i]
    BY <1>1, <2>4, <2>5
  <2>7. g = t
    BY <1>4, <2>3, <2>6, SeqEqual
  <2>8. QED BY <2>1, <2>7
<1>6. ASSUME m = n
      PROVE  g = f
  <2>1. Len(g) = Len(f) /\ \A i \in 1 .. Len(g) : g[i] = f[i]
    BY <1>1, <1>2, <1>4, <1>6
  <2>2. QED BY <1>2, <1>4, <2>1, SeqEqual
<1>7. QED BY <1>1, <1>5, <1>6
-----------------------------------------------------------------------------
(* What the programs of a command line have in common.                     *)

CommandPrograms == {"cat", "ls", "paste"}

\* The arguments are paths.
LEMMA ArgsArePaths ==
    ASSUME ProgramOK
    PROVE  /\ Args \in Seq(Seq(PathNames)) /\ Len(Args) \in Nat
           /\ \A k \in 1 .. Len(Args) :
                 Args[k] \in Seq(PathNames) /\ LeadsThroughDirectories(Args[k])
<1>1. job \in Jobs
  BY DEF ProgramOK
<1>2. Args \in Seq(Seq(PathNames))
  BY <1>1, ProgramsAssumption DEF Args
<1>3. Len(Args) \in Nat /\ DOMAIN Args = 1 .. Len(Args)
  BY <1>2, LenProperties
<1>4. ASSUME NEW k \in 1 .. Len(Args)
      PROVE  Args[k] \in Seq(PathNames) /\ LeadsThroughDirectories(Args[k])
  <2>1. Args[k] \in Seq(PathNames)
    BY <1>2, ElementOfSeq
  <2>2. k \in DOMAIN job.args
    BY <1>3 DEF Args
  <2>3. LeadsThroughDirectories(job.args[k])
    BY <1>1, <2>2, JobsAssumption
  <2>4. QED BY <2>1, <2>3 DEF Args
<1>5. QED BY <1>2, <1>3, <1>4

\* A program runs one job, and the steps of a command line's are its own.
LEMMA CommandSteps ==
    ASSUME [ProgramsNext]_allVars
    PROVE  /\ job' = job
           /\ job.program \in CommandPrograms => CommandLine \/ UNCHANGED allVars
<1>1. CASE UNCHANGED allVars
  BY <1>1 DEF allVars, programVars
<1>2. CASE AnyCall \/ cli_command \/ cli_loop \/ cli_step \/ cli_crash \/ cleanup
  <2>1. job' = job
    BY <1>2 DEF AnyCall, cli_command, cli_loop, cli_step, cli_crash, cleanup, programVars
  <2>2. job.program \in {"any", "cli"}
    BY <1>2 DEF AnyCall, cli_command, cli_loop, cli_step, cli_crash, cleanup, Calls, Runs
  <2>3. QED BY <2>1, <2>2 DEF CommandPrograms
<1>3. CASE CommandLine
  <2>1. job' = job
    BY <1>3 DEF CommandLine, Mount, Open, Close, Unmount, cat_loop, ls_loop, paste_first,
                paste_second, paste_turn
  <2>2. QED BY <1>3, <2>1
<1>4. QED BY <1>1, <1>2, <1>3 DEF ProgramsNext

\* What nqp_open answers for a path.
Answered(path) ==
    IF Len(Walk(path)) < Len(path) THEN -1
    ELSE IF path = <<>> THEN 0 ELSE Last(Walk(path)).cluster

\* It is a descriptor if something was found.
LEMMA AnswerForPath ==
    ASSUME NEW path \in Seq(PathNames)
    PROVE  /\ Found(path) => Answered(path) = Entry(path).cluster
           /\ Answered(path) >= 2 => Found(path)
<1>1. Walk(path) \in Seq(Entries) /\ Len(Walk(path)) =< Len(path)
  BY WalkFinds
<1>2. Len(Walk(path)) \in Nat /\ Len(path) \in Nat
  BY <1>1, LenProperties
<1>3. ASSUME Found(path)
      PROVE  Answered(path) = Entry(path).cluster
  BY <1>2, <1>3 DEF Found, Answered, Entry
<1>4. ASSUME Answered(path) >= 2
      PROVE  Found(path)
  <2>1. ~ (Len(Walk(path)) < Len(path))
    BY <1>4 DEF Answered
  <2>2. path # <<>>
    BY <1>4, <2>1 DEF Answered
  <2>3. Len(Walk(path)) = Len(path)
    BY <1>1, <1>2, <2>1
  <2>4. QED BY <2>2, <2>3 DEF Found
<1>5. QED BY <1>3, <1>4

\* A command line's program runs to its end with the image open, and keeps what
\* nqp_open has answered for the paths it has opened.
CommandInv ==
    job.program \in CommandPrograms =>
       /\ status = "running"
       /\ pc \in {"mount", "open", "read", "read2", "close", "unmount", "done"}
       /\ pc \in {"open", "read", "read2", "close", "unmount"} => is_mounted /\ fs_image = "open"
       /\ Len(fds) =< Len(Args)
       /\ \A k \in 1 .. Len(fds) : fds[k] = Answered(Args[k])
       /\ pc = "mount" => arg = 1
       /\ pc \in {"mount", "open"} => Len(fds) = arg - 1
       /\ pc \in {"read", "read2", "close"} => Len(fds) = arg
       /\ job.program = "cat" => /\ pc \notin {"read2", "unmount"}
                                 /\ pc = "done" => fds = <<>> \/ Len(fds) = Len(Args)
       /\ job.program = "ls" => pc # "read2"

\* It begins so.
LEMMA CommandBegins == ProgramsInit => CommandInv
<1> SUFFICES ASSUME ProgramsInit, job.program \in CommandPrograms PROVE CommandInv
  BY DEF CommandInv
<1>1. ProgramOK
  BY ProgramBegins
<1>2. status = "running" /\ arg = 1 /\ fds = <<>> /\ Len(fds) = 0 /\ pc = "mount"
  BY EmptySeq DEF ProgramsInit, Init, CommandPrograms
<1>3. Len(Args) \in Nat
  BY <1>1, ArgsArePaths
<1>4. QED BY <1>2, <1>3 DEF CommandInv

\* A call that a program reads or lists with leaves the image open.
LEMMA ReadsKeepMounted ==
    ASSUME NEW fd, NEW count, Reads(fd, count) \/ Lists(fd)
    PROVE  UNCHANGED <<fs_image, is_mounted, status>>
BY DEF Reads, Lists, ReadNotOpen, DentsRefused, nqp_read, nqp_getdents

\* And goes on so.
LEMMA CommandStays ==
    ASSUME ProgramOK, CommandInv, [ProgramsNext]_allVars
    PROVE  CommandInv'
<1> SUFFICES ASSUME job.program \in CommandPrograms PROVE CommandInv'
  BY CommandSteps DEF CommandInv
<1> USE DEF Runs, Calls
<1>1. job' = job /\ (CommandLine \/ UNCHANGED allVars) /\ Args' = Args
  BY CommandSteps DEF Args
<1>2. /\ Len(Args) \in Nat /\ arg \in Nat \ {0} /\ fds \in Seq(Int) /\ Len(fds) \in Nat
      /\ Len(fds) =< Len(Args)
      /\ \A k \in 1 .. Len(fds) : fds[k] = Answered(Args[k])
  BY ArgsArePaths, LenProperties DEF ProgramOK, CommandInv
<1>3. CASE UNCHANGED allVars
  BY <1>1, <1>3 DEF allVars, vars, programVars, CommandInv
<1>4. CASE Mount
  <2>1. /\ pc = "mount" /\ UNCHANGED <<arg, fds, status>>
        /\ \/ pc' = "open" /\ is_mounted' /\ fs_image' = "open"
           \/ pc' = "done"
    BY <1>4 DEF Mount, nqp_mount_ok, nqp_mount_fails
  <2>2. Len(fds) = 0
    BY <1>2, <2>1 DEF CommandInv
  <2>3. fds = <<>>
    BY <1>2, <2>2, EmptySeq
  <2>4. QED BY <1>1, <1>2, <2>1, <2>2, <2>3 DEF CommandInv
<1>5. CASE Open
  <2>1. PICK ret : ret = answer'.ret
    OBVIOUS
  <2>2. /\ pc = "open" /\ arg =< Len(Args) /\ fds' = Append(fds, ret)
        /\ nqp_open(Args[arg])
        /\ \/ job.program = "paste" /\ arg' = arg + 1 /\ pc' = "open"
           \/ arg' = arg /\ pc' = "read"
    BY <1>5, <2>1 DEF Open
  <2>3. ret = Answered(Args[arg]) /\ UNCHANGED <<fs_image, is_mounted, status>>
    BY <2>1, <2>2 DEF nqp_open, Answered
  <2>4. Len(fds) = arg - 1
    BY <2>2 DEF CommandInv
  <2>5. ret \in Int
    <3>1. arg \in 1 .. Len(job.args)
      BY <1>2, <2>2 DEF Args
    <3>2. \/ Readable(ret)
          \/ Listable(ret)
      BY <2>1, <2>2, <3>1, OpenReturns DEF Args, ProgramOK, CommandPrograms
    <3>3. QED BY <3>2 DEF Readable, Listable
  <2>6. /\ Len(fds') = arg /\ fds'[arg] = ret
        /\ \A k \in 1 .. Len(fds) : fds'[k] = fds[k]
    <3>1. Len(fds) + 1 = arg
      BY <1>2, <2>4
    <3>2. QED BY <1>2, <2>2, <2>5, <3>1, AppendProperties
  <2>7. \A k \in 1 .. Len(fds') : fds'[k] = Answered(Args[k])
    <3> SUFFICES ASSUME NEW k \in 1 .. Len(fds') PROVE fds'[k] = Answered(Args[k])
      OBVIOUS
    <3>1. k \in 1 .. Len(fds) \/ k = arg
      BY <1>2, <2>4, <2>6
    <3>2. QED BY <1>2, <2>3, <2>6, <3>1
  <2>8. Len(fds') =< Len(Args')
    BY <1>1, <2>2, <2>6
  <2>9. is_mounted /\ fs_image = "open" /\ status = "running"
    BY <2>2 DEF CommandInv
  <2>10. arg' = arg + 1 => Len(fds') = arg' - 1
    BY <1>2, <2>6
  <2>11. QED BY <1>1, <2>2, <2>3, <2>6, <2>7, <2>8, <2>9, <2>10 DEF CommandInv
<1>6. CASE Close
  <2>1. /\ pc = "close" /\ arg' = arg + 1 /\ fds' = fds
        /\ pc' = IF job.program = "cat" THEN "open" ELSE "unmount"
        /\ UNCHANGED <<fs_image, is_mounted, status>>
    BY <1>6 DEF Close, nqp_close
  <2>2. /\ is_mounted /\ fs_image = "open" /\ status = "running" /\ Len(fds) = arg
        /\ arg = arg' - 1
    BY <1>2, <2>1 DEF CommandInv
  <2>3. QED BY <1>1, <1>2, <2>1, <2>2 DEF CommandInv
<1>7. CASE Unmount
  <2>1. /\ pc = "unmount" \/ (pc = "open" /\ arg > Len(Args))
        /\ pc' = "done" /\ UNCHANGED <<fds, status>>
    BY <1>7 DEF Unmount, nqp_unmount
  <2>2. job.program = "cat" => Len(fds) = Len(Args)
    <3>1. job.program = "cat" => Len(fds) = arg - 1 /\ arg > Len(Args)
      BY <2>1 DEF CommandInv
    <3>2. QED BY <1>2, <3>1
  <2>3. QED BY <1>1, <1>2, <2>1, <2>2 DEF CommandInv
<1>8. CASE cat_loop
  <2>1. /\ job.program = "cat" /\ pc = "read" /\ UNCHANGED <<arg, fds>>
        /\ pc' \in {"read", "close"} /\ Reads(Last(fds), CHUNK)
    BY <1>8 DEF cat_loop
  <2>2. UNCHANGED <<fs_image, is_mounted, status>>
    BY <2>1, ReadsKeepMounted
  <2>3. is_mounted /\ fs_image = "open" /\ status = "running" /\ Len(fds) = arg
    BY <2>1 DEF CommandInv
  <2>4. QED BY <1>1, <1>2, <2>1, <2>2, <2>3 DEF CommandInv
<1>9. CASE ls_loop
  <2>1. /\ job.program = "ls" /\ pc = "read" /\ UNCHANGED <<arg, fds>>
        /\ pc' \in {"read", "close"} /\ Lists(Last(fds))
    BY <1>9 DEF ls_loop
  <2>2. UNCHANGED <<fs_image, is_mounted, status>>
    BY <2>1, ReadsKeepMounted
  <2>3. is_mounted /\ fs_image = "open" /\ status = "running" /\ Len(fds) = arg
    BY <2>1 DEF CommandInv
  <2>4. QED BY <1>1, <1>2, <2>1, <2>2, <2>3 DEF CommandInv
<1>10. CASE paste_first \/ paste_second
  <2>1. /\ job.program = "paste" /\ pc \in {"read", "read2"} /\ UNCHANGED <<arg, fds>>
        /\ pc' \in {"read", "read2", "close"} /\ (Reads(fds[1], 1) \/ Reads(fds[2], 1))
    BY <1>10 DEF paste_first, paste_second, paste_turn
  <2>2. UNCHANGED <<fs_image, is_mounted, status>>
    BY <2>1, ReadsKeepMounted
  <2>3. is_mounted /\ fs_image = "open" /\ status = "running" /\ Len(fds) = arg
    BY <2>1 DEF CommandInv
  <2>4. QED BY <1>1, <1>2, <2>1, <2>2, <2>3 DEF CommandInv
<1>11. QED
  BY <1>1, <1>3, <1>4, <1>5, <1>6, <1>7, <1>8, <1>9, <1>10 DEF CommandLine
-----------------------------------------------------------------------------
(* ls.                                                                     *)

\* What ls has printed is what its listing has yielded.
LsInv ==
    job.program = "ls" =>
       /\ pc \in {"mount", "open"} => ~ dents.initialized /\ printed = <<>>
       /\ pc \in {"mount", "open", "read", "close"} => arg = 1
       /\ pc = "read" => IF dents.initialized THEN listing.dir = fds[1] /\ printed = listing.names
                                              ELSE printed = <<>>
       /\ pc \in {"close", "unmount", "done"} /\ fds # <<>> =>
             printed = IF fds[1] \in Dirs THEN Names(fds[1]) ELSE <<>>

\* nqp_getdents as ls calls it: once more a name, or the end of the listing.
LEMMA LsLists ==
    ASSUME \A dir \in Dirs : EndMarked(dir), ListingInv, NEW fd \in Dirs, nqp_getdents(fd),
           dents.initialized => listing.dir = fd,
           printed = IF dents.initialized THEN listing.names ELSE <<>>
    PROVE  /\ answer'.ret > 0 => /\ dents'.initialized /\ listing'.dir = fd
                                 /\ listing'.names = Append(printed, answer'.entry.name)
           /\ answer'.ret <= 0 => printed = Names(fd)
<1>1. PICK next : next = IF dents.initialized THEN NextEntry(dents.cluster, dents.index)
                                              ELSE NextEntry(fd, 0)
  OBVIOUS
<1>2. PICK names : names = IF next.entry = NotFound THEN printed
                           ELSE Append(printed, next.entry.name)
  OBVIOUS
<1>3. PICK ret : ret = IF next.entry = NotFound THEN 0 ELSE 1
  OBVIOUS
<1>4. PICK before : before = IF dents.initialized THEN listing
                                                  ELSE [dir |-> fd, names |-> <<>>]
  OBVIOUS
<1>5. before.dir = fd /\ before.names = printed
  BY <1>4
<1>6. /\ dents'.initialized = next.initialized
      /\ listing' = [dir |-> fd, names |-> IF ret = 0 THEN <<>> ELSE names]
      /\ answer' = [call |-> "getdents", ret |-> ret,
                    entry |-> next.entry, listed |-> names]
  <2>1. /\ dents' = [cluster |-> next.cluster, index |-> next.index,
                     initialized |-> next.initialized]
        /\ listing' = [dir |-> before.dir, names |-> IF ret = 0 THEN <<>> ELSE names]
        /\ answer' = [call |-> "getdents", ret |-> ret,
                      entry |-> next.entry, listed |-> names]
    BY <1>1, <1>2, <1>3, <1>4, <1>5 DEF nqp_getdents
  <2>2. QED BY <1>5, <2>1
<1>7. ASSUME ret # 0
      PROVE  /\ dents'.initialized /\ listing'.dir = fd
             /\ listing'.names = Append(printed, answer'.entry.name)
  <2>1. next.entry # NotFound
    BY <1>3, <1>7
  <2>2. next.initialized
    <3>1. \A cluster, index : NextEntry(cluster, index).entry # NotFound
                                 => NextEntry(cluster, index).initialized
      BY DEF NextEntry
    <3>2. QED BY <1>1, <2>1, <3>1
  <2>3. QED BY <1>2, <1>6, <1>7, <2>1, <2>2
<1>8. ASSUME ret = 0
      PROVE  printed = Names(fd)
  <2>1. ListingInv'
    BY ListingStep
  <2>2. answer'.call = "getdents" /\ answer'.ret = 0 /\ answer'.listed = names /\ listing'.dir = fd
    BY <1>6, <1>8
  <2>3. names = Names(fd)
    BY <2>1, <2>2 DEF ListingInv
  <2>4. names = printed
    BY <1>2, <1>3, <1>8
  <2>5. QED BY <2>3, <2>4
<1>9. answer'.ret = ret /\ ret \in {0, 1}
  BY <1>3, <1>6
<1>10. QED BY <1>7, <1>8, <1>9

\* ls begins with nothing printed, and no listing under way.
LEMMA LsBegins == ProgramsInit => LsInv
<1> SUFFICES ASSUME ProgramsInit, job.program = "ls" PROVE LsInv
  BY DEF LsInv
<1>1. /\ pc = "mount" /\ arg = 1 /\ fds = <<>> /\ printed = <<>>
      /\ dents.initialized = FALSE
  BY DEF ProgramsInit, Init
<1>2. QED BY <1>1 DEF LsInv

\* ls goes on so.
LEMMA LsStays ==
    ASSUME \A dir \in Dirs : EndMarked(dir), ProgramOK, CommandInv, ListingInv, LsInv,
           [ProgramsNext]_allVars
    PROVE  LsInv'
<1> SUFFICES ASSUME job.program = "ls" PROVE LsInv'
  BY CommandSteps DEF LsInv
<1> USE DEF Runs, Calls
<1>1. job' = job /\ (CommandLine \/ UNCHANGED allVars)
  BY CommandSteps DEF CommandPrograms
<1>2. CASE UNCHANGED allVars
  BY <1>1, <1>2 DEF allVars, vars, programVars, LsInv
<1>3. CASE Mount
  <2>1. /\ pc = "mount" /\ pc' \in {"open", "done"} /\ UNCHANGED <<arg, fds, printed, dents>>
    BY <1>3 DEF Mount, nqp_mount_ok, nqp_mount_fails
  <2>2. fds = <<>>
    <3>1. Len(fds) = arg - 1 /\ arg = 1
      BY <2>1 DEF CommandInv, CommandPrograms
    <3>2. QED BY <3>1, EmptySeq DEF ProgramOK
  <2>3. QED BY <1>1, <2>1, <2>2 DEF LsInv
<1>4. CASE Open
  <2>1. pc = "open" /\ pc' = "read" /\ arg' = arg /\ UNCHANGED <<printed, dents>>
    BY <1>4 DEF Open, nqp_open
  <2>2. QED BY <1>1, <2>1 DEF LsInv
<1>5. CASE Close
  <2>1. pc = "close" /\ pc' = "unmount" /\ UNCHANGED <<printed, fds>>
    BY <1>5 DEF Close
  <2>2. QED BY <1>1, <2>1 DEF LsInv
<1>6. CASE Unmount
  <2>1. pc \in {"unmount", "open"} /\ pc' = "done" /\ UNCHANGED <<printed, fds>>
    BY <1>6 DEF Unmount
  <2>2. CASE pc = "unmount"
    BY <1>1, <2>1, <2>2 DEF LsInv
  <2>3. CASE pc = "open"
    <3>1. Len(fds) = arg - 1 /\ arg = 1
      BY <2>3 DEF CommandInv, CommandPrograms, LsInv
    <3>2. fds = <<>>
      BY <3>1, EmptySeq DEF ProgramOK
    <3>3. QED BY <1>1, <2>1, <3>2 DEF LsInv
  <2>4. QED BY <2>1, <2>2, <2>3
<1>7. CASE ls_loop
  <2>1. /\ pc = "read" /\ UNCHANGED <<arg, fds>> /\ Lists(Last(fds))
        /\ \/ answer'.ret > 0 /\ printed' = Append(printed, answer'.entry.name) /\ pc' = pc
           \/ answer'.ret <= 0 /\ pc' = "close" /\ printed' = printed
    BY <1>7 DEF ls_loop
  <2>2. /\ is_mounted /\ Len(fds) = 1 /\ arg = 1
        /\ dents.initialized => listing.dir = fds[1]
        /\ printed = IF dents.initialized THEN listing.names ELSE <<>>
    BY <2>1 DEF CommandInv, CommandPrograms, LsInv
  <2>3. PICK fd : fd = fds[1]
    OBVIOUS
  <2>4. Lists(fd) /\ Listable(fd)
    BY <2>1, <2>2, <2>3 DEF Last, ProgramOK
  <2>5. Dirs \subseteq Nat \ {0, 1} /\ fd \in Int
    BY <2>4, ExfatAssumption DEF Listable
  <2>6. CASE fd < 2
    <3>1. ~ (fd >= 2) /\ fd \notin Dirs
      BY <2>5, <2>6
    <3>2. DentsRefused(fd)
      BY <2>4, <3>1 DEF Lists
    <3>3. answer'.ret = -1
      BY <3>2 DEF DentsRefused
    <3>4. pc' = "close" /\ printed' = printed
      BY <2>1, <3>3
    <3>5. ~ dents.initialized
      BY <2>2, <2>3, <3>1 DEF ListingInv, UnderWay
    <3>6. QED BY <1>1, <2>1, <2>2, <2>3, <3>1, <3>4, <3>5 DEF LsInv
  <2>7. CASE ~ (fd < 2)
    <3>1. fd \in Dirs
      BY <2>4, <2>5, <2>7 DEF Listable
    <3>2. nqp_getdents(fd)
      BY <2>2, <2>4, <2>7 DEF Lists, DentsRefused
    <3>3. /\ answer'.ret > 0 => /\ dents'.initialized /\ listing'.dir = fd
                                /\ listing'.names = Append(printed, answer'.entry.name)
          /\ answer'.ret <= 0 => printed = Names(fd)
      BY <2>2, <2>3, <3>1, <3>2, LsLists
    <3>4. CASE answer'.ret > 0 /\ printed' = Append(printed, answer'.entry.name) /\ pc' = pc
      BY <1>1, <2>1, <2>2, <2>3, <3>3, <3>4 DEF LsInv
    <3>5. CASE answer'.ret <= 0 /\ pc' = "close" /\ printed' = printed
      BY <1>1, <2>1, <2>2, <2>3, <3>1, <3>3, <3>5 DEF LsInv
    <3>6. QED BY <2>1, <3>4, <3>5
  <2>8. QED BY <2>6, <2>7
<1>8. CASE cat_loop \/ paste_first \/ paste_second
  BY <1>8 DEF cat_loop, paste_first, paste_second
<1>9. QED BY <1>1, <1>2, <1>3, <1>4, <1>5, <1>6, <1>7, <1>8 DEF CommandLine

\* ls has printed the names in its directory when it ends.
LEMMA LsPrints ==
    ASSUME ProgramOK, CommandInv, LsInv, Finished("ls")
    PROVE  printed = IF Found(Args[1]) /\ Entry(Args[1]).cluster \in Dirs
                     THEN Names(Entry(Args[1]).cluster) ELSE <<>>
<1>1. job.program = "ls" /\ pc = "done" /\ fds # <<>>
  BY DEF Finished, Calls, Runs, Mounted
<1>2. /\ printed = IF fds[1] \in Dirs THEN Names(fds[1]) ELSE <<>>
      /\ Len(fds) =< Len(Args) /\ \A k \in 1 .. Len(fds) : fds[k] = Answered(Args[k])
  BY <1>1 DEF LsInv, CommandInv, CommandPrograms
<1>3. fds \in Seq(Int) /\ Len(fds) \in Nat \ {0} /\ Len(Args) \in Nat
  BY <1>1, EmptySeq, ArgsArePaths DEF ProgramOK
<1>4. 1 \in 1 .. Len(fds) /\ 1 \in 1 .. Len(Args)
  BY <1>2, <1>3
<1>5. fds[1] = Answered(Args[1]) /\ Args[1] \in Seq(PathNames)
  BY <1>2, <1>4, ArgsArePaths
<1>6. /\ Found(Args[1]) => fds[1] = Entry(Args[1]).cluster
      /\ fds[1] >= 2 => Found(Args[1])
  BY <1>5, AnswerForPath
<1>7. fds[1] \in Dirs => fds[1] >= 2
  <2>1. Dirs \subseteq Nat \ {0, 1}
    BY ExfatAssumption
  <2>2. \A d \in Nat \ {0, 1} : d >= 2
    OBVIOUS
  <2>3. QED BY <2>1, <2>2
<1>8. QED BY <1>2, <1>6, <1>7
-----------------------------------------------------------------------------
(* cat.                                                                    *)

\* Of the files on a command line that are found, the volume has all bytes.
AllHold(args) == \A k \in 1 .. Len(args) : Found(args[k]) => Holds(Entry(args[k]))

\* The k-th argument is a file that no earlier one is, and that has a slot.
FirstRead(args, k) == Recorded(args, k) /\ \A j \in 1 .. k - 1 : ~ SameFile(args[j], args[k])

\* What cat prints: nothing, and for every path what that one adds.
Added(args, k) == IF Found(args[k]) THEN Content(args[k]) ELSE <<>>

\* It begins with nothing, each path adds its own, and all are bytes of files.
LEMMA ConcatenatedSteps ==
    ASSUME NEW args \in Seq(Seq(PathNames)), AllHold(args)
    PROVE  /\ Concatenated(args)[0] = <<>>
           /\ \A k \in 1 .. Len(args) :
                 Concatenated(args)[k] = Concatenated(args)[k - 1] \o Added(args, k)
           /\ \A k \in 0 .. Len(args) : Concatenated(args)[k] \in Seq(Places)
<1> DEFINE n == Len(args)
           S == Seq(Places)
           of(k) == Added(args, k)
           Body(f) == [k \in 0 .. n |-> IF k = 0 THEN <<>> ELSE f[k - 1] \o of(k)]
           upTo == CHOOSE f : f = Body(f)
           step == [k \in 1 .. n |-> [s \in S |-> s \o of(k)]]
<1>1. n \in Nat
  BY LenProperties
<1>2. \A k \in 1 .. n : of(k) \in S
  <2> SUFFICES ASSUME NEW k \in 1 .. n PROVE of(k) \in S
    OBVIOUS
  <2>1. CASE Found(args[k])
    <3>1. Found(args[k]) /\ args[k] \in Seq(PathNames)
      BY <2>1, ElementOfSeq
    <3>2. Content(args[k]) \in S
      BY <3>1, ContentTypes DEF AllHold
    <3>3. QED BY <2>1, <3>2 DEF Added
  <2>2. CASE ~ Found(args[k])
    BY <2>2, EmptySeq DEF Added
  <2>3. QED BY <2>1, <2>2
<1> HIDE DEF of
<1>3. \A k \in 1 .. n, s \in S : s \o of(k) \in S
  BY <1>2, ConcatProperties
<1>4. <<>> \in S
  BY EmptySeq
<1> HIDE DEF S, n
<1>5. upTo = Body(upTo)
  <2>1. step \in [1 .. n -> [S -> S]]
    BY <1>3
  <2>2. PICK F \in [0 .. n -> S] : Solves(F, n, <<>>, step)
    <3> HIDE DEF step
    <3> QED BY <1>1, <1>4, <2>1, RecursionHasSolution
  <2>3. \A k \in 1 .. n : F[k] = F[k - 1] \o of(k)
    <3> SUFFICES ASSUME NEW k \in 1 .. n PROVE F[k] = F[k - 1] \o of(k)
      OBVIOUS
    <3>1. k - 1 \in 0 .. n
      BY <1>1
    <3>2. F[k - 1] \in S
      BY <2>2, <3>1
    <3>3. F[k] = step[k][F[k - 1]]
      BY <2>2 DEF Solves
    <3>4. QED BY <3>2, <3>3
  <2>4. F = Body(F)
    <3>1. ASSUME NEW k \in 0 .. n
          PROVE  F[k] = Body(F)[k]
      <4>1. CASE k = 0
        BY <1>1, <2>2, <4>1 DEF Solves
      <4>2. CASE k # 0
        <5>1. k \in 1 .. n
          BY <1>1, <4>2
        <5>2. QED BY <1>1, <2>3, <4>2, <5>1
      <4>3. QED BY <4>1, <4>2
    <3>2. QED BY <1>1, <2>2, <3>1
  <2> HIDE DEF Body
  <2>5. QED BY <2>4
<1>6. Concatenated(args) = upTo
  BY DEF Concatenated, of, Added, n
<1> HIDE DEF upTo
<1>7. upTo[0] = <<>> /\ \A k \in 1 .. n : upTo[k] = upTo[k - 1] \o of(k)
  <2>1. \A k \in 0 .. n : upTo[k] = IF k = 0 THEN <<>> ELSE upTo[k - 1] \o of(k)
    BY <1>1, <1>5
  <2>2. 0 \in 0 .. n /\ \A k \in 1 .. n : k \in 0 .. n /\ k # 0
    BY <1>1
  <2>3. QED BY <2>1, <2>2
<1>8. \A k \in 1 .. n : upTo[k - 1] \in S => upTo[k] \in S
  <2> SUFFICES ASSUME NEW k \in 1 .. n, upTo[k - 1] \in S PROVE upTo[k] \in S
    OBVIOUS
  <2>1. QED BY <1>3, <1>7
<1>9. \A k \in 0 .. n : upTo[k] \in S
  BY <1>1, <1>4, <1>7, <1>8, RecursionStaysIn
<1>10. QED BY <1>6, <1>7, <1>9 DEF n, of, S

\* Where no file is named twice and all have room, what a path adds is what cat
\* reads for the first time with it.
LEMMA AddedIsFirstRead ==
    ASSUME NEW args \in Seq(Seq(PathNames)), AllHold(args), FitAndDiffer(args),
           NEW k \in 1 .. Len(args)
    PROVE  /\ FirstRead(args, k) => Added(args, k) = Content(args[k])
           /\ ~ FirstRead(args, k) => Added(args, k) = <<>>
<1>1. FirstRead(args, k) => Added(args, k) = Content(args[k])
  BY DEF FirstRead, Recorded, Added
<1>2. ASSUME ~ FirstRead(args, k), Found(args[k])
      PROVE  Content(args[k]) = <<>>
  <2>1. /\ Content(args[k]) \in Seq(Places) /\ Len(Content(args[k])) = Entry(args[k]).size
        /\ Entry(args[k]).size \in Nat
    <3>1. args[k] \in Seq(PathNames) /\ Holds(Entry(args[k]))
      BY <1>2, ElementOfSeq DEF AllHold
    <3>2. QED BY <1>2, <3>1, ContentTypes
  <2>2. SUFFICES ASSUME Entry(args[k]).size > 0 PROVE FALSE
    BY <2>1, EmptySeq
  <2>3. SlotsFor(args)[k] <= MAX_OPEN_FILES
    <3>1. Len(args) \in Nat /\ k \in 0 .. Len(args) /\ Len(args) \in 0 .. Len(args)
      BY LenProperties
    <3>2. k \in 0 .. Len(args)
      BY <3>1
    <3>3. SlotsFor(args)[k] =< SlotsFor(args)[Len(args)]
      BY <3>1, SlotsForGrow
    <3>4. SlotsFor(args)[k] \in Nat /\ SlotsFor(args)[Len(args)] \in Nat
      BY <3>1, SlotsForSteps
    <3>5. SlotsFor(args)[Len(args)] <= MAX_OPEN_FILES
      BY DEF FitAndDiffer
    <3>6. QED BY <3>3, <3>4, <3>5, ExfatAssumption
  <2>4. ASSUME NEW j \in 1 .. k - 1 PROVE ~ SameFile(args[j], args[k])
    <3>1. DOMAIN args = 1 .. Len(args)
      BY LenProperties
    <3>2. SameFile(args[j], args[k]) => Entry(args[k]).size = 0
      BY <3>1 DEF FitAndDiffer
    <3>3. Entry(args[k]).size # 0
      BY <2>1, <2>2
    <3>4. QED BY <3>2, <3>3
  <2>5. QED BY <1>2, <2>2, <2>3, <2>4 DEF FirstRead, Recorded
<1>3. ~ FirstRead(args, k) => Added(args, k) = <<>>
  BY <1>2 DEF Added
<1>4. QED BY <1>1, <1>3

\* What cat and paste find on their command lines.
LEMMA FilesOnCommandLine ==
    ASSUME WholeFiles, ProgramOK, job.program \in {"cat", "paste"}
    PROVE  /\ AllHold(Args)
           /\ \A k \in 1 .. Len(Args) : Found(Args[k]) =>
                 /\ Entry(Args[k]) \in Entries /\ Entry(Args[k]).size \in Nat
                 /\ Entry(Args[k]).cluster \in {0} \cup Files
                 /\ Entry(Args[k]).cluster \notin DOMAIN Directory
                 /\ Entry(Args[k]).size > 0 =>
                       Entry(Args[k]).cluster \in (Files \cap Clusters) \ {0, 1}
<1>1. job \in Jobs /\ DOMAIN job.args = 1 .. Len(job.args)
  BY ProgramsAssumption, LenProperties DEF ProgramOK
<1>2. ASSUME NEW k \in 1 .. Len(Args), Found(Args[k])
      PROVE  /\ Holds(Entry(Args[k])) /\ Entry(Args[k]).cluster \notin DOMAIN Directory
             /\ Entry(Args[k]).cluster \in {0} \cup Files
  <2>1. k \in DOMAIN job.args /\ Found(job.args[k])
    BY <1>1, <1>2 DEF Args
  <2>2. Holds(Entry(job.args[k])) /\ Entry(job.args[k]).cluster \notin DOMAIN Directory
    BY <1>1, <2>1 DEF WholeFiles
  <2>3. Entry(job.args[k]).cluster \in {0} \cup (IF job.program = "ls" THEN Dirs ELSE Files)
    BY <1>1, <2>1, JobsAssumption
  <2>4. job.program # "ls"
    OBVIOUS
  <2>5. QED BY <2>2, <2>3, <2>4 DEF Args
<1>3. ASSUME NEW k \in 1 .. Len(Args), Found(Args[k])
      PROVE  /\ Entry(Args[k]) \in Entries /\ Entry(Args[k]).size \in Nat
             /\ Entry(Args[k]).size > 0 =>
                   Entry(Args[k]).cluster \in (Files \cap Clusters) \ {0, 1}
  <2>1. Args[k] \in Seq(PathNames)
    BY ArgsArePaths
  <2>2. Entry(Args[k]) \in Entries
    BY <1>3, <2>1, FoundEntry
  <2>3. Entry(Args[k]).size \in Nat /\ Entry(Args[k]).cluster \in Clusters \cup {0}
    BY <2>2, EntryFields
  <2>4. ASSUME Entry(Args[k]).size > 0
        PROVE  Entry(Args[k]).cluster \in (Files \cap Clusters) \ {0, 1}
    <3>1. Entry(Args[k]).cluster # 0
      BY <1>2, <1>3, <2>4 DEF Holds
    <3>2. Clusters \subseteq Nat \ {0, 1}
      BY ExfatAssumption
    <3>3. QED BY <1>2, <1>3, <2>3, <3>1, <3>2
  <2>5. QED BY <2>2, <2>3, <2>4
<1>4. AllHold(Args)
  BY <1>2 DEF AllHold
<1>5. QED BY <1>2, <1>3, <1>4

\* The paths opened have their slots.
SlotsInv == job.program \in {"cat", "paste"} => SlotsRight(open_files, Args, Len(fds))

\* None is open at first, and none has a slot.
LEMMA SlotsBegin == ProgramsInit => SlotsInv
<1> SUFFICES ASSUME ProgramsInit, job.program \in {"cat", "paste"} PROVE SlotsInv
  BY DEF SlotsInv
<1>1. /\ fds = <<>> /\ Len(fds) = 0 /\ Args \in Seq(Seq(PathNames))
      /\ \A s \in Slots : ~ open_files[s].in_use
  BY EmptySeq, ProgramBegins, ArgsArePaths DEF ProgramsInit, Init, Free
<1>2. SlotsFor(Args)[0] = 0
  BY <1>1, SlotsForSteps
<1>3. InUse(open_files, 0)
  BY <1>1, SlotNumbers DEF InUse
<1>4. \A c : ~ Slotted(open_files, c) /\ ~ KeptBy(Args, 0, c)
  <2>1. 1 .. 0 = {}
    OBVIOUS
  <2>2. QED BY <1>1, <2>1 DEF Slotted, KeptBy
<1>5. SlotsRight(open_files, Args, 0)
  BY <1>2, <1>3, <1>4 DEF SlotsRight
<1>6. QED BY <1>1, <1>5 DEF SlotsInv

\* nqp_open gives the next path its slots, and no other call takes or frees one.
LEMMA SlotsStay ==
    ASSUME ReadsInv, ProgramOK, CommandInv, SlotsInv, [ProgramsNext]_allVars
    PROVE  SlotsInv'
<1> SUFFICES ASSUME job.program \in {"cat", "paste"} PROVE SlotsInv'
  BY CommandSteps DEF SlotsInv
<1> USE DEF Runs, Calls
<1>1. job' = job /\ Args' = Args /\ (CommandLine \/ UNCHANGED allVars)
  BY CommandSteps DEF Args, CommandPrograms
<1>2. SlotsRight(open_files, Args, Len(fds))
  BY DEF SlotsInv
<1>3. ASSUME UNCHANGED <<fds, open_files>> PROVE SlotsInv'
  BY <1>1, <1>2, <1>3 DEF SlotsInv
<1>4. ASSUME NEW fd, NEW count, Reads(fd, count), UNCHANGED fds PROVE SlotsInv'
  <2>1. CASE nqp_read(fd, count)
    <3>1. SlotsRight(open_files', Args, Len(fds))
      BY <1>2, <2>1, ReadKeepsSlots
    <3>2. QED BY <1>1, <1>4, <3>1 DEF SlotsInv
  <2>2. CASE ReadNotOpen(fd, count)
    BY <1>3, <1>4, <2>2 DEF ReadNotOpen
  <2>3. QED BY <1>4, <2>1, <2>2 DEF Reads
<1>5. CASE Open
  <2>1. pc = "open" /\ arg =< Len(Args) /\ nqp_open(Args[arg]) /\ \E r : fds' = Append(fds, r)
    BY <1>5 DEF Open
  <2>2. arg \in Nat \ {0} /\ Len(fds) = arg - 1 /\ fds \in Seq(Int) /\ Len(Args) \in Nat
    BY <2>1, ArgsArePaths DEF CommandInv, CommandPrograms, ProgramOK
  <2>3. Len(fds') = arg
    BY <2>1, <2>2
  <2>4. PICK n : n = arg - 1
    OBVIOUS
  <2>5. n \in 0 .. Len(Args) - 1 /\ n + 1 = arg /\ n + 1 \in 1 .. Len(Args)
    BY <2>1, <2>2, <2>4
  <2>6. open_files' = RecordAll(open_files, Walk(Args[n + 1]))
    BY <2>1, <2>5 DEF nqp_open
  <2>7. TableOK(open_files, got) /\ Args \in Seq(Seq(PathNames))
        /\ LeadsThroughDirectories(Args[n + 1]) /\ SlotsRight(open_files, Args, n)
    BY <1>2, <2>2, <2>4, <2>5, ArgsArePaths DEF ReadsInv
  <2>8. SlotsRight(RecordAll(open_files, Walk(Args[n + 1])), Args, n + 1)
    BY <2>5, <2>7, OpenFills
  <2>9. QED BY <1>1, <2>3, <2>5, <2>6, <2>8 DEF SlotsInv
<1>6. CASE Mount \/ Close \/ Unmount
  BY <1>3, <1>6 DEF Mount, Close, Unmount, nqp_mount_ok, nqp_mount_fails, nqp_close, nqp_unmount
<1>7. CASE cat_loop
  BY <1>4, <1>7 DEF cat_loop
<1>8. CASE paste_first \/ paste_second
  BY <1>4, <1>8 DEF paste_first, paste_second, paste_turn
<1>9. CASE ls_loop
  BY <1>9 DEF ls_loop
<1>10. CASE UNCHANGED allVars
  BY <1>3, <1>10 DEF allVars, vars, programVars
<1>11. QED BY <1>1, <1>5, <1>6, <1>7, <1>8, <1>9, <1>10 DEF CommandLine

\* The first n paths of a command line have been read to their ends.
ReadUpTo(g, args, n) ==
    \A k \in 1 .. n : Recorded(args, k) => g[Entry(args[k]).cluster] = Content(args[k])

\* What cat has printed is what the paths before have added, and what it has read
\* of a file that it reads for the first time.
CatInv ==
    job.program = "cat" /\ FitAndDiffer(Args) =>
       /\ pc \in {"mount", "open"} => printed = Concatenated(Args)[arg - 1]
       /\ pc = "read" => printed = Concatenated(Args)[arg - 1]
                                   \o (IF FirstRead(Args, arg) THEN got[fds[arg]] ELSE <<>>)
       /\ pc = "close" => printed = Concatenated(Args)[arg] /\ ReadUpTo(got, Args, arg)
       /\ pc \in {"mount", "open", "read"} => ReadUpTo(got, Args, arg - 1)
       /\ pc = "done" /\ fds # <<>> => printed = Concatenated(Args)[Len(Args)]

\* A file with a slot that an argument does not read for the first time was read by
\* an earlier argument.
LEMMA EarlierReads ==
    ASSUME NEW args \in Seq(Seq(PathNames)), NEW n \in 1 .. Len(args), ~ FirstRead(args, n),
           NEW k \in 1 .. n, Kept(args, k), Found(args[n]), Entry(args[n]).size > 0,
           Entry(args[k]).cluster = Entry(args[n]).cluster
    PROVE  \E j \in 1 .. n - 1 : /\ Recorded(args, j)
                                 /\ Entry(args[j]).cluster = Entry(args[n]).cluster
                                 /\ Entry(args[j]).size = Entry(args[n]).size
<1>1. Len(args) \in Nat /\ \A j \in 1 .. n : j \in 1 .. Len(args) /\ args[j] \in Seq(PathNames)
  <2>1. Len(args) \in Nat
    BY LenProperties
  <2>2. \A j \in 1 .. n : j \in 1 .. Len(args)
    BY <2>1
  <2>3. QED BY <2>1, <2>2, ElementOfSeq
<1>2. ASSUME NEW j \in 1 .. n, Found(args[j]), Entry(args[j]).cluster = Entry(args[n]).cluster
      PROVE  Entry(args[j]).size = Entry(args[n]).size
  <2>1. n \in 1 .. n /\ args[j] \in Seq(PathNames) /\ args[n] \in Seq(PathNames)
    BY <1>1
  <2>2. Entry(args[j]) \in Entries /\ Entry(args[n]) \in Entries
    BY <1>2, <2>1, FoundEntry
  <2>3. QED BY <1>2, <2>2, OneSize
<1>3. Recorded(args, k)
  <2>1. Found(args[k]) /\ SlotsFor(args)[k] <= MAX_OPEN_FILES
    BY DEF Kept
  <2>2. QED BY <1>2, <2>1 DEF Recorded
<1>4. CASE k # n
  <2>1. k \in 1 .. n - 1
    BY <1>1, <1>4
  <2>2. Entry(args[k]).size = Entry(args[n]).size
    BY <1>2, <1>3 DEF Recorded
  <2>3. QED BY <1>3, <2>1, <2>2
<1>5. CASE k = n
  <2>1. PICK j \in 1 .. n - 1 : SameFile(args[j], args[n])
    BY <1>3, <1>5 DEF FirstRead
  <2>2. j \in 1 .. n /\ Found(args[j]) /\ Entry(args[j]).cluster = Entry(args[n]).cluster
    BY <2>1 DEF SameFile
  <2>3. Entry(args[j]).size = Entry(args[n]).size
    BY <1>2, <2>2
  <2>4. SlotsFor(args)[j] <= MAX_OPEN_FILES
    <3>1. n \in 0 .. Len(args) /\ j \in 0 .. n
      BY <1>1, <2>2
    <3>2. SlotsFor(args)[j] =< SlotsFor(args)[n] /\ SlotsFor(args)[n] <= MAX_OPEN_FILES
      BY <1>3, <1>5, <3>1, SlotsForGrow DEF Recorded
    <3>3. SlotsFor(args)[j] \in Nat /\ SlotsFor(args)[n] \in Nat /\ MAX_OPEN_FILES \in Nat
      <4>1. j \in 0 .. Len(args) /\ n \in 0 .. Len(args)
        BY <1>1, <2>2
      <4>2. QED BY <4>1, SlotsForSteps, ExfatAssumption
    <3>4. QED BY <3>2, <3>3
  <2>5. Recorded(args, j)
    BY <2>2, <2>3, <2>4 DEF Recorded
  <2>6. QED BY <2>2, <2>3, <2>5
<1>6. QED BY <1>4, <1>5

\* It has been read to its end.
LEMMA EarlierRead ==
    ASSUME NEW args \in Seq(Seq(PathNames)), NEW n \in 1 .. Len(args), ~ FirstRead(args, n),
           NEW k \in 1 .. n, Kept(args, k), Found(args[n]), Entry(args[n]).size > 0,
           Entry(args[k]).cluster = Entry(args[n]).cluster,
           NEW g, ReadUpTo(g, args, n - 1)
    PROVE  g[Entry(args[n]).cluster] = Content(args[n])
<1>1. PICK j \in 1 .. n - 1 : /\ Recorded(args, j)
                              /\ Entry(args[j]).cluster = Entry(args[n]).cluster
                              /\ Entry(args[j]).size = Entry(args[n]).size
  BY EarlierReads
<1>2. g[Entry(args[j]).cluster] = Content(args[j])
  BY <1>1 DEF ReadUpTo
<1>3. Content(args[j]) = Content(args[n])
  BY <1>1 DEF Content
<1>4. QED BY <1>1, <1>2, <1>3

\* What a program of a command line that reads files has before a call of nqp_read.
LEMMA AtRead ==
    ASSUME WholeFiles, ProgramOK, CommandInv, SlotsInv, job.program \in {"cat", "paste"},
           NEW k \in 1 .. Len(fds)
    PROVE  /\ fds[k] = Answered(Args[k]) /\ k \in 1 .. Len(Args) /\ Args[k] \in Seq(PathNames)
           /\ fds[k] >= 2 => /\ fds[k] \in Files /\ fds[k] \in Clusters \ DOMAIN Directory
                             /\ Found(Args[k]) /\ Entry(Args[k]).cluster = fds[k]
           /\ Recorded(Args, k) => /\ fds[k] \in Files /\ fds[k] \in Clusters \ DOMAIN Directory
                                   /\ fds[k] >= 2 /\ Entry(Args[k]).cluster = fds[k]
                                   /\ SlotsRight(open_files, Args, Len(fds))
<1>1. /\ fds[k] = Answered(Args[k]) /\ k \in 1 .. Len(Args) /\ Args[k] \in Seq(PathNames)
      /\ fds \in Seq(Int) /\ Readable(fds[k])
  <2>1. /\ Len(fds) =< Len(Args) /\ fds[k] = Answered(Args[k])
        /\ fds \in Seq(Int) /\ Readable(fds[k])
    BY DEF CommandInv, CommandPrograms, ProgramOK
  <2>2. Len(fds) \in Nat /\ Len(Args) \in Nat
    BY <2>1, ArgsArePaths, LenProperties
  <2>3. k \in 1 .. Len(Args)
    BY <2>1, <2>2
  <2>4. QED BY <2>1, <2>3, ArgsArePaths
<1>2. ASSUME fds[k] >= 2
      PROVE  /\ fds[k] \in Files /\ fds[k] \in Clusters \ DOMAIN Directory
             /\ Found(Args[k]) /\ Entry(Args[k]).cluster = fds[k]
  <2>1. fds[k] \in Files
    BY <1>1, <1>2 DEF Readable
  <2>2. Found(Args[k]) /\ Entry(Args[k]).cluster = fds[k]
    BY <1>1, <1>2, AnswerForPath
  <2>3. Entry(Args[k]) \in Entries /\ Entry(Args[k]).cluster \notin DOMAIN Directory
    BY <1>1, <2>2, FilesOnCommandLine
  <2>4. Entry(Args[k]).cluster \in Clusters \cup {0}
    BY <2>3, EntryFields
  <2>5. QED BY <1>2, <2>1, <2>2, <2>3, <2>4
<1>3. ASSUME Recorded(Args, k)
      PROVE  /\ fds[k] \in Files /\ fds[k] \in Clusters \ DOMAIN Directory
             /\ fds[k] >= 2 /\ Entry(Args[k]).cluster = fds[k]
             /\ SlotsRight(open_files, Args, Len(fds))
  <2>1. Found(Args[k]) /\ Entry(Args[k]).size > 0
    BY <1>3 DEF Recorded
  <2>2. Entry(Args[k]).cluster = fds[k]
    BY <1>1, <2>1, AnswerForPath
  <2>3. Entry(Args[k]).cluster \in (Files \cap Clusters) \ {0, 1}
    BY <1>1, <2>1, FilesOnCommandLine
  <2>4. fds[k] >= 2
    BY <1>1, <2>2, <2>3, ExfatAssumption DEF Readable
  <2>5. QED BY <1>2, <2>2, <2>4 DEF SlotsInv
<1>4. QED BY <1>1, <1>2, <1>3

\* A file that has a slot can be read.
LEMMA ReadsWhatHasSlot ==
    ASSUME WholeFiles, ReadsInv, ProgramOK, CommandInv, SlotsInv,
           job.program \in {"cat", "paste"}, pc \in {"read", "read2"},
           NEW k \in 1 .. Len(fds), Recorded(Args, k), NEW count \in Nat \ {0}, Reads(fds[k], count)
    PROVE  /\ Entry(Args[k]).cluster = fds[k] /\ fds[k] \in Files
           /\ got[fds[k]] = SubSeq(Content(Args[k]), 1, Len(got[fds[k]]))
           /\ Len(got[fds[k]]) = Entry(Args[k]).size => got[fds[k]] = Content(Args[k])
           /\ \E data \in Seq(Bytes) : ReadTakes(fds[k], count, Entry(Args[k]).size, TRUE, data)
<1>1. PICK fd, e : fd = fds[k] /\ e = Entry(Args[k])
  OBVIOUS
<1>2. /\ k \in 1 .. Len(Args) /\ Args[k] \in Seq(PathNames)
      /\ fd \in Files /\ fd \in Clusters \ DOMAIN Directory /\ fd >= 2 /\ e.cluster = fd
      /\ SlotsRight(open_files, Args, Len(fds))
  BY <1>1, AtRead
<1>3. Found(Args[k]) /\ e \in Entries /\ Holds(e)
  BY <1>1, <1>2, FilesOnCommandLine DEF Recorded, AllHold
<1>4. nqp_read(fd, count)
  <2>1. KeptBy(Args, Len(fds), fd)
    BY <1>1, <1>2 DEF KeptBy, Kept, Recorded
  <2>2. Slotted(open_files, fd)
    BY <1>2, <2>1 DEF SlotsRight
  <2>3. SlotsOf(fd) # {}
    BY <2>2 DEF Slotted, SlotsOf
  <2>4. is_mounted
    BY DEF CommandInv, CommandPrograms
  <2>5. ~ (fd < 2)
    <3>1. fd \in Int
      BY <1>2, ExfatAssumption
    <3>2. QED BY <1>2, <3>1
  <2>6. QED BY <1>1, <2>3, <2>4, <2>5 DEF Reads, ReadNotOpen
<1>5. PICK data \in Seq(Bytes) : ReadTakes(fd, count, e.size, Holds(e), data)
  BY <1>2, <1>3, <1>4, ReadOnce
<1>6. ReadTakes(fd, count, e.size, TRUE, data)
  BY <1>3, <1>5 DEF ReadTakes
<1>7. Len(got[fd]) =< e.size /\ BytesOK(got)
  BY <1>2, <1>3, ReadWithinFile DEF ReadsInv
<1>8. /\ got[fd] = SubSeq(Content(Args[k]), 1, Len(got[fd]))
      /\ Len(got[fd]) = e.size => got[fd] = Content(Args[k])
  BY <1>1, <1>2, <1>3, <1>7, ReadIsContent
<1>9. QED BY <1>1, <1>2, <1>5, <1>6, <1>8

\* Of a path that cat does not read for the first time it reads nothing.
LEMMA CatReadsNothing ==
    ASSUME WholeFiles, ReadsInv, ProgramOK, CommandInv, SlotsInv, job.program = "cat",
           pc = "read", ReadUpTo(got, Args, arg - 1), ~ FirstRead(Args, arg),
           NEW count \in Nat \ {0}, Reads(fds[arg], count)
    PROVE  /\ answer'.ret <= 0 /\ Copied(fds[arg]) = <<>> /\ got' = got
           /\ ReadUpTo(got, Args, arg)
<1>1. PICK fd, e : fd = fds[arg] /\ e = Entry(Args[arg])
  OBVIOUS
<1>2. /\ Len(fds) = arg /\ arg \in 1 .. Len(fds) /\ arg \in Nat \ {0}
      /\ arg \in 1 .. Len(Args) /\ Args \in Seq(Seq(PathNames))
  <2>1. Len(fds) = arg /\ arg \in Nat \ {0} /\ Len(fds) =< Len(Args)
    BY DEF CommandInv, CommandPrograms, ProgramOK
  <2>2. Len(Args) \in Nat /\ Args \in Seq(Seq(PathNames))
    BY ArgsArePaths
  <2>3. QED BY <2>1, <2>2
<1>3. ASSUME NEW k \in 1 .. arg, Kept(Args, k), Found(Args[arg]), e.size > 0,
             Entry(Args[k]).cluster = e.cluster
      PROVE  got[e.cluster] = Content(Args[arg])
  BY <1>1, <1>2, <1>3, EarlierRead
<1>4. ReadUpTo(got, Args, arg)
  <2> SUFFICES ASSUME NEW k \in 1 .. arg, Recorded(Args, k)
               PROVE  got[Entry(Args[k]).cluster] = Content(Args[k])
    BY DEF ReadUpTo
  <2>1. CASE k = arg
    BY <1>1, <1>3, <2>1 DEF Recorded, Kept
  <2>2. CASE k # arg
    <3>1. k \in 1 .. arg - 1
      BY <1>2, <2>2
    <3>2. QED BY <3>1 DEF ReadUpTo
  <2>3. QED BY <2>1, <2>2
<1>5. CASE ReadNotOpen(fd, count)
  <2>1. answer'.ret = -1 /\ got' = got
    BY <1>5 DEF ReadNotOpen
  <2>2. answer'.ret <= 0
    BY <2>1
  <2>3. QED BY <1>1, <1>4, <2>1, <2>2 DEF Copied
<1>6. CASE nqp_read(fd, count)
  <2>1. fd >= 2 /\ SlotsOf(fd) # {}
    BY <1>6 DEF nqp_read
  <2>2. /\ fd \in Files /\ fd \in Clusters \ DOMAIN Directory
        /\ Found(Args[arg]) /\ e.cluster = fd
    BY <1>1, <1>2, <2>1, AtRead
  <2>3. e \in Entries /\ e.size \in Nat
    BY <1>1, <1>2, <2>2, FilesOnCommandLine
  <2>4. PICK data \in Seq(Bytes) : ReadTakes(fd, count, e.size, Holds(e), data)
    BY <1>6, <2>2, <2>3, ReadOnce
  <2>5. /\ got' = [got EXCEPT ![fd] = @ \o data] /\ answer'.ret = Len(data) /\ Copied(fd) = data
        /\ Len(got[fd]) + Len(data) =< e.size
    BY <2>4 DEF ReadTakes
  <2>6. got \in [Files -> Seq(Bytes)] /\ got[fd] \in Seq(Bytes)
        /\ Len(got[fd]) \in Nat /\ Len(data) \in Nat
    BY <2>2, <2>4, LenProperties DEF ReadsInv, BytesOK
  <2>7. ASSUME e.size > 0 PROVE Len(got[fd]) = e.size
    <3>1. SlotsRight(open_files, Args, arg)
      BY <1>2 DEF SlotsInv
    <3>2. Slotted(open_files, fd)
      BY <2>1 DEF SlotsOf, Slotted
    <3>3. PICK k \in 1 .. arg : Kept(Args, k) /\ Entry(Args[k]).cluster = fd
      BY <2>2, <3>1, <3>2 DEF SlotsRight, KeptBy
    <3>4. got[fd] = Content(Args[arg])
      BY <1>3, <2>2, <2>7, <3>3
    <3>5. Args[arg] \in Seq(PathNames) /\ Holds(Entry(Args[arg]))
      BY <1>1, <1>2, <2>2, AtRead, FilesOnCommandLine DEF AllHold
    <3>6. QED BY <1>1, <2>2, <3>4, <3>5, ContentTypes
  <2>8. Len(data) = 0
    BY <2>3, <2>5, <2>6, <2>7
  <2>9. data = <<>>
    BY <2>4, <2>8, EmptySeq
  <2>10. got' = got
    <3>1. got[fd] \o data = got[fd]
      BY <2>6, <2>9, ConcatEmptySeq
    <3>2. QED BY <2>2, <2>5, <2>6, <3>1
  <2>11. QED BY <1>1, <1>4, <2>5, <2>8, <2>9, <2>10
<1>7. QED BY <1>1, <1>5, <1>6 DEF Reads

\* Of one that it reads for the first time it reads the next bytes, and all in the end.
LEMMA CatReadsFirst ==
    ASSUME WholeFiles, ReadsInv, ProgramOK, CommandInv, SlotsInv, job.program = "cat",
           pc = "read", ReadUpTo(got, Args, arg - 1), FirstRead(Args, arg),
           NEW count \in Nat \ {0}, Reads(fds[arg], count)
    PROVE  /\ got'[fds[arg]] = got[fds[arg]] \o Copied(fds[arg])
           /\ got[fds[arg]] \in Seq(Places) /\ Copied(fds[arg]) \in Seq(Places)
           /\ ReadUpTo(got', Args, arg - 1)
           /\ answer'.ret <= 0 => /\ got'[fds[arg]] = Content(Args[arg])
                                  /\ ReadUpTo(got', Args, arg)
<1>1. PICK fd, n : fd = fds[arg] /\ n = Entry(Args[arg]).size
  OBVIOUS
<1>2. /\ Len(fds) = arg /\ arg \in 1 .. Len(fds) /\ arg \in Nat \ {0}
      /\ arg \in 1 .. Len(Args) /\ Recorded(Args, arg)
  <2>1. Len(fds) = arg /\ arg \in Nat \ {0} /\ Len(fds) =< Len(Args)
    BY DEF CommandInv, CommandPrograms, ProgramOK
  <2>2. Len(Args) \in Nat
    BY ArgsArePaths
  <2>3. QED BY <2>1, <2>2 DEF FirstRead
<1>3. /\ Entry(Args[arg]).cluster = fd /\ fd \in Files
      /\ Len(got[fd]) = n => got[fd] = Content(Args[arg])
      /\ \E data \in Seq(Bytes) : ReadTakes(fd, count, n, TRUE, data)
  BY <1>1, <1>2, ReadsWhatHasSlot
<1>4. PICK data \in Seq(Bytes) : ReadTakes(fd, count, n, TRUE, data)
  BY <1>3
<1>5. /\ got' = [got EXCEPT ![fd] = @ \o data] /\ answer'.ret = Len(data) /\ Copied(fd) = data
      /\ Len(got[fd]) # n => Len(data) # 0
  BY <1>4 DEF ReadTakes
<1>6. got \in [Files -> Seq(Bytes)] /\ got[fd] \in Seq(Bytes) /\ Len(data) \in Nat
  BY <1>3, <1>4, LenProperties DEF ReadsInv, BytesOK
<1>7. got'[fd] = got[fd] \o data /\ \A c \in Files : c # fd => got'[c] = got[c]
  BY <1>3, <1>5, <1>6
<1>8. got[fd] \in Seq(Places) /\ data \in Seq(Places)
  <2>1. Bytes \subseteq Places
    BY DEF Bytes, Places, Links
  <2>2. QED BY <1>4, <1>6, <2>1, SeqMonotonic
<1>9. ReadUpTo(got', Args, arg - 1)
  <2> SUFFICES ASSUME NEW k \in 1 .. arg - 1, Recorded(Args, k)
               PROVE  got'[Entry(Args[k]).cluster] = Content(Args[k])
    BY DEF ReadUpTo
  <2>1. got[Entry(Args[k]).cluster] = Content(Args[k])
    BY DEF ReadUpTo
  <2>2. Entry(Args[k]).cluster # fd
    BY <1>3 DEF FirstRead, Recorded, SameFile
  <2>3. Entry(Args[k]).cluster \in Files
    <3>1. k \in 1 .. Len(fds)
      BY <1>2
    <3>2. QED BY <3>1, AtRead
  <2>4. QED BY <1>7, <2>1, <2>2, <2>3
<1>10. ASSUME answer'.ret <= 0
       PROVE  got'[fd] = Content(Args[arg]) /\ ReadUpTo(got', Args, arg)
  <2>1. Len(data) = 0
    BY <1>5, <1>6, <1>10
  <2>2. got[fd] = Content(Args[arg]) /\ data = <<>>
    BY <1>3, <1>4, <1>5, <2>1, EmptySeq
  <2>3. got'[fd] = Content(Args[arg])
    BY <1>6, <1>7, <2>2, ConcatEmptySeq
  <2>4. \A k \in 1 .. arg : k \in 1 .. arg - 1 \/ k = arg
    BY <1>2
  <2>5. QED BY <1>3, <1>9, <2>3, <2>4 DEF ReadUpTo
<1>11. QED BY <1>1, <1>5, <1>7, <1>8, <1>9, <1>10

\* cat begins with nothing printed.
LEMMA CatBegins ==
    ASSUME WholeFiles, ProgramsInit
    PROVE  CatInv
<1> SUFFICES ASSUME job.program = "cat", FitAndDiffer(Args) PROVE CatInv
  BY DEF CatInv
<1>1. pc = "mount" /\ arg = 1 /\ arg - 1 = 0 /\ printed = <<>> /\ ProgramOK
  BY ProgramBegins DEF ProgramsInit
<1>2. Args \in Seq(Seq(PathNames)) /\ AllHold(Args)
  BY <1>1, ArgsArePaths, FilesOnCommandLine
<1>3. Concatenated(Args)[0] = <<>>
  BY <1>2, ConcatenatedSteps
<1>4. ReadUpTo(got, Args, 0)
  BY DEF ReadUpTo
<1>5. QED BY <1>1, <1>3, <1>4 DEF CatInv

\* What is opened for the first time has not been read.
LEMMA CatOpens ==
    ASSUME WholeFiles, ReadsInv, ProgramOK, CommandInv, SlotsInv, job.program = "cat",
           pc = "open", arg =< Len(Args), nqp_open(Args[arg]), FirstRead(Args, arg)
    PROVE  got'[answer'.ret] = <<>>
<1>1. PICK c : c = Entry(Args[arg]).cluster
  OBVIOUS
<1>2. /\ Len(fds) = arg - 1 /\ arg \in Nat \ {0} /\ arg \in 1 .. Len(Args)
      /\ Args[arg] \in Seq(PathNames)
  <2>1. Len(fds) = arg - 1 /\ arg \in Nat \ {0}
    BY DEF CommandInv, CommandPrograms, ProgramOK
  <2>2. Len(Args) \in Nat
    BY ArgsArePaths
  <2>3. arg \in 1 .. Len(Args)
    BY <2>1, <2>2
  <2>4. QED BY <2>1, <2>3, ArgsArePaths
<1>3. Found(Args[arg]) /\ Entry(Args[arg]).size > 0
  BY DEF FirstRead, Recorded
<1>4. c \in Files /\ c \in Clusters \ DOMAIN Directory
  BY <1>1, <1>2, <1>3, FilesOnCommandLine
<1>5. answer'.ret = c /\ got' = got
  <2>1. answer'.ret = Answered(Args[arg]) /\ got' = got
    BY DEF nqp_open, Answered
  <2>2. QED BY <1>1, <1>2, <1>3, <2>1, AnswerForPath
<1>6. SUFFICES ASSUME got[c] # <<>> PROVE FALSE
  BY <1>5
<1>7. Slotted(open_files, c)
  BY <1>4, <1>6 DEF ReadsInv, TableOK, Slotted
<1>8. KeptBy(Args, arg - 1, c)
  BY <1>2, <1>4, <1>7 DEF SlotsInv, SlotsRight
<1>9. PICK k \in 1 .. arg - 1 : Found(Args[k]) /\ Entry(Args[k]).cluster = c
  BY <1>8 DEF KeptBy, Kept
<1>10. QED BY <1>1, <1>3, <1>9 DEF FirstRead, SameFile

\* cat goes on as it began.
LEMMA CatStays ==
    ASSUME WholeFiles, ReadsInv, ProgramOK, CommandInv, SlotsInv, CatInv, [ProgramsNext]_allVars
    PROVE  CatInv'
<1> SUFFICES ASSUME job.program = "cat", FitAndDiffer(Args) PROVE CatInv'
  BY CommandSteps DEF CatInv, Args
<1> USE DEF Runs, Calls
<1>1. job' = job /\ Args' = Args /\ (CommandLine \/ UNCHANGED allVars)
  BY CommandSteps DEF Args, CommandPrograms
<1>2. /\ arg \in Nat \ {0} /\ fds \in Seq(Int) /\ Len(fds) \in Nat /\ Len(fds) =< Len(Args)
      /\ Len(Args) \in Nat /\ Args \in Seq(Seq(PathNames)) /\ AllHold(Args)
      /\ pc \in {"mount", "open"} => Len(fds) = arg - 1
      /\ pc \in {"read", "close"} => Len(fds) = arg
      /\ pc # "unmount"
  BY ArgsArePaths, FilesOnCommandLine, LenProperties DEF CommandInv, CommandPrograms, ProgramOK
<1>3. PICK C : C = Concatenated(Args)
  OBVIOUS
<1>4. /\ C[0] = <<>> /\ \A k \in 1 .. Len(Args) : C[k] = C[k - 1] \o Added(Args, k)
      /\ \A k \in 0 .. Len(Args) : C[k] \in Seq(Places)
  BY <1>2, <1>3, ConcatenatedSteps
<1>5. C' = C
  BY <1>1, <1>3
<1>6. ASSUME UNCHANGED allVars PROVE CatInv'
  BY <1>1, <1>6 DEF allVars, vars, programVars, CatInv
<1>7. CASE Mount
  <2>1. /\ pc = "mount" /\ UNCHANGED <<arg, fds, printed>> /\ pc' \in {"open", "done"}
        /\ printed = Concatenated(Args)[arg - 1]
    BY <1>7 DEF Mount, CatInv
  <2>2. arg - 1 = 0 /\ fds = <<>>
    BY <1>2, <2>1, EmptySeq DEF CommandInv, CommandPrograms
  <2>3. ReadUpTo(got', Args, arg - 1)
    BY <2>2 DEF ReadUpTo
  <2>4. QED BY <1>1, <2>1, <2>2, <2>3 DEF CatInv
<1>8. CASE Open
  <2>1. PICK ret : ret = answer'.ret
    OBVIOUS
  <2>2. /\ pc = "open" /\ arg =< Len(Args) /\ fds' = Append(fds, ret) /\ nqp_open(Args[arg])
        /\ arg' = arg /\ pc' = "read" /\ printed' = printed /\ got' = got
    BY <1>8, <2>1 DEF Open, nqp_open
  <2>3. printed = C[arg - 1] /\ ReadUpTo(got, Args, arg - 1)
    BY <1>3, <2>2 DEF CatInv
  <2>4. fds'[arg] = ret
    <3>1. ret \in Int
      <4>1. arg \in 1 .. Len(job.args)
        BY <1>2, <2>2 DEF Args
      <4>2. Readable(ret)
        BY <2>1, <2>2, <4>1, OpenReturns DEF Args, ProgramOK
      <4>3. QED BY <4>2 DEF Readable
    <3>2. Len(fds) + 1 = arg
      BY <1>2, <2>2
    <3>3. QED BY <1>2, <2>2, <3>1, <3>2, AppendProperties
  <2>5. FirstRead(Args, arg) => got'[fds'[arg]] = <<>>
    BY <2>1, <2>2, <2>4, CatOpens
  <2>6. printed \o <<>> = printed
    <3>1. arg - 1 \in 0 .. Len(Args)
      BY <1>2, <2>2
    <3>2. QED BY <1>4, <2>3, <3>1, ConcatEmptySeq
  <2>7. printed' = C[arg - 1] \o (IF FirstRead(Args, arg) THEN got'[fds'[arg]] ELSE <<>>)
    BY <2>2, <2>3, <2>5, <2>6
  <2>8. QED BY <1>1, <1>3, <2>2, <2>3, <2>7 DEF CatInv
<1>9. CASE Close
  <2>1. /\ pc = "close" /\ arg' = arg + 1 /\ pc' = "open" /\ UNCHANGED <<fds, printed, got>>
    BY <1>9 DEF Close, nqp_close
  <2>2. printed = C[arg] /\ ReadUpTo(got, Args, arg)
    BY <1>3, <2>1 DEF CatInv
  <2>3. arg' - 1 = arg
    BY <1>2, <2>1
  <2>4. QED BY <1>1, <1>3, <2>1, <2>2, <2>3 DEF CatInv
<1>10. CASE Unmount
  <2>1. pc = "open" /\ arg > Len(Args) /\ pc' = "done" /\ UNCHANGED <<fds, printed>>
    BY <1>2, <1>10 DEF Unmount
  <2>2. printed = C[arg - 1] /\ arg - 1 = Len(Args)
    BY <1>2, <1>3, <2>1 DEF CatInv
  <2>3. QED BY <1>1, <1>3, <2>1, <2>2 DEF CatInv
<1>11. CASE cat_loop
  <2>1. PICK fd, data : fd = fds[arg] /\ data = Copied(fd)
    OBVIOUS
  <2>2. Last(fds) = fd
    <3>1. pc = "read"
      BY <1>11 DEF cat_loop
    <3>2. QED BY <1>2, <2>1, <3>1 DEF Last
  <2>3. /\ pc = "read" /\ Reads(fd, CHUNK) /\ printed' = printed \o data
        /\ pc' = (IF answer'.ret > 0 THEN "read" ELSE "close")
        /\ UNCHANGED <<arg, fds>>
    BY <1>11, <2>1, <2>2 DEF cat_loop
  <2>4. /\ printed = C[arg - 1] \o (IF FirstRead(Args, arg) THEN got[fd] ELSE <<>>)
        /\ ReadUpTo(got, Args, arg - 1)
    BY <1>3, <2>1, <2>3 DEF CatInv
  <2>5. arg \in 1 .. Len(Args) /\ arg - 1 \in 0 .. Len(Args) /\ C[arg - 1] \in Seq(Places)
        /\ C[arg] = C[arg - 1] \o Added(Args, arg)
    <3>1. arg \in 1 .. Len(Args) /\ arg - 1 \in 0 .. Len(Args)
      BY <1>2, <2>3
    <3>2. QED BY <1>4, <3>1
  <2>6. CHUNK \in Nat \ {0}
    BY ProgramsAssumption
  <2>7. CASE FirstRead(Args, arg)
    <3>1. /\ got'[fd] = got[fd] \o data /\ got[fd] \in Seq(Places) /\ data \in Seq(Places)
          /\ ReadUpTo(got', Args, arg - 1)
          /\ answer'.ret <= 0 => got'[fd] = Content(Args[arg]) /\ ReadUpTo(got', Args, arg)
      BY <2>1, <2>3, <2>4, <2>6, <2>7, CatReadsFirst
    <3>2. printed' = C[arg - 1] \o got'[fd]
      <4>1. printed' = (C[arg - 1] \o got[fd]) \o data
        BY <2>3, <2>4, <2>7
      <4>2. PICK s, t : s = C[arg - 1] /\ t = got[fd]
        OBVIOUS
      <4>3. s \in Seq(Places) /\ t \in Seq(Places) /\ data \in Seq(Places)
        BY <2>5, <3>1, <4>2
      <4>4. (s \o t) \o data = s \o (t \o data)
        BY <4>3, ConcatAssociative
      <4>5. QED BY <3>1, <4>1, <4>2, <4>4
    <3>3. CASE pc' = "read"
      BY <1>1, <1>3, <2>1, <2>3, <2>7, <3>1, <3>2, <3>3 DEF CatInv
    <3>4. CASE pc' = "close"
      <4>1. answer'.ret <= 0
        <5>1. ~ (answer'.ret > 0)
          BY <2>3, <3>4
        <5>2. answer'.ret \in Int
          <6>1. CASE ReadNotOpen(fd, CHUNK)
            BY <6>1 DEF ReadNotOpen
          <6>2. CASE nqp_read(fd, CHUNK)
            BY <2>3, <6>2 DEF nqp_read
          <6>3. QED BY <2>3, <6>1, <6>2 DEF Reads
        <5>3. QED BY <5>1, <5>2
      <4>2. printed' = C[arg]
        <5>1. Added(Args, arg) = Content(Args[arg])
          BY <1>2, <2>5, <2>7, AddedIsFirstRead
        <5>2. QED BY <2>5, <3>1, <3>2, <4>1, <5>1
      <4>3. QED BY <1>1, <1>3, <2>3, <3>1, <3>4, <4>1, <4>2 DEF CatInv
    <3>5. QED BY <2>3, <3>3, <3>4
  <2>8. CASE ~ FirstRead(Args, arg)
    <3>1. answer'.ret <= 0 /\ data = <<>> /\ got' = got /\ ReadUpTo(got, Args, arg)
      BY <2>1, <2>3, <2>4, <2>6, <2>8, CatReadsNothing
    <3>2. printed' = C[arg]
      <4>1. printed = C[arg - 1] \o <<>> /\ C[arg] = C[arg - 1] \o <<>>
        <5>1. Added(Args, arg) = <<>>
          BY <1>2, <2>5, <2>8, AddedIsFirstRead
        <5>2. QED BY <2>4, <2>5, <2>8, <5>1
      <4>2. printed \o <<>> = printed
        BY <2>5, <4>1, ConcatEmptySeq
      <4>3. QED BY <2>3, <3>1, <4>1, <4>2
    <3>3. pc' = "close"
      <4>1. ~ (answer'.ret > 0)
        <5>1. answer'.ret \in Int
          <6>1. CASE ReadNotOpen(fd, CHUNK)
            BY <6>1 DEF ReadNotOpen
          <6>2. CASE nqp_read(fd, CHUNK)
            BY <2>3, <6>2 DEF nqp_read
          <6>3. QED BY <2>3, <6>1, <6>2 DEF Reads
        <5>2. QED BY <3>1, <5>1
      <4>2. QED BY <2>3, <4>1
    <3>4. QED BY <1>1, <1>3, <2>3, <3>1, <3>2, <3>3 DEF CatInv
  <2>9. QED BY <2>7, <2>8
<1>12. CASE ls_loop \/ paste_first \/ paste_second
  BY <1>12 DEF ls_loop, paste_first, paste_second
<1>13. QED BY <1>1, <1>6, <1>7, <1>8, <1>9, <1>10, <1>11, <1>12 DEF CommandLine

\* When cat is done it has printed the files of its command line, if all have room.
LEMMA CatPrints ==
    CatInv => (Finished("cat") /\ FitAndDiffer(Args)
                  => printed = Concatenated(Args)[Len(Args)])
BY DEF CatInv, Finished, Mounted, Calls, Runs
-----------------------------------------------------------------------------
(* paste.                                                                  *)

\* The bytes end in a newline; q is the first newline behind place p.
EndsInNewline(bytes) == Len(bytes) > 0 => bytes[Len(bytes)] \in Newlines
NextNewline(bytes, p, q) ==
    q \in p + 1 .. Len(bytes) /\ bytes[q] \in Newlines
    /\ \A i \in p + 1 .. q - 1 : bytes[i] \notin Newlines

\* The end of a line is the next newline, and behind the last line the end of the file.
LEMMA LineEndIsNewline ==
    ASSUME NEW S, NEW bytes \in Seq(S), EndsInNewline(bytes), NEW p \in 0 .. Len(bytes)
    PROVE  /\ p = Len(bytes) => LineEnd(bytes, p) = p
           /\ p # Len(bytes) => NextNewline(bytes, p, LineEnd(bytes, p))
<1>1. PICK n, N, q : /\ n = Len(bytes) /\ q = LineEnd(bytes, p)
                     /\ N = {i \in p + 1 .. n : bytes[i] \in Newlines} \cup {n}
  OBVIOUS
<1>2. n \in Nat /\ p \in Nat /\ p =< n
  BY <1>1, LenProperties
<1>3. q = Min(N)
  BY <1>1 DEF LineEnd
<1>4. N \in SUBSET Nat /\ n \in N
  BY <1>1, <1>2
<1>5. q \in N /\ \A i \in N : q =< i
  BY <1>3, <1>4, MinIsLeast
<1>6. ASSUME p = n
      PROVE  q = p
  <2>1. p + 1 .. n = {}
    BY <1>2, <1>6
  <2>2. N = {n}
    BY <1>1, <2>1
  <2>3. QED BY <1>5, <1>6, <2>2
<1>7. ASSUME p # n
      PROVE  NextNewline(bytes, p, q)
  <2>1. n \in p + 1 .. n /\ bytes[n] \in Newlines
    BY <1>1, <1>2, <1>7 DEF EndsInNewline
  <2>2. q \in p + 1 .. n /\ bytes[q] \in Newlines
    BY <1>1, <1>5, <2>1
  <2>3. ASSUME NEW i \in p + 1 .. q - 1
        PROVE  bytes[i] \notin Newlines
    <3>1. i \in p + 1 .. n /\ ~ (q =< i)
      BY <1>2, <2>2
    <3>2. i \notin N
      BY <1>5, <3>1
    <3>3. QED BY <1>1, <3>1, <3>2
  <2>4. QED BY <1>1, <2>2, <2>3 DEF NextNewline
<1>8. QED BY <1>1, <1>6, <1>7

\* The ends of the first n lines, one after the other.
LinesOf(bytes, n, ends) ==
    /\ ends[0] = 0
    /\ \A i \in 0 .. n : ends[i] \in 0 .. Len(bytes)
    /\ \A i \in 1 .. n :
          /\ ends[i - 1] = Len(bytes) => ends[i] = ends[i - 1]
          /\ ends[i - 1] # Len(bytes) => NextNewline(bytes, ends[i - 1], ends[i])

\* LineEnds are these.
LEMMA LineEndsSteps ==
    ASSUME NEW S, NEW bytes \in Seq(S), EndsInNewline(bytes), NEW n \in Nat
    PROVE  LinesOf(bytes, n, LineEnds(bytes, n))
<1> DEFINE R == 0 .. Len(bytes)
           end(p) == LineEnd(bytes, p)
           Body(f) == [i \in 0 .. n |-> IF i = 0 THEN 0 ELSE end(f[i - 1])]
           upTo == CHOOSE f : f = Body(f)
           step == [i \in 1 .. n |-> [p \in R |-> end(p)]]
<1>1. Len(bytes) \in Nat
  BY LenProperties
<1>2. 0 \in R /\ \A p \in R : end(p) \in R
  <2>1. 0 \in R
    BY <1>1
  <2>2. ASSUME NEW p \in R PROVE end(p) \in R
    <3>1. CASE p = Len(bytes)
      BY <3>1, LineEndIsNewline
    <3>2. CASE p # Len(bytes)
      <4>1. NextNewline(bytes, p, end(p))
        BY <3>2, LineEndIsNewline
      <4>2. QED BY <1>1, <4>1 DEF NextNewline
    <3>3. QED BY <3>1, <3>2
  <2>3. QED BY <2>1, <2>2
<1> HIDE DEF end, R
<1>3. upTo = Body(upTo)
  <2>1. step \in [1 .. n -> [R -> R]]
    BY <1>2
  <2>2. PICK F \in [0 .. n -> R] : Solves(F, n, 0, step)
    <3> HIDE DEF step
    <3> QED BY <1>2, <2>1, RecursionHasSolution
  <2>3. \A i \in 1 .. n : F[i] = end(F[i - 1])
    <3> SUFFICES ASSUME NEW i \in 1 .. n PROVE F[i] = end(F[i - 1])
      OBVIOUS
    <3>1. i - 1 \in 0 .. n
      OBVIOUS
    <3>2. F[i - 1] \in R
      BY <2>2, <3>1
    <3>3. F[i] = step[i][F[i - 1]]
      BY <2>2 DEF Solves
    <3>4. QED BY <3>2, <3>3
  <2>4. F = Body(F)
    <3>1. ASSUME NEW i \in 0 .. n
          PROVE  F[i] = Body(F)[i]
      <4>1. CASE i = 0
        BY <2>2, <4>1 DEF Solves
      <4>2. CASE i # 0
        <5>1. i \in 1 .. n
          BY <4>2
        <5>2. QED BY <2>3, <4>2, <5>1
      <4>3. QED BY <4>1, <4>2
    <3>2. QED BY <2>2, <3>1
  <2> HIDE DEF Body
  <2>5. QED BY <2>4
<1>4. LineEnds(bytes, n) = upTo
  BY DEF LineEnds, end
<1> HIDE DEF upTo
<1>5. upTo[0] = 0 /\ \A i \in 1 .. n : upTo[i] = end(upTo[i - 1])
  <2>1. \A i \in 0 .. n : upTo[i] = IF i = 0 THEN 0 ELSE end(upTo[i - 1])
    BY <1>3
  <2>2. 0 \in 0 .. n /\ \A i \in 1 .. n : i \in 0 .. n /\ i # 0
    OBVIOUS
  <2>3. QED BY <2>1, <2>2
<1>6. \A i \in 0 .. n : upTo[i] \in R
  <2>1. \A i \in 1 .. n : upTo[i - 1] \in R => upTo[i] \in R
    BY <1>2, <1>5
  <2>2. QED BY <1>2, <1>5, <2>1, RecursionStaysIn
<1>7. ASSUME NEW i \in 1 .. n
      PROVE  /\ upTo[i - 1] = Len(bytes) => upTo[i] = upTo[i - 1]
             /\ upTo[i - 1] # Len(bytes) => NextNewline(bytes, upTo[i - 1], upTo[i])
  <2>1. PICK p : p = upTo[i - 1]
    OBVIOUS
  <2>2. i - 1 \in 0 .. n
    OBVIOUS
  <2>3. p \in 0 .. Len(bytes) /\ upTo[i] = LineEnd(bytes, p)
    BY <1>5, <1>6, <2>1, <2>2 DEF end, R
  <2>4. /\ p = Len(bytes) => LineEnd(bytes, p) = p
        /\ p # Len(bytes) => NextNewline(bytes, p, LineEnd(bytes, p))
    BY <2>3, LineEndIsNewline
  <2>5. QED BY <2>1, <2>3, <2>4
<1>8. QED BY <1>4, <1>5, <1>6, <1>7 DEF LinesOf, R

\* A line that has been read up to place g: nothing of it, or a part without its end.
Within(bytes, from, to, g) == g \in from .. Len(bytes) /\ (g # from => g < to)

\* The next byte of a line: its newline, or one before it.
LEMMA LineGoesOn ==
    ASSUME NEW S, NEW bytes \in Seq(S), NEW n \in Nat, NEW E, LinesOf(bytes, n, E),
           NEW i \in 1 .. n, NEW g, Within(bytes, E[i - 1], E[i], g), g # Len(bytes)
    PROVE  /\ g + 1 \in 1 .. Len(bytes) /\ E[i - 1] # Len(bytes)
           /\ bytes[g + 1] \in Newlines => E[i] = g + 1
           /\ bytes[g + 1] \notin Newlines =>
                 Within(bytes, E[i - 1], E[i], g + 1) /\ g + 1 # E[i - 1]
<1>1. PICK m, p, q : m = Len(bytes) /\ p = E[i - 1] /\ q = E[i]
  OBVIOUS
<1>2. m \in Nat /\ p \in 0 .. m /\ i - 1 \in 0 .. n
  <2>1. i - 1 \in 0 .. n
    OBVIOUS
  <2>2. QED BY <1>1, <2>1, LenProperties DEF LinesOf
<1>3. g \in p .. m /\ (g # p => g < q) /\ g # m
  BY <1>1 DEF Within
<1>4. p # m
  BY <1>2, <1>3
<1>5. q \in p + 1 .. m /\ bytes[q] \in Newlines /\ \A k \in p + 1 .. q - 1 : bytes[k] \notin Newlines
  BY <1>1, <1>4 DEF LinesOf, NextNewline
<1>6. g + 1 \in p + 1 .. q /\ g + 1 \in 1 .. m
  BY <1>2, <1>3, <1>5
<1>7. ASSUME bytes[g + 1] \in Newlines PROVE q = g + 1
  <2>1. g + 1 \notin p + 1 .. q - 1
    BY <1>5, <1>7
  <2>2. QED BY <1>2, <1>5, <1>6, <2>1
<1>8. ASSUME bytes[g + 1] \notin Newlines PROVE g + 1 \in p .. m /\ g + 1 < q /\ g + 1 # p
  <2>1. g + 1 # q
    BY <1>5, <1>8
  <2>2. QED BY <1>2, <1>5, <1>6, <2>1
<1>9. QED BY <1>1, <1>4, <1>6, <1>7, <1>8 DEF Within

\* At the end of the file there is no line.
LEMMA LineIsOver ==
    ASSUME NEW S, NEW bytes \in Seq(S), NEW n \in Nat, NEW E, LinesOf(bytes, n, E),
           NEW i \in 1 .. n, NEW g, Within(bytes, E[i - 1], E[i], g), g = Len(bytes)
    PROVE  E[i - 1] = g /\ E[i] = g
<1>1. PICK m, p, q : m = Len(bytes) /\ p = E[i - 1] /\ q = E[i]
  OBVIOUS
<1>2. m \in Nat /\ p \in 0 .. m /\ q \in 0 .. m
  <2>1. i - 1 \in 0 .. n /\ i \in 0 .. n
    OBVIOUS
  <2>2. QED BY <1>1, <2>1, LenProperties DEF LinesOf
<1>3. g = p
  BY <1>1, <1>2 DEF Within
<1>4. QED BY <1>1, <1>3 DEF LinesOf

\* A line ends where the next one begins, or before.
LEMMA LineEndsGrow ==
    ASSUME NEW S, NEW bytes \in Seq(S), NEW n \in Nat, NEW E, LinesOf(bytes, n, E), NEW i \in 1 .. n
    PROVE  /\ E[i - 1] \in Nat /\ E[i] \in Nat /\ E[i - 1] =< E[i] /\ E[i] =< Len(bytes)
           /\ E[i - 1] # Len(bytes) => E[i - 1] + 1 =< E[i]
<1>1. PICK m, p, q : m = Len(bytes) /\ p = E[i - 1] /\ q = E[i]
  OBVIOUS
<1>2. m \in Nat /\ p \in 0 .. m /\ q \in 0 .. m
  <2>1. i - 1 \in 0 .. n /\ i \in 0 .. n
    OBVIOUS
  <2>2. QED BY <1>1, <2>1, LenProperties DEF LinesOf
<1>3. (p = m => q = p) /\ (p # m => q \in p + 1 .. m)
  BY <1>1 DEF LinesOf, NextNewline
<1>4. QED BY <1>1, <1>2, <1>3

\* A part of a sequence that is in its domain, and the part longer by one.
LEMMA PartOfSeq ==
    ASSUME NEW S, NEW s \in Seq(S), NEW p \in Nat, NEW q \in Nat, q =< Len(s)
    PROVE  /\ SubSeq(s, p + 1, q) \in Seq(S)
           /\ q =< p => SubSeq(s, p + 1, q) = <<>>
           /\ p =< q /\ q # Len(s) => SubSeq(s, p + 1, q + 1) = SubSeq(s, p + 1, q) \o <<s[q + 1]>>
<1>1. Len(s) \in Nat
  BY LenProperties
<1>2. SubSeq(s, p + 1, q) \in Seq(S)
  <2>1. \A i \in p + 1 .. q : s[i] \in S
    <3> SUFFICES ASSUME NEW i \in p + 1 .. q PROVE s[i] \in S
      OBVIOUS
    <3>1. i \in 1 .. Len(s)
      BY <1>1
    <3>2. QED BY <3>1, ElementOfSeq
  <2>2. p + 1 \in Int /\ q \in Int
    OBVIOUS
  <2>3. QED BY <2>1, <2>2, SubSeqProperties
<1>3. ASSUME q =< p PROVE SubSeq(s, p + 1, q) = <<>>
  <2>1. p + 1 \in Int /\ q \in Int /\ q < p + 1
    BY <1>3
  <2>2. QED BY <2>1, SubSeqEmpty
<1>4. ASSUME p =< q, q # Len(s)
      PROVE  SubSeq(s, p + 1, q + 1) = SubSeq(s, p + 1, q) \o <<s[q + 1]>>
  <2>1. p + 1 \in 1 .. Len(s) /\ q + 1 \in p + 1 .. Len(s) /\ (q + 1) - 1 = q
    BY <1>1, <1>4
  <2>2. QED BY <2>1, SubSeqRecursiveSecond
<1>5. QED BY <1>2, <1>3, <1>4

\* What is printed: bytes of the files, and paste's own newlines.
Printed == Places \cup {NL}

\* After X, the bytes of a file behind place p up to q have been printed.
Shown(X, bytes, p, q) == X \o SubSeq(bytes, p + 1, q)

\* Nothing, if there is none.
LEMMA ShownNothing ==
    ASSUME NEW S, NEW X \in Seq(S), NEW bytes, NEW p \in Int, NEW q \in Int, q =< p
    PROVE  Shown(X, bytes, p, q) = X
<1>1. p + 1 \in Int /\ q \in Int /\ q < p + 1
  OBVIOUS
<1>2. SubSeq(bytes, p + 1, q) = <<>>
  BY <1>1, SubSeqEmpty
<1>3. X \o <<>> = X
  BY ConcatEmptySeq
<1>4. QED BY <1>2, <1>3 DEF Shown

\* It is a sequence.
LEMMA ShownIsSeq ==
    ASSUME NEW S, NEW X \in Seq(S), NEW bytes \in Seq(S), NEW p \in Nat, NEW q \in Int,
           q =< Len(bytes)
    PROVE  Shown(X, bytes, p, q) \in Seq(S)
<1>1. PICK u : u = SubSeq(bytes, p + 1, q)
  OBVIOUS
<1>2. ASSUME NEW i \in p + 1 .. q
      PROVE  bytes[i] \in S
  <2>1. i \in 1 .. Len(bytes)
    BY LenProperties
  <2>2. QED BY <2>1, ElementOfSeq
<1>3. p + 1 \in Int /\ q \in Int
  OBVIOUS
<1>4. u \in Seq(S)
  BY <1>1, <1>2, <1>3, SubSeqProperties
<1>5. X \o u \in Seq(S)
  BY <1>4, ConcatProperties
<1>6. QED BY <1>1, <1>5 DEF Shown

\* A concatenation of three, in either order.
LEMMA ConcatThree ==
    ASSUME NEW S, NEW t \in Seq(S), NEW u \in Seq(S), NEW e \in S
    PROVE  Append(t \o u, e) = t \o (u \o <<e>>)
<1>1. <<e>> \in Seq(S)
  OBVIOUS
<1>2. t \o u \in Seq(S)
  BY ConcatProperties
<1>3. Append(t \o u, e) = (t \o u) \o <<e>>
  BY <1>2, AppendIsConcat
<1>4. (t \o u) \o <<e>> = t \o (u \o <<e>>)
  BY <1>1, ConcatAssociative
<1>5. QED BY <1>3, <1>4

\* And then one byte more.
LEMMA ShownByte ==
    ASSUME NEW S, NEW X \in Seq(S), NEW bytes \in Seq(S), NEW p \in Nat, NEW q \in Nat,
           p =< q, q =< Len(bytes), q # Len(bytes)
    PROVE  Append(Shown(X, bytes, p, q), bytes[q + 1]) = Shown(X, bytes, p, q + 1)
<1>1. PICK u, e : u = SubSeq(bytes, p + 1, q) /\ e = bytes[q + 1]
  OBVIOUS
<1>2. u \in Seq(S) /\ SubSeq(bytes, p + 1, q + 1) = u \o <<e>>
  BY <1>1, PartOfSeq
<1>3. e \in S
  <2>1. q + 1 \in 1 .. Len(bytes)
    BY LenProperties
  <2>2. QED BY <1>1, <2>1, ElementOfSeq
<1>4. Append(X \o u, e) = X \o (u \o <<e>>)
  BY <1>2, <1>3, ConcatThree
<1>5. QED BY <1>1, <1>2, <1>4 DEF Shown

\* The lines of two files, and what paste prints of the first i of them.
TwoFiles(a, b, n, A, B, P) ==
    /\ a \in Seq(Printed) /\ b \in Seq(Printed) /\ n = Len(a) + Len(b) + 1
    /\ LinesOf(a, n, A) /\ LinesOf(b, n, B)
    /\ P[0] = <<>>
    /\ \A i \in 1 .. n :
          P[i] = Append(Shown(Shown(P[i - 1], a, A[i - 1], A[i] - 1), b, B[i - 1], B[i] - 1), NL)
    /\ \A i \in 0 .. n : P[i] \in Seq(Printed)

\* The part of a line that is before its end is one of bytes.
LEMMA LineIsSeq ==
    ASSUME NEW S, NEW s \in Seq(S), NEW n \in Nat, NEW E, LinesOf(s, n, E), NEW i \in 1 .. n
    PROVE  SubSeq(s, E[i - 1] + 1, E[i] - 1) \in Seq(S)
<1>1. PICK p, q : p = E[i - 1] /\ q = E[i]
  OBVIOUS
<1>2. p \in Nat /\ q \in Nat /\ q =< Len(s) /\ Len(s) \in Nat
  BY <1>1, LineEndsGrow, LenProperties
<1>3. \A k \in p + 1 .. q - 1 : s[k] \in S
  <2> SUFFICES ASSUME NEW k \in p + 1 .. q - 1 PROVE s[k] \in S
    OBVIOUS
  <2>1. k \in 1 .. Len(s)
    BY <1>2
  <2>2. QED BY <2>1, ElementOfSeq
<1>4. p + 1 \in Int /\ q - 1 \in Int
  BY <1>2
<1>5. SubSeq(s, p + 1, q - 1) \in Seq(S)
  BY <1>3, <1>4, SubSeqProperties
<1>6. QED BY <1>1, <1>5

\* SideBySide is that.
LEMMA SideBySideSteps ==
    ASSUME NEW a \in Seq(Printed), NEW b \in Seq(Printed), EndsInNewline(a), EndsInNewline(b),
           NEW n, n = Len(a) + Len(b) + 1
    PROVE  TwoFiles(a, b, n, LineEnds(a, n), LineEnds(b, n), SideBySide(a, b, n))
<1> DEFINE S == Seq(Printed)
           first(i) == Line(a, n, i)
           second(i) == Line(b, n, i)
           Body(f) == [i \in 0 .. n |->
                         IF i = 0 THEN <<>> ELSE f[i - 1] \o first(i) \o second(i) \o <<NL>>]
           upTo == CHOOSE f : f = Body(f)
           step == [i \in 1 .. n |-> [s \in S |-> s \o first(i) \o second(i) \o <<NL>>]]
<1>1. n \in Nat
  BY LenProperties
<1>2. PICK A, B : A = LineEnds(a, n) /\ B = LineEnds(b, n)
  OBVIOUS
<1>3. LinesOf(a, n, A) /\ LinesOf(b, n, B)
  BY <1>1, <1>2, LineEndsSteps
<1>4. \A i \in 1 .. n : /\ first(i) = SubSeq(a, A[i - 1] + 1, A[i] - 1)
                        /\ second(i) = SubSeq(b, B[i - 1] + 1, B[i] - 1)
  BY <1>2 DEF Line
<1>5. \A i \in 1 .. n : first(i) \in S /\ second(i) \in S
  <2> SUFFICES ASSUME NEW i \in 1 .. n PROVE first(i) \in S /\ second(i) \in S
    OBVIOUS
  <2>1. SubSeq(a, A[i - 1] + 1, A[i] - 1) \in S /\ SubSeq(b, B[i - 1] + 1, B[i] - 1) \in S
    BY <1>1, <1>3, LineIsSeq
  <2>2. QED BY <1>4, <2>1
<1> HIDE DEF first, second
<1>6. \A i \in 1 .. n, s \in S : s \o first(i) \o second(i) \o <<NL>> \in S
  <2> SUFFICES ASSUME NEW i \in 1 .. n, NEW s \in S
               PROVE  s \o first(i) \o second(i) \o <<NL>> \in S
    OBVIOUS
  <2>1. first(i) \in Seq(Printed) /\ second(i) \in Seq(Printed) /\ s \in Seq(Printed)
    BY <1>5
  <2>2. <<NL>> \in Seq(Printed)
    BY DEF Printed
  <2>3. PICK s1, s2 : s1 = s \o first(i) /\ s2 = s1 \o second(i)
    OBVIOUS
  <2>4. s1 \in Seq(Printed)
    BY <2>1, <2>3, ConcatProperties
  <2>5. s2 \in Seq(Printed)
    BY <2>1, <2>3, <2>4, ConcatProperties
  <2>6. s2 \o <<NL>> \in Seq(Printed)
    BY <2>2, <2>5, ConcatProperties
  <2>7. QED BY <2>3, <2>6
<1>7. <<>> \in S
  BY EmptySeq
<1> HIDE DEF S
<1>8. upTo = Body(upTo)
  <2>1. step \in [1 .. n -> [S -> S]]
    BY <1>6
  <2>2. PICK F \in [0 .. n -> S] : Solves(F, n, <<>>, step)
    <3> HIDE DEF step
    <3> QED BY <1>1, <1>7, <2>1, RecursionHasSolution
  <2>3. \A i \in 1 .. n : F[i] = F[i - 1] \o first(i) \o second(i) \o <<NL>>
    <3> SUFFICES ASSUME NEW i \in 1 .. n PROVE F[i] = F[i - 1] \o first(i) \o second(i) \o <<NL>>
      OBVIOUS
    <3>1. i - 1 \in 0 .. n
      BY <1>1
    <3>2. F[i - 1] \in S
      BY <2>2, <3>1
    <3>3. F[i] = step[i][F[i - 1]]
      BY <2>2 DEF Solves
    <3>4. QED BY <3>2, <3>3
  <2>4. F = Body(F)
    <3>1. ASSUME NEW i \in 0 .. n
          PROVE  F[i] = Body(F)[i]
      <4>1. CASE i = 0
        BY <1>1, <2>2, <4>1 DEF Solves
      <4>2. CASE i # 0
        <5>1. i \in 1 .. n
          BY <1>1, <4>2
        <5>2. QED BY <1>1, <2>3, <4>2, <5>1
      <4>3. QED BY <4>1, <4>2
    <3>2. QED BY <1>1, <2>2, <3>1
  <2> HIDE DEF Body
  <2>5. QED BY <2>4
<1>9. SideBySide(a, b, n) = upTo
  BY DEF SideBySide, first, second
<1> HIDE DEF upTo
<1>10. /\ upTo[0] = <<>>
       /\ \A i \in 1 .. n : upTo[i] = upTo[i - 1] \o first(i) \o second(i) \o <<NL>>
  <2>1. \A i \in 0 .. n : upTo[i] = IF i = 0 THEN <<>>
                                    ELSE upTo[i - 1] \o first(i) \o second(i) \o <<NL>>
    BY <1>1, <1>8
  <2>2. 0 \in 0 .. n /\ \A i \in 1 .. n : i \in 0 .. n /\ i # 0
    BY <1>1
  <2>3. QED BY <2>1, <2>2
<1>11. \A i \in 0 .. n : upTo[i] \in S
  <2>1. ASSUME NEW i \in 1 .. n, upTo[i - 1] \in S PROVE upTo[i] \in S
    BY <1>6, <1>10, <2>1
  <2>2. QED BY <1>1, <1>7, <1>10, <2>1, RecursionStaysIn
<1>12. ASSUME NEW i \in 1 .. n
       PROVE  upTo[i] = Append(Shown(Shown(upTo[i - 1], a, A[i - 1], A[i] - 1),
                                     b, B[i - 1], B[i] - 1), NL)
  <2>1. PICK X, s, t : X = upTo[i - 1] /\ s = first(i) /\ t = second(i)
    OBVIOUS
  <2>2. X \in Seq(Printed) /\ s \in Seq(Printed) /\ t \in Seq(Printed)
    <3>1. i - 1 \in 0 .. n
      BY <1>1
    <3>2. QED BY <1>5, <1>11, <2>1, <3>1 DEF S
  <2>3. /\ Shown(X, a, A[i - 1], A[i] - 1) = X \o s
        /\ Shown(X \o s, b, B[i - 1], B[i] - 1) = (X \o s) \o t
    BY <1>4, <2>1 DEF Shown
  <2>4. (X \o s) \o t \in Seq(Printed)
    <3>1. X \o s \in Seq(Printed)
      BY <2>2, ConcatProperties
    <3>2. QED BY <2>2, <3>1, ConcatProperties
  <2>5. PICK u : u = (X \o s) \o t
    OBVIOUS
  <2>6. u \o <<NL>> = Append(u, NL)
    <3>1. u \in Seq(Printed) /\ NL \in Printed
      BY <2>4, <2>5 DEF Printed
    <3>2. QED BY <3>1, AppendIsConcat
  <2>7. upTo[i] = u \o <<NL>>
    BY <1>10, <2>1, <2>5
  <2>8. Shown(Shown(X, a, A[i - 1], A[i] - 1), b, B[i - 1], B[i] - 1) = u
    BY <2>3, <2>5
  <2>9. QED BY <2>1, <2>6, <2>7, <2>8
<1>13. QED BY <1>2, <1>3, <1>9, <1>10, <1>11, <1>12 DEF TwoFiles, S

\* Before line i, neither file was at its end at the beginning of a line.
NotOver(a, b, A, B, i) ==
    \A j \in 1 .. i - 1 : ~ (A[j - 1] = Len(a) /\ B[j - 1] = Len(b))

\* There are no more lines than bytes: with a line of which one file has something
\* there is a next one to look at.
LEMMA LinesSuffice ==
    ASSUME NEW a, NEW b, NEW n, NEW A, NEW B, NEW P, TwoFiles(a, b, n, A, B, P),
           NEW i \in 1 .. n, NotOver(a, b, A, B, i + 1)
    PROVE  i + 1 \in 1 .. n
<1>1. PICK k, m : k = Len(a) /\ m = Len(b)
  OBVIOUS
<1>2. /\ k \in Nat /\ m \in Nat /\ n = k + m + 1 /\ n \in Nat
      /\ LinesOf(a, n, A) /\ LinesOf(b, n, B)
      /\ a \in Seq(Printed) /\ b \in Seq(Printed)
  <2>1. a \in Seq(Printed) /\ b \in Seq(Printed) /\ n = k + m + 1
        /\ LinesOf(a, n, A) /\ LinesOf(b, n, B)
    BY <1>1 DEF TwoFiles
  <2>2. k \in Nat /\ m \in Nat
    BY <1>1, <2>1, LenProperties
  <2>3. QED BY <2>1, <2>2
<1> DEFINE T == {j \in 0 .. i : A[j] + B[j] >= j}
<1>3. 0 \in T
  BY <1>2 DEF LinesOf
<1>4. ASSUME NEW j \in 0 .. i - 1, j \in T
      PROVE  j + 1 \in T
  <2>1. j + 1 \in 1 .. n /\ j + 1 \in 1 .. (i + 1) - 1 /\ (j + 1) - 1 = j /\ j + 1 \in 0 .. i
    BY <1>2
  <2>2. PICK p, q, r, s : p = A[j] /\ q = A[j + 1] /\ r = B[j] /\ s = B[j + 1]
    OBVIOUS
  <2>3. p \in Nat /\ q \in Nat /\ p =< q /\ (p # k => p + 1 =< q)
    BY <1>1, <1>2, <2>1, <2>2, LineEndsGrow
  <2>4. r \in Nat /\ s \in Nat /\ r =< s /\ (r # m => r + 1 =< s)
    BY <1>1, <1>2, <2>1, <2>2, LineEndsGrow
  <2>5. p # k \/ r # m
    BY <1>1, <2>1, <2>2 DEF NotOver
  <2>6. p + r >= j
    BY <1>4, <2>2
  <2>7. q + s >= j + 1
    BY <2>3, <2>4, <2>5, <2>6
  <2>8. QED BY <2>1, <2>2, <2>7
<1>5. \A j \in 0 .. i : j \in T
  <2>1. i \in Nat
    BY <1>2
  <2> HIDE DEF T
  <2>2. QED BY <1>3, <1>4, <2>1, SetInduction
<1>6. A[i] + B[i] >= i
  <2>1. i \in 0 .. i
    BY <1>2
  <2>2. QED BY <1>5, <2>1
<1>7. A[i] \in 0 .. k /\ B[i] \in 0 .. m
  <2>1. i \in 0 .. n
    BY <1>2
  <2>2. QED BY <1>1, <1>2, <2>1 DEF LinesOf
<1>8. QED BY <1>2, <1>6, <1>7

\* The first line that neither file has is where Pasted ends.
LEMMA PastedEnds ==
    ASSUME NEW a, NEW b, NEW n, n = Len(a) + Len(b) + 1, n \in Nat, NEW i \in 1 .. n,
           NotOver(a, b, LineEnds(a, n), LineEnds(b, n), i), Exhausted(a, b, n, i)
    PROVE  Pasted(a, b) = SideBySide(a, b, n)[i]
<1> DEFINE T == {j \in 1 .. n : Exhausted(a, b, n, j)}
<1>1. T \in SUBSET Nat /\ i \in T
  OBVIOUS
<1>2. Min(T) \in T /\ \A j \in T : Min(T) =< j
  <2> HIDE DEF T
  <2> QED BY <1>1, MinIsLeast
<1>3. PICK m : m = Min(T)
  OBVIOUS
<1>4. m \in 1 .. n /\ Exhausted(a, b, n, m) /\ m =< i
  BY <1>1, <1>2, <1>3
<1>5. m \notin 1 .. i - 1
  BY <1>4 DEF NotOver, Exhausted
<1>6. m = i
  BY <1>4, <1>5
<1>7. Pasted(a, b) = SideBySide(a, b, n)[m]
  BY <1>3 DEF Pasted
<1>8. QED BY <1>6, <1>7

\* In the inner loop of the first file: g1 and g2 is what has been read of the two,
\* the line is i.
InFirst(a, b, A, B, P, i, g1, g2, sum, out) ==
    /\ Within(a, A[i - 1], A[i], g1) /\ g2 = B[i - 1] /\ sum = g1 - A[i - 1]
    /\ out = Shown(P[i - 1], a, A[i - 1], g1)

\* In that of the second: the first file's line has been read.
InSecond(a, b, A, B, P, i, g1, g2, sum, byte, out) ==
    /\ g1 = A[i] /\ Within(b, B[i - 1], B[i], g2)
    /\ sum = (A[i] - A[i - 1]) + (g2 - B[i - 1])
    /\ g2 = B[i - 1] /\ A[i] # A[i - 1] => byte \in Newlines
    /\ out = Shown(Shown(P[i - 1], a, A[i - 1], A[i] - 1), b, B[i - 1], g2)

\* What the lines of two files are: line i is from p to q in the one, from r to t in
\* the other, and X is printed before it.
Lines(a, b, n, A, B, p, q, r, t, X) ==
    /\ a \in Seq(Printed) /\ b \in Seq(Printed) /\ n \in Nat
    /\ Len(a) \in Nat /\ Len(b) \in Nat
    /\ LinesOf(a, n, A) /\ LinesOf(b, n, B)
    /\ p \in Nat /\ q \in Nat /\ p =< q /\ q =< Len(a)
    /\ r \in Nat /\ t \in Nat /\ r =< t /\ t =< Len(b)
    /\ X \in Seq(Printed) /\ Shown(X, a, p, q - 1) \in Seq(Printed)

\* Line i of two files is such a line.
LEMMA LinesTypes ==
    ASSUME NEW a, NEW b, NEW n, NEW A, NEW B, NEW P, TwoFiles(a, b, n, A, B, P), NEW i \in 1 .. n
    PROVE  /\ Lines(a, b, n, A, B, A[i - 1], A[i], B[i - 1], B[i], P[i - 1])
           /\ P[i] \in Seq(Printed)
<1>1. /\ a \in Seq(Printed) /\ b \in Seq(Printed) /\ n = Len(a) + Len(b) + 1
      /\ LinesOf(a, n, A) /\ LinesOf(b, n, B)
  BY DEF TwoFiles
<1>2. Len(a) \in Nat /\ Len(b) \in Nat
  BY <1>1, LenProperties
<1>3. n \in Nat /\ i - 1 \in 0 .. n /\ i \in 0 .. n
  BY <1>1, <1>2
<1>4. PICK p, q, r, t, X : p = A[i - 1] /\ q = A[i] /\ r = B[i - 1] /\ t = B[i] /\ X = P[i - 1]
  OBVIOUS
<1>5. /\ p \in Nat /\ q \in Nat /\ p =< q /\ q =< Len(a)
      /\ r \in Nat /\ t \in Nat /\ r =< t /\ t =< Len(b)
  BY <1>1, <1>3, <1>4, LineEndsGrow
<1>6. X \in Seq(Printed) /\ P[i] \in Seq(Printed)
  BY <1>3, <1>4 DEF TwoFiles
<1>7. Shown(X, a, p, q - 1) \in Seq(Printed)
  <2>1. PICK m : m = q - 1
    OBVIOUS
  <2>2. m \in Int /\ m =< Len(a)
    BY <1>2, <1>5, <2>1
  <2>3. Shown(X, a, p, m) \in Seq(Printed)
    BY <1>1, <1>5, <1>6, <2>2, ShownIsSeq
  <2>4. QED BY <2>1, <2>3
<1>8. QED BY <1>1, <1>2, <1>3, <1>4, <1>5, <1>6, <1>7 DEF Lines

\* The inner loop of the first file reads a byte.
LEMMA FirstReads ==
    ASSUME NEW a, NEW b, NEW n, NEW A, NEW B, NEW P, TwoFiles(a, b, n, A, B, P), NEW i \in 1 .. n,
           NEW g1, NEW g2, NEW sum, NEW out, InFirst(a, b, A, B, P, i, g1, g2, sum, out),
           g1 # Len(a), NEW byte, byte = a[g1 + 1]
    PROVE  /\ sum \in Int /\ sum + 1 > 0
           /\ byte \notin Newlines =>
                 InFirst(a, b, A, B, P, i, g1 + 1, g2, sum + 1, Append(out, byte))
           /\ byte \in Newlines => InSecond(a, b, A, B, P, i, g1 + 1, g2, sum + 1, byte, out)
<1>1. PICK p, q, r, t, X : p = A[i - 1] /\ q = A[i] /\ r = B[i - 1] /\ t = B[i] /\ X = P[i - 1]
  OBVIOUS
<1>2. Lines(a, b, n, A, B, p, q, r, t, X)
  BY <1>1, LinesTypes
<1>3. Within(a, p, q, g1) /\ g2 = r /\ sum = g1 - p /\ out = Shown(X, a, p, g1)
  BY <1>1 DEF InFirst
<1>4. /\ byte \in Newlines => q = g1 + 1
      /\ byte \notin Newlines => Within(a, p, q, g1 + 1)
  <2>1. a \in Seq(Printed) /\ n \in Nat /\ LinesOf(a, n, A) /\ Within(a, A[i - 1], A[i], g1)
    BY <1>1, <1>2, <1>3 DEF Lines
  <2>2. /\ a[g1 + 1] \in Newlines => A[i] = g1 + 1
        /\ a[g1 + 1] \notin Newlines => Within(a, A[i - 1], A[i], g1 + 1)
    BY <2>1, LineGoesOn
  <2>3. QED BY <1>1, <2>2
<1>5. g1 \in Nat /\ p =< g1 /\ g1 =< Len(a)
  BY <1>2, <1>3 DEF Within, Lines
<1>6. sum \in Int /\ sum + 1 > 0 /\ sum + 1 = (g1 + 1) - p
  BY <1>2, <1>3, <1>5 DEF Lines
<1>7. ASSUME byte \notin Newlines
      PROVE  InFirst(a, b, A, B, P, i, g1 + 1, g2, sum + 1, Append(out, byte))
  <2>1. Append(out, byte) = Shown(X, a, p, g1 + 1)
    <3>1. X \in Seq(Printed) /\ a \in Seq(Printed) /\ p \in Nat
      BY <1>2 DEF Lines
    <3>2. Append(Shown(X, a, p, g1), a[g1 + 1]) = Shown(X, a, p, g1 + 1)
      BY <1>5, <3>1, ShownByte
    <3>3. QED BY <1>3, <3>2
  <2>2. QED BY <1>1, <1>3, <1>4, <1>6, <1>7, <2>1 DEF InFirst
<1>8. ASSUME byte \in Newlines
      PROVE  InSecond(a, b, A, B, P, i, g1 + 1, g2, sum + 1, byte, out)
  <2>1. q = g1 + 1 /\ q - 1 = g1
    BY <1>2, <1>4, <1>5, <1>8
  <2>2. Within(b, r, t, g2) /\ sum + 1 = (q - p) + (g2 - r)
    BY <1>2, <1>3, <1>6, <2>1 DEF Within, Lines
  <2>3. out = Shown(Shown(X, a, p, q - 1), b, r, g2)
    <3>1. out = Shown(X, a, p, q - 1) /\ out \in Seq(Printed)
      BY <1>2, <1>3, <2>1 DEF Lines
    <3>2. r \in Int /\ g2 \in Int /\ g2 =< r
      BY <1>2, <1>3 DEF Lines
    <3>3. Shown(out, b, r, g2) = out
      BY <3>1, <3>2, ShownNothing
    <3>4. QED BY <3>1, <3>3
  <2>4. QED BY <1>1, <1>8, <2>1, <2>2, <2>3 DEF InSecond
<1>9. QED BY <1>6, <1>7, <1>8

\* It is at the end of the first file.
LEMMA FirstOver ==
    ASSUME NEW a, NEW b, NEW n, NEW A, NEW B, NEW P, TwoFiles(a, b, n, A, B, P), NEW i \in 1 .. n,
           NEW g1, NEW g2, NEW sum, NEW out, InFirst(a, b, A, B, P, i, g1, g2, sum, out),
           g1 = Len(a), NEW byte
    PROVE  sum = 0 /\ InSecond(a, b, A, B, P, i, g1, g2, 0, byte, out)
<1>1. PICK p, q, r, t, X : p = A[i - 1] /\ q = A[i] /\ r = B[i - 1] /\ t = B[i] /\ X = P[i - 1]
  OBVIOUS
<1>2. Lines(a, b, n, A, B, p, q, r, t, X)
  BY <1>1, LinesTypes
<1>3. Within(a, p, q, g1) /\ g2 = r /\ sum = g1 - p /\ out = Shown(X, a, p, g1)
  BY <1>1 DEF InFirst
<1>4. p = g1 /\ q = g1
  <2>1. a \in Seq(Printed) /\ n \in Nat /\ LinesOf(a, n, A) /\ Within(a, A[i - 1], A[i], g1)
    BY <1>1, <1>2, <1>3 DEF Lines
  <2>2. A[i - 1] = g1 /\ A[i] = g1
    BY <2>1, LineIsOver
  <2>3. QED BY <1>1, <2>2
<1>5. sum = 0 /\ 0 = (q - p) + (g2 - r) /\ Within(b, r, t, g2)
  BY <1>2, <1>3, <1>4 DEF Within, Lines
<1>6. out = Shown(Shown(X, a, p, q - 1), b, r, g2)
  <2>1. X \in Seq(Printed) /\ p \in Int /\ g1 \in Int /\ q - 1 \in Int /\ r \in Int /\ g2 \in Int
        /\ g1 =< p /\ q - 1 =< p /\ g2 =< r
    BY <1>2, <1>3, <1>4 DEF Lines
  <2>2. Shown(X, a, p, g1) = X
    BY <2>1, ShownNothing
  <2>3. Shown(X, a, p, q - 1) = X
    BY <2>1, ShownNothing
  <2>4. Shown(X, b, r, g2) = X
    BY <2>1, ShownNothing
  <2>5. QED BY <1>3, <2>2, <2>3, <2>4
<1>7. QED BY <1>1, <1>4, <1>5, <1>6 DEF InSecond

\* If one of the files had something of a line there is a next one.
LEMMA LineFollows ==
    ASSUME NEW a, NEW b, NEW n, NEW A, NEW B, NEW P, TwoFiles(a, b, n, A, B, P), NEW i \in 1 .. n,
           NotOver(a, b, A, B, i), ~ (A[i - 1] = Len(a) /\ B[i - 1] = Len(b))
    PROVE  /\ i + 1 \in 1 .. n /\ NotOver(a, b, A, B, i + 1)
           /\ InFirst(a, b, A, B, P, i + 1, A[i], B[i], 0, P[i])
<1>1. PICK p, q, r, t, X : p = A[i - 1] /\ q = A[i] /\ r = B[i - 1] /\ t = B[i] /\ X = P[i - 1]
  OBVIOUS
<1>2. Lines(a, b, n, A, B, p, q, r, t, X) /\ P[i] \in Seq(Printed)
  BY <1>1, LinesTypes
<1>3. NotOver(a, b, A, B, i + 1)
  <2>1. \A j \in 1 .. (i + 1) - 1 : j \in 1 .. i - 1 \/ j = i
    OBVIOUS
  <2>2. QED BY <2>1 DEF NotOver
<1>4. i + 1 \in 1 .. n
  BY <1>3, LinesSuffice
<1>5. (i + 1) - 1 = i
  OBVIOUS
<1>6. PICK Y, u : Y = P[i] /\ u = A[i + 1]
  OBVIOUS
<1>7. Within(a, q, u, q) /\ 0 = q - q
  BY <1>2 DEF Within, Lines
<1>8. Y = Shown(Y, a, q, q)
  <2>1. Y \in Seq(Printed) /\ q \in Int /\ q =< q
    BY <1>2, <1>6 DEF Lines
  <2>2. QED BY <2>1, ShownNothing
<1>9. InFirst(a, b, A, B, P, i + 1, A[i], B[i], 0, P[i])
  BY <1>1, <1>5, <1>6, <1>7, <1>8 DEF InFirst
<1>10. QED BY <1>3, <1>4, <1>9

\* With a newline of its own after line i, paste has printed i lines.
LEMMA LineIsPrinted ==
    ASSUME NEW a, NEW b, NEW n, NEW A, NEW B, NEW P, TwoFiles(a, b, n, A, B, P), NEW i \in 1 .. n
    PROVE  P[i] = Append(Shown(Shown(P[i - 1], a, A[i - 1], A[i] - 1), b, B[i - 1], B[i] - 1), NL)
BY DEF TwoFiles

\* The inner loop of the second file reads a byte.
LEMMA SecondReads ==
    ASSUME NEW a, NEW b, NEW n, NEW A, NEW B, NEW P, TwoFiles(a, b, n, A, B, P), NEW i \in 1 .. n,
           NotOver(a, b, A, B, i), NEW g1, NEW g2, NEW sum, NEW before, NEW out,
           InSecond(a, b, A, B, P, i, g1, g2, sum, before, out),
           g2 # Len(b), NEW byte, byte = b[g2 + 1]
    PROVE  /\ sum \in Int /\ sum + 1 > 0
           /\ byte \notin Newlines =>
                 InSecond(a, b, A, B, P, i, g1, g2 + 1, sum + 1, byte, Append(out, byte))
           /\ byte \in Newlines =>
                 /\ i + 1 \in 1 .. n /\ NotOver(a, b, A, B, i + 1)
                 /\ InFirst(a, b, A, B, P, i + 1, g1, g2 + 1, 0, Append(out, NL))
<1>1. PICK p, q, r, t, X : p = A[i - 1] /\ q = A[i] /\ r = B[i - 1] /\ t = B[i] /\ X = P[i - 1]
  OBVIOUS
<1>2. Lines(a, b, n, A, B, p, q, r, t, X)
  BY <1>1, LinesTypes
<1>3. PICK Y : Y = Shown(X, a, p, q - 1)
  OBVIOUS
<1>4. /\ g1 = q /\ Within(b, r, t, g2) /\ sum = (q - p) + (g2 - r)
      /\ out = Shown(Y, b, r, g2)
  BY <1>1, <1>3 DEF InSecond
<1>5. /\ r # Len(b)
      /\ byte \in Newlines => t = g2 + 1
      /\ byte \notin Newlines => Within(b, r, t, g2 + 1) /\ g2 + 1 # r
  <2>1. b \in Seq(Printed) /\ n \in Nat /\ LinesOf(b, n, B) /\ Within(b, B[i - 1], B[i], g2)
    BY <1>1, <1>2, <1>4 DEF Lines
  <2>2. /\ B[i - 1] # Len(b)
        /\ b[g2 + 1] \in Newlines => B[i] = g2 + 1
        /\ b[g2 + 1] \notin Newlines =>
              Within(b, B[i - 1], B[i], g2 + 1) /\ g2 + 1 # B[i - 1]
    BY <2>1, LineGoesOn
  <2>3. QED BY <1>1, <2>2
<1>6. g2 \in Nat /\ r =< g2 /\ g2 =< Len(b)
  BY <1>2, <1>4 DEF Within, Lines
<1>7. sum \in Int /\ sum + 1 > 0 /\ sum + 1 = (q - p) + ((g2 + 1) - r)
  BY <1>2, <1>4, <1>6 DEF Lines
<1>8. ASSUME byte \notin Newlines
      PROVE  InSecond(a, b, A, B, P, i, g1, g2 + 1, sum + 1, byte, Append(out, byte))
  <2>1. Append(out, byte) = Shown(Y, b, r, g2 + 1)
    <3>1. Y \in Seq(Printed) /\ b \in Seq(Printed) /\ r \in Nat
      BY <1>2, <1>3 DEF Lines
    <3>2. Append(Shown(Y, b, r, g2), b[g2 + 1]) = Shown(Y, b, r, g2 + 1)
      BY <1>6, <3>1, ShownByte
    <3>3. QED BY <1>4, <3>2
  <2>2. QED BY <1>1, <1>3, <1>4, <1>5, <1>7, <1>8, <2>1 DEF InSecond
<1>9. ASSUME byte \in Newlines
      PROVE  /\ i + 1 \in 1 .. n /\ NotOver(a, b, A, B, i + 1)
             /\ InFirst(a, b, A, B, P, i + 1, g1, g2 + 1, 0, Append(out, NL))
  <2>1. t = g2 + 1 /\ t - 1 = g2
    BY <1>2, <1>5, <1>6, <1>9
  <2>2. Append(out, NL) = P[i]
    <3>1. P[i] = Append(Shown(Shown(X, a, p, q - 1), b, r, t - 1), NL)
      BY <1>1, LineIsPrinted
    <3>2. QED BY <1>3, <1>4, <2>1, <3>1
  <2>3. ~ (A[i - 1] = Len(a) /\ B[i - 1] = Len(b))
    BY <1>1, <1>5
  <2>4. /\ i + 1 \in 1 .. n /\ NotOver(a, b, A, B, i + 1)
        /\ InFirst(a, b, A, B, P, i + 1, A[i], B[i], 0, P[i])
    BY <2>3, LineFollows
  <2>5. QED BY <1>1, <1>4, <2>1, <2>2, <2>4
<1>10. QED BY <1>7, <1>8, <1>9

\* It is at the end of the second file.
LEMMA SecondOver ==
    ASSUME NEW a, NEW b, NEW n, NEW A, NEW B, NEW P, TwoFiles(a, b, n, A, B, P), NEW i \in 1 .. n,
           NotOver(a, b, A, B, i), NEW g1, NEW g2, NEW sum, NEW before, NEW out,
           InSecond(a, b, A, B, P, i, g1, g2, sum, before, out), g2 = Len(b)
    PROVE  /\ sum \in Nat
           /\ sum # 0 => /\ before \in Newlines
                         /\ i + 1 \in 1 .. n /\ NotOver(a, b, A, B, i + 1)
                         /\ InFirst(a, b, A, B, P, i + 1, g1, g2, 0, Append(out, NL))
           /\ sum = 0 => /\ A[i - 1] = Len(a) /\ B[i - 1] = Len(b)
                         /\ Append(out, NL) = P[i]
<1>1. PICK p, q, r, t, X : p = A[i - 1] /\ q = A[i] /\ r = B[i - 1] /\ t = B[i] /\ X = P[i - 1]
  OBVIOUS
<1>2. Lines(a, b, n, A, B, p, q, r, t, X)
  BY <1>1, LinesTypes
<1>3. PICK Y : Y = Shown(X, a, p, q - 1)
  OBVIOUS
<1>4. /\ g1 = q /\ Within(b, r, t, g2) /\ sum = (q - p) + (g2 - r)
      /\ g2 = r /\ q # p => before \in Newlines
      /\ out = Shown(Y, b, r, g2)
  BY <1>1, <1>3 DEF InSecond
<1>5. r = g2 /\ t = g2
  <2>1. b \in Seq(Printed) /\ n \in Nat /\ LinesOf(b, n, B) /\ Within(b, B[i - 1], B[i], g2)
    BY <1>1, <1>2, <1>4 DEF Lines
  <2>2. B[i - 1] = g2 /\ B[i] = g2
    BY <2>1, LineIsOver
  <2>3. QED BY <1>1, <2>2
<1>6. sum = q - p /\ sum \in Nat
  BY <1>2, <1>4, <1>5 DEF Lines
<1>7. Append(out, NL) = P[i]
  <2>1. P[i] = Append(Shown(Y, b, r, t - 1), NL)
    BY <1>1, <1>3, LineIsPrinted
  <2>2. Y \in Seq(Printed) /\ r \in Int /\ g2 \in Int /\ t - 1 \in Int /\ g2 =< r /\ t - 1 =< r
    BY <1>2, <1>3, <1>5 DEF Lines
  <2>3. Shown(Y, b, r, g2) = Y
    BY <2>2, ShownNothing
  <2>4. Shown(Y, b, r, t - 1) = Y
    BY <2>2, ShownNothing
  <2>5. QED BY <1>4, <2>1, <2>3, <2>4
<1>8. p # Len(a) => p + 1 =< q
  <2>1. a \in Seq(Printed) /\ n \in Nat /\ LinesOf(a, n, A)
    BY <1>2 DEF Lines
  <2>2. A[i - 1] # Len(a) => A[i - 1] + 1 =< A[i]
    BY <2>1, LineEndsGrow
  <2>3. QED BY <1>1, <2>2
<1>9. ASSUME sum # 0
      PROVE  /\ before \in Newlines /\ i + 1 \in 1 .. n /\ NotOver(a, b, A, B, i + 1)
             /\ InFirst(a, b, A, B, P, i + 1, g1, g2, 0, Append(out, NL))
  <2>1. q # p /\ p # Len(a)
    BY <1>2, <1>6, <1>9 DEF Lines
  <2>2. ~ (A[i - 1] = Len(a) /\ B[i - 1] = Len(b))
    BY <1>1, <2>1
  <2>3. /\ i + 1 \in 1 .. n /\ NotOver(a, b, A, B, i + 1)
        /\ InFirst(a, b, A, B, P, i + 1, A[i], B[i], 0, P[i])
    BY <2>2, LineFollows
  <2>4. QED BY <1>1, <1>4, <1>5, <1>7, <2>1, <2>3
<1>10. ASSUME sum = 0
       PROVE  p = Len(a)
  <2>1. q = p
    BY <1>2, <1>6, <1>10 DEF Lines
  <2>2. QED BY <1>2, <1>8, <2>1 DEF Lines
<1>11. QED BY <1>1, <1>5, <1>6, <1>7, <1>9, <1>10

\* paste is given two different files that are not empty and have slots.
PasteGiven ==
    /\ job.program = "paste" /\ Recorded(Args, 1) /\ Recorded(Args, 2)
    /\ ~ SameFile(Args[1], Args[2])

First == Content(Args[1])
Second == Content(Args[2])
LineCount == Len(First) + Len(Second) + 1

\* How much has been read of the k-th file.
ReadOf(k) == Len(got[Entry(Args[k]).cluster])

\* Where paste is in line i, or that it has ended there.
PasteAt(a, b, n, A, B, P, i) ==
    /\ NotOver(a, b, A, B, i)
    /\ pc = "read" => InFirst(a, b, A, B, P, i, ReadOf(1), ReadOf(2), bytes_read, printed)
    /\ pc = "read2" => InSecond(a, b, A, B, P, i, ReadOf(1), ReadOf(2), bytes_read, buffer, printed)
    /\ pc \in {"close", "unmount", "done"} =>
          A[i - 1] = Len(a) /\ B[i - 1] = Len(b) /\ printed = P[i]

SomeLine(a, b, n) ==
    \E i \in 1 .. n : PasteAt(a, b, n, LineEnds(a, n), LineEnds(b, n), SideBySide(a, b, n), i)

\* paste has printed the lines before, and what it has read of the line it is in.
PasteInv ==
    PasteGiven =>
       /\ pc \in {"mount", "open"} => /\ printed = <<>> /\ bytes_read = 0
                                      /\ \A fd \in Files : got[fd] = <<>>
       /\ \/ pc \in {"read", "read2"}
          \/ pc \in {"close", "unmount", "done"} /\ fds # <<>>
          => SomeLine(First, Second, LineCount)

\* It is given two files, and these have lines.
LEMMA PasteContents ==
    ASSUME WholeFiles, ProgramOK, PasteGiven
    PROVE  /\ Len(Args) = 2
           /\ \A k \in {1, 2} : /\ Entry(Args[k]).cluster \in Files
                                /\ Len(Content(Args[k])) = Entry(Args[k]).size
                                /\ Entry(Args[k]).size \in Nat
                                /\ \A j \in 1 .. Entry(Args[k]).size :
                                      Content(Args[k])[j] = ByteAt(Entry(Args[k]).cluster, j - 1)
           /\ Entry(Args[1]).cluster # Entry(Args[2]).cluster
           /\ TwoFiles(First, Second, LineCount, LineEnds(First, LineCount),
                       LineEnds(Second, LineCount), SideBySide(First, Second, LineCount))
           /\ LineCount \in Nat /\ 1 \in 1 .. LineCount
<1>1. job \in Jobs /\ DOMAIN job.args = 1 .. Len(job.args)
  BY ProgramsAssumption, LenProperties DEF ProgramOK
<1>2. job.program = "paste" /\ Recorded(Args, 1) /\ Recorded(Args, 2)
      /\ ~ SameFile(Args[1], Args[2])
  BY DEF PasteGiven
<1>3. Len(Args) = 2
  BY <1>1, <1>2 DEF WholeFiles, Args
<1>4. ASSUME NEW k \in {1, 2}
      PROVE  /\ Entry(Args[k]).cluster \in Files
             /\ Len(Content(Args[k])) = Entry(Args[k]).size
             /\ Entry(Args[k]).size \in Nat
             /\ \A j \in 1 .. Entry(Args[k]).size :
                   Content(Args[k])[j] = ByteAt(Entry(Args[k]).cluster, j - 1)
             /\ Content(Args[k]) \in Seq(Printed) /\ EndsInNewline(Content(Args[k]))
             /\ Found(Args[k])
  <2>1. k \in 1 .. Len(Args) /\ Recorded(Args, k)
    BY <1>2, <1>3
  <2>2. Found(Args[k]) /\ Entry(Args[k]).size > 0 /\ Args[k] \in Seq(PathNames)
    BY <2>1, ArgsArePaths DEF Recorded
  <2>3. Entry(Args[k]).cluster \in Files /\ Holds(Entry(Args[k]))
    BY <1>2, <2>1, <2>2, FilesOnCommandLine DEF AllHold
  <2>4. /\ Content(Args[k]) \in Seq(Places) /\ Len(Content(Args[k])) = Entry(Args[k]).size
        /\ Entry(Args[k]).size \in Nat
        /\ \A j \in 1 .. Entry(Args[k]).size :
              Content(Args[k])[j] = ByteAt(Entry(Args[k]).cluster, j - 1)
    BY <2>2, <2>3, ContentTypes
  <2>5. Content(Args[k]) \in Seq(Printed)
    <3>1. Places \subseteq Printed
      BY DEF Printed
    <3>2. QED BY <2>4, <3>1, SeqMonotonic
  <2>6. EndsInNewline(Content(Args[k]))
    <3>1. k \in DOMAIN job.args /\ Found(job.args[k]) /\ Entry(job.args[k]).size > 0
      BY <1>1, <2>1, <2>2 DEF Args
    <3>2. Content(job.args[k])[Entry(job.args[k]).size] \in Newlines
      BY <1>1, <1>2, <3>1 DEF WholeFiles
    <3>3. Content(Args[k])[Entry(Args[k]).size] \in Newlines
      BY <3>2 DEF Args
    <3>4. QED BY <2>4, <3>3 DEF EndsInNewline
  <2>7. QED BY <2>2, <2>3, <2>4, <2>5, <2>6
<1>5. Entry(Args[1]).cluster # Entry(Args[2]).cluster
  BY <1>2, <1>4 DEF SameFile
<1>6. TwoFiles(First, Second, LineCount, LineEnds(First, LineCount),
               LineEnds(Second, LineCount), SideBySide(First, Second, LineCount))
  <2>1. /\ First \in Seq(Printed) /\ EndsInNewline(First)
        /\ Second \in Seq(Printed) /\ EndsInNewline(Second)
    BY <1>4 DEF First, Second
  <2>2. PICK a, b, n : a = First /\ b = Second /\ n = LineCount
    OBVIOUS
  <2>3. n = Len(a) + Len(b) + 1
    BY <2>2 DEF LineCount
  <2>4. TwoFiles(a, b, n, LineEnds(a, n), LineEnds(b, n), SideBySide(a, b, n))
    BY <2>1, <2>2, <2>3, SideBySideSteps
  <2>5. QED BY <2>2, <2>4
<1>7. LineCount \in Nat /\ 1 \in 1 .. LineCount
  <2>1. Len(First) \in Nat /\ Len(Second) \in Nat
    BY <1>4 DEF First, Second
  <2>2. QED BY <2>1 DEF LineCount
<1>8. QED BY <1>3, <1>4, <1>5, <1>6, <1>7

\* A call of nqp_read for one byte gives the next one of the file, and nothing at its end.
LEMMA PasteReads ==
    ASSUME WholeFiles, ReadsInv, ReadsInv', ProgramOK, CommandInv, SlotsInv, PasteGiven,
           pc \in {"read", "read2"}, NEW k \in {1, 2}, Reads(fds[k], 1)
    PROVE  /\ ReadOf(k) # Len(Content(Args[k])) =>
                 /\ answer'.ret = 1 /\ Copied(fds[k])[1] = Content(Args[k])[ReadOf(k) + 1]
                 /\ Len(got'[Entry(Args[k]).cluster]) = ReadOf(k) + 1
           /\ ReadOf(k) = Len(Content(Args[k])) =>
                 /\ answer'.ret = 0
                 /\ Len(got'[Entry(Args[k]).cluster]) = ReadOf(k)
           /\ \A j \in {1, 2} : j # k => Len(got'[Entry(Args[j]).cluster]) = ReadOf(j)
<1>1. PICK fd, c, s, g : /\ fd = fds[k] /\ c = Entry(Args[k]).size /\ s = Content(Args[k])
                         /\ g = got[fd]
  OBVIOUS
<1>2. /\ job.program = "paste" /\ k \in 1 .. Len(fds) /\ Recorded(Args, k)
  BY DEF ProgramOK, PasteGiven
<1>3. Entry(Args[k]).cluster = fd /\ fd \in Files
      /\ \E data \in Seq(Bytes) : ReadTakes(fd, 1, c, TRUE, data)
  <2>1. /\ 1 \in Nat \ {0} /\ job.program \in {"cat", "paste"} /\ k \in 1 .. Len(fds)
        /\ Recorded(Args, k) /\ Reads(fds[k], 1)
    BY <1>2
  <2>2. /\ Entry(Args[k]).cluster = fds[k] /\ fds[k] \in Files
        /\ \E data \in Seq(Bytes) : ReadTakes(fds[k], 1, Entry(Args[k]).size, TRUE, data)
    BY <2>1, ReadsWhatHasSlot
  <2>3. QED BY <1>1, <2>2
<1>4. PICK data \in Seq(Bytes) : ReadTakes(fd, 1, c, TRUE, data)
  BY <1>3
<1>5. /\ got' = [got EXCEPT ![fd] = @ \o data] /\ answer'.ret = Len(data) /\ Copied(fd) = data
      /\ Len(data) =< 1 /\ Len(g) + Len(data) =< c
      /\ Len(g) # c => Len(data) # 0
  BY <1>1, <1>4 DEF ReadTakes
<1>6. /\ got \in [Files -> Seq(Bytes)] /\ g \in Seq(Bytes) /\ Len(g) \in Nat /\ Len(data) \in Nat
  BY <1>1, <1>3, <1>4, LenProperties DEF ReadsInv, BytesOK
<1>7. /\ got'[fd] = g \o data /\ Len(g \o data) = Len(g) + Len(data)
      /\ \A d \in Files : d # fd => got'[d] = got[d]
  <2>1. got'[fd] = g \o data /\ \A d \in Files : d # fd => got'[d] = got[d]
    BY <1>1, <1>3, <1>5, <1>6
  <2>2. Len(g \o data) = Len(g) + Len(data)
    BY <1>4, <1>6, ConcatProperties
  <2>3. QED BY <2>1, <2>2
<1>8. /\ Len(s) = c /\ c \in Nat /\ \A j \in 1 .. c : s[j] = ByteAt(fd, j - 1)
      /\ \A j \in {1, 2} : Entry(Args[j]).cluster \in Files
                           /\ (j # k => Entry(Args[j]).cluster # fd)
  <2>1. /\ \A j \in {1, 2} : Entry(Args[j]).cluster \in Files
        /\ Entry(Args[1]).cluster # Entry(Args[2]).cluster
    BY PasteContents
  <2>2. Len(s) = c /\ c \in Nat /\ \A j \in 1 .. c : s[j] = ByteAt(fd, j - 1)
    BY <1>1, <1>3, PasteContents
  <2>3. QED BY <1>3, <2>1, <2>2
<1>9. ReadOf(k) = Len(g)
  BY <1>1, <1>3 DEF ReadOf
<1>10. ASSUME Len(g) # c
       PROVE  /\ answer'.ret = 1 /\ Copied(fd)[1] = s[Len(g) + 1]
              /\ Len(got'[fd]) = Len(g) + 1
  <2>1. Len(data) = 1
    <3>1. PICK m : m = Len(data)
      OBVIOUS
    <3>2. m \in Nat /\ m =< 1 /\ m # 0
      BY <1>5, <1>6, <1>10, <3>1
    <3>3. QED BY <3>1, <3>2
  <2>2. Len(got'[fd]) = Len(g) + 1
    BY <1>7, <2>1
  <2>3. PICK n : n = Len(g) + 1
    OBVIOUS
  <2>4. n \in 1 .. Len(got'[fd]) /\ n \in 1 .. c /\ n \in Nat
    BY <1>5, <1>6, <1>8, <2>1, <2>2, <2>3
  <2>5. got'[fd][n] = ByteAt(fd, n - 1)
    <3>1. BytesOK(got')
      BY DEF ReadsInv, BytesOK
    <3>2. QED BY <1>3, <2>4, <3>1 DEF BytesOK
  <2>6. got'[fd][n] = data[1]
    <3>1. n \in 1 .. Len(g) + Len(data) /\ ~ (n <= Len(g)) /\ n - Len(g) = 1
      BY <1>6, <2>1, <2>3
    <3>2. (g \o data)[n] = IF n <= Len(g) THEN g[n] ELSE data[n - Len(g)]
      BY <1>4, <1>6, <3>1, ConcatProperties
    <3>3. QED BY <1>7, <3>1, <3>2
  <2>7. s[n] = ByteAt(fd, n - 1)
    BY <1>8, <2>4
  <2>8. QED BY <1>5, <2>1, <2>2, <2>3, <2>5, <2>6, <2>7
<1>11. ASSUME Len(g) = c
       PROVE  answer'.ret = 0 /\ Len(got'[fd]) = Len(g)
  <2>1. Len(data) = 0
    BY <1>5, <1>6, <1>8, <1>11
  <2>2. QED BY <1>5, <1>6, <1>7, <2>1
<1>12. ASSUME NEW j \in {1, 2}, j # k
       PROVE  Len(got'[Entry(Args[j]).cluster]) = ReadOf(j)
  BY <1>7, <1>8, <1>12 DEF ReadOf
<1>13. QED BY <1>1, <1>3, <1>8, <1>9, <1>10, <1>11, <1>12

\* paste begins with nothing read and nothing printed.
LEMMA PasteBegins == ProgramsInit => PasteInv
<1> SUFFICES ASSUME ProgramsInit, PasteGiven PROVE PasteInv
  BY DEF PasteInv
<1>1. /\ pc = "mount" /\ printed = <<>> /\ bytes_read = 0
      /\ \A fd \in Files : got[fd] = <<>>
  BY DEF ProgramsInit, Init, PasteGiven
<1>2. QED BY <1>1 DEF PasteInv

\* The inner loop of the first file goes on, or leaves for that of the second.
LEMMA PasteFirstStays ==
    ASSUME WholeFiles, ReadsInv, ReadsInv', ProgramOK, CommandInv, SlotsInv, PasteInv, PasteGiven,
           paste_first
    PROVE  SomeLine(First, Second, LineCount)'
<1>1. PICK sum, byte : /\ sum = bytes_read + answer'.ret
                       /\ byte = IF answer'.ret > 0 THEN Copied(fds[1])[1] ELSE buffer
  OBVIOUS
<1>2. /\ pc = "read" /\ Reads(fds[1], 1) /\ buffer' = byte /\ job' = job
      /\ sum > 0 /\ byte \notin Newlines =>
            printed' = Append(printed, byte) /\ bytes_read' = sum /\ pc' = "read"
      /\ ~ (sum > 0 /\ byte \notin Newlines) =>
            printed' = printed /\ bytes_read' = sum /\ pc' = "read2"
  BY <1>1 DEF paste_first, paste_turn, Calls
<1>3. Args' = Args /\ First' = First /\ Second' = Second /\ LineCount' = LineCount
  BY <1>2 DEF Args, First, Second, LineCount
<1>4. PICK a, b, n, A, B, P : /\ a = First /\ b = Second /\ n = LineCount
                              /\ A = LineEnds(a, n) /\ B = LineEnds(b, n)
                              /\ P = SideBySide(a, b, n)
  OBVIOUS
<1>5. TwoFiles(a, b, n, A, B, P)
  BY <1>4, PasteContents
<1>6. PICK i \in 1 .. n : PasteAt(a, b, n, A, B, P, i)
  BY <1>2, <1>4 DEF PasteInv, SomeLine
<1>7. PICK g1, g2 : g1 = ReadOf(1) /\ g2 = ReadOf(2)
  OBVIOUS
<1>8. NotOver(a, b, A, B, i) /\ InFirst(a, b, A, B, P, i, g1, g2, bytes_read, printed)
  BY <1>2, <1>6, <1>7 DEF PasteAt
<1>9. /\ g1 # Len(a) => /\ answer'.ret = 1 /\ Copied(fds[1])[1] = a[g1 + 1]
                        /\ ReadOf(1)' = g1 + 1
      /\ g1 = Len(a) => answer'.ret = 0 /\ ReadOf(1)' = g1
      /\ ReadOf(2)' = g2
  <2>1. 1 \in {1, 2} /\ 2 \in {1, 2} /\ 2 # 1 /\ pc \in {"read", "read2"}
    BY <1>2
  <2>2. /\ ReadOf(1) # Len(Content(Args[1])) =>
              /\ answer'.ret = 1 /\ Copied(fds[1])[1] = Content(Args[1])[ReadOf(1) + 1]
              /\ Len(got'[Entry(Args[1]).cluster]) = ReadOf(1) + 1
        /\ ReadOf(1) = Len(Content(Args[1])) =>
              /\ answer'.ret = 0
              /\ Len(got'[Entry(Args[1]).cluster]) = ReadOf(1)
        /\ Len(got'[Entry(Args[2]).cluster]) = ReadOf(2)
    BY <1>2, <2>1, PasteReads
  <2>3. /\ ReadOf(1)' = Len(got'[Entry(Args[1]).cluster])
        /\ ReadOf(2)' = Len(got'[Entry(Args[2]).cluster])
    BY <1>3 DEF ReadOf
  <2>4. QED BY <1>4, <1>7, <2>2, <2>3 DEF First
<1>10. SUFFICES PasteAt(a, b, n, A, B, P, i)'
  BY <1>3, <1>4 DEF SomeLine
<1>11. CASE g1 # Len(a)
  <2>1. byte = a[g1 + 1] /\ sum = bytes_read + 1
    BY <1>1, <1>9, <1>11
  <2>2. /\ sum > 0
        /\ byte \notin Newlines => InFirst(a, b, A, B, P, i, g1 + 1, g2, sum, Append(printed, byte))
        /\ byte \in Newlines => InSecond(a, b, A, B, P, i, g1 + 1, g2, sum, byte, printed)
    BY <1>5, <1>8, <1>11, <2>1, FirstReads
  <2>3. ReadOf(1)' = g1 + 1 /\ ReadOf(2)' = g2
    BY <1>9, <1>11
  <2>4. CASE byte \notin Newlines
    <3>1. printed' = Append(printed, byte) /\ bytes_read' = sum /\ pc' = "read"
      BY <1>2, <2>2, <2>4
    <3>2. InFirst(a, b, A, B, P, i, ReadOf(1)', ReadOf(2)', bytes_read', printed')
      BY <2>2, <2>3, <2>4, <3>1
    <3>3. QED BY <1>8, <3>1, <3>2 DEF PasteAt
  <2>5. CASE byte \in Newlines
    <3>1. printed' = printed /\ bytes_read' = sum /\ pc' = "read2"
      BY <1>2, <2>5
    <3>2. InSecond(a, b, A, B, P, i, ReadOf(1)', ReadOf(2)', bytes_read', buffer', printed')
      BY <1>2, <2>2, <2>3, <2>5, <3>1
    <3>3. QED BY <1>8, <3>1, <3>2 DEF PasteAt
  <2>6. QED BY <2>4, <2>5
<1>12. CASE g1 = Len(a)
  <2>1. bytes_read = 0 /\ InSecond(a, b, A, B, P, i, g1, g2, 0, byte, printed)
    BY <1>5, <1>8, <1>12, FirstOver
  <2>2. sum = 0
    BY <1>1, <1>9, <1>12, <2>1
  <2>3. printed' = printed /\ bytes_read' = 0 /\ pc' = "read2"
    BY <1>2, <2>2
  <2>4. InSecond(a, b, A, B, P, i, ReadOf(1)', ReadOf(2)', bytes_read', buffer', printed')
    BY <1>2, <1>9, <1>12, <2>1, <2>3
  <2>5. QED BY <1>8, <2>3, <2>4 DEF PasteAt
<1>13. QED BY <1>11, <1>12

\* That of the second file goes on, or the next line begins, or paste has ended.
LEMMA PasteSecondStays ==
    ASSUME WholeFiles, ReadsInv, ReadsInv', ProgramOK, CommandInv, SlotsInv, PasteInv, PasteGiven,
           paste_second
    PROVE  SomeLine(First, Second, LineCount)'
<1>1. PICK sum, byte : /\ sum = bytes_read + answer'.ret
                       /\ byte = IF answer'.ret > 0 THEN Copied(fds[2])[1] ELSE buffer
  OBVIOUS
<1>2. /\ pc = "read2" /\ Reads(fds[2], 1) /\ buffer' = byte /\ job' = job
      /\ sum > 0 /\ byte \notin Newlines =>
            printed' = Append(printed, byte) /\ bytes_read' = sum /\ pc' = "read2"
      /\ ~ (sum > 0 /\ byte \notin Newlines) =>
            /\ printed' = Append(printed, NL) /\ bytes_read' = 0
            /\ pc' = IF sum > 0 THEN "read" ELSE "close"
  BY <1>1 DEF paste_second, paste_turn, Calls
<1>3. Args' = Args /\ First' = First /\ Second' = Second /\ LineCount' = LineCount
  BY <1>2 DEF Args, First, Second, LineCount
<1>4. PICK a, b, n, A, B, P : /\ a = First /\ b = Second /\ n = LineCount
                              /\ A = LineEnds(a, n) /\ B = LineEnds(b, n)
                              /\ P = SideBySide(a, b, n)
  OBVIOUS
<1>5. TwoFiles(a, b, n, A, B, P)
  BY <1>4, PasteContents
<1>6. PICK i \in 1 .. n : PasteAt(a, b, n, A, B, P, i)
  BY <1>2, <1>4 DEF PasteInv, SomeLine
<1>7. PICK g1, g2 : g1 = ReadOf(1) /\ g2 = ReadOf(2)
  OBVIOUS
<1>8. /\ NotOver(a, b, A, B, i)
      /\ InSecond(a, b, A, B, P, i, g1, g2, bytes_read, buffer, printed)
  BY <1>2, <1>6, <1>7 DEF PasteAt
<1>9. /\ g2 # Len(b) => /\ answer'.ret = 1 /\ Copied(fds[2])[1] = b[g2 + 1]
                        /\ ReadOf(2)' = g2 + 1
      /\ g2 = Len(b) => answer'.ret = 0 /\ ReadOf(2)' = g2
      /\ ReadOf(1)' = g1
  <2>1. 1 \in {1, 2} /\ 2 \in {1, 2} /\ 1 # 2 /\ pc \in {"read", "read2"}
    BY <1>2
  <2>2. /\ ReadOf(2) # Len(Content(Args[2])) =>
              /\ answer'.ret = 1 /\ Copied(fds[2])[1] = Content(Args[2])[ReadOf(2) + 1]
              /\ Len(got'[Entry(Args[2]).cluster]) = ReadOf(2) + 1
        /\ ReadOf(2) = Len(Content(Args[2])) =>
              /\ answer'.ret = 0
              /\ Len(got'[Entry(Args[2]).cluster]) = ReadOf(2)
        /\ Len(got'[Entry(Args[1]).cluster]) = ReadOf(1)
    BY <1>2, <2>1, PasteReads
  <2>3. /\ ReadOf(1)' = Len(got'[Entry(Args[1]).cluster])
        /\ ReadOf(2)' = Len(got'[Entry(Args[2]).cluster])
    BY <1>3 DEF ReadOf
  <2>4. QED BY <1>4, <1>7, <2>2, <2>3 DEF Second
<1>10. ASSUME NEW j \in 1 .. n, PasteAt(a, b, n, A, B, P, j)'
       PROVE  SomeLine(First, Second, LineCount)'
  BY <1>3, <1>4, <1>10 DEF SomeLine
<1>11. CASE g2 # Len(b)
  <2>1. byte = b[g2 + 1] /\ sum = bytes_read + 1
    BY <1>1, <1>9, <1>11
  <2>2. /\ sum > 0
        /\ byte \notin Newlines =>
              InSecond(a, b, A, B, P, i, g1, g2 + 1, sum, byte, Append(printed, byte))
        /\ byte \in Newlines =>
              /\ i + 1 \in 1 .. n /\ NotOver(a, b, A, B, i + 1)
              /\ InFirst(a, b, A, B, P, i + 1, g1, g2 + 1, 0, Append(printed, NL))
    BY <1>5, <1>8, <1>11, <2>1, SecondReads
  <2>3. ReadOf(1)' = g1 /\ ReadOf(2)' = g2 + 1
    BY <1>9, <1>11
  <2>4. CASE byte \notin Newlines
    <3>1. printed' = Append(printed, byte) /\ bytes_read' = sum /\ pc' = "read2"
      BY <1>2, <2>2, <2>4
    <3>2. InSecond(a, b, A, B, P, i, ReadOf(1)', ReadOf(2)', bytes_read', buffer', printed')
      BY <1>2, <2>2, <2>3, <2>4, <3>1
    <3>3. PasteAt(a, b, n, A, B, P, i)'
      BY <1>8, <3>1, <3>2 DEF PasteAt
    <3>4. QED BY <1>10, <3>3
  <2>5. CASE byte \in Newlines
    <3>1. printed' = Append(printed, NL) /\ bytes_read' = 0 /\ pc' = "read"
      BY <1>2, <2>2, <2>5
    <3>2. PICK j : j = i + 1
      OBVIOUS
    <3>3. /\ j \in 1 .. n /\ NotOver(a, b, A, B, j)
          /\ InFirst(a, b, A, B, P, j, ReadOf(1)', ReadOf(2)', bytes_read', printed')
      BY <2>2, <2>3, <2>5, <3>1, <3>2
    <3>4. PasteAt(a, b, n, A, B, P, j)'
      BY <3>1, <3>3 DEF PasteAt
    <3>5. QED BY <1>10, <3>3, <3>4
  <2>6. QED BY <2>4, <2>5
<1>12. CASE g2 = Len(b)
  <2>1. /\ bytes_read \in Nat
        /\ bytes_read # 0 => /\ buffer \in Newlines
                             /\ i + 1 \in 1 .. n /\ NotOver(a, b, A, B, i + 1)
                             /\ InFirst(a, b, A, B, P, i + 1, g1, g2, 0, Append(printed, NL))
        /\ bytes_read = 0 => /\ A[i - 1] = Len(a) /\ B[i - 1] = Len(b)
                             /\ Append(printed, NL) = P[i]
    BY <1>5, <1>8, <1>12, SecondOver
  <2>2. sum = bytes_read /\ byte = buffer /\ ReadOf(1)' = g1 /\ ReadOf(2)' = g2
    <3>1. answer'.ret = 0
      BY <1>9, <1>12
    <3>2. bytes_read + 0 = bytes_read
      BY <2>1
    <3>3. QED BY <1>1, <1>9, <1>12, <3>1, <3>2
  <2>3. CASE bytes_read # 0
    <3>1. sum > 0 /\ byte \in Newlines
      BY <2>1, <2>2, <2>3
    <3>2. printed' = Append(printed, NL) /\ bytes_read' = 0 /\ pc' = "read"
      BY <1>2, <3>1
    <3>3. PICK j : j = i + 1
      OBVIOUS
    <3>4. /\ j \in 1 .. n /\ NotOver(a, b, A, B, j)
          /\ InFirst(a, b, A, B, P, j, ReadOf(1)', ReadOf(2)', bytes_read', printed')
      BY <2>1, <2>2, <2>3, <3>2, <3>3
    <3>5. PasteAt(a, b, n, A, B, P, j)'
      BY <3>2, <3>4 DEF PasteAt
    <3>6. QED BY <1>10, <3>4, <3>5
  <2>4. CASE bytes_read = 0
    <3>1. ~ (sum > 0)
      BY <2>2, <2>4
    <3>2. printed' = P[i] /\ pc' = "close"
      BY <1>2, <2>1, <2>4, <3>1
    <3>3. PasteAt(a, b, n, A, B, P, i)'
      BY <1>8, <2>1, <2>4, <3>2 DEF PasteAt
    <3>4. QED BY <1>10, <3>3
  <2>5. QED BY <2>1, <2>3, <2>4
<1>13. QED BY <1>11, <1>12

\* paste goes on as it began.
LEMMA PasteStays ==
    ASSUME WholeFiles, ReadsInv, ReadsInv', ProgramOK, CommandInv, SlotsInv, PasteInv,
           [ProgramsNext]_allVars
    PROVE  PasteInv'
<1>1. job' = job /\ Args' = Args
  BY CommandSteps DEF Args
<1> SUFFICES ASSUME PasteGiven PROVE PasteInv'
  BY <1>1 DEF PasteInv, PasteGiven
<1> USE DEF Runs, Calls
<1>3. /\ CommandLine \/ UNCHANGED allVars
      /\ job.program = "paste" /\ Len(Args) = 2
      /\ First' = First /\ Second' = Second /\ LineCount' = LineCount
  <2>1. job.program = "paste" /\ Len(Args) = 2
    <3>1. job.program = "paste"
      BY DEF PasteGiven
    <3>2. QED BY <3>1, PasteContents
  <2>2. CommandLine \/ UNCHANGED allVars
    BY <2>1, CommandSteps DEF CommandPrograms
  <2>3. QED BY <1>1, <2>1, <2>2 DEF First, Second, LineCount
<1>4. ASSUME UNCHANGED <<got, printed, bytes_read, buffer, fds>>,
             \/ pc' = pc
             \/ pc = "mount" /\ pc' \in {"open", "done"} /\ (pc' = "done" => fds = <<>>)
             \/ pc = "open" /\ pc' = "open"
             \/ pc \in {"close", "unmount"} /\ pc' \in {"unmount", "done"}
      PROVE  PasteInv'
  <2>1. ReadOf(1)' = ReadOf(1) /\ ReadOf(2)' = ReadOf(2)
    BY <1>1, <1>4 DEF ReadOf
  <2>2. ASSUME SomeLine(First, Second, LineCount),
               pc' = pc \/ (pc \in {"close", "unmount"} /\ pc' \in {"unmount", "done"})
        PROVE  SomeLine(First, Second, LineCount)'
    <3>1. PICK a, b, n, A, B, P : /\ a = First /\ b = Second /\ n = LineCount
                                  /\ A = LineEnds(a, n) /\ B = LineEnds(b, n)
                                  /\ P = SideBySide(a, b, n)
      OBVIOUS
    <3>2. PICK i \in 1 .. n : PasteAt(a, b, n, A, B, P, i)
      BY <2>2, <3>1 DEF SomeLine
    <3>3. PasteAt(a, b, n, A, B, P, i)'
      BY <1>4, <2>1, <2>2, <3>2 DEF PasteAt
    <3>4. QED BY <1>3, <3>1, <3>2, <3>3 DEF SomeLine
  <2>3. QED BY <1>1, <1>3, <1>4, <2>2 DEF PasteInv
<1>5. CASE UNCHANGED allVars
  BY <1>4, <1>5 DEF allVars, vars, programVars
<1>6. CASE Mount
  <2>1. /\ pc = "mount" /\ pc' \in {"open", "done"}
        /\ UNCHANGED <<got, printed, bytes_read, buffer, fds>>
    BY <1>6 DEF Mount, nqp_mount_ok, nqp_mount_fails
  <2>2. fds = <<>>
    <3>1. Len(fds) = 0 /\ fds \in Seq(Int)
      BY <1>3, <2>1 DEF CommandInv, CommandPrograms, ProgramOK
    <3>2. QED BY <3>1, EmptySeq
  <2>3. QED BY <1>4, <2>1, <2>2
<1>7. CASE Open
  <2>1. /\ pc = "open" /\ pc' \in {"open", "read"} /\ UNCHANGED <<got, printed, bytes_read, buffer>>
    BY <1>7 DEF Open, nqp_open
  <2>2. printed = <<>> /\ bytes_read = 0 /\ \A fd \in Files : got[fd] = <<>>
    BY <2>1 DEF PasteInv
  <2>3. CASE pc' = "open"
    BY <1>1, <2>1, <2>2, <2>3 DEF PasteInv
  <2>4. CASE pc' = "read"
    <3>1. PICK a, b, n, A, B, P : /\ a = First /\ b = Second /\ n = LineCount
                                  /\ A = LineEnds(a, n) /\ B = LineEnds(b, n)
                                  /\ P = SideBySide(a, b, n)
      OBVIOUS
    <3>2. TwoFiles(a, b, n, A, B, P) /\ 1 \in 1 .. n
      BY <3>1, PasteContents
    <3>3. A[0] = 0 /\ B[0] = 0 /\ P[0] = <<>> /\ a \in Seq(Printed) /\ Len(a) \in Nat
      <4>1. A[0] = 0 /\ B[0] = 0 /\ P[0] = <<>> /\ a \in Seq(Printed)
        BY <3>2 DEF TwoFiles, LinesOf
      <4>2. QED BY <4>1, LenProperties
    <3>4. ReadOf(1)' = 0 /\ ReadOf(2)' = 0
      <4>1. Entry(Args[1]).cluster \in Files /\ Entry(Args[2]).cluster \in Files
        BY PasteContents
      <4>2. got'[Entry(Args[1]).cluster] = <<>> /\ got'[Entry(Args[2]).cluster] = <<>>
        BY <2>1, <2>2, <4>1
      <4>3. QED BY <1>1, <4>2, EmptySeq DEF ReadOf
    <3>5. InFirst(a, b, A, B, P, 1, 0, 0, 0, <<>>)
      <4>1. Within(a, 0, A[1], 0)
        BY <3>3 DEF Within
      <4>2. Shown(<<>>, a, 0, 0) = <<>>
        <5>1. <<>> \in Seq(Printed) /\ 0 \in Int /\ 0 =< 0
          BY EmptySeq
        <5>2. QED BY <5>1, ShownNothing
      <4>3. 1 - 1 = 0 /\ 0 - 0 = 0
        OBVIOUS
      <4>4. QED BY <3>3, <4>1, <4>2, <4>3 DEF InFirst
    <3>6. NotOver(a, b, A, B, 1)
      <4>1. 1 .. 1 - 1 = {}
        OBVIOUS
      <4>2. QED BY <4>1 DEF NotOver
    <3>7. InFirst(a, b, A, B, P, 1, ReadOf(1)', ReadOf(2)', bytes_read', printed')
      BY <2>1, <2>2, <3>4, <3>5
    <3>8. PasteAt(a, b, n, A, B, P, 1)'
      BY <2>4, <3>6, <3>7 DEF PasteAt
    <3>9. SomeLine(First, Second, LineCount)'
      BY <1>3, <3>1, <3>2, <3>8 DEF SomeLine
    <3>10. QED BY <2>4, <3>9 DEF PasteInv
  <2>5. QED BY <2>1, <2>3, <2>4
<1>8. CASE Close
  <2>1. /\ pc = "close" /\ pc' = "unmount" /\ UNCHANGED <<got, printed, bytes_read, buffer, fds>>
    BY <1>3, <1>8 DEF Close, nqp_close
  <2>2. QED BY <1>4, <2>1
<1>9. CASE Unmount
  <2>1. /\ pc = "unmount" \/ (pc = "open" /\ arg > Len(Args))
        /\ pc' = "done" /\ UNCHANGED <<got, printed, bytes_read, buffer, fds>>
    BY <1>9 DEF Unmount, nqp_unmount
  <2>2. pc # "open"
    <3>1. pc = "open" => arg \in {1, 2}
      BY <1>3 DEF ProgramOK
    <3>2. QED BY <1>3, <2>1, <3>1
  <2>3. QED BY <1>4, <2>1, <2>2
<1>10. CASE paste_first \/ paste_second
  <2>1. SomeLine(First, Second, LineCount)'
    BY <1>10, PasteFirstStays, PasteSecondStays
  <2>2. pc' \in {"read", "read2", "close"}
    BY <1>10 DEF paste_first, paste_second, paste_turn
  <2>3. QED BY <2>1, <2>2 DEF PasteInv
<1>11. CASE cat_loop \/ ls_loop
  BY <1>3, <1>11 DEF cat_loop, ls_loop
<1>12. QED BY <1>3, <1>5, <1>6, <1>7, <1>8, <1>9, <1>10, <1>11 DEF CommandLine

\* When paste is done it has printed the lines of both files, side by side.
LEMMA PastePrints ==
    ASSUME WholeFiles, ProgramOK, PasteInv, PasteGiven, Finished("paste")
    PROVE  printed = Pasted(Content(Args[1]), Content(Args[2]))
<1>1. pc = "done" /\ fds # <<>>
  BY DEF Finished, Mounted, Calls
<1>2. PICK a, b, n, A, B, P : /\ a = First /\ b = Second /\ n = LineCount
                              /\ A = LineEnds(a, n) /\ B = LineEnds(b, n)
                              /\ P = SideBySide(a, b, n)
  OBVIOUS
<1>3. PICK i \in 1 .. n : PasteAt(a, b, n, A, B, P, i)
  BY <1>1, <1>2 DEF PasteInv, SomeLine
<1>4. NotOver(a, b, A, B, i) /\ A[i - 1] = Len(a) /\ B[i - 1] = Len(b) /\ printed = P[i]
  BY <1>1, <1>3 DEF PasteAt
<1>5. n = Len(a) + Len(b) + 1 /\ n \in Nat
  BY <1>2, PasteContents DEF LineCount
<1>6. Exhausted(a, b, n, i) /\ NotOver(a, b, LineEnds(a, n), LineEnds(b, n), i)
  BY <1>2, <1>4 DEF Exhausted
<1>7. Pasted(a, b) = SideBySide(a, b, n)[i]
  BY <1>5, <1>6, PastedEnds
<1>8. QED BY <1>2, <1>4, <1>7 DEF First, Second
-----------------------------------------------------------------------------
(* The theorem on what the programs of a command line print.               *)

\* What holds at every step of a program: what the calls keep, where the program
\* is, the slots of its files, and what it has printed.
PrintInv ==
    /\ ReadsInv /\ ListingInv /\ ProgramOK /\ CommandInv
    /\ SlotsInv /\ CatInv /\ LsInv /\ PasteInv

\* A program begins so.
LEMMA PrintBegins ==
    ASSUME WholeFiles, ProgramsInit
    PROVE  PrintInv
<1>1. Init /\ ProgramOK
  BY ProgramBegins
<1>2. ReadsInv /\ ListingInv
  BY <1>1, InitReads, InitListing
<1>3. CommandInv /\ SlotsInv /\ CatInv /\ LsInv /\ PasteInv
  BY CommandBegins, SlotsBegin, CatBegins, LsBegins, PasteBegins
<1>4. QED BY <1>1, <1>2, <1>3 DEF PrintInv

\* And goes on so.
LEMMA PrintStays ==
    ASSUME WholeFiles, \A dir \in Dirs : EndMarked(dir), PrintInv, [ProgramsNext]_allVars
    PROVE  PrintInv'
<1> USE DEF PrintInv
<1>1. MayCall /\ ProgramOK'
  BY ProgramCalls, ProgramStays
<1>2. ReadsInv' /\ ListingInv'
  BY <1>1, CallReads, CallListing
<1>3. CommandInv' /\ SlotsInv'
  BY CommandStays, SlotsStay
<1>4. CatInv' /\ LsInv'
  BY CatStays, LsStays
<1>5. PasteInv'
  BY <1>2, PasteStays
<1>6. QED BY <1>1, <1>2, <1>3, <1>4, <1>5

\* What cat, ls and paste have written when they are done, where nothing is opened
\* twice or without a slot: the files one after the other, the names of the
\* directory, the lines side by side, of files that are whole and directories that
\* have END behind their entries, whether the image is mounted or refused (cat.c,
\* ls.c, paste.c, on nqp_mount, nqp_open, nqp_read, nqp_getdents, nqp_close).
THEOREM ProgramsPrintRight ==
    ASSUME WholeFiles, \A dir \in Dirs : EndMarked(dir)
    PROVE  ProgramsSpec => []ProgramsPrint
<1>1. ProgramsInit => PrintInv
  BY PrintBegins
<1>2. PrintInv /\ [ProgramsNext]_allVars => PrintInv'
  BY PrintStays
<1>3. PrintInv => ProgramsPrint
  <2> SUFFICES ASSUME PrintInv PROVE ProgramsPrint
    OBVIOUS
  <2>1. ReadsInv /\ ProgramOK /\ CommandInv /\ CatInv /\ LsInv /\ PasteInv
    BY DEF PrintInv
  <2>2. Finished("cat") /\ FitAndDiffer(Args) => printed = Concatenated(Args)[Len(Args)]
    BY <2>1, CatPrints
  <2>3. Finished("ls") =>
            printed = IF Found(Args[1]) /\ Entry(Args[1]).cluster \in Dirs
                      THEN Names(Entry(Args[1]).cluster) ELSE <<>>
    BY <2>1, LsPrints
  <2>4. ASSUME Finished("paste"), Recorded(Args, 1), Recorded(Args, 2),
               ~ SameFile(Args[1], Args[2])
        PROVE  printed = Pasted(Content(Args[1]), Content(Args[2]))
    <3>1. PasteGiven
      BY <2>4 DEF PasteGiven, Finished, Calls, Runs
    <3>2. QED BY <2>1, <2>4, <3>1, PastePrints
  <2>5. QED BY <2>2, <2>3, <2>4 DEF ProgramsPrint
<1>4. QED BY <1>1, <1>2, <1>3, PTL DEF ProgramsSpec
=============================================================================
