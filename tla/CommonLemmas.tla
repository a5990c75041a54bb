---------------------------- MODULE CommonLemmas ----------------------------
(***************************************************************************)
(* Least elements of sets of naturals, induction up to n, and what the     *)
(* proofs need of the functions that the models define by recursion over   *)
(* 0 .. n: that they exist, and where their values lie.                    *)
(***************************************************************************)
EXTENDS Integers, FiniteSetsExt, WellFoundedInduction, TLAPS

\* Min is the least element of a non-empty set of naturals.
LEMMA MinIsLeast ==
    ASSUME NEW S \in SUBSET Nat, S # {}
    PROVE  /\ Min(S) \in S
           /\ \A m \in S : Min(S) =< m
<1> DEFINE R == OpToRel(<, Nat)
<1>1. IsWellFoundedOn(R, Nat)
  BY NatLessThanWellFounded
<1>2. PICK x \in S : \A y \in S : ~ (<<y, x>> \in R)
  <2> HIDE DEF R
  <2> QED BY <1>1, WFMin
<1>3. \A y \in S : <<y, x>> \in R <=> y < x
  BY DEF OpToRel
<1> HIDE DEF R
<1>4. \A y \in S : ~ (y < x)
  BY <1>2, <1>3, Zenon
<1>5. \A y \in S : x =< y
  BY <1>4
<1>6. QED BY <1>5 DEF Min

\* Induction up to n, for what holds of the members of a set.
LEMMA SetInduction ==
    ASSUME NEW n \in Nat, NEW A, 0 \in A, \A m \in 0 .. n - 1 : m \in A => m + 1 \in A
    PROVE  \A m \in 0 .. n : m \in A
<1> DEFINE Bad == {m \in 0 .. n : m \notin A}
<1>1. SUFFICES ASSUME Bad # {} PROVE FALSE
  OBVIOUS
<1>2. Bad \in SUBSET Nat
  OBVIOUS
<1> DEFINE b == Min(Bad)
<1>3. b \in Bad /\ \A m \in Bad : b =< m
  <2> HIDE DEF Bad
  <2> QED BY <1>1, <1>2, MinIsLeast
<1> HIDE DEF b
<1>4. b # 0 /\ b \in 0 .. n /\ b \notin A
  BY <1>3
<1>5. b - 1 \in 0 .. n - 1 /\ b - 1 \in 0 .. n /\ ~ (b =< b - 1)
  BY <1>4
<1>6. b - 1 \in A
  BY <1>3, <1>5
<1>7. (b - 1) + 1 = b
  BY <1>4
<1>8. QED BY <1>4, <1>5, <1>6, <1>7

\* A recursion over 0 .. n has a solution.
Solves(F, n, s0, step) == F[0] = s0 /\ \A j \in 1 .. n : F[j] = step[j][F[j - 1]]

LEMMA RecursionHasSolution ==
    ASSUME NEW n \in Nat, NEW S, NEW s0 \in S, NEW step \in [1 .. n -> [S -> S]]
    PROVE  \E F \in [0 .. n -> S] : Solves(F, n, s0, step)
<1> USE DEF Solves
<1> DEFINE A == {m \in 0 .. n : \E F \in [0 .. m -> S] : Solves(F, m, s0, step)}
<1>1. 0 \in A
  <2>1. /\ [j \in 0 .. 0 |-> s0] \in [0 .. 0 -> S] /\ [j \in 0 .. 0 |-> s0][0] = s0
        /\ 1 .. 0 = {} /\ 0 \in 0 .. n
    OBVIOUS
  <2>2. QED BY <2>1
<1>2. ASSUME NEW m \in 0 .. n - 1, m \in A
      PROVE  m + 1 \in A
  <2>1. PICK F \in [0 .. m -> S] :
            F[0] = s0 /\ \A j \in 1 .. m : F[j] = step[j][F[j - 1]]
    BY <1>2
  <2> DEFINE G == [j \in 0 .. m + 1 |-> IF j = m + 1 THEN step[m + 1][F[m]] ELSE F[j]]
  <2>2. m \in 0 .. m /\ m + 1 \in 1 .. n /\ step[m + 1][F[m]] \in S
    BY <2>1
  <2>3. \A j \in 0 .. m + 1 : j # m + 1 => j \in 0 .. m
    OBVIOUS
  <2>4. G \in [0 .. m + 1 -> S]
    BY <2>2, <2>3
  <2>5. G[0] = s0 /\ G[m + 1] = step[m + 1][F[m]] /\ \A j \in 0 .. m : G[j] = F[j]
    BY <2>1
  <2> HIDE DEF G
  <2>6. ASSUME NEW j \in 1 .. m + 1
        PROVE  G[j] = step[j][G[j - 1]]
    <3>1. CASE j = m + 1
      BY <2>2, <2>5, <3>1
    <3>2. CASE j # m + 1
      <4>1. j \in 1 .. m /\ j \in 0 .. m /\ j - 1 \in 0 .. m
        BY <3>2
      <4>2. QED BY <4>1, <2>1, <2>5
    <3>3. QED BY <3>1, <3>2
  <2>7. m + 1 \in 0 .. n
    OBVIOUS
  <2>8. QED BY <2>4, <2>5, <2>6, <2>7
<1>3. \A m \in 0 .. n : m \in A
  <2> HIDE DEF A
  <2> QED BY <1>1, <1>2, SetInduction
<1>4. n \in A
  <2> HIDE DEF A
  <2> QED BY <1>3
<1>5. QED BY <1>4

\* The values of such a function stay in S when each step keeps them there.
LEMMA RecursionStaysIn ==
    ASSUME NEW n \in Nat, NEW S, NEW f, f[0] \in S,
           \A j \in 1 .. n : f[j - 1] \in S => f[j] \in S
    PROVE  \A j \in 0 .. n : f[j] \in S
<1> DEFINE A == {m \in 0 .. n : f[m] \in S}
<1>1. 0 \in A
  OBVIOUS
<1>2. ASSUME NEW m \in 0 .. n - 1, m \in A
      PROVE  m + 1 \in A
  <2>1. m + 1 \in 1 .. n /\ (m + 1) - 1 = m /\ m + 1 \in 0 .. n
    OBVIOUS
  <2>2. QED BY <1>2, <2>1
<1>3. \A m \in 0 .. n : m \in A
  <2> HIDE DEF A
  <2> QED BY <1>1, <1>2, SetInduction
<1>4. QED BY <1>3
=============================================================================
