------------------------------ MODULE Induction ------------------------------
(***************************************************************************)
(* Induction over the natural numbers for a set instead of a predicate:    *)
(* the form that a step of a proof can instantiate with the set of the     *)
(* numbers it has to be shown for.                                         *)
(***************************************************************************)
EXTENDS Naturals, WellFoundedInduction, TLAPS

\* The order of the natural numbers as a set of pairs, which is well founded.
LEMMA NatOrder ==
    \E R : /\ \A x, y \in Nat : <<x, y>> \in R <=> x < y
           /\ IsWellFoundedOn(R, Nat)
  <1>1. \A x, y \in Nat : <<x, y>> \in OpToRel(<, Nat) <=> x < y
    BY DEF OpToRel
  <1>2. IsWellFoundedOn(OpToRel(<, Nat), Nat)
    BY NatLessThanWellFounded
  <1> QED BY <1>1, <1>2, Zenon

\* A set of natural numbers that is not empty has a least element.
LEMMA LeastElement ==
    ASSUME NEW T, T \subseteq Nat, T # {}
    PROVE  \E n \in T : \A m \in T : n <= m
  <1>1. PICK R : /\ \A x, y \in Nat : <<x, y>> \in R <=> x < y
                 /\ IsWellFoundedOn(R, Nat)
    BY NatOrder, Zenon
  <1>2. IsWellFoundedOn(R, Nat)
    BY <1>1, Zenon
  <1>3. \E x \in T : \A y \in T : <<y, x>> \notin R
    BY <1>2, WFMin
  <1>4. PICK n \in T : \A y \in T : <<y, n>> \notin R
    BY <1>3, Zenon
  <1>5. ASSUME NEW m \in T
        PROVE  n <= m
    <2>1. m \in Nat /\ n \in Nat
      OBVIOUS
    <2>2. ~(m < n)
      BY <1>1, <1>4, <2>1, Zenon
    <2> QED BY <2>1, <2>2
  <1> QED BY <1>5, Zenon

\* A set with 0 and with the successor of each of its numbers has them all.
LEMMA NatInductionSet ==
    ASSUME NEW T, 0 \in T, \A n \in Nat : n \in T => n + 1 \in T
    PROVE  \A n \in Nat : n \in T
  <1> DEFINE Bad == Nat \ T
  <1> SUFFICES ASSUME Bad # {} PROVE FALSE
    OBVIOUS
  <1>1. PICK n \in Bad : \A m \in Bad : n <= m
    BY LeastElement
  <1>2. n # 0 /\ n - 1 \in Nat /\ n - 1 \notin Bad
    BY <1>1
  <1> QED BY <1>1, <1>2

\* What each of L steps makes of a member of S, and a chain of such steps.
Steps(S, L) == [S \X (1..L) -> S]
IsChainOf(a, S, s, L, F) ==
    a \in [0..L -> S] /\ a[0] = s /\ \A n \in 1..L : a[n] = F[<<a[n-1], n>>]

\* There is a chain from every member.
LEMMA Chain ==
    ASSUME NEW S, NEW s \in S, NEW L \in Nat, NEW F \in Steps(S, L)
    PROVE  \E a : IsChainOf(a, S, s, L, F)
  <1> DEFINE IsChain(a, m) == a[0] = s /\ \A n \in 1..m : a[n] = F[<<a[n-1], n>>]
             T == {m \in Nat : m <= L => \E a \in [0..m -> S] : IsChain(a, m)}
  <1>1. 0 \in T
    <2> DEFINE a == [n \in 0..0 |-> s]
    <2>1. a \in [0..0 -> S] /\ IsChain(a, 0)
      OBVIOUS
    <2> QED BY <2>1
  <1>2. ASSUME NEW m \in Nat, m \in T
        PROVE  m + 1 \in T
    <2> SUFFICES ASSUME m + 1 <= L
                 PROVE  \E b \in [0..m+1 -> S] : IsChain(b, m + 1)
      OBVIOUS
    <2>1. PICK a \in [0..m -> S] : IsChain(a, m)
      BY <1>2
    <2>2. m + 1 \in 1..L /\ m \in 0..m
      OBVIOUS
    <2>3. F[<<a[m], m + 1>>] \in S
      BY <2>2 DEF Steps
    <2> DEFINE b == [n \in 0..m+1 |-> IF n <= m THEN a[n] ELSE F[<<a[m], m + 1>>]]
    <2>4. \A n \in 0..m : b[n] = a[n]
      OBVIOUS
    <2>5. b \in [0..m+1 -> S]
      BY <2>3
    <2>6. b[0] = s
      BY <2>1, <2>4
    <2>7. ASSUME NEW n \in 1..m+1
          PROVE  b[n] = F[<<b[n-1], n>>]
      <3>1. CASE n = m + 1
        <4>1. b[n] = F[<<a[m], m + 1>>] /\ n - 1 = m
          BY <3>1
        <4>2. b[m] = a[m]
          BY <2>2, <2>4
        <4> HIDE DEF b
        <4> QED BY <3>1, <4>1, <4>2
      <3>2. CASE n \in 1..m
        <4>1. b[n] = a[n] /\ b[n-1] = a[n-1]
          BY <2>4, <3>2
        <4> HIDE DEF b
        <4> QED BY <2>1, <3>2, <4>1
      <3> QED BY <3>1, <3>2
    <2> HIDE DEF b
    <2> QED BY <2>5, <2>6, <2>7
  <1> HIDE DEF T
  <1>3. L \in T
    BY <1>1, <1>2, NatInductionSet
  <1>4. PICK a \in [0..L -> S] : IsChain(a, L)
    BY <1>3 DEF T
  <1>5. IsChainOf(a, S, s, L, F)
    BY <1>4 DEF IsChainOf
  <1> QED BY <1>5

\* What holds first, and after a step when it holds before, holds all along.
LEMMA AllAlong ==
    ASSUME NEW S, NEW L \in Nat, NEW a, a[0] \in S,
           \A n \in 1..L : a[n-1] \in S => a[n] \in S
    PROVE  \A n \in 0..L : a[n] \in S
  <1> DEFINE T == {n \in Nat : n <= L => a[n] \in S}
  <1>1. 0 \in T
    OBVIOUS
  <1>2. ASSUME NEW n \in Nat, n \in T
        PROVE  n + 1 \in T
    <2>1. n + 1 <= L => n + 1 \in 1..L /\ (n + 1) - 1 = n /\ n <= L
      OBVIOUS
    <2> QED BY <1>2, <2>1
  <1> HIDE DEF T
  <1>3. \A n \in Nat : n \in T
    BY <1>1, <1>2, NatInductionSet
  <1> QED BY <1>3 DEF T
==============================================================================
