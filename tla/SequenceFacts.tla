---------------------------- MODULE SequenceFacts ----------------------------
(***************************************************************************)
(* What the proofs need of the library's left fold, and the induction that *)
(* goes with it.  FoldLeft is an iteration over the subsets of a domain,   *)
(* given by CHOOSE: that there is such an iteration has to be shown before *)
(* anything follows from its equation.  The step of the fold is given here *)
(* as a function (step), since a fact with an operator for a parameter     *)
(* could not be cited.                                                     *)
(***************************************************************************)
EXTENDS Naturals, SequencesExt, WellFoundedInduction, TLAPS

\* Induction over an interval, with the induction hypothesis as a set.
LEMMA IntervalInduction ==
  ASSUME NEW n \in Nat, NEW Good,
         0 \in Good, \A i \in 1 .. n : i - 1 \in Good => i \in Good
  PROVE  \A i \in 0 .. n : i \in Good
  <1> DEFINE Bad == {i \in 0 .. n : i \notin Good}
  <1> SUFFICES ASSUME Bad # {} PROVE FALSE
    OBVIOUS
  <1>1. PICK k \in Bad : \A y \in Bad : ~ (<<y, k>> \in OpToRel(<, Nat))
    <2>1. Bad \subseteq Nat
      OBVIOUS
    <2> QED BY <2>1, NatLessThanWellFounded, WFMin
  <1>2. k \in 0 .. n /\ k \notin Good /\ k # 0
    BY <1>1
  <1>3. k - 1 \in Nat /\ k \in Nat /\ k - 1 < k /\ k - 1 \in 0 .. n /\ k \in 1 .. n
    BY <1>2
  <1>4. <<k - 1, k>> \in OpToRel(<, Nat)
    BY <1>3 DEF OpToRel
  <1>5. k - 1 \in Good
    BY <1>1, <1>3, <1>4
  <1> QED BY <1>2, <1>3, <1>5

LEMMA MaxOfSome ==
  ASSUME NEW k \in Nat, NEW s \in SUBSET (0 .. k), s # {}
  PROVE  Max(s) \in s /\ \A y \in s : y <= Max(s)
  <1> DEFINE Above == {m \in Nat : \A y \in s : y <= m}
  <1>1. k \in Above /\ Above \subseteq Nat
    OBVIOUS
  <1>2. PICK m \in Above : \A y \in Above : ~ (<<y, m>> \in OpToRel(<, Nat))
    BY <1>1, NatLessThanWellFounded, WFMin
  <1>3. \A y \in Above : ~ (y < m)
    BY <1>2 DEF OpToRel
  <1>4. m \in Nat /\ \A y \in s : y <= m
    BY <1>2
  <1>5. PICK least \in s : TRUE
    OBVIOUS
  <1>6. m \in s
    <2> SUFFICES ASSUME m \notin s PROVE FALSE
      OBVIOUS
    <2>1. \A y \in s : y \in Nat /\ y < m
      BY <1>4
    <2>2. m # 0 /\ m - 1 \in Nat
      BY <2>1, <1>5, <1>4
    <2>3. \A y \in s : y <= m - 1
      BY <2>1, <1>4
    <2>4. m - 1 \in Above
      BY <2>2, <2>3
    <2> QED BY <2>4, <1>3, <2>2, <1>4
  <1>7. \A y \in s : m >= y
    BY <1>4
  <1>8. \E x \in s : \A y \in s : x >= y
    BY <1>6, <1>7
  <1>9. Max(s) \in s /\ \A y \in s : Max(s) >= y
    BY <1>8 DEF Max
  <1>10. Max(s) \in 0 .. k /\ \A y \in s : y \in 0 .. k
    BY <1>9
  <1> QED BY <1>9, <1>10

LEMMA MinOfSome ==
  ASSUME NEW s \in SUBSET Nat, s # {}
  PROVE  Min(s) \in s /\ \A y \in s : Min(s) <= y
  <1>1. PICK m \in s : \A y \in s : ~ (<<y, m>> \in OpToRel(<, Nat))
    BY NatLessThanWellFounded, WFMin
  <1>2. \A y \in s : ~ (y < m)
    BY <1>1 DEF OpToRel
  <1>3. \A y \in s : m <= y
    BY <1>2
  <1>4. \E x \in s : \A y \in s : x <= y
    BY <1>3
  <1> QED BY <1>4 DEF Min

\* The iteration FoldLeft is made of: on {} the base, on a set one step from the
\* iteration without its greatest element.
IsIteration(it, n, base, step) ==
    it = [s \in SUBSET (1 .. n) |->
            IF s = {} THEN base ELSE step[<<it[s \ {Max(s)}], Max(s)>>]]

\* There is one, and it stays within the set the steps stay within.
LEMMA IterationExists ==
  ASSUME NEW S, NEW n \in Nat, NEW base \in S, NEW step \in [S \X (1 .. n) -> S]
  PROVE  \E it \in [SUBSET (1 .. n) -> S] : IsIteration(it, n, base, step)
  <1> DEFINE Good == {k \in 0 .. n : \E it \in [SUBSET (1 .. k) -> S] : IsIteration(it, k, base, step)}
  <1>1. 0 \in Good
    <2> DEFINE it == [s \in SUBSET (1 .. 0) |-> base]
    <2>1. it \in [SUBSET (1 .. 0) -> S] /\ IsIteration(it, 0, base, step)
      BY DEF IsIteration
    <2> QED BY <2>1
  <1>2. ASSUME NEW k \in 1 .. n, k - 1 \in Good PROVE k \in Good
    <2>1. PICK it \in [SUBSET (1 .. k - 1) -> S] : IsIteration(it, k - 1, base, step)
      BY <1>2
    <2> DEFINE new == [s \in SUBSET (1 .. k) |->
                         IF k \in s THEN step[<<it[s \ {k}], k>>] ELSE it[s]]
    <2>2. ASSUME NEW s \in SUBSET (1 .. k)
          PROVE  /\ new[s] = IF s = {} THEN base ELSE step[<<new[s \ {Max(s)}], Max(s)>>]
                 /\ new[s] \in S
      <3>1. CASE s = {}
        <4>1. s \in SUBSET (1 .. k - 1)
          BY <3>1
        <4>2. new[s] = it[s]
          BY <3>1
        <4> QED BY <4>1, <4>2, <3>1, <2>1 DEF IsIteration
      <3>2. CASE k \in s
        <4>1. Max(s) = k
          <5>1. s \in SUBSET (0 .. k) /\ k \in Nat
            OBVIOUS
          <5>2. Max(s) \in s /\ k <= Max(s)
            BY <3>2, <5>1, MaxOfSome
          <5>3. Max(s) \in 0 .. k
            BY <5>1, <5>2
          <5> QED BY <5>1, <5>2, <5>3
        <4>2. s \ {k} \in SUBSET (1 .. k) /\ s \ {k} \in SUBSET (1 .. k - 1)
          OBVIOUS
        <4>3. new[s \ {k}] = it[s \ {k}]
          BY <4>2
        <4>4. new[s] = step[<<it[s \ {k}], k>>]
          BY <3>2
        <4>5. it[s \ {k}] \in S
          BY <2>1, <4>2
        <4> QED BY <4>1, <4>3, <4>4, <4>5, <3>2
      <3>3. CASE s # {} /\ k \notin s
        <4>1. s \in SUBSET (1 .. k - 1) /\ s \in SUBSET (0 .. k) /\ k \in Nat
          BY <3>3
        <4>2. Max(s) \in s
          BY <3>3, <4>1, MaxOfSome
        <4>3. new[s] = it[s]
          BY <3>3
        <4>4. it[s] = step[<<it[s \ {Max(s)}], Max(s)>>]
          BY <4>1, <2>1, <3>3 DEF IsIteration
        <4>5. s \ {Max(s)} \in SUBSET (1 .. k) /\ k \notin s \ {Max(s)}
          BY <3>3
        <4>6. new[s \ {Max(s)}] = it[s \ {Max(s)}]
          BY <4>5
        <4> QED BY <4>1, <4>3, <4>4, <4>6, <3>3, <2>1
      <3> QED BY <3>1, <3>2, <3>3
    <2>3. new \in [SUBSET (1 .. k) -> S] /\ IsIteration(new, k, base, step)
      <3>1. new = [s \in SUBSET (1 .. k) |-> new[s]]
        OBVIOUS
      <3> HIDE DEF new
      <3> QED BY <3>1, <2>2 DEF IsIteration
    <2>4. k \in 0 .. n
      OBVIOUS
    <2> HIDE DEF new
    <2> QED BY <2>3, <2>4
  <1> HIDE DEF Good
  <1>3. n \in Good
    BY <1>1, <1>2, IntervalInduction
  <1> QED BY <1>3 DEF Good

LEMMA MaxOfPrefix ==
  ASSUME NEW i \in Nat, i # 0
  PROVE  Max(1 .. i) = i /\ (1 .. i) \ {i} = 1 .. (i - 1)
  <1>2. i \in 1 .. i /\ 1 .. i \in SUBSET (0 .. i)
    OBVIOUS
  <1>1. Max(1 .. i) \in 1 .. i /\ \A y \in 1 .. i : y <= Max(1 .. i)
    BY <1>2, MaxOfSome
  <1>3. i <= Max(1 .. i)
    BY <1>1, <1>2
  <1> QED BY <1>1, <1>3
=============================================================================
