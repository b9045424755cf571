-------------------------------- MODULE Walks --------------------------------
(***************************************************************************)
(* Induction over the natural numbers, and what it says of a walk: a       *)
(* function defined on 0..N by its first value and a step.  The induction  *)
(* is stated for a set of numbers, which the provers can instantiate where *)
(* they cannot instantiate a predicate.                                    *)
(***************************************************************************)
EXTENDS Integers, WellFoundedInduction, TLAPS

\* A set of numbers that is not empty has a least one.
LEMMA LeastNumber ==
    ASSUME NEW T \in SUBSET Nat, T # {}
    PROVE  \E x \in T : \A y \in T : ~(y < x)
<1> DEFINE R == OpToRel(<, Nat)
<1>1. IsWellFoundedOn(R, Nat)
  BY NatLessThanWellFounded
<1>2. \A x, y \in Nat : y < x => <<y, x>> \in R
  BY DEF OpToRel
<1> HIDE DEF R
<1>3. \E x \in T : \A y \in T : ~(<<y, x>> \in R)
  BY <1>1, WFMin
<1> QED
  BY <1>2, <1>3

\* Induction: a set with 0 that holds the successor of each of its numbers up
\* to N holds every number up to N.
LEMMA UpTo ==
    ASSUME NEW N \in Nat, NEW S, 0 \in S,
           \A n \in 1..N : n - 1 \in S => n \in S
    PROVE  \A n \in 0..N : n \in S
<1> SUFFICES ASSUME NEW m \in 0..N, m \notin S PROVE FALSE
  OBVIOUS
<1> DEFINE T == {n \in 0..N : n \notin S}
<1>1. PICK x \in T : \A y \in T : ~(y < x)
  <2>1. T \in SUBSET Nat /\ T # {}
    OBVIOUS
  <2> HIDE DEF T
  <2> QED
    BY <2>1, LeastNumber
<1>2. x \in 1..N /\ x - 1 \in 0..N /\ x - 1 < x
  BY <1>1
<1> QED
  BY <1>1, <1>2

\* w is the walk from v by the step F.
IsWalk(w, N, v, F) == w[0] = v /\ \A n \in 1..N : w[n] = F[<<w[n - 1], n>>]

\* A walk exists: from any first value, with any step that stays in V.
LEMMA WalkExists ==
    ASSUME NEW N \in Nat, NEW V
    PROVE  \A v \in V, F \in [V \X (1..N) -> V] : \E w \in [0..N -> V] : IsWalk(w, N, v, F)
<1> SUFFICES ASSUME NEW v \in V, NEW F \in [V \X (1..N) -> V]
             PROVE  \E w \in [0..N -> V] : IsWalk(w, N, v, F)
  OBVIOUS
<1> DEFINE Walks(n) == {w \in [0..N -> V] :
                          w[0] = v /\ \A k \in 1..n : w[k] = F[<<w[k - 1], k>>]}
           S == {n \in 0..N : Walks(n) # {}}
<1>1. 0 \in S
  <2>1. [k \in 0..N |-> v] \in Walks(0)
    OBVIOUS
  <2> QED
    BY <2>1
<1>2. ASSUME NEW n \in 1..N, n - 1 \in S PROVE n \in S
  <2>1. PICK w \in Walks(n - 1) : TRUE
    BY <1>2
  <2> DEFINE x == [w EXCEPT ![n] = F[<<w[n - 1], n>>]]
  <2>2. n - 1 \in 0..N /\ w[n - 1] \in V /\ <<w[n - 1], n>> \in V \X (1..N)
    BY <2>1
  <2>3. F[<<w[n - 1], n>>] \in V
    BY <2>2
  <2>4. x \in [0..N -> V] /\ x[0] = v
    BY <2>1, <2>3
  <2>5. ASSUME NEW k \in 1..n PROVE x[k] = F[<<x[k - 1], k>>]
    <3>1. x[k - 1] = w[k - 1]
      BY <2>1
    <3>2. CASE k = n
      BY <3>1, <3>2, <2>1
    <3>3. CASE k # n
      <4>1. k \in 1..(n - 1)
        BY <3>3
      <4> QED
        BY <4>1, <3>1, <2>1
    <3> QED
      BY <3>2, <3>3
  <2> HIDE DEF x
  <2> QED
    BY <2>4, <2>5
<1> HIDE DEF S
<1>3. N \in S
  BY <1>1, <1>2, UpTo
<1> QED
  BY <1>3 DEF S, IsWalk

=============================================================================
