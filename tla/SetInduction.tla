---------------------------- MODULE SetInduction ----------------------------
(***************************************************************************)
(* Induction over the natural numbers for a set instead of a predicate, so *)
(* that a first-order prover can use it: the elements that satisfy what is *)
(* to be shown form the set.  It follows from the well-foundedness of the  *)
(* natural numbers.                                                        *)
(***************************************************************************)
EXTENDS Integers, WellFoundedInduction, TLAPS

\* A non-empty set of natural numbers has a least element.
LEMMA LeastNatural ==
    ASSUME NEW T \in SUBSET Nat, T # {}
    PROVE  \E m \in T : \A n \in T : m <= n
<1> DEFINE R == OpToRel(<, Nat)
<1>1. IsWellFoundedOn(R, Nat)
  BY NatLessThanWellFounded, Zenon
<1> HIDE DEF R
<1>2. PICK m \in T : \A n \in T : <<n, m>> \notin R
  BY <1>1, WFMin, Zenon
<1>3. \A n \in T : ~(n < m)
  BY <1>2, Zenon DEF R, OpToRel
<1>4. m \in Nat /\ T \subseteq Nat
  OBVIOUS
<1> QED BY <1>3, <1>4

\* A set that has 0 and the successor of each of its numbers has all of them.
LEMMA SetInduction ==
    ASSUME NEW T, 0 \in T, \A n \in Nat : n \in T => n + 1 \in T
    PROVE  Nat \subseteq T
<1> SUFFICES ASSUME Nat \ T # {} PROVE FALSE
  OBVIOUS
<1>1. PICK m \in Nat \ T : \A n \in Nat \ T : m <= n
  BY LeastNatural, Zenon
<1>2. m - 1 \in Nat
  BY <1>1
<1>3. m - 1 \in T
  BY <1>1, <1>2
<1> QED BY <1>1, <1>2, <1>3

\* The same up to a bound.
LEMMA BoundedInduction ==
    ASSUME NEW n \in Nat, NEW T, 0 \in T, \A k \in 1..n : k - 1 \in T => k \in T
    PROVE  \A k \in 0..n : k \in T
<1> DEFINE U == {k \in Nat : k <= n => k \in T}
<1>1. 0 \in U
  OBVIOUS
<1>2. ASSUME NEW k \in Nat, k \in U PROVE k + 1 \in U
  <2> SUFFICES ASSUME k + 1 <= n PROVE k + 1 \in T
    OBVIOUS
  <2>1. k \in T /\ k + 1 \in 1..n /\ (k + 1) - 1 = k
    BY <1>2
  <2> QED BY <2>1
<1> HIDE DEF U
<1>3. Nat \subseteq U
  BY <1>1, <1>2, SetInduction
<1> QED BY <1>3 DEF U

\* The n steps of a loop stay in X: step[k][y] is the state the k-th step makes of y.
StepsIn(step, n, X) == \A y \in X, k \in 1..n : step[k][y] \in X

\* g is a run of the loop from x: g[k] is the state after k steps.
Run(g, step, n, x) == g[0] = x /\ \A k \in 1..n : g[k] = step[k][g[k - 1]]

\* Such a loop has a run.
LEMMA RunExists ==
    ASSUME NEW n \in Nat, NEW X, NEW x \in X, NEW step, StepsIn(step, n, X)
    PROVE  \E g \in [0..n -> X] : Run(g, step, n, x)
<1> DEFINE T == {m \in 0..n : \E g \in [0..m -> X] : Run(g, step, m, x)}
<1>1. 0 \in T
  <2> DEFINE g == [k \in 0..0 |-> x]
  <2>1. g \in [0..0 -> X] /\ Run(g, step, 0, x)
    BY DEF Run
  <2>2. 0 \in 0..n
    OBVIOUS
  <2> HIDE DEF g
  <2> QED BY <2>1, <2>2
<1>2. ASSUME NEW m \in 1..n, m - 1 \in T PROVE m \in T
  <2>1. PICK g \in [0..(m - 1) -> X] : Run(g, step, m - 1, x)
    BY <1>2
  <2> DEFINE y == step[m][g[m - 1]]
             h == [k \in 0..m |-> IF k = m THEN y ELSE g[k]]
  <2>2. g[m - 1] \in X /\ y \in X
    BY DEF StepsIn
  <2>3. h \in [0..m -> X] /\ h[0] = x
    BY <2>1, <2>2 DEF Run
  <2>4. ASSUME NEW k \in 1..m PROVE h[k] = step[k][h[k - 1]]
    <3>1. h[k - 1] = g[k - 1]
      OBVIOUS
    <3>2. k # m => h[k] = g[k] /\ g[k] = step[k][g[k - 1]]
      BY <2>1 DEF Run
    <3>3. h[m] = y
      OBVIOUS
    <3> QED BY <3>1, <3>2, <3>3
  <2> HIDE DEF h
  <2>5. Run(h, step, m, x)
    BY <2>3, <2>4 DEF Run
  <2> QED BY <2>3, <2>5
<1> HIDE DEF T
<1>3. \A k \in 0..n : k \in T
  BY <1>1, <1>2, BoundedInduction
<1> QED BY <1>3 DEF T

=============================================================================
