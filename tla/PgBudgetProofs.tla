--------------------------- MODULE PgBudgetProofs ---------------------------
(***************************************************************************)
(* Types, the finality of refunds and charges, and the alert at 80% of a   *)
(* cap, for every set of teams, of reservations, of caps and of charges,   *)
(* with overlapping callers, failing statements and restarts.              *)
(***************************************************************************)
EXTENDS PgBudget, FiniteSetTheorems, SetInduction, TLAPS

-----------------------------------------------------------------------------
(* Sums over finite sets. *)

\* The element a sum starts with.
Pick(s) == CHOOSE x \in s : TRUE

\* One step of the sum of f over s, where g gives the sums of smaller sets.
SumStep(f, g, s) == IF s = {} THEN 0 ELSE f[Pick(s)] + g[s \ {Pick(s)}]

\* g gives the sum of f over every subset of D.
IsSum(f, D, g) == g = [s \in SUBSET D |-> SumStep(f, g, s)]

\* It is in the set.
LEMMA PickIn == ASSUME NEW s, s # {} PROVE Pick(s) \in s
BY Zenon DEF Pick

\* What SumFunctionOnSet is.
LEMMA SumIs ==
    ASSUME NEW f, NEW D
    PROVE  SumFunctionOnSet(f, D) = (CHOOSE g : IsSum(f, D, g))[D]
BY Zenon DEF SumFunctionOnSet, FoldFunctionOnSet, MapThenFoldSet, IsSum, SumStep, Pick

\* There is a function that gives the sums over all subsets of a finite set: one on the
\* subsets of up to n elements can be continued to those of n + 1.
LEMMA SumExists ==
    ASSUME NEW f, NEW D, IsFiniteSet(D)
    PROVE  \E g : IsSum(f, D, g)
<1> DEFINE Small(n) == {s \in SUBSET D : Cardinality(s) <= n}
           Upto(n, g) == g = [s \in Small(n) |-> SumStep(f, g, s)]
           T == {n \in Nat : \E g : Upto(n, g)}
<1>1. \A s \in SUBSET D : IsFiniteSet(s) /\ Cardinality(s) \in Nat
  BY FS_Subset, FS_CardinalityType
<1>2. 0 \in T
  <2> DEFINE g == [s \in Small(0) |-> 0]
  <2>1. \A s \in Small(0) : s = {}
    BY <1>1, FS_EmptySet
  <2>2. Upto(0, g)
    BY <2>1 DEF SumStep
  <2> QED BY <2>2, Zenon
<1>3. ASSUME NEW n \in Nat, n \in T PROVE n + 1 \in T
  <2>1. PICK g : Upto(n, g)
    BY <1>3, SMTT(30)
  <2> DEFINE h == [s \in Small(n + 1) |-> SumStep(f, g, s)]
  <2>2. ASSUME NEW s \in Small(n + 1), s # {}
        PROVE  s \ {Pick(s)} \in Small(n) /\ s \ {Pick(s)} \in Small(n + 1)
    <3>1. IsFiniteSet(s) /\ Cardinality(s) \in Nat /\ Pick(s) \in s
      BY <1>1, <2>2, PickIn
    <3>2. Cardinality(s \ {Pick(s)}) = Cardinality(s) - 1
      BY <3>1, FS_RemoveElement, Zenon
    <3> QED BY <3>1, <3>2
  <2>3. \A s \in Small(n) : h[s] = g[s] /\ s \in Small(n + 1)
    <3>1. \A s \in Small(n) : s \in Small(n + 1)
      BY <1>1
    <3>2. \A s \in Small(n) : g[s] = SumStep(f, g, s)
      BY <2>1, Zenon
    <3> HIDE DEF Small
    <3> QED BY <3>1, <3>2
  <2>4. \A s \in Small(n + 1) : SumStep(f, g, s) = SumStep(f, h, s)
    <3> HIDE DEF Small, h
    <3> QED BY <2>2, <2>3 DEF SumStep
  <2>5. Upto(n + 1, h)
    <3> HIDE DEF Small
    <3>1. h = [s \in Small(n + 1) |-> SumStep(f, g, s)]
      BY DEF h
    <3> HIDE DEF h
    <3> QED BY <2>4, <3>1
  <2>6. n + 1 \in Nat
    OBVIOUS
  <2> HIDE DEF Upto, h
  <2> QED BY <2>5, <2>6
<1> HIDE DEF T
<1>4. Nat \subseteq T
  BY <1>2, <1>3, SetInduction
<1>5. Cardinality(D) \in Nat /\ Small(Cardinality(D)) = SUBSET D
  BY FS_CardinalityType, FS_Subset
<1>6. PICK g : Upto(Cardinality(D), g)
  BY <1>4, <1>5, Zenon DEF T
<1> QED BY <1>5, <1>6, Zenon DEF IsSum

\* Two sums of the same function agree where both are defined.
LEMMA SumUnique ==
    ASSUME NEW f, NEW D, IsFiniteSet(D), NEW C \in SUBSET D,
           NEW g, IsSum(f, D, g), NEW h, IsSum(f, C, h)
    PROVE  \A s \in SUBSET C : g[s] = h[s]
<1> DEFINE T == {n \in Nat : \A s \in SUBSET C : Cardinality(s) <= n => g[s] = h[s]}
<1>1. \A s \in SUBSET C : IsFiniteSet(s) /\ Cardinality(s) \in Nat
  BY FS_Subset, FS_CardinalityType
<1>2. \A s \in SUBSET C : g[s] = SumStep(f, g, s) /\ h[s] = SumStep(f, h, s)
  <2>1. \A s \in SUBSET D : g[s] = SumStep(f, g, s)
    BY Zenon DEF IsSum
  <2>2. \A s \in SUBSET C : h[s] = SumStep(f, h, s)
    BY Zenon DEF IsSum
  <2> QED BY <2>1, <2>2
<1>3. 0 \in T
  <2>1. \A s \in SUBSET C : Cardinality(s) <= 0 => s = {}
    BY <1>1, FS_EmptySet
  <2> QED BY <1>2, <2>1 DEF SumStep
<1>4. ASSUME NEW n \in Nat, n \in T PROVE n + 1 \in T
  <2> SUFFICES ASSUME NEW s \in SUBSET C, Cardinality(s) <= n + 1 PROVE g[s] = h[s]
    OBVIOUS
  <2>1. CASE s = {}
    BY <1>2, <2>1 DEF SumStep
  <2>2. CASE s # {}
    <3>1. Pick(s) \in s
      BY <2>2, PickIn
    <3>2. Cardinality(s \ {Pick(s)}) = Cardinality(s) - 1
      BY <1>1, <3>1, FS_RemoveElement
    <3>3. g[s \ {Pick(s)}] = h[s \ {Pick(s)}]
      BY <1>1, <1>4, <3>2
    <3> QED BY <1>2, <2>2, <3>3 DEF SumStep
  <2> QED BY <2>1, <2>2
<1> HIDE DEF T
<1>5. Nat \subseteq T
  BY <1>3, <1>4, SetInduction
<1> QED BY <1>1, <1>5 DEF T

\* The sum over the empty set, and over a set without the element picked first.
LEMMA SumUnfold ==
    ASSUME NEW f, NEW S, IsFiniteSet(S)
    PROVE  SumFunctionOnSet(f, S) =
              IF S = {} THEN 0 ELSE f[Pick(S)] + SumFunctionOnSet(f, S \ {Pick(S)})
<1> DEFINE g == CHOOSE g : IsSum(f, S, g)
           C == S \ {Pick(S)}
           h == CHOOSE h : IsSum(f, C, h)
<1>1. IsSum(f, S, g) /\ SumFunctionOnSet(f, S) = g[S]
  BY SumExists, SumIs
<1>2. IsFiniteSet(C)
  BY FS_RemoveElement
<1>3. IsSum(f, C, h) /\ SumFunctionOnSet(f, C) = h[C]
  BY <1>2, SumExists, SumIs, Zenon
<1> HIDE DEF g, h
<1>4. g[C] = h[C]
  BY <1>1, <1>3, SumUnique
<1>5. g[S] = SumStep(f, g, S)
  BY <1>1, Zenon DEF IsSum
<1> QED BY <1>1, <1>3, <1>4, <1>5 DEF SumStep

\* A sum of natural numbers is one.
LEMMA SumNat ==
    ASSUME NEW S, IsFiniteSet(S), NEW f, \A x \in S : f[x] \in Nat
    PROVE  SumFunctionOnSet(f, S) \in Nat
<1> DEFINE T == {n \in Nat : \A s \in SUBSET S :
                    Cardinality(s) <= n => SumFunctionOnSet(f, s) \in Nat}
<1>1. \A s \in SUBSET S : IsFiniteSet(s) /\ Cardinality(s) \in Nat
  BY FS_Subset, FS_CardinalityType
<1>e. SumFunctionOnSet(f, {}) = 0
  BY FS_EmptySet, SumUnfold, Zenon
<1>2. 0 \in T
  BY <1>1, <1>e, FS_EmptySet
<1>3. ASSUME NEW n \in Nat, n \in T PROVE n + 1 \in T
  <2> SUFFICES ASSUME NEW s \in SUBSET S, Cardinality(s) <= n + 1
               PROVE  SumFunctionOnSet(f, s) \in Nat
    OBVIOUS
  <2>1. CASE s = {}
    BY <1>e, <2>1
  <2>2. CASE s # {}
    <3>1. Pick(s) \in s
      BY <2>2, PickIn
    <3>2. Cardinality(s \ {Pick(s)}) = Cardinality(s) - 1
      BY <1>1, <3>1, FS_RemoveElement
    <3>3. SumFunctionOnSet(f, s \ {Pick(s)}) \in Nat
      BY <1>1, <1>3, <3>2
    <3> QED BY <1>1, <2>2, <3>1, <3>3, SumUnfold
  <2> QED BY <2>1, <2>2
<1> HIDE DEF T
<1>4. Nat \subseteq T
  BY <1>2, <1>3, SetInduction
<1> QED BY <1>1, <1>4 DEF T

\* Any element can be taken out first.
LEMMA SumRemove ==
    ASSUME NEW S, IsFiniteSet(S), NEW f, \A x \in S : f[x] \in Nat, NEW e \in S
    PROVE  SumFunctionOnSet(f, S) = f[e] + SumFunctionOnSet(f, S \ {e})
<1> DEFINE T == {n \in Nat : \A s \in SUBSET S : Cardinality(s) <= n => \A x \in s :
                    SumFunctionOnSet(f, s) = f[x] + SumFunctionOnSet(f, s \ {x})}
<1>1. \A s \in SUBSET S : IsFiniteSet(s) /\ Cardinality(s) \in Nat
  BY FS_Subset, FS_CardinalityType
<1>2. 0 \in T
  BY <1>1, FS_EmptySet
<1>3. ASSUME NEW n \in Nat, n \in T PROVE n + 1 \in T
  <2> SUFFICES ASSUME NEW s \in SUBSET S, Cardinality(s) <= n + 1, NEW x \in s
               PROVE  SumFunctionOnSet(f, s) = f[x] + SumFunctionOnSet(f, s \ {x})
    OBVIOUS
  <2> DEFINE p == Pick(s)
             r == s \ {p}
  <2>1. p \in s /\ SumFunctionOnSet(f, s) = f[p] + SumFunctionOnSet(f, r)
    BY <1>1, PickIn, SumUnfold
  <2>2. CASE x = p
    BY <2>1, <2>2
  <2>3. CASE x # p
    <3>1. x \in r /\ p \in s \ {x} /\ r \in SUBSET S /\ s \ {x} \in SUBSET S
      BY <2>1, <2>3
    <3>2. Cardinality(r) = Cardinality(s) - 1 /\ Cardinality(s \ {x}) = Cardinality(s) - 1
      BY <1>1, <2>1, FS_RemoveElement
    <3>3. SumFunctionOnSet(f, r) = f[x] + SumFunctionOnSet(f, r \ {x})
      BY <1>1, <1>3, <3>1, <3>2
    <3>4. SumFunctionOnSet(f, s \ {x}) = f[p] + SumFunctionOnSet(f, (s \ {x}) \ {p})
      BY <1>1, <1>3, <3>1, <3>2
    <3>5. r \ {x} = (s \ {x}) \ {p} /\ IsFiniteSet(r \ {x})
      BY <1>1, <3>1
    <3>6. SumFunctionOnSet(f, r \ {x}) \in Nat
      <4>1. \A y \in r \ {x} : f[y] \in Nat
        OBVIOUS
      <4> QED BY <3>5, <4>1, SumNat
    <3>7. f[x] \in Nat /\ f[p] \in Nat
      BY <2>1
    <3> HIDE DEF p, r
    <3> QED BY <2>1, <3>3, <3>4, <3>5, <3>6, <3>7
  <2> QED BY <2>2, <2>3
<1> HIDE DEF T
<1>4. Nat \subseteq T
  BY <1>2, <1>3, SetInduction
<1> QED BY <1>1, <1>4 DEF T

\* A sum grows with its set and with its terms.
LEMMA SumMonotonic ==
    ASSUME NEW D, IsFiniteSet(D), NEW f, NEW g, NEW C \in SUBSET D,
           \A x \in D : g[x] \in Nat, \A x \in C : f[x] \in Nat /\ f[x] <= g[x]
    PROVE  SumFunctionOnSet(f, C) <= SumFunctionOnSet(g, D)
<1> DEFINE Le(s) == SumFunctionOnSet(f, s \intersect C) <= SumFunctionOnSet(g, s)
           T == {n \in Nat : \A s \in SUBSET D : Cardinality(s) <= n => Le(s)}
<1>1. \A s \in SUBSET D : IsFiniteSet(s) /\ Cardinality(s) \in Nat
  BY FS_Subset, FS_CardinalityType
<1>2. Le({})
  <2>1. {} \intersect C = {}
    OBVIOUS
  <2>2. SumFunctionOnSet(f, {}) = 0 /\ SumFunctionOnSet(g, {}) = 0
    BY FS_EmptySet, SumUnfold, Zenon
  <2>3. SumFunctionOnSet(f, {} \intersect C) = 0
    BY <2>1, <2>2, Zenon
  <2> QED BY <2>2, <2>3
<1>3. 0 \in T
  <2>1. \A s \in SUBSET D : Cardinality(s) <= 0 => s = {}
    BY <1>1, FS_EmptySet
  <2> HIDE DEF Le
  <2> QED BY <1>2, <2>1
<1>4. ASSUME NEW n \in Nat, n \in T PROVE n + 1 \in T
  <2> SUFFICES ASSUME NEW s \in SUBSET D, Cardinality(s) <= n + 1 PROVE Le(s)
    OBVIOUS
  <2>1. CASE s = {}
    BY <1>2, <2>1
  <2>2. CASE s # {}
    <3> DEFINE p == Pick(s)
               r == s \ {p}
    <3>1. p \in s
      BY <2>2, PickIn
    <3>2. Cardinality(r) = Cardinality(s) - 1 /\ r \in SUBSET D
      BY <1>1, <3>1, FS_RemoveElement
    <3>3. Le(r)
      BY <1>1, <1>4, <3>2
    <3>4. SumFunctionOnSet(g, s) = g[p] + SumFunctionOnSet(g, r)
      BY <1>1, <2>2, SumUnfold
    <3>5. /\ SumFunctionOnSet(g, r) \in Nat /\ g[p] \in Nat
      <4>1. IsFiniteSet(r) /\ \A x \in r : g[x] \in Nat
        BY <1>1, <3>2
      <4> QED BY <4>1, <3>1, SumNat
    <3>6. SumFunctionOnSet(f, r \intersect C) \in Nat
      <4>1. IsFiniteSet(r \intersect C) /\ \A x \in r \intersect C : f[x] \in Nat
        BY <1>1, <3>2
      <4> QED BY <4>1, SumNat
    <3>7. CASE p \in C
      <4>1. /\ IsFiniteSet(s \intersect C) /\ p \in s \intersect C
            /\ \A x \in s \intersect C : f[x] \in Nat
        BY <1>1, <3>1, <3>7
      <4>2. SumFunctionOnSet(f, s \intersect C)
              = f[p] + SumFunctionOnSet(f, (s \intersect C) \ {p})
        BY <4>1, SumRemove
      <4>3. (s \intersect C) \ {p} = r \intersect C
        OBVIOUS
      <4>4. f[p] \in Nat /\ f[p] <= g[p]
        BY <3>7
      <4>5. SumFunctionOnSet(f, s \intersect C) = f[p] + SumFunctionOnSet(f, r \intersect C)
        BY <4>2, <4>3, Zenon
      <4> DEFINE old == SumFunctionOnSet(f, r \intersect C)
      <4>6. old \in Nat /\ old <= SumFunctionOnSet(g, r)
        BY <3>3, <3>6
      <4> HIDE DEF p, r, old
      <4>7. f[p] + old <= SumFunctionOnSet(g, s)
        BY <3>4, <3>5, <4>4, <4>6
      <4> QED BY <4>5, <4>7 DEF old
    <3>8. CASE p \notin C
      <4>1. s \intersect C = r \intersect C
        BY <3>8
      <4> DEFINE old == SumFunctionOnSet(f, r \intersect C)
      <4>2. old \in Nat /\ old <= SumFunctionOnSet(g, r)
        BY <3>3, <3>6
      <4> HIDE DEF p, r, old
      <4>3. old <= SumFunctionOnSet(g, s)
        BY <3>4, <3>5, <4>2
      <4> QED BY <4>1, <4>3, Zenon DEF old
    <3> QED BY <3>7, <3>8
  <2> QED BY <2>1, <2>2
<1> HIDE DEF T, Le
<1>5. Nat \subseteq T
  BY <1>3, <1>4, SetInduction
<1>6. D \in SUBSET D /\ Cardinality(D) \in Nat /\ D \intersect C = C
  BY <1>1
<1> QED BY <1>5, <1>6 DEF T, Le

-----------------------------------------------------------------------------

USE PgBudgetAssumption

-----------------------------------------------------------------------------
(* The statements of the table. *)

\* A row an action may leave behind: the same, new, aged, or moved on in its life.
Moves(row, next) ==
    /\ next \in Row
    /\ row.state \in {"released", "expired"} => next = row
    /\ row.state = "committed" => next \in {row, [row EXCEPT !.state = "released"]}

\* Every row moves as Moves allows.
RowsMove == rows' \in [Ids -> Row] /\ \A i \in Ids : Moves(rows[i], rows'[i])

\* A table left alone.
LEMMA SameMoves ==
    ASSUME TypeOK, rows' = rows
    PROVE  RowsMove
BY DEF TypeOK, RowsMove, Moves

\* A state change of an outstanding or charged row.
LEMMA StateChanges ==
    ASSUME NEW row \in Row, NEW s \in States, NEW c \in Nat
    PROVE  /\ [row EXCEPT !.state = s] \in Row
           /\ [row EXCEPT !.state = s, !.actual = c] \in Row
           /\ [row EXCEPT !.stale = TRUE] \in Row
BY Zenon DEF Row

\* A statement that names one row.
LEMMA OneRowMoves ==
    ASSUME TypeOK, NEW i \in Ids, NEW row, Moves(rows[i], row),
           rows' = [rows EXCEPT ![i] = row]
    PROVE  RowsMove
BY DEF TypeOK, RowsMove, Moves

\* INSERT adds a row where there was none.
LEMMA InsertMoves ==
    ASSUME TypeOK, NEW i \in Ids, InsertRow(i, Estimate)
    PROVE  RowsMove
BY DEF InsertRow, TypeOK, RowsMove, Moves, Row, States, Settled, NoActual

\* The conditional UPDATE of Commit leaves a settled row alone.
LEMMA CommitMoves ==
    ASSUME TypeOK, NEW i \in Ids, NEW cents \in Actuals, CommitRow(i, cents)
    PROVE  RowsMove
<1> DEFINE old == rows[i]
           new == [old EXCEPT !.state = "committed", !.actual = cents]
<1>1. old \in Row /\ cents \in Nat /\ "committed" \in States
  BY DEF TypeOK, States, Settled
<1>2. new \in Row
  BY <1>1, StateChanges, Zenon
<1>3. CASE old.state = "reserved"
  <2>1. Moves(old, new)
    BY <1>2, <1>3 DEF Moves
  <2>2. rows' = [rows EXCEPT ![i] = new]
    BY <1>3 DEF CommitRow, TypeOK
  <2> HIDE DEF new
  <2> QED BY <2>1, <2>2, OneRowMoves, Zenon
<1>4. CASE old.state # "reserved"
  BY <1>4, SameMoves DEF CommitRow, TypeOK
<1> QED BY <1>3, <1>4

\* Release refunds a charge once and leaves a refund alone.
LEMMA ReleaseMoves ==
    ASSUME TypeOK, NEW i \in Ids, ReleaseRow(i)
    PROVE  RowsMove
<1> DEFINE old == rows[i]
           new == [old EXCEPT !.state = "released"]
<1>1. old \in Row /\ "released" \in States
  BY DEF TypeOK, States, Settled
<1>2. new \in Row
  BY <1>1, StateChanges, Zenon
<1>3. CASE old.state \notin {"none", "released", "expired"}
  <2>1. Moves(old, new)
    BY <1>2, <1>3 DEF Moves
  <2>2. rows' = [rows EXCEPT ![i] = new]
    BY <1>3 DEF ReleaseRow, TypeOK
  <2> HIDE DEF new
  <2> QED BY <2>1, <2>2, OneRowMoves, Zenon
<1>4. CASE old.state \in {"none", "released", "expired"}
  BY <1>4, SameMoves DEF ReleaseRow, TypeOK
<1> QED BY <1>3, <1>4

\* Ageing touches only outstanding rows.
LEMMA AgeMoves ==
    ASSUME TypeOK, NEW i \in Ids, AgeRow(i)
    PROVE  RowsMove
<1> DEFINE old == rows[i]
           new == [old EXCEPT !.stale = TRUE]
<1>1. old \in Row /\ old.state = "reserved" /\ "released" \in States /\ 0 \in Nat
  BY DEF TypeOK, AgeRow, States, Settled
<1>2. new \in Row
  BY <1>1, StateChanges, Zenon
<1>3. Moves(old, new)
  BY <1>1, <1>2 DEF Moves
<1>4. rows' = [rows EXCEPT ![i] = new]
  BY DEF AgeRow, TypeOK
<1> HIDE DEF new
<1> QED BY <1>3, <1>4, OneRowMoves, Zenon

\* The settler's UPDATE touches only outstanding rows.
LEMMA ExpireMoves ==
    ASSUME TypeOK, ExpireRows
    PROVE  RowsMove
<1> DEFINE new(i) == IF rows[i].state = "reserved" /\ rows[i].stale
                     THEN [rows[i] EXCEPT !.state = "expired"] ELSE rows[i]
<1>1. ASSUME NEW i \in Ids PROVE Moves(rows[i], new(i))
  <2>1. rows[i] \in Row /\ "expired" \in States
    BY DEF TypeOK, States, Settled
  <2>2. [rows[i] EXCEPT !.state = "expired"] \in Row
    BY <2>1, StateChanges, Zenon
  <2> QED BY <2>1, <2>2 DEF Moves
<1>2. \A i \in Ids : new(i) \in Row
  BY <1>1, Zenon DEF Moves
<1>3. rows' = [i \in Ids |-> new(i)]
  BY DEF ExpireRows
<1> HIDE DEF new
<1> QED BY <1>1, <1>2, <1>3 DEF RowsMove

-----------------------------------------------------------------------------
(* Types. *)

\* The history variables are functions to the Booleans whatever a step did.
LEMMA ObserveTypes ==
    ASSUME NEW A, NEW F, Observe(A, F)
    PROVE  warned' \in [Teams -> BOOLEAN] /\ excused' \in [Teams -> BOOLEAN]
BY Zenon DEF Observe

\* Every step moves rows as their life allows, and keeps the types.
LEMMA StepIsTyped == TypeOK /\ [Next]_vars => TypeOK' /\ RowsMove
<1> SUFFICES ASSUME TypeOK, [Next]_vars PROVE TypeOK' /\ RowsMove
  OBVIOUS
<1> DEFINE Histories == warned' \in [Teams -> BOOLEAN] /\ excused' \in [Teams -> BOOLEAN]
           Service == /\ teams' \in [Teams -> Caps]
                      /\ checking' \subseteq Ids /\ returned' \subseteq Ids
                      /\ alerts' \subseteq Teams /\ softWarns' \subseteq Teams
<1>0. UNCHANGED serviceVars => Service
  BY DEF TypeOK, serviceVars
<1>q. ASSUME RowsMove, Service, Histories PROVE TypeOK' /\ RowsMove
  BY <1>q DEF TypeOK, RowsMove
<1>1. ASSUME NEW i \in Ids, ReserveInsert(i) PROVE TypeOK' /\ RowsMove
  <2>1. RowsMove
    BY <1>1, InsertMoves DEF ReserveInsert
  <2>2. Service
    BY <1>1 DEF ReserveInsert, TypeOK
  <2>3. Histories
    BY <1>1, ObserveTypes DEF ReserveInsert
  <2> QED BY <1>q, <2>1, <2>2, <2>3
<1>2. ASSUME NEW i \in Ids, ReserveCheck(i) PROVE TypeOK' /\ RowsMove
  <2>1. RowsMove
    BY <1>2, SameMoves DEF ReserveCheck
  <2>2. Service
    BY <1>2 DEF ReserveCheck, AlertBudget, WriteAudit, TypeOK
  <2>3. Histories
    BY <1>2, ObserveTypes DEF ReserveCheck
  <2> QED BY <1>q, <2>1, <2>2, <2>3
<1>3. ASSUME NEW i \in Ids, Release(i) PROVE TypeOK' /\ RowsMove
  BY <1>0, <1>3, <1>q, ReleaseMoves, ObserveTypes DEF Release
<1>4. ASSUME NEW i \in Ids, Age(i) PROVE TypeOK' /\ RowsMove
  BY <1>0, <1>4, <1>q, AgeMoves, ObserveTypes DEF Age
<1>5. ASSUME NEW i \in Ids, NEW cents \in Actuals, Commit(i, cents) PROVE TypeOK' /\ RowsMove
  BY <1>0, <1>5, <1>q, CommitMoves, ObserveTypes DEF Commit
<1>6. ASSUME NEW t \in Teams, NEW cap \in Caps, SetTeamCap(t, cap) PROVE TypeOK' /\ RowsMove
  <2>1. Service
    BY <1>6 DEF SetTeamCap, TypeOK
  <2> QED BY <1>6, <1>q, <2>1, SameMoves, ObserveTypes DEF SetTeamCap
<1>7. CASE ReleaseExpired
  BY <1>0, <1>7, <1>q, ExpireMoves, ObserveTypes DEF ReleaseExpired
<1>8. CASE Restart
  <2>1. Service
    BY <1>8 DEF Restart, TypeOK
  <2> QED BY <1>8, <1>q, <2>1, SameMoves, ObserveTypes DEF Restart
<1>9. CASE UNCHANGED vars
  BY <1>0, <1>9, <1>q, SameMoves DEF vars, TypeOK
<1> QED BY <1>1, <1>2, <1>3, <1>4, <1>5, <1>6, <1>7, <1>8, <1>9 DEF Next

\* Init is typed.
LEMMA InitTypes == Init => TypeOK
BY DEF Init, TypeOK, RowsInit, NoRow, Row, States, Settled, NoActual

\* Every variable keeps to its domain.
THEOREM TypeCorrect == Spec => []TypeOK
<1>1. TypeOK /\ [Next]_vars => TypeOK'
  BY StepIsTyped
<1> QED BY InitTypes, <1>1, PTL DEF Spec

\* Whatever callers and settler do, a refund stays and a charge keeps its amount and is
\* at most refunded once (the WHERE clauses of Commit, Release and ReleaseExpired).
THEOREM RefundsAreFinal == Spec => RefundIsFinal
<1>1. TypeOK /\ [Next]_vars => [\A i \in Ids :
          /\ rows[i].state \in {"released", "expired"} => rows'[i] = rows[i]
          /\ rows[i].state = "committed" =>
                rows'[i] \in {rows[i], [rows[i] EXCEPT !.state = "released"]}]_vars
  BY StepIsTyped DEF RowsMove, Moves
<1> QED BY TypeCorrect, <1>1, PTL DEF Spec, RefundIsFinal

-----------------------------------------------------------------------------
(* The alert. *)

\* The integer division of Reserve sees 80% of a cap as it is reached, not later.
LEMMA DivisionIsExact ==
    ASSUME NEW used \in Nat, NEW cap \in Nat, cap > 0, 5 * used >= 4 * cap
    PROVE  (used * 100) \div cap >= 80
<1> DEFINE x == used * 100
           y == 80 * cap
<1>1. x \in Nat /\ y \in Nat /\ y <= x
  OBVIOUS
<1>2. y \div cap = 80
  OBVIOUS
<1> HIDE DEF x, y
<1>3. y \div cap <= x \div cap /\ y \div cap \in Int /\ x \div cap \in Int
  BY <1>1
<1> QED BY <1>2, <1>3 DEF x, y

\* An outstanding row has no actual amount yet, and only finitely many rows exist.
RowsInv ==
    /\ \A i \in Ids : rows[i].state = "reserved" => rows[i].actual = NoActual
    /\ IsFiniteSet({i \in Ids : rows[i].state # "none"})

\* The row counts no more than it did.
Falls(row, next) == next.state \in Live => row.state \in Live /\ Least(next) <= Least(row)

\* The rows of a team that count are finitely many, and their values numbers.
LEMMA LiveFacts ==
    ASSUME TypeOK, RowsInv, NEW t \in Teams
    PROVE  /\ IsFiniteSet(LiveRows(t)) /\ LiveRows(t) \subseteq Ids
           /\ \A i \in Ids : Value(rows[i]) \in Nat /\ Least(rows[i]) \in Nat
           /\ \A i \in Ids : Least(rows[i]) <= Value(rows[i])
<1>1. LiveRows(t) \in SUBSET {i \in Ids : rows[i].state # "none"}
  BY DEF LiveRows, Live
<1>2. IsFiniteSet(LiveRows(t))
  BY <1>1, FS_Subset DEF RowsInv
<1>3. ASSUME NEW i \in Ids
      PROVE  /\ Value(rows[i]) \in Nat /\ Least(rows[i]) \in Nat
             /\ Least(rows[i]) <= Value(rows[i])
  <2>1. rows[i].est \in Nat /\ rows[i].actual \in Nat \union {NoActual}
    BY DEF TypeOK, Row
  <2> QED BY <2>1 DEF Value, Least
<1> QED BY <1>1, <1>2, <1>3

\* What is announced is part of what is used.
LEMMA AnnouncedIsUsed ==
    ASSUME TypeOK, RowsInv, NEW t \in Teams
    PROVE  /\ Announced(t) \in Nat /\ TeamUsed(t) \in Nat
           /\ Announced(t) <= TeamUsed(t)
<1> DEFINE f == [i \in Ids |-> Least(rows[i])]
           g == [i \in Ids |-> Value(rows[i])]
<1>1. /\ IsFiniteSet(LiveRows(t)) /\ LiveRows(t) \in SUBSET LiveRows(t)
      /\ \A i \in LiveRows(t) : f[i] \in Nat /\ g[i] \in Nat /\ f[i] <= g[i]
  BY LiveFacts, Zenon
<1>2. Announced(t) = SumFunctionOnSet(f, LiveRows(t))
  BY DEF Announced
<1>3. TeamUsed(t) = SumFunctionOnSet(g, LiveRows(t))
  BY DEF TeamUsed, Values
<1> HIDE DEF f, g
<1>4. Announced(t) \in Nat /\ TeamUsed(t) \in Nat
  BY <1>1, <1>2, <1>3, SumNat
<1>5. SumFunctionOnSet(f, LiveRows(t)) <= SumFunctionOnSet(g, LiveRows(t))
  BY <1>1, SumMonotonic
<1> QED BY <1>2, <1>3, <1>4, <1>5

\* A step in which no row of a team counts more than before announces no more of it.
LEMMA AnnouncedFalls ==
    ASSUME TypeOK, RowsInv, TypeOK', RowsInv', NEW t \in Teams,
           \A i \in Ids : TeamOf[i] = t => Falls(rows[i], rows'[i])
    PROVE  Announced(t)' \in Nat /\ Announced(t)' <= Announced(t)
<1> DEFINE f == [i \in Ids |-> Least(rows'[i])]
           g == [i \in Ids |-> Least(rows[i])]
           C == LiveRows(t)'
           D == LiveRows(t)
<1>1. IsFiniteSet(D) /\ \A i \in D : g[i] \in Nat
  BY LiveFacts
<1>2. ASSUME NEW i \in Ids PROVE Least(rows'[i]) \in Nat
  <2>1. rows'[i].est \in Nat /\ rows'[i].actual \in Nat \union {NoActual}
    BY DEF TypeOK, Row
  <2> QED BY <2>1 DEF Value, Least
<1>3. C \in SUBSET D /\ \A i \in C : f[i] \in Nat /\ f[i] <= g[i]
  BY <1>2 DEF Falls, LiveRows
<1>4. Announced(t)' = SumFunctionOnSet(f, C)
  BY DEF Announced
<1>5. Announced(t) = SumFunctionOnSet(g, D)
  BY DEF Announced
<1>6. IsFiniteSet(C)
  BY <1>1, <1>3, FS_Subset
<1> HIDE DEF f, g, C, D
<1>7. SumFunctionOnSet(f, C) \in Nat
  BY <1>3, <1>6, SumNat
<1>8. SumFunctionOnSet(f, C) <= SumFunctionOnSet(g, D)
  BY <1>1, <1>3, SumMonotonic
<1> QED BY <1>4, <1>5, <1>7, <1>8

\* No row counts more than it did, and RowsInv holds on.
RowsFall == RowsInv' /\ \A i \in Ids : Falls(rows[i], rows'[i])

\* A row counts for a natural number.
LEMMA LeastNat == ASSUME NEW row \in Row PROVE Least(row) \in Nat
<1>1. row.est \in Nat /\ row.actual \in Nat \union {NoActual}
  BY DEF Row
<1> QED BY <1>1 DEF Value, Least

\* A table left alone.
LEMMA SameFall ==
    ASSUME TypeOK, RowsInv, rows' = rows
    PROVE  RowsFall
<1>1. \A i \in Ids : Least(rows[i]) \in Nat
  BY LeastNat DEF TypeOK
<1> QED BY <1>1 DEF RowsFall, RowsInv, Falls

\* A statement that changes some rows, creates none and lets none count more.
LEMMA UpdateFalls ==
    ASSUME TypeOK, RowsInv,
           \A j \in Ids :
               rows'[j] = rows[j] \/ /\ Falls(rows[j], rows'[j])
                                     /\ rows'[j].state # "reserved" \/ rows'[j].actual = NoActual
                                     /\ rows[j].state # "none"
    PROVE  RowsFall
<1>1. \A j \in Ids : Falls(rows[j], rows[j])
  <2>1. \A j \in Ids : Least(rows[j]) \in Nat
    BY LeastNat DEF TypeOK
  <2> QED BY <2>1 DEF Falls
<1>2. {j \in Ids : rows'[j].state # "none"} \in SUBSET {j \in Ids : rows[j].state # "none"}
  OBVIOUS
<1>3. IsFiniteSet({j \in Ids : rows'[j].state # "none"})
  BY <1>2, FS_Subset DEF RowsInv
<1>4. RowsInv'
  BY <1>3 DEF RowsInv
<1> QED BY <1>1, <1>4 DEF RowsFall

\* INSERT adds one row.
LEMMA InsertKeeps ==
    ASSUME TypeOK, RowsInv, NEW i \in Ids, InsertRow(i, Estimate)
    PROVE  RowsInv' /\ \A j \in Ids : TeamOf[j] # TeamOf[i] => Falls(rows[j], rows'[j])
<1> DEFINE S == {j \in Ids : rows[j].state # "none"}
           R == {j \in Ids : rows'[j].state # "none"}
           new == [state |-> "reserved", est |-> Estimate, actual |-> NoActual, stale |-> FALSE]
<1>1. rows' = [rows EXCEPT ![i] = new] /\ new.state = "reserved" /\ new.actual = NoActual
  BY DEF InsertRow
<1> HIDE DEF new
<1>2. R \in SUBSET (S \union {i})
  BY <1>1 DEF TypeOK
<1>3. IsFiniteSet(S \union {i})
  BY FS_AddElement, Zenon DEF RowsInv
<1>4. IsFiniteSet(R)
  BY <1>2, <1>3, FS_Subset
<1>5. RowsInv'
  BY <1>1, <1>4 DEF RowsInv, TypeOK
<1>6. ASSUME NEW j \in Ids, TeamOf[j] # TeamOf[i] PROVE Falls(rows[j], rows'[j])
  <2>1. rows'[j] = rows[j] /\ Least(rows[j]) \in Nat
    BY <1>1, <1>6, LeastNat DEF TypeOK
  <2> QED BY <2>1 DEF Falls
<1> QED BY <1>5, <1>6

\* The charge of a Commit counts for at most its estimate.
LEMMA CommitFalls ==
    ASSUME TypeOK, RowsInv, NEW i \in Ids, NEW cents \in Actuals, CommitRow(i, cents)
    PROVE  RowsFall
<1> DEFINE old == rows[i]
           new == [old EXCEPT !.state = "committed", !.actual = cents]
<1>1. old \in Row /\ cents \in Nat
  BY DEF TypeOK
<1>2. CASE old.state = "reserved"
  <2>1. rows' = [rows EXCEPT ![i] = new]
    BY <1>2 DEF CommitRow, TypeOK
  <2>2. /\ new.state = "committed" /\ new.actual = cents /\ new.est = old.est
        /\ old.actual = NoActual /\ old.est \in Nat
    BY <1>1, <1>2 DEF Row, RowsInv
  <2> HIDE DEF old, new
  <2>3. Falls(old, new)
    BY <1>1, <1>2, <2>2 DEF Falls, Least, Value, Live, NoActual
  <2> QED BY <1>2, <2>1, <2>2, <2>3, UpdateFalls DEF TypeOK, old
<1>3. CASE old.state # "reserved"
  BY <1>3, SameFall DEF CommitRow, TypeOK
<1> QED BY <1>2, <1>3

\* A refund counts for nothing.
LEMMA ReleaseFalls ==
    ASSUME TypeOK, RowsInv, NEW i \in Ids, ReleaseRow(i)
    PROVE  RowsFall
<1> DEFINE old == rows[i]
           new == [old EXCEPT !.state = "released"]
<1>1. old \in Row
  BY DEF TypeOK
<1>2. new.state = "released"
  BY <1>1 DEF Row
<1>3. CASE old.state \notin {"none", "released", "expired"}
  <2>1. rows' = [rows EXCEPT ![i] = new]
    BY <1>3 DEF ReleaseRow, TypeOK
  <2> HIDE DEF new
  <2> QED BY <1>2, <1>3, <2>1, UpdateFalls DEF TypeOK, Falls, Live
<1>4. CASE old.state \in {"none", "released", "expired"}
  BY <1>4, SameFall DEF ReleaseRow, TypeOK
<1> QED BY <1>3, <1>4

\* Ageing changes no amount.
LEMMA AgeFalls ==
    ASSUME TypeOK, RowsInv, NEW i \in Ids, AgeRow(i)
    PROVE  RowsFall
<1> DEFINE old == rows[i]
           new == [old EXCEPT !.stale = TRUE]
<1>1. old \in Row /\ old.state = "reserved" /\ old.actual = NoActual
  BY DEF TypeOK, AgeRow, RowsInv
<1>2. new.state = old.state /\ new.actual = old.actual /\ new.est = old.est
  BY <1>1 DEF Row
<1>3. rows' = [rows EXCEPT ![i] = new]
  BY DEF AgeRow, TypeOK
<1>4. Least(old) \in Nat
  BY <1>1, LeastNat
<1> HIDE DEF new
<1>5. Falls(old, new)
  BY <1>1, <1>2, <1>4 DEF Falls, Least, Value
<1> HIDE DEF old
<1> QED BY <1>1, <1>2, <1>3, <1>5, UpdateFalls DEF TypeOK, old

\* The settler's UPDATE only expires.
LEMMA ExpireFalls ==
    ASSUME TypeOK, RowsInv, ExpireRows
    PROVE  RowsFall
<1>1. ASSUME NEW j \in Ids, rows'[j] # rows[j]
      PROVE  rows'[j].state = "expired" /\ rows[j].state = "reserved"
  <2>1. rows[j] \in Row
    BY DEF TypeOK
  <2>2. rows'[j] = [rows[j] EXCEPT !.state = "expired"] /\ rows[j].state = "reserved"
    BY <1>1 DEF ExpireRows
  <2> QED BY <2>1, <2>2 DEF Row
<1> QED BY <1>1, UpdateFalls DEF Falls, Live

\* Why a team may be over 80%.
Noticed(t) == warned[t] \/ excused[t] \/ \E i \in checking : TeamOf[i] = t

\* What Observe leaves of a team that is over.
LEMMA ObserveOver ==
    ASSUME NEW t \in Teams, NEW A, NEW F, Observe(A, F), Reached80(t, Announced(t))'
    PROVE  /\ warned'[t] = (warned[t] \/ t \in A)
           /\ excused'[t] = (excused[t] \/ t \in F)
BY Zenon DEF Observe

\* A step in which no row of the team counts more and no call of it ends keeps it noticed.
LEMMA FallKeepsNoticed ==
    ASSUME TypeOK, RowsInv, NoSilentOverspend, TypeOK', RowsInv', NEW t \in Teams,
           \A i \in Ids : TeamOf[i] = t => Falls(rows[i], rows'[i]),
           teams'[t] = teams[t],
           \A i \in checking : TeamOf[i] = t => i \in checking',
           NEW A, NEW F, Observe(A, F), Reached80(t, Announced(t))'
    PROVE  Noticed(t)'
<1>1. Announced(t) \in Nat /\ Announced(t)' \in Nat /\ Announced(t)' <= Announced(t)
  BY AnnouncedFalls, AnnouncedIsUsed
<1>2. teams[t] \in Nat
  BY Zenon DEF TypeOK
<1>3. teams[t] > 0 /\ 5 * Announced(t)' >= 4 * teams[t]
  BY DEF Reached80
<1>4. Reached80(t, Announced(t))
  BY <1>1, <1>2, <1>3, SMTT(30) DEF Reached80
<1>5. Noticed(t)
  BY <1>4 DEF NoSilentOverspend, Noticed
<1> QED BY <1>5, ObserveOver, Zenon DEF Noticed

\* The inductive invariant.
AlertInv == TypeOK /\ RowsInv /\ NoSilentOverspend

\* Every step keeps it.
LEMMA StepIsNoticed == AlertInv /\ [Next]_vars => AlertInv'
<1> SUFFICES ASSUME AlertInv, [Next]_vars PROVE AlertInv'
  OBVIOUS
<1>0. TypeOK /\ RowsInv /\ NoSilentOverspend /\ TypeOK'
  BY StepIsTyped DEF AlertInv
<1>q. ASSUME RowsInv', \A t \in Teams : Reached80(t, Announced(t))' => Noticed(t)' PROVE AlertInv'
  BY <1>0, <1>q DEF AlertInv, NoSilentOverspend, Noticed
<1>f. ASSUME RowsFall, UNCHANGED <<teams, checking>>, Observe({}, {}) PROVE AlertInv'
  BY <1>0, <1>f, <1>q, FallKeepsNoticed DEF RowsFall
<1>1. ASSUME NEW i \in Ids, ReserveInsert(i) PROVE AlertInv'
  <2>1. RowsInv' /\ \A j \in Ids : TeamOf[j] # TeamOf[i] => Falls(rows[j], rows'[j])
    BY <1>0, <1>1, InsertKeeps DEF ReserveInsert
  <2>2. ASSUME NEW t \in Teams, Reached80(t, Announced(t))' PROVE Noticed(t)'
    <3>1. CASE t = TeamOf[i]
      <4>1. CASE checking' = checking \union {i}
        BY <3>1, <4>1 DEF Noticed
      <4>2. CASE Observe({}, {TeamOf[i]})
        BY <2>2, <3>1, <4>2, ObserveOver, Zenon DEF Noticed
      <4> QED BY <1>1, <4>1, <4>2 DEF ReserveInsert
    <3>2. CASE t # TeamOf[i]
      <4>1. UNCHANGED teams /\ checking \subseteq checking'
        BY <1>1 DEF ReserveInsert
      <4>2. Observe({}, {}) \/ Observe({}, {TeamOf[i]})
        BY <1>1 DEF ReserveInsert
      <4> QED BY <1>0, <2>1, <2>2, <3>2, <4>1, <4>2, FallKeepsNoticed
    <3> QED BY <3>1, <3>2
  <2> QED BY <1>q, <2>1, <2>2
<1>2. ASSUME NEW i \in Ids, ReserveCheck(i) PROVE AlertInv'
  <2>1. UNCHANGED <<rows, teams>> /\ checking' = checking \ {i}
    BY <1>2 DEF ReserveCheck
  <2>2. RowsFall
    BY <1>0, <2>1, SameFall
  <2>3. ASSUME NEW t \in Teams, Reached80(t, Announced(t))' PROVE Noticed(t)'
    <3>1. CASE t = TeamOf[i]
      <4>1. Announced(t)' = Announced(t)
        BY <2>1 DEF Announced, LiveRows
      <4>2. Announced(t) \in Nat /\ TeamUsed(t) \in Nat /\ Announced(t) <= TeamUsed(t)
        BY <1>0, AnnouncedIsUsed
      <4>3. teams[t] \in Nat /\ teams[t] > 0 /\ 5 * Announced(t) >= 4 * teams[t]
        BY <1>0, <2>1, <2>3, <4>1, Zenon DEF Reached80, TypeOK
      <4>4. 5 * TeamUsed(t) >= 4 * teams[t]
        BY <4>2, <4>3
      <4>5. Over(t, TeamUsed(t))
        BY <4>2, <4>3, <4>4, DivisionIsExact, SMTT(30) DEF Over
      <4>6. Observe({t}, {}) \/ Observe({}, {t})
        BY <1>2, <3>1, <4>5 DEF ReserveCheck
      <4> QED BY <2>3, <4>6, ObserveOver, Zenon DEF Noticed
    <3>2. CASE t # TeamOf[i]
      <4>1. Observe({TeamOf[i]}, {}) \/ Observe({}, {}) \/ Observe({}, {TeamOf[i]})
        BY <1>2 DEF ReserveCheck
      <4>2. \A j \in checking : TeamOf[j] = t => j \in checking'
        BY <2>1, <3>2
      <4> QED BY <1>0, <2>1, <2>2, <2>3, <4>1, <4>2, FallKeepsNoticed DEF RowsFall
    <3> QED BY <3>1, <3>2
  <2> QED BY <1>q, <2>2, <2>3 DEF RowsFall
<1>3. ASSUME NEW i \in Ids, Release(i) PROVE AlertInv'
  BY <1>0, <1>3, <1>f, ReleaseFalls DEF Release, serviceVars
<1>4. ASSUME NEW i \in Ids, Age(i) PROVE AlertInv'
  BY <1>0, <1>4, <1>f, AgeFalls DEF Age, serviceVars
<1>5. ASSUME NEW i \in Ids, NEW cents \in Actuals, Commit(i, cents) PROVE AlertInv'
  BY <1>0, <1>5, <1>f, CommitFalls DEF Commit, serviceVars
<1>6. ASSUME NEW u \in Teams, NEW cap \in Caps, SetTeamCap(u, cap) PROVE AlertInv'
  <2>1. RowsFall /\ UNCHANGED checking /\ Observe({}, {u})
    BY <1>0, <1>6, SameFall DEF SetTeamCap
  <2>2. ASSUME NEW t \in Teams, Reached80(t, Announced(t))' PROVE Noticed(t)'
    <3>1. CASE t = u
      BY <2>1, <2>2, <3>1, ObserveOver, Zenon DEF Noticed
    <3>2. CASE t # u
      <4>1. teams'[t] = teams[t]
        BY <1>0, <1>6, <3>2 DEF SetTeamCap, TypeOK
      <4> QED BY <1>0, <2>1, <2>2, <4>1, FallKeepsNoticed DEF RowsFall
    <3> QED BY <3>1, <3>2
  <2> QED BY <1>q, <2>1, <2>2 DEF RowsFall
<1>7. CASE ReleaseExpired
  BY <1>0, <1>7, <1>f, ExpireFalls DEF ReleaseExpired, serviceVars
<1>8. CASE Restart
  <2>1. RowsFall /\ UNCHANGED teams /\ Observe({}, {TeamOf[i] : i \in checking})
    BY <1>0, <1>8, SameFall DEF Restart
  <2>2. ASSUME NEW t \in Teams, Reached80(t, Announced(t))' PROVE Noticed(t)'
    <3>1. CASE \E i \in checking : TeamOf[i] = t
      <4>1. t \in {TeamOf[i] : i \in checking}
        BY <3>1
      <4> QED BY <2>1, <2>2, <4>1, ObserveOver, Zenon DEF Noticed
    <3>2. CASE \A i \in checking : TeamOf[i] # t
      BY <1>0, <2>1, <2>2, <3>2, FallKeepsNoticed DEF RowsFall
    <3> QED BY <3>1, <3>2
  <2> QED BY <1>q, <2>1, <2>2 DEF RowsFall
<1>9. CASE UNCHANGED vars
  <2>1. RowsFall
    BY <1>0, <1>9, SameFall DEF vars
  <2>2. UNCHANGED <<teams, checking, warned, excused, rows>>
    BY <1>9 DEF vars, serviceVars
  <2>3. ASSUME NEW t \in Teams PROVE Announced(t)' = Announced(t)
    BY <2>2 DEF Announced, LiveRows
  <2>4. ASSUME NEW t \in Teams, Reached80(t, Announced(t))' PROVE Noticed(t)'
    BY <1>0, <2>2, <2>3, <2>4 DEF Reached80, Noticed, NoSilentOverspend
  <2> QED BY <1>q, <2>1, <2>4 DEF RowsFall
<1> QED BY <1>1, <1>2, <1>3, <1>4, <1>5, <1>6, <1>7, <1>8, <1>9 DEF Next

\* No row exists at first.
LEMMA InitNoticed == Init => AlertInv
<1> SUFFICES ASSUME Init PROVE AlertInv
  OBVIOUS
<1>1. TypeOK
  BY InitTypes
<1>2. \A i \in Ids : rows[i].state = "none" /\ rows[i].actual = NoActual
  BY Zenon DEF Init, RowsInit, NoRow
<1>3. {i \in Ids : rows[i].state # "none"} = {}
  BY <1>2
<1>4. RowsInv
  BY <1>2, <1>3, FS_EmptySet, Zenon DEF RowsInv
<1>5. ASSUME NEW t \in Teams PROVE ~Reached80(t, Announced(t))
  <2>1. LiveRows(t) = {}
    BY <1>2 DEF LiveRows, Live
  <2>2. Announced(t) = 0
    BY <2>1, FS_EmptySet, SumUnfold, Zenon DEF Announced
  <2>3. teams[t] \in Nat
    BY <1>1, Zenon DEF TypeOK
  <2> QED BY <2>2, <2>3 DEF Reached80
<1> QED BY <1>1, <1>4, <1>5 DEF AlertInv, NoSilentOverspend

\* However Reserve calls of a team overlap, and whatever is committed, released or
\* expired meanwhile, reservations do not take it to 80% of its cap without an alert, the
\* exact 80% included: every call inserts before it sums, and the division rounds nothing
\* away that matters.
THEOREM OverspendIsNoticed == Spec => []NoSilentOverspend
<1>1. AlertInv => NoSilentOverspend
  BY DEF AlertInv
<1> QED BY InitNoticed, StepIsNoticed, <1>1, PTL DEF Spec

=============================================================================
