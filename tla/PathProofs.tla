----------------------------- MODULE PathProofs -----------------------------
(***************************************************************************)
(* What the functions on the path of a request compute: the selector and   *)
(* the policy engine for every pool, every set of rules and every stream   *)
(* of draws, the calculator for every table and usage, the conversion for  *)
(* every body.  A loop is a recursive function; it has a run (RunExists),  *)
(* and what holds along the run holds at its end (BoundedInduction).  Then *)
(* what IngressProofs uses of configurations that passed validation, of    *)
(* the publication of one, and of the decision made for a request.         *)
(***************************************************************************)
EXTENDS Ingress, SetInduction, TLAPS

\* The elements of a sequence, and their endpoints.
Elements(s) == {s[i] : i \in 1..Len(s)}
EndpointsOf(s) == {s[i].endpoint : i \in 1..Len(s)}

-----------------------------------------------------------------------------
(* Candidates *)

\* The members whose endpoint is registered, with what is known of it.
Registered(endpoints, members) ==
    {MemberOf(members[k], endpoints[members[k].endpoint]) :
        k \in {j \in 1..Len(members) : members[j].endpoint \in DOMAIN endpoints}}

\* One step of the loop stays in the set.
LEMMA AddCandidateIn ==
    ASSUME NEW endpoints, NEW M, NEW members \in Seq(M),
           NEW y \in Seq(Registered(endpoints, members)), NEW k \in 1..Len(members)
    PROVE  LET z == AddCandidate(y, members[k], endpoints)
           IN  z \in Seq(Registered(endpoints, members)) /\ Len(z) <= Len(y) + 1
<1> DEFINE R == Registered(endpoints, members)
           m == MemberOf(members[k], endpoints[members[k].endpoint])
<1>1. CASE members[k].endpoint \in DOMAIN endpoints
  <2>1. m \in R
    BY <1>1, Zenon DEF Registered
  <2>2. AddCandidate(y, members[k], endpoints) = Append(y, m)
    BY <1>1, Zenon DEF AddCandidate
  <2> HIDE DEF R, m
  <2>3. y \in Seq(R)
    BY DEF R
  <2>4. Append(y, m) \in Seq(R) /\ Len(Append(y, m)) <= Len(y) + 1
    BY <2>1, <2>3
  <2> QED BY <2>2, <2>4 DEF R
<1>2. CASE members[k].endpoint \notin DOMAIN endpoints
  <2>1. AddCandidate(y, members[k], endpoints) = y
    BY <1>2, Zenon DEF AddCandidate
  <2>2. Len(y) <= Len(y) + 1
    OBVIOUS
  <2> QED BY <2>1, <2>2
<1> QED BY <1>1, <1>2

\* The loop has a run.
LEMMA CandidatesRun ==
    ASSUME NEW endpoints, NEW M, NEW members \in Seq(M)
    PROVE  \E g : /\ g[0] = <<>>
                  /\ \A k \in 1..Len(members) :
                        g[k] = AddCandidate(g[k - 1], members[k], endpoints)
                  /\ Candidates(endpoints, members) = g[Len(members)]
<1> DEFINE n == Len(members)
           X == Seq(Registered(endpoints, members))
           step == [k \in 1..n |-> [y \in X |-> AddCandidate(y, members[k], endpoints)]]
           Rec(g) == g = [k \in 0..n |-> IF k = 0 THEN <<>>
                                         ELSE AddCandidate(g[k - 1], members[k], endpoints)]
<1>1. n \in Nat
  OBVIOUS
<1>2. <<>> \in X
  OBVIOUS
<1>3. \A y \in X, k \in 1..n : step[k][y] = AddCandidate(y, members[k], endpoints)
  OBVIOUS
<1>4. \A y \in X, k \in 1..n : AddCandidate(y, members[k], endpoints) \in X
  BY AddCandidateIn
<1>5. Candidates(endpoints, members) = (CHOOSE g : Rec(g))[n]
  BY Zenon DEF Candidates
<1> DEFINE e == <<>>
<1> HIDE DEF X, step, n, e
<1>s. e \in X /\ StepsIn(step, n, X)
  BY <1>2, <1>3, <1>4, Zenon DEF e, StepsIn
<1>t. PICK g \in [0..n -> X] : Run(g, step, n, e)
  BY <1>1, <1>s, RunExists
<1>6. g[0] = <<>> /\ \A k \in 1..n : g[k] = step[k][g[k - 1]]
  BY <1>t, Zenon DEF Run, e
<1>7. \A k \in 1..n : g[k] = AddCandidate(g[k - 1], members[k], endpoints)
  <2> TAKE k \in 1..n
  <2>1. k - 1 \in 0..n
    BY <1>1
  <2>2. g[k - 1] \in X
    BY <2>1
  <2> QED BY <1>3, <1>6, <2>2, Zenon
<1>8. Rec(g)
  BY <1>1, <1>6, <1>7
<1> DEFINE h == CHOOSE f : Rec(f)
<1>9. Rec(h)
  BY <1>8, Zenon
<1> HIDE DEF h
<1>10. h[0] = <<>> /\ \A k \in 1..n : h[k] = AddCandidate(h[k - 1], members[k], endpoints)
  BY <1>1, <1>9
<1> QED BY <1>5, <1>10, Zenon DEF h, n

\* Candidates are registered members of the pool, and at most as many.
LEMMA CandidatesFacts ==
    ASSUME NEW endpoints, NEW M, NEW members \in Seq(M)
    PROVE  /\ Candidates(endpoints, members) \in Seq(Registered(endpoints, members))
           /\ Len(Candidates(endpoints, members)) <= Len(members)
<1> DEFINE R == Registered(endpoints, members)
           n == Len(members)
<1>1. PICK g : /\ g[0] = <<>>
               /\ \A k \in 1..n : g[k] = AddCandidate(g[k - 1], members[k], endpoints)
               /\ Candidates(endpoints, members) = g[n]
  BY CandidatesRun
<1> DEFINE T == {k \in 0..n : g[k] \in Seq(R) /\ Len(g[k]) <= k}
<1>2. n \in Nat
  OBVIOUS
<1>3. \A y \in Seq(R), k \in 1..n :
          LET z == AddCandidate(y, members[k], endpoints) IN z \in Seq(R) /\ Len(z) <= Len(y) + 1
  BY AddCandidateIn
<1> HIDE DEF R, n
<1>e. <<>> \in Seq(R) /\ Len(<<>>) <= 0
  OBVIOUS
<1>4. 0 \in T
  <2>1. 0 \in 0..n /\ g[0] \in Seq(R) /\ Len(g[0]) <= 0
    BY <1>1, <1>2, <1>e
  <2> QED BY <2>1
<1>5. ASSUME NEW k \in 1..n, k - 1 \in T PROVE k \in T
  <2>1. g[k - 1] \in Seq(R) /\ Len(g[k - 1]) <= k - 1
    BY <1>5
  <2>2. g[k] \in Seq(R) /\ Len(g[k]) <= Len(g[k - 1]) + 1
    BY <1>1, <1>3, <2>1, SMTT(30)
  <2> QED BY <1>2, <2>1, <2>2
<1> HIDE DEF T
<1>6. \A k \in 0..n : k \in T
  BY <1>2, <1>4, <1>5, BoundedInduction, SMTT(30)
<1>7. n \in T
  BY <1>2, <1>6
<1> QED BY <1>1, <1>7 DEF T, R, n

-----------------------------------------------------------------------------
(* The weighted list *)

\* One step of the loop adds the candidate and nothing else.
LEMMA AddWeightedFacts ==
    ASSUME NEW S, NEW w \in Seq(S), NEW m \in S, m.weight \in Nat \ {0}
    PROVE  /\ AddWeighted(w, m) \in Seq(S)
           /\ Elements(AddWeighted(w, m)) = Elements(w) \union {m}
<1> DEFINE n == m.weight
           r == [j \in 1..n |-> m]
           z == w \o r
<1>1. n \in Nat \ {0}
  OBVIOUS
<1>2. AddWeighted(w, m) = z
  BY DEF AddWeighted
<1> HIDE DEF n
<1>3. r \in Seq(S) /\ Len(r) = n /\ \A j \in 1..n : r[j] = m
  BY <1>1
<1> HIDE DEF r
<1>4. z \in Seq(S) /\ Len(z) = Len(w) + n
  BY <1>1, <1>3
<1>5. /\ \A i \in 1..Len(w) : z[i] = w[i]
      /\ \A i \in (Len(w) + 1)..(Len(w) + n) : z[i] = m
  BY <1>1, <1>3
<1> HIDE DEF z
<1>6. Elements(z) \subseteq Elements(w) \union {m}
  BY <1>1, <1>4, <1>5, SMTT(30) DEF Elements
<1>7. Elements(w) \subseteq Elements(z)
  BY <1>1, <1>4, <1>5 DEF Elements
<1>8. m \in Elements(z)
  <2>1. Len(w) + 1 \in 1..Len(z) /\ z[Len(w) + 1] = m
    BY <1>1, <1>4, <1>5
  <2> QED BY <2>1 DEF Elements
<1> QED BY <1>2, <1>4, <1>6, <1>7, <1>8

\* The loop has a run.
LEMMA WeightedRun ==
    ASSUME NEW S, NEW s \in Seq(S), \A m \in S : m.weight \in Nat \ {0}
    PROVE  \E g : /\ g[0] = <<>>
                  /\ \A k \in 1..Len(s) : g[k] = AddWeighted(g[k - 1], s[k])
                  /\ Weighted(s) = g[Len(s)]
<1> DEFINE n == Len(s)
           X == Seq(S)
           step == [k \in 1..n |-> [y \in X |-> AddWeighted(y, s[k])]]
           Rec(g) == g = [k \in 0..n |-> IF k = 0 THEN <<>> ELSE AddWeighted(g[k - 1], s[k])]
           e == <<>>
<1>1. n \in Nat /\ e \in X
  OBVIOUS
<1>2. \A y \in X, k \in 1..n : step[k][y] = AddWeighted(y, s[k])
  OBVIOUS
<1>3. \A y \in X, k \in 1..n : AddWeighted(y, s[k]) \in X
  BY AddWeightedFacts
<1>4. Weighted(s) = (CHOOSE g : Rec(g))[n]
  BY Zenon DEF Weighted
<1> HIDE DEF X, step, n, e
<1>5. StepsIn(step, n, X)
  BY <1>2, <1>3, Zenon DEF StepsIn
<1>6. PICK g \in [0..n -> X] : Run(g, step, n, e)
  BY <1>1, <1>5, RunExists
<1>7. g[0] = <<>> /\ \A k \in 1..n : g[k] = step[k][g[k - 1]]
  BY <1>6, Zenon DEF Run, e
<1>8. Rec(g)
  BY <1>1, <1>2, <1>7
<1> DEFINE h == CHOOSE f : Rec(f)
<1>9. Rec(h)
  BY <1>8, Zenon
<1> HIDE DEF h
<1>10. h[0] = <<>> /\ \A k \in 1..n : h[k] = AddWeighted(h[k - 1], s[k])
  BY <1>1, <1>9
<1> QED BY <1>4, <1>10, Zenon DEF h, n

\* With weights of at least 1 the list has the candidates as its elements.
LEMMA WeightedFacts ==
    ASSUME NEW S, NEW s \in Seq(S), \A m \in S : m.weight \in Nat \ {0}
    PROVE  Weighted(s) \in Seq(S) /\ Elements(Weighted(s)) = Elements(s)
<1> DEFINE n == Len(s)
           First(k) == {s[i] : i \in 1..k}
<1>1. PICK g : /\ g[0] = <<>>
               /\ \A k \in 1..n : g[k] = AddWeighted(g[k - 1], s[k])
               /\ Weighted(s) = g[n]
  BY WeightedRun
<1> DEFINE T == {k \in 0..n : g[k] \in Seq(S) /\ Elements(g[k]) = First(k)}
<1>2. n \in Nat /\ \A k \in 1..n : s[k] \in S
  OBVIOUS
<1>3. <<>> \in Seq(S) /\ Elements(<<>>) = {} /\ First(0) = {}
  BY DEF Elements
<1>4. \A k \in 1..n : First(k) = First(k - 1) \union {s[k]}
  BY <1>2
<1>5. First(n) = Elements(s)
  BY DEF Elements
<1> HIDE DEF n, First
<1>6. 0 \in T
  <2>1. g[0] \in Seq(S) /\ Elements(g[0]) = First(0)
    BY <1>1, <1>3, Zenon
  <2>2. 0 \in 0..n
    BY <1>2
  <2> QED BY <2>1, <2>2
<1>7. ASSUME NEW k \in 1..n, k - 1 \in T PROVE k \in T
  <2>1. g[k - 1] \in Seq(S) /\ Elements(g[k - 1]) = First(k - 1)
    BY <1>7
  <2>2. g[k] \in Seq(S) /\ Elements(g[k]) = Elements(g[k - 1]) \union {s[k]}
    BY <1>1, <1>2, <2>1, AddWeightedFacts, SMTT(30)
  <2>3. Elements(g[k]) = First(k)
    BY <1>4, <2>1, <2>2
  <2> QED BY <1>2, <2>2, <2>3
<1> HIDE DEF T
<1>8. \A k \in 0..n : k \in T
  BY <1>2, <1>6, <1>7, BoundedInduction, Zenon
<1>9. n \in T
  BY <1>2, <1>8
<1> QED BY <1>1, <1>5, <1>9 DEF T

-----------------------------------------------------------------------------
(* The shuffle *)

\* A draw is below its bound.
LEMMA IntNFacts ==
    ASSUME NEW draws \in Seq(Nat), draws # <<>>, NEW k \in Nat \ {0}, NEW n \in Nat \ {0}
    PROVE  IntN(draws, k, n) \in 0..(n - 1)
<1> DEFINE l == Len(draws)
           j == ((k - 1) % l) + 1
<1>1. l \in Nat \ {0}
  OBVIOUS
<1>2. j \in 1..l
  <2> HIDE DEF l
  <2> QED BY <1>1
<1>3. draws[j] \in Nat
  BY <1>2
<1> HIDE DEF j
<1>4. draws[j] % n \in 0..(n - 1)
  BY <1>3
<1> QED BY <1>4 DEF IntN, j

\* Exchanging two elements keeps the length and the elements.
LEMMA SwappedFacts ==
    ASSUME NEW S, NEW t \in Seq(S), NEW i \in 1..Len(t), NEW j \in 1..Len(t)
    PROVE  /\ Swapped(t, i, j) \in Seq(S)
           /\ Len(Swapped(t, i, j)) = Len(t)
           /\ Elements(Swapped(t, i, j)) = Elements(t)
<1> DEFINE z == Swapped(t, i, j)
<1>1. z \in Seq(S) /\ Len(z) = Len(t)
  BY DEF Swapped
<1>2. \A k \in 1..Len(t) : z[k] = IF k = j THEN t[i] ELSE IF k = i THEN t[j] ELSE t[k]
  BY DEF Swapped
<1> HIDE DEF z
<1>3. Elements(z) \subseteq Elements(t)
  BY <1>1, <1>2 DEF Elements
<1>4. ASSUME NEW k \in 1..Len(t) PROVE t[k] \in Elements(z)
  <2>1. z[j] = t[i] /\ z[i] = t[j]
    BY <1>2
  <2>2. k # i /\ k # j => z[k] = t[k]
    BY <1>2
  <2> QED BY <1>1, <2>1, <2>2 DEF Elements
<1>5. Elements(t) \subseteq Elements(z)
  BY <1>4 DEF Elements
<1> QED BY <1>1, <1>3, <1>5, Zenon DEF z

\* The lists of the same length and with the same elements.
Reorderings(S, s) == {t \in Seq(S) : Len(t) = Len(s) /\ Elements(t) = Elements(s)}

\* One step of the loop.
LEMMA SwapDrawnIn ==
    ASSUME NEW S, NEW s \in Seq(S), NEW draws \in Seq(Nat), draws # <<>>,
           NEW t \in Reorderings(S, s), NEW k \in 1..(Len(s) - 1)
    PROVE  SwapDrawn(t, k, draws) \in Reorderings(S, s)
<1> DEFINE i == Len(t) - k + 1
           j == IntN(draws, k, i) + 1
<1>1. t \in Seq(S) /\ Len(t) = Len(s) /\ Elements(t) = Elements(s)
  BY DEF Reorderings
<1>2. i \in 2..Len(t) /\ k \in Nat \ {0} /\ i \in Nat \ {0}
  BY <1>1
<1>3. SwapDrawn(t, k, draws) = Swapped(t, i, j)
  BY DEF SwapDrawn
<1> HIDE DEF i
<1>4. IntN(draws, k, i) \in 0..(i - 1)
  BY <1>2, IntNFacts
<1>5. j \in 1..Len(t) /\ i \in 1..Len(t)
  BY <1>1, <1>2, <1>4
<1> HIDE DEF j
<1>6. /\ Swapped(t, i, j) \in Seq(S) /\ Len(Swapped(t, i, j)) = Len(t)
      /\ Elements(Swapped(t, i, j)) = Elements(t)
  BY <1>1, <1>5, SwappedFacts
<1> QED BY <1>1, <1>3, <1>6 DEF Reorderings

\* The loop has a run, over lists of the same elements.
LEMMA ShuffleFacts ==
    ASSUME NEW S, NEW s \in Seq(S), NEW draws \in Seq(Nat), draws # <<>>
    PROVE  Shuffle(s, draws) \in Reorderings(S, s)
<1> DEFINE n == Len(s) - 1
           X == Reorderings(S, s)
           step == [k \in 1..n |-> [y \in X |-> SwapDrawn(y, k, draws)]]
           Rec(g) == g = [k \in 0..n |-> IF k = 0 THEN s ELSE SwapDrawn(g[k - 1], k, draws)]
<1>1. s \in X
  BY DEF Reorderings
<1>2. CASE s = <<>>
  BY <1>1, <1>2, Zenon DEF Shuffle
<1>3. CASE s # <<>>
  <2>1. n \in Nat
    BY <1>3
  <2>2. \A y \in X, k \in 1..n : step[k][y] = SwapDrawn(y, k, draws)
    OBVIOUS
  <2>3. \A y \in X, k \in 1..n : SwapDrawn(y, k, draws) \in X
    BY SwapDrawnIn
  <2>4. Shuffle(s, draws) = (CHOOSE g : Rec(g))[n]
    BY <1>3, Zenon DEF Shuffle
  <2> HIDE DEF X, step, n
  <2>5. StepsIn(step, n, X)
    BY <2>2, <2>3, Zenon DEF StepsIn
  <2>6. PICK g \in [0..n -> X] : Run(g, step, n, s)
    BY <1>1, <2>1, <2>5, RunExists
  <2>7. g[0] = s /\ \A k \in 1..n : g[k] = step[k][g[k - 1]]
    BY <2>6, Zenon DEF Run
  <2>8. Rec(g)
    <3>1. \A k \in 1..n : g[k - 1] \in X
      BY <2>1
    <3>2. \A k \in 1..n : g[k] = SwapDrawn(g[k - 1], k, draws)
      BY <2>2, <2>7, <3>1, Zenon
    <3> DEFINE next == [k \in 0..n |-> SwapDrawn(g[k - 1], k, draws)]
    <3>3. \A k \in 1..n : g[k] = next[k]
      <4>1. \A k \in 1..n : k \in 0..n
        BY <2>1
      <4> QED
        BY <3>2, <4>1, Zenon
    <3>4. g = [k \in 0..n |-> IF k = 0 THEN s ELSE next[k]]
      <4> HIDE DEF next
      <4> QED
        BY <2>1, <2>7, <3>3
    <3>5. \A k \in 0..n : (IF k = 0 THEN s ELSE next[k]) = IF k = 0 THEN s ELSE SwapDrawn(g[k - 1], k, draws)
      BY Zenon
    <3> QED
      BY <3>4, <3>5, Zenon
  <2> DEFINE h == CHOOSE f : Rec(f)
             T == {k \in 0..n : h[k] \in X}
  <2>9. Rec(h)
    BY <2>8, Zenon
  <2> HIDE DEF h
  <2>10. h[0] = s /\ \A k \in 1..n : h[k] = SwapDrawn(h[k - 1], k, draws)
    BY <2>1, <2>9
  <2>11. 0 \in T
    BY <1>1, <2>1, <2>10
  <2>12. ASSUME NEW k \in 1..n, k - 1 \in T PROVE k \in T
    BY <2>1, <2>3, <2>10, <2>12
  <2> HIDE DEF T
  <2>13. \A k \in 0..n : k \in T
    BY <2>1, <2>11, <2>12, BoundedInduction, Zenon
  <2>14. n \in T
    BY <2>1, <2>13
  <2> QED BY <2>4, <2>14 DEF T, h, X
<1> QED BY <1>2, <1>3

-----------------------------------------------------------------------------
(* Deduplication *)

\* No endpoint twice.
Unique(c) == \A i, j \in 1..Len(c) : c[i].endpoint = c[j].endpoint => i = j

\* One step of the loop: an endpoint that is there is not added again.
LEMMA AddUnseenFacts ==
    ASSUME NEW S, NEW c \in Seq(S), NEW m \in S, Unique(c)
    PROVE  /\ AddUnseen(c, m) \in Seq(S)
           /\ Unique(AddUnseen(c, m))
           /\ Elements(AddUnseen(c, m)) \subseteq Elements(c) \union {m}
           /\ EndpointsOf(AddUnseen(c, m)) = EndpointsOf(c) \union {m.endpoint}
<1>1. DOMAIN c = 1..Len(c) /\ Len(c) \in Nat
  OBVIOUS
<1>2. CASE \E i \in DOMAIN c : c[i].endpoint = m.endpoint
  <2>1. AddUnseen(c, m) = c
    BY <1>2, Zenon DEF AddUnseen
  <2>2. m.endpoint \in EndpointsOf(c)
    BY <1>1, <1>2 DEF EndpointsOf
  <2> QED BY <2>1, <2>2
<1>3. CASE ~ \E i \in DOMAIN c : c[i].endpoint = m.endpoint
  <2> DEFINE z == Append(c, m)
  <2>1. AddUnseen(c, m) = z
    BY <1>3, Zenon DEF AddUnseen
  <2>2. z \in Seq(S) /\ Len(z) = Len(c) + 1 /\ z[Len(c) + 1] = m
        /\ \A i \in 1..Len(c) : z[i] = c[i]
    OBVIOUS
  <2>3. \A i \in 1..Len(c) : c[i].endpoint # m.endpoint
    BY <1>1, <1>3
  <2> HIDE DEF z
  <2>4. Unique(z)
    <3> SUFFICES ASSUME NEW i \in 1..Len(z), NEW j \in 1..Len(z),
                        z[i].endpoint = z[j].endpoint
                 PROVE  i = j
      BY DEF Unique
    <3>1. CASE i \in 1..Len(c) /\ j \in 1..Len(c)
      BY <2>2, <3>1 DEF Unique
    <3>2. CASE i = Len(c) + 1 /\ j \in 1..Len(c)
      BY <2>2, <2>3, <3>2
    <3>3. CASE i \in 1..Len(c) /\ j = Len(c) + 1
      BY <2>2, <2>3, <3>3
    <3>4. CASE i = Len(c) + 1 /\ j = Len(c) + 1
      BY <3>4
    <3> QED BY <1>1, <2>2, <3>1, <3>2, <3>3, <3>4
  <2>5. Elements(z) \subseteq Elements(c) \union {m}
    BY <1>1, <2>2 DEF Elements
  <2>6. EndpointsOf(z) \subseteq EndpointsOf(c) \union {m.endpoint}
    BY <1>1, <2>2 DEF EndpointsOf
  <2>7. EndpointsOf(c) \subseteq EndpointsOf(z)
    <3> SUFFICES ASSUME NEW i \in 1..Len(c) PROVE c[i].endpoint \in EndpointsOf(z)
      BY DEF EndpointsOf
    <3>1. i \in 1..Len(z) /\ z[i] = c[i]
      BY <1>1, <2>2
    <3> QED BY <3>1, Zenon DEF EndpointsOf
  <2>8. m.endpoint \in EndpointsOf(z)
    <3>1. Len(c) + 1 \in 1..Len(z) /\ z[Len(c) + 1] = m
      BY <1>1, <2>2
    <3> QED BY <3>1, Zenon DEF EndpointsOf
  <2> QED BY <2>1, <2>2, <2>4, <2>5, <2>6, <2>7, <2>8
<1> QED BY <1>2, <1>3

\* The loop has a run.
LEMMA DedupeRun ==
    ASSUME NEW S, NEW s \in Seq(S)
    PROVE  \E g : /\ g[0] = <<>>
                  /\ \A k \in 1..Len(s) : g[k] = AddUnseen(g[k - 1], s[k])
                  /\ Dedupe(s) = g[Len(s)]
<1> DEFINE n == Len(s)
           X == {c \in Seq(S) : Unique(c)}
           step == [k \in 1..n |-> [y \in X |-> AddUnseen(y, s[k])]]
           Rec(g) == g = [k \in 0..n |-> IF k = 0 THEN <<>> ELSE AddUnseen(g[k - 1], s[k])]
           e == <<>>
<1>1. n \in Nat /\ e \in X
  BY DEF Unique
<1>2. \A y \in X, k \in 1..n : step[k][y] = AddUnseen(y, s[k])
  OBVIOUS
<1>3. \A y \in X, k \in 1..n : AddUnseen(y, s[k]) \in X
  BY AddUnseenFacts
<1>4. Dedupe(s) = (CHOOSE g : Rec(g))[n]
  BY Zenon DEF Dedupe
<1> HIDE DEF X, step, n, e
<1>5. StepsIn(step, n, X)
  BY <1>2, <1>3, Zenon DEF StepsIn
<1>6. PICK g \in [0..n -> X] : Run(g, step, n, e)
  BY <1>1, <1>5, RunExists
<1>7. g[0] = <<>> /\ \A k \in 1..n : g[k] = step[k][g[k - 1]]
  BY <1>6, Zenon DEF Run, e
<1>8. Rec(g)
  BY <1>1, <1>2, <1>7
<1> DEFINE h == CHOOSE f : Rec(f)
<1>9. Rec(h)
  BY <1>8, Zenon
<1> HIDE DEF h
<1>10. h[0] = <<>> /\ \A k \in 1..n : h[k] = AddUnseen(h[k - 1], s[k])
  BY <1>1, <1>9
<1> QED BY <1>4, <1>10, Zenon DEF h, n

\* Every endpoint of the list once, and nothing else.
LEMMA DedupeFacts ==
    ASSUME NEW S, NEW s \in Seq(S)
    PROVE  /\ Dedupe(s) \in Seq(S) /\ Unique(Dedupe(s))
           /\ Elements(Dedupe(s)) \subseteq Elements(s)
           /\ EndpointsOf(Dedupe(s)) = EndpointsOf(s)
<1> DEFINE n == Len(s)
           First(k) == {s[i] : i \in 1..k}
           FirstEnds(k) == {s[i].endpoint : i \in 1..k}
           Good(c, k) == /\ c \in Seq(S) /\ Unique(c)
                         /\ Elements(c) \subseteq First(k) /\ EndpointsOf(c) = FirstEnds(k)
<1>1. PICK g : /\ g[0] = <<>>
               /\ \A k \in 1..n : g[k] = AddUnseen(g[k - 1], s[k])
               /\ Dedupe(s) = g[n]
  BY DedupeRun
<1> DEFINE T == {k \in 0..n : Good(g[k], k)}
<1>2. n \in Nat /\ \A k \in 1..n : s[k] \in S
  OBVIOUS
<1>3. Good(<<>>, 0)
  BY DEF Elements, EndpointsOf, Unique
<1>4. \A k \in 1..n : /\ First(k) = First(k - 1) \union {s[k]}
                      /\ FirstEnds(k) = FirstEnds(k - 1) \union {s[k].endpoint}
  BY <1>2
<1>5. First(n) = Elements(s) /\ FirstEnds(n) = EndpointsOf(s)
  BY DEF Elements, EndpointsOf
<1> HIDE DEF n, First, FirstEnds
<1>6. 0 \in T
  <2> HIDE DEF Good
  <2>1. Good(g[0], 0)
    BY <1>1, <1>3, Zenon
  <2>2. 0 \in 0..n
    BY <1>2
  <2> QED BY <2>1, <2>2
<1>7. ASSUME NEW k \in 1..n, k - 1 \in T PROVE k \in T
  <2>1. Good(g[k - 1], k - 1)
    BY <1>7
  <2>2. /\ g[k] \in Seq(S) /\ Unique(g[k])
        /\ Elements(g[k]) \subseteq Elements(g[k - 1]) \union {s[k]}
        /\ EndpointsOf(g[k]) = EndpointsOf(g[k - 1]) \union {s[k].endpoint}
    <3> DEFINE c == g[k - 1]
               m == s[k]
    <3>1. c \in Seq(S) /\ Unique(c) /\ m \in S
      BY <1>2, <2>1
    <3>2. g[k] = AddUnseen(c, m)
      BY <1>1
    <3> HIDE DEF c, m
    <3>3. /\ AddUnseen(c, m) \in Seq(S) /\ Unique(AddUnseen(c, m))
          /\ Elements(AddUnseen(c, m)) \subseteq Elements(c) \union {m}
          /\ EndpointsOf(AddUnseen(c, m)) = EndpointsOf(c) \union {m.endpoint}
      BY <3>1, AddUnseenFacts
    <3> QED BY <3>2, <3>3, Zenon DEF c, m
  <2>3. Good(g[k], k)
    BY <1>4, <2>1, <2>2
  <2> HIDE DEF Good
  <2> QED BY <1>2, <2>3
<1> HIDE DEF T
<1>8. \A k \in 0..n : k \in T
  BY <1>2, <1>6, <1>7, BoundedInduction, Zenon
<1>9. n \in T
  BY <1>2, <1>8
<1> QED BY <1>1, <1>5, <1>9 DEF T

\* The endpoints of a list are those of its elements.
LEMMA EndpointsOfElements ==
    ASSUME NEW s, NEW t, Elements(s) = Elements(t)
    PROVE  EndpointsOf(s) = EndpointsOf(t)
<1>1. EndpointsOf(s) = {m.endpoint : m \in Elements(s)}
  BY ZenonT(30) DEF EndpointsOf, Elements
<1>2. EndpointsOf(t) = {m.endpoint : m \in Elements(t)}
  BY ZenonT(30) DEF EndpointsOf, Elements
<1> QED BY <1>1, <1>2

\* BuildChain neither loses nor repeats an endpoint of the eligible members, whatever
\* their weights and whatever is drawn, and offers nobody else (selector.go:149).
THEOREM ChainIsFair ==
    ASSUME NEW S, \A m \in S : m.weight \in Nat \ {0},
           NEW eligible \in Seq(S), NEW draws \in Seq(Nat), draws # <<>>
    PROVE  LET built == Chain(eligible, draws)
           IN  /\ built \in Seq(S) /\ Unique(built)
               /\ EndpointsOf(built) = EndpointsOf(eligible)
               /\ Elements(built) \subseteq Elements(eligible)
<1> DEFINE w == Weighted(eligible)
           z == Shuffle(w, draws)
<1>1. w \in Seq(S) /\ Elements(w) = Elements(eligible)
  BY WeightedFacts
<1> HIDE DEF w
<1>2. z \in Seq(S) /\ Elements(z) = Elements(w)
  BY <1>1, ShuffleFacts DEF Reorderings
<1> HIDE DEF z
<1>3. EndpointsOf(z) = EndpointsOf(eligible)
  BY <1>1, <1>2, EndpointsOfElements
<1>4. /\ Dedupe(z) \in Seq(S) /\ Unique(Dedupe(z))
      /\ Elements(Dedupe(z)) \subseteq Elements(z)
      /\ EndpointsOf(Dedupe(z)) = EndpointsOf(z)
  BY <1>2, DedupeFacts
<1>5. Chain(eligible, draws) = Dedupe(z)
  BY DEF Chain, z, w
<1> QED BY <1>1, <1>2, <1>3, <1>4, <1>5

\* The chain of a pool with eligible members has a head, which is one of them.
LEMMA ChainHead ==
    ASSUME NEW S, \A m \in S : m.weight \in Nat \ {0},
           NEW eligible \in Seq(S), eligible # <<>>, NEW draws \in Seq(Nat), draws # <<>>
    PROVE  /\ Chain(eligible, draws) \in Seq(S) /\ Chain(eligible, draws) # <<>>
           /\ Chain(eligible, draws)[1] \in S
           /\ Chain(eligible, draws)[1] \in Elements(eligible)
<1> DEFINE c == Chain(eligible, draws)
<1>1. /\ c \in Seq(S) /\ EndpointsOf(c) = EndpointsOf(eligible)
      /\ Elements(c) \subseteq Elements(eligible)
  BY ChainIsFair, Zenon
<1> HIDE DEF c
<1>2. 1 \in 1..Len(eligible)
  OBVIOUS
<1>3. eligible[1].endpoint \in EndpointsOf(eligible)
  BY <1>2, Zenon DEF EndpointsOf
<1>4. PICK i \in 1..Len(c) : TRUE
  BY <1>1, <1>3, Zenon DEF EndpointsOf
<1>5. 1 \in 1..Len(c) /\ c # <<>> /\ c[1] \in S
  BY <1>1, <1>4
<1>6. c[1] \in Elements(c)
  BY <1>5, Zenon DEF Elements
<1> QED
  BY <1>1, <1>5, <1>6, Zenon DEF c

\* A list from its i-th element on.
LEMMA RestOfList ==
    ASSUME NEW S, NEW s \in Seq(S)
    PROVE  /\ SubSeq(s, Len(s) + 1, Len(s)) = <<>>
           /\ SubSeq(s, 1, Len(s)) = s
           /\ \A i \in 1..Len(s) : /\ SubSeq(s, i, Len(s)) # <<>>
                                  /\ Head(SubSeq(s, i, Len(s))) = s[i]
                                  /\ Tail(SubSeq(s, i, Len(s))) = SubSeq(s, i + 1, Len(s))
<1> DEFINE n == Len(s)
<1>1. SubSeq(s, n + 1, n) = <<>>
  OBVIOUS
<1>2. SubSeq(s, 1, n) = s
  OBVIOUS
<1>3. ASSUME NEW i \in 1..n
      PROVE  /\ SubSeq(s, i, n) # <<>>
             /\ Head(SubSeq(s, i, n)) = s[i]
             /\ Tail(SubSeq(s, i, n)) = SubSeq(s, i + 1, n)
  <2> DEFINE t == SubSeq(s, i, n)
  <2>1. Head(t) = s[i] /\ Tail(t) = SubSeq(s, i + 1, n)
    OBVIOUS
  <2>2. Len(t) = (n - i) + 1
    OBVIOUS
  <2>3. Len(t) > 0
    BY <2>2
  <2> HIDE DEF t
  <2>4. t # <<>>
    BY <2>3
  <2> QED
    BY <2>1, <2>4, Zenon DEF t
<1> QED
  BY <1>1, <1>2, <1>3, Zenon

\* A list over a set is one over a larger set.
LEMMA WiderList ==
    ASSUME NEW S, NEW T, S \subseteq T, NEW s \in Seq(S)
    PROVE  s \in Seq(T)
  OBVIOUS

-----------------------------------------------------------------------------
(* The filter *)

\* The filter that BuildChain applies, under one pricing table: the members kept of the
\* first k candidates.
Keep(held, m, need, pricing) ==
    IF satisfiesConstraints(m, need, pricing) THEN Append(held, m) ELSE held
Eligible(all, need, pricing) ==
    LET held[k \in 0..Len(all)] ==
            IF k = 0 THEN <<>> ELSE Keep(held[k - 1], all[k], need, pricing)
    IN  held

\* What one candidate adds.
LEMMA KeepFacts ==
    ASSUME NEW S, NEW y \in Seq(S), NEW m \in S, NEW need, NEW pricing
    PROVE  /\ Keep(y, m, need, pricing) \in Seq(S)
           /\ \/ Keep(y, m, need, pricing) = y
              \/ /\ Keep(y, m, need, pricing) = Append(y, m)
                 /\ satisfiesConstraints(m, need, pricing)
<1>1. CASE satisfiesConstraints(m, need, pricing)
  <2>1. Keep(y, m, need, pricing) = Append(y, m)
    BY <1>1, Zenon DEF Keep
  <2>2. Append(y, m) \in Seq(S)
    OBVIOUS
  <2> QED BY <1>1, <2>1, <2>2, Zenon
<1>2. CASE ~satisfiesConstraints(m, need, pricing)
  BY <1>2, Zenon DEF Keep
<1> QED BY <1>1, <1>2

\* The loop has a run.
LEMMA EligibleRun ==
    ASSUME NEW S, NEW all \in Seq(S), NEW need, NEW pricing
    PROVE  /\ Eligible(all, need, pricing)[0] = <<>>
           /\ \A k \in 1..Len(all) :
                 Eligible(all, need, pricing)[k] =
                     Keep(Eligible(all, need, pricing)[k - 1], all[k], need, pricing)
<1> DEFINE n == Len(all)
           X == Seq(S)
           step == [k \in 1..n |-> [y \in X |-> Keep(y, all[k], need, pricing)]]
           Rec(g) == g = [k \in 0..n |-> IF k = 0 THEN <<>>
                                         ELSE Keep(g[k - 1], all[k], need, pricing)]
           e == <<>>
<1>1. n \in Nat /\ e \in X
  OBVIOUS
<1>2. \A y \in X, k \in 1..n : step[k][y] = Keep(y, all[k], need, pricing)
  OBVIOUS
<1>3. \A y \in X, k \in 1..n : Keep(y, all[k], need, pricing) \in X
  BY KeepFacts
<1>4. Eligible(all, need, pricing) = (CHOOSE g : Rec(g))
  BY Zenon DEF Eligible
<1> HIDE DEF X, step, n, e
<1>5. StepsIn(step, n, X)
  BY <1>2, <1>3, Zenon DEF StepsIn
<1>6. PICK g \in [0..n -> X] : Run(g, step, n, e)
  BY <1>1, <1>5, RunExists
<1>7. g[0] = <<>> /\ \A k \in 1..n : g[k] = step[k][g[k - 1]]
  BY <1>6, Zenon DEF Run, e
<1>8. Rec(g)
  BY <1>1, <1>2, <1>7
<1> DEFINE h == CHOOSE f : Rec(f)
<1>9. Rec(h)
  BY <1>8, Zenon
<1> HIDE DEF h
<1>10. h[0] = <<>> /\ \A k \in 1..n : h[k] = Keep(h[k - 1], all[k], need, pricing)
  BY <1>1, <1>9
<1> QED BY <1>4, <1>10, Zenon DEF h, n

\* A list as long as its bound is the other list up to there.
SameUpTo(held, all, k) == Len(held) = k => \A i \in 1..k : held[i] = all[i]

\* The members kept are candidates; when all are kept they are the candidates themselves.
LEMMA EligibleFacts ==
    ASSUME NEW S, NEW all \in Seq(S), NEW need, NEW pricing, NEW k \in 0..Len(all)
    PROVE  LET held == Eligible(all, need, pricing)[k]
           IN  /\ held \in Seq(S) /\ Elements(held) \subseteq Elements(all)
               /\ Len(held) <= k /\ SameUpTo(held, all, k)
<1> DEFINE n == Len(all)
           g == Eligible(all, need, pricing)
           Good(c, j) == /\ c \in Seq(S) /\ Elements(c) \subseteq Elements(all)
                         /\ Len(c) <= j
                         /\ Len(c) = j => \A i \in 1..j : c[i] = all[i]
           T == {j \in 0..n : Good(g[j], j)}
<1>1. g[0] = <<>> /\ \A j \in 1..n : g[j] = Keep(g[j - 1], all[j], need, pricing)
  BY EligibleRun
<1>2. n \in Nat /\ \A j \in 1..n : all[j] \in S /\ all[j] \in Elements(all)
  BY DEF Elements
<1>3. Good(<<>>, 0)
  BY DEF Elements
<1>4. ASSUME NEW j \in 1..n, NEW c, Good(c, j - 1)
      PROVE  Good(c, j) /\ Good(Append(c, all[j]), j)
  <2> DEFINE z == Append(c, all[j])
             m == all[j]
  <2>1. /\ z \in Seq(S) /\ Len(z) = Len(c) + 1 /\ z[Len(c) + 1] = m
        /\ \A i \in 1..Len(c) : z[i] = c[i]
    BY <1>2, <1>4
  <2>2. Len(c) \in Nat /\ Len(c) <= j - 1
    BY <1>4
  <2> HIDE DEF z, n
  <2>3. Elements(z) \subseteq Elements(all)
    <3> SUFFICES ASSUME NEW i \in 1..Len(z) PROVE z[i] \in Elements(all)
      BY DEF Elements
    <3>1. CASE i \in 1..Len(c)
      <4>1. c[i] \in Elements(c)
        BY <3>1, Zenon DEF Elements
      <4> QED BY <1>4, <2>1, <3>1, <4>1
    <3>2. CASE i = Len(c) + 1
      BY <1>2, <2>1, <3>2
    <3> QED BY <2>1, <2>2, <3>1, <3>2
  <2>4. ASSUME Len(z) = j, NEW i \in 1..j PROVE z[i] = all[i]
    <3>1. Len(c) = j - 1 /\ \A l \in 1..(j - 1) : c[l] = all[l]
      BY <1>4, <2>1, <2>2, <2>4
    <3>2. CASE i = j
      BY <2>1, <3>1, <3>2
    <3>3. CASE i \in 1..(j - 1)
      BY <2>1, <3>1, <3>3
    <3> QED BY <3>2, <3>3
  <2>5. Good(z, j)
    BY <2>1, <2>2, <2>3, <2>4
  <2>6. Good(c, j)
    BY <1>4, <2>2
  <2> QED BY <2>5, <2>6 DEF z
<1> HIDE DEF n, g, Good
<1>5. 0 \in T
  BY <1>1, <1>2, <1>3
<1>6. ASSUME NEW j \in 1..n, j - 1 \in T PROVE j \in T
  <2>1. Good(g[j - 1], j - 1)
    BY <1>6
  <2>2. g[j] = g[j - 1] \/ g[j] = Append(g[j - 1], all[j])
    BY <1>1, Zenon DEF Keep
  <2>3. Good(g[j], j)
    BY <1>4, <2>1, <2>2, Zenon
  <2> QED BY <1>2, <2>3
<1> HIDE DEF T
<1>7. \A j \in 0..n : j \in T
  BY <1>2, <1>5, <1>6, BoundedInduction, Zenon
<1>8. k \in T
  BY <1>7 DEF n
<1> QED BY <1>8 DEF T, Good, g, SameUpTo

\* Lists are indexed from 1 to their length.
LEMMA ListDomain ==
    ASSUME NEW S, NEW s \in Seq(S) PROVE DOMAIN s = 1..Len(s)
  OBVIOUS

\* Lists of the same length with the same elements are the same.
LEMMA SameList ==
    ASSUME NEW S, NEW s \in Seq(S), NEW t \in Seq(S), Len(s) = Len(t),
           \A i \in 1..Len(t) : s[i] = t[i]
    PROVE  s = t
  OBVIOUS

\* The chain of the candidates that pass the filter offers no endpoint that the chain of
\* all of them does not offer; a filter that drops none leaves the list as it is
\* (selector.go:118; execute.go, Replay applies no filter).
THEOREM UnfilteredCovers ==
    ASSUME NEW S, \A m \in S : m.weight \in Nat \ {0}, NEW all \in Seq(S), NEW need, NEW pricing,
           NEW draws \in Seq(Nat), draws # <<>>
    PROVE  LET held == Eligible(all, need, pricing)[Len(all)]
           IN  /\ EndpointsOf(Chain(held, draws)) \subseteq EndpointsOf(Chain(all, draws))
               /\ Len(held) <= Len(all)
               /\ Len(held) = Len(all) => held = all
<1> DEFINE n == Len(all)
           held == Eligible(all, need, pricing)[n]
<1>1. n \in 0..Len(all)
  OBVIOUS
<1>2. /\ held \in Seq(S) /\ Elements(held) \subseteq Elements(all) /\ Len(held) <= n
      /\ Len(held) = n => \A i \in 1..n : held[i] = all[i]
  <2> HIDE DEF n
  <2>1. /\ held \in Seq(S) /\ Elements(held) \subseteq Elements(all)
        /\ Len(held) <= n /\ SameUpTo(held, all, n)
    BY <1>1, EligibleFacts, Zenon
  <2> QED
    BY <2>1, Zenon DEF SameUpTo
<1> HIDE DEF held
<1>3. EndpointsOf(Chain(held, draws)) = EndpointsOf(held) /\ EndpointsOf(Chain(all, draws)) = EndpointsOf(all)
  BY <1>2, ChainIsFair, Zenon
<1>4. EndpointsOf(held) \subseteq EndpointsOf(all)
  <2> SUFFICES ASSUME NEW i \in 1..Len(held) PROVE held[i].endpoint \in EndpointsOf(all)
    BY Zenon DEF EndpointsOf
  <2>1. PICK k \in 1..Len(all) : held[i] = all[k]
    BY <1>2, Zenon DEF Elements
  <2> QED
    BY <2>1, Zenon DEF EndpointsOf
<1>5. Len(held) = n => held = all
  BY <1>2, SameList, Zenon
<1> QED
  BY <1>2, <1>3, <1>4, <1>5, Zenon DEF held

\* Replay (execute.go:22) applies no filter.  From the pools and the draws of the
\* recorded selection it offers every endpoint of the recorded chain, and it is that
\* chain when the filter had dropped no candidate; when the filter had dropped one, the
\* same draws shuffle another list.
THEOREM ReplayCoversTheChain ==
    ASSUME NEW endpoints, NEW M, NEW members \in Seq(M),
           \A m \in Registered(endpoints, members) : m.weight \in Nat \ {0},
           NEW need, NEW pricing, NEW draws \in Seq(Nat), draws # <<>>
    PROVE  LET all  == Candidates(endpoints, members)
               held == Eligible(all, need, pricing)[Len(all)]
           IN  /\ EndpointsOf(Chain(held, draws)) \subseteq EndpointsOf(Replay(endpoints, members, draws))
               /\ Len(held) = Len(all) => Chain(held, draws) = Replay(endpoints, members, draws)
<1> DEFINE all == Candidates(endpoints, members)
           held == Eligible(all, need, pricing)[Len(all)]
<1>1. all \in Seq(Registered(endpoints, members))
  BY CandidatesFacts, Zenon
<1>2. Replay(endpoints, members, draws) = Chain(all, draws)
  BY Zenon DEF Replay
<1> HIDE DEF all
<1>3. /\ EndpointsOf(Chain(held, draws)) \subseteq EndpointsOf(Chain(all, draws))
      /\ Len(held) = Len(all) => held = all
  BY <1>1, UnfilteredCovers, Zenon
<1> QED
  BY <1>2, <1>3, Zenon DEF all

-----------------------------------------------------------------------------
(* Decide *)

\* The decisions that rules and a default make which name only these pools: a decision
\* to route names one.
OrNone(names) == names \union {""}
Decisions(names) ==
    {d \in [action : {"route", "allow"}, pool : OrNone(names), tier : {""}, regions : {{}},
            required : {{}}] : d.action = "route" => d.pool \in names}

\* Names of pools are not empty.
Named(names) == "" \notin names

\* An action of a rule or of the default that names one of these pools when it routes.
Routes(a, names) == a.action \in {"route", "allow"} /\ (a.action = "route" => a.pool \in names)

\* ruleToDecision.
LEMMA ToDecisionFacts ==
    ASSUME NEW names, NEW a, Routes(a, names)
    PROVE  ToDecision(a) \in Decisions(names)
<1> DEFINE d == NoDecision
<1>1. d \in [action : {""}, pool : {""}, tier : {""}, regions : {{}}, required : {{}}]
  BY DEF NoDecision
<1> HIDE DEF d
<1>2. AllowDecision = [d EXCEPT !.action = "allow"]
  BY Zenon DEF AllowDecision, d
<1>3. RouteDecision(a.pool) = [d EXCEPT !.action = "route", !.pool = a.pool]
  BY Zenon DEF RouteDecision, d
<1>4. CASE a.action = "route"
  <2> DEFINE p == a.pool
  <2>1. p \in names /\ ToDecision(a) = RouteDecision(p)
    BY <1>4, Zenon DEF Routes, ToDecision
  <2> DEFINE r == [action |-> "route", pool |-> p, tier |-> "", regions |-> {}, required |-> {}]
             F == [action : {"route", "allow"}, pool : OrNone(names), tier : {""},
                   regions : {{}}, required : {{}}]
  <2> HIDE DEF p
  <2>2. RouteDecision(p) = r
    BY <1>1, <1>3, Zenon DEF p
  <2>3. p \in OrNone(names)
    BY <2>1, Zenon DEF OrNone
  <2>4. r \in F
    BY <2>3
  <2>5. r.pool = p
    OBVIOUS
  <2> HIDE DEF r
  <2>6. r \in Decisions(names)
    BY <2>1, <2>4, <2>5, Zenon DEF Decisions
  <2> QED BY <2>1, <2>2, <2>6, Zenon
<1>5. CASE a.action # "route"
  <2>1. ToDecision(a) = AllowDecision
    BY <1>5, Zenon DEF ToDecision
  <2>2. AllowDecision = [action |-> "allow", pool |-> "", tier |-> "", regions |-> {}, required |-> {}]
    BY <1>1, <1>2, Zenon
  <2>3. "" \in OrNone(names)
    BY Zenon DEF OrNone
  <2>4. AllowDecision \in Decisions(names)
    BY <2>2, <2>3, Zenon DEF Decisions
  <2> QED BY <2>1, <2>4
<1> QED BY <1>4, <1>5

\* What a decision is made of.
LEMMA DecisionFacts ==
    ASSUME NEW names, NEW d \in Decisions(names)
    PROVE  /\ d.action \in {"route", "allow"}
           /\ d.action = "route" => d.pool \in names
           /\ d.pool \in OrNone(names) /\ d.tier = "" /\ d.regions = {} /\ d.required = {}
           /\ d # NoDecision
<1>1. d \in [action : {"route", "allow"}, pool : OrNone(names), tier : {""}, regions : {{}},
             required : {{}}]
  BY Zenon DEF Decisions
<1>2. d.action \in {"route", "allow"} /\ d.pool \in OrNone(names)
  BY <1>1, Zenon
<1>3. d.tier = "" /\ d.regions = {} /\ d.required = {}
  BY <1>1, Zenon
<1>4. d.action = "route" => d.pool \in names
  BY Zenon DEF Decisions
<1>5. NoDecision.action = ""
  BY DEF NoDecision
<1>6. d # NoDecision
  BY <1>2, <1>5, Zenon
<1> QED BY <1>2, <1>3, <1>4, <1>6, Zenon

\* To route is stronger than to allow.
LEMMA MergePrimaryFacts ==
    ASSUME NEW x \in {"route", "allow"}, NEW y \in {"route", "allow"}
    PROVE  mergePrimary(x, y) = IF x = "route" \/ y = "route" THEN "route" ELSE "allow"
<1>1. rank("route") = 3 /\ rank("allow") = 2
  BY DEF rank, actionRank
<1>2. /\ mergePrimary("route", "route") = "route" /\ mergePrimary("allow", "allow") = "allow"
      /\ mergePrimary("route", "allow") = "route" /\ mergePrimary("allow", "route") = "route"
  BY <1>1 DEF mergePrimary
<1>3. x = "route" \/ x = "allow"
  OBVIOUS
<1>4. y = "route" \/ y = "allow"
  OBVIOUS
<1> QED BY <1>2, <1>3, <1>4, Zenon

\* The stronger action, and a pool whenever one of the two routes.
LEMMA MergeFacts ==
    ASSUME NEW names, Named(names),
           NEW a \in Decisions(names) \union {NoDecision}, NEW b \in Decisions(names)
    PROVE  Merge(a, b) \in Decisions(names)
<1>1. CASE a = NoDecision
  BY <1>1, Zenon DEF Merge
<1>2. CASE a # NoDecision
  <2>1. a \in Decisions(names)
    BY <1>2
  <2>2. b # NoDecision
    BY DecisionFacts, Zenon
  <2> DEFINE act == mergePrimary(a.action, b.action)
             pool == IF b.pool # "" THEN b.pool ELSE a.pool
             tier == IF b.tier # "" THEN b.tier ELSE a.tier
             regs == a.regions \union b.regions
             req == a.required \union b.required
             d == [action |-> act, pool |-> pool, tier |-> tier, regions |-> regs,
                   required |-> req]
  <2>3. Merge(a, b) = d
    BY <1>2, <2>2, Zenon DEF Merge
  <2>4. /\ a.action \in {"route", "allow"} /\ b.action \in {"route", "allow"}
        /\ a.tier = "" /\ b.tier = "" /\ a.regions = {} /\ b.regions = {}
        /\ a.required = {} /\ b.required = {}
    BY <2>1, DecisionFacts, Zenon
  <2>5. act = IF a.action = "route" \/ b.action = "route" THEN "route" ELSE "allow"
    BY <2>4, MergePrimaryFacts, Zenon
  <2>6. tier = "" /\ regs = {} /\ req = {}
    BY <2>4, Zenon
  <2>7. pool \in OrNone(names)
    BY <2>1, DecisionFacts, Zenon
  <2>8. act = "route" => pool \in names
    <3>1. CASE a.action = "route"
      <4>1. a.pool \in names /\ (b.pool # "" => b.pool \in names)
        BY <2>1, <3>1, DecisionFacts, Zenon DEF OrNone
      <4> QED BY <4>1, Zenon
    <3>2. CASE b.action = "route"
      <4>1. b.pool \in names
        BY <3>2, DecisionFacts, Zenon
      <4>2. b.pool # ""
        BY <4>1, Zenon DEF Named
      <4> QED BY <4>1, <4>2, Zenon
    <3> QED BY <2>5, <3>1, <3>2, Zenon
  <2>9. act \in {"route", "allow"}
    BY <2>5
  <2> HIDE DEF act, pool, tier, regs, req
  <2>10. d \in [action : {"route", "allow"}, pool : OrNone(names), tier : {""}, regions : {{}},
                required : {{}}]
    BY <2>6, <2>7, <2>9, Zenon
  <2>11. d.action = act /\ d.pool = pool
    OBVIOUS
  <2> HIDE DEF d
  <2>12. d \in Decisions(names)
    BY <2>8, <2>10, <2>11, Zenon DEF Decisions
  <2> QED BY <2>3, <2>12, Zenon DEF act, pool, tier, regs, req, d
<1> QED BY <1>1, <1>2

\* Rules and a default that name only these pools: so does the decision, and a decision
\* to route names one, whichever rules match and in whatever order they are.
THEOREM DecideNamesAPool ==
    ASSUME NEW names, Named(names), NEW R, NEW sorted \in Seq(R), NEW default, NEW sender,
           \A k \in 1..Len(sorted) : Routes(sorted[k], names), Routes(default, names)
    PROVE  Decide(sorted, default, sender) \in Decisions(names)
<1> DEFINE n == Len(sorted)
           X == Decisions(names) \union {NoDecision}
           step == [k \in 1..n |-> [y \in X |-> MergeMatching(y, sorted[k], sender)]]
           Rec(g) == g = [k \in 0..n |-> IF k = 0 THEN NoDecision
                                         ELSE MergeMatching(g[k - 1], sorted[k], sender)]
           h == CHOOSE g : Rec(g)
           T == {k \in 0..n : h[k] \in X}
           e == NoDecision
<1>1. n \in Nat
  OBVIOUS
<1>e. e \in X
  BY Zenon
<1>2. \A y \in X, k \in 1..n : step[k][y] = MergeMatching(y, sorted[k], sender)
  BY Zenon
<1>3. ASSUME NEW y \in X, NEW k \in 1..n PROVE MergeMatching(y, sorted[k], sender) \in X
  <2>1. ToDecision(sorted[k]) \in Decisions(names)
    BY ToDecisionFacts, Zenon
  <2>2. Merge(y, ToDecision(sorted[k])) \in X
    BY <2>1, MergeFacts, Zenon
  <2> QED BY <2>2, Zenon DEF MergeMatching
<1>4. Decide(sorted, default, sender) = IF h[n] = NoDecision THEN ToDecision(default) ELSE h[n]
  BY Zenon DEF Decide
<1>5. ToDecision(default) \in Decisions(names)
  BY ToDecisionFacts, Zenon
<1> HIDE DEF X, step, n, h, e
<1>6. StepsIn(step, n, X)
  BY <1>2, <1>3, Zenon DEF StepsIn
<1>7. PICK g \in [0..n -> X] : Run(g, step, n, e)
  BY <1>1, <1>e, <1>6, RunExists
<1>8. g[0] = e /\ \A k \in 1..n : g[k] = step[k][g[k - 1]]
  BY <1>7, Zenon DEF Run
<1>9. Rec(g)
  <2>1. g = [k \in 0..n |-> IF k = 0 THEN e ELSE MergeMatching(g[k - 1], sorted[k], sender)]
    BY <1>1, <1>2, <1>8
  <2> QED BY <2>1, Zenon DEF e
<1>10. Rec(h)
  BY <1>9, Zenon DEF h
<1>11. h[0] = e /\ \A k \in 1..n : h[k] = MergeMatching(h[k - 1], sorted[k], sender)
  <2>1. h = [k \in 0..n |-> IF k = 0 THEN e ELSE MergeMatching(h[k - 1], sorted[k], sender)]
    BY <1>10, Zenon DEF e
  <2> QED BY <1>1, <2>1
<1>12. 0 \in T
  BY <1>1, <1>e, <1>11
<1>13. ASSUME NEW k \in 1..n, k - 1 \in T PROVE k \in T
  BY <1>1, <1>3, <1>11, <1>13
<1> HIDE DEF T
<1>14. \A k \in 0..n : k \in T
  BY <1>1, <1>12, <1>13, BoundedInduction, Zenon
<1>15. h[n] \in X
  BY <1>1, <1>14 DEF T
<1> QED BY <1>4, <1>5, <1>15, Zenon DEF X

-----------------------------------------------------------------------------
(* Cost *)

\* Tokens times price.
LEMMA Product ==
    ASSUME NEW a \in Nat, NEW b \in Nat
    PROVE  a * b \in Nat
  OBVIOUS

\* A row of a decoded and valid pricing table.
PricingRow == [vendor : STRING, model : STRING, input : Int, output : Int,
               cacheRead : Int \union {Nil}, cacheCreate : Int \union {Nil},
               currency : STRING, caps : SUBSET STRING]
TokenCounts == [input : Nat, output : Nat, cacheRead : Nat, cacheCreate : Nat]

\* The rows of a vendor and a model; a valid table has at most one, and lookupPrice finds it.
RowsOf(pricing, vendor, model) ==
    {i \in DOMAIN pricing : pricing[i].vendor = vendor /\ pricing[i].model = model}

\* The row that lookupPrice finds is the only one of the model.
LEMMA LookupPriceFacts ==
    ASSUME NEW R, NEW pricing \in Seq(R), ValidPricing(pricing), NEW vendor, NEW model
    PROVE  LET n == lookupPrice(pricing, vendor, model)
           IN  /\ n = 0 => RowsOf(pricing, vendor, model) = {}
               /\ n # 0 => /\ n \in DOMAIN pricing
                           /\ RowsOf(pricing, vendor, model) = {n}
<1> DEFINE rows == RowsOf(pricing, vendor, model)
           n == lookupPrice(pricing, vendor, model)
<1>1. n = IF rows = {} THEN 0 ELSE CHOOSE i \in rows : \A j \in rows : i <= j
  BY Zenon DEF lookupPrice, RowsOf
<1>2. rows \in SUBSET DOMAIN pricing
  BY Zenon DEF RowsOf
<1>3. DOMAIN pricing \in SUBSET Nat /\ \A i \in DOMAIN pricing : i > 0
  OBVIOUS
<1>4. \A i, j \in rows : ~(j < i)
  <2>1. \A i, j \in DOMAIN pricing :
            j < i => <<pricing[j].vendor, pricing[j].model>> # <<pricing[i].vendor, pricing[i].model>>
    BY Zenon DEF ValidPricing
  <2> QED
    BY <2>1, Zenon DEF RowsOf
<1> HIDE DEF rows, n
<1>5. CASE rows = {}
  BY <1>1, <1>5, Zenon DEF rows, n
<1>6. CASE rows # {}
  <2>1. \E i \in rows : \A j \in rows : i <= j
    BY <1>2, <1>3, <1>6, LeastNatural, SMTT(30)
  <2>2. n \in rows
    BY <1>1, <1>6, <2>1, Zenon
  <2>3. \A i \in rows : i = n
    BY <1>2, <1>3, <1>4, <2>2
  <2>4. rows = {n} /\ n \in DOMAIN pricing /\ n # 0
    BY <1>2, <1>3, <2>2, <2>3
  <2> QED
    BY <2>4, Zenon DEF rows, n
<1> QED
  BY <1>5, <1>6, Zenon

\* A price that was configured is not negative; the fallback is the input price.
LEMMA EffectivePriceFacts ==
    ASSUME NEW p \in Int \union {Nil}, ValidPrice(p), NEW fallback \in Nat
    PROVE  effectivePrice(p, fallback) \in Nat
<1>1. CASE p = Nil
  BY <1>1, Zenon DEF effectivePrice
<1>2. CASE p # Nil
  <2>1. p \in Int /\ p >= 0
    BY <1>2, Zenon DEF ValidPrice
  <2>2. p \in Nat
    BY <2>1
  <2> QED
    BY <1>2, <2>2, Zenon DEF effectivePrice
<1> QED
  BY <1>1, <1>2, Zenon

\* A row that the validation let through.
LEMMA RowFacts ==
    ASSUME NEW pricing \in Seq(PricingRow), ValidPricing(pricing), NEW n \in DOMAIN pricing
    PROVE  LET row == pricing[n]
           IN  /\ row.input \in Nat /\ row.output \in Nat
               /\ effectivePrice(row.cacheRead, row.input) \in Nat
               /\ effectivePrice(row.cacheCreate, row.input) \in Nat
               /\ "cache_control" \in row.caps => row.cacheRead # Nil /\ row.cacheCreate # Nil
<1> DEFINE row == pricing[n]
           R == PricingRow
<1>1. row \in R
  <2> HIDE DEF R
  <2>1. pricing \in Seq(R)
    BY Zenon DEF R
  <2> QED
    BY <2>1
<1>2. /\ row.input >= 0 /\ row.output >= 0
      /\ "cache_control" \in row.caps => row.cacheRead # Nil /\ row.cacheCreate # Nil
      /\ ValidPrice(row.cacheRead) /\ ValidPrice(row.cacheCreate)
  BY Zenon DEF ValidPricing
<1> HIDE DEF row
<1>3. /\ row.input \in Int /\ row.output \in Int
      /\ row.cacheRead \in Int \union {Nil} /\ row.cacheCreate \in Int \union {Nil}
  BY <1>1, Zenon DEF PricingRow
<1>4. row.input \in Nat /\ row.output \in Nat
  BY <1>2, <1>3
<1> QED
  BY <1>2, <1>3, <1>4, EffectivePriceFacts, Zenon DEF row

\* The buckets of an event never add up to more than its total and miss it by less than
\* one cent each; a model that supports cache_control is never estimated
\* (cost.go, Calculate; the rule of pricing.go:49).
THEOREM CostIsSound ==
    ASSUME NEW pricing \in Seq(PricingRow), ValidPricing(pricing), NEW vendor, NEW model,
           NEW usage \in TokenCounts
    PROVE  LET event == Calculate(pricing, vendor, model, usage)
               sum == event.parts[1] + event.parts[2] + event.parts[3] + event.parts[4]
           IN  /\ sum <= event.total /\ event.total < sum + 4
               /\ (\E i \in RowsOf(pricing, vendor, model) : "cache_control" \in pricing[i].caps) =>
                     event.source = "provider_usage"
<1> DEFINE n == lookupPrice(pricing, vendor, model)
           row == pricing[n]
           read == effectivePrice(row.cacheRead, row.input)
           create == effectivePrice(row.cacheCreate, row.input)
           a == usage.input * row.input
           b == usage.output * row.output
           c == usage.cacheRead * read
           d == usage.cacheCreate * create
           guessed == \/ usage.cacheRead > 0 /\ row.cacheRead = Nil
                      \/ usage.cacheCreate > 0 /\ row.cacheCreate = Nil
           source == IF guessed THEN "estimated" ELSE "provider_usage"
           money == IF row.currency = "" THEN "USD" ELSE row.currency
           none == [total |-> 0, parts |-> <<0, 0, 0, 0>>, currency |-> "USD", source |-> "estimated"]
           some == [total    |-> (a + b + c + d) \div 1000,
                    parts    |-> <<a \div 1000, b \div 1000, c \div 1000, d \div 1000>>,
                    currency |-> money,
                    source   |-> source]
           event == Calculate(pricing, vendor, model, usage)
<1>1. event = IF n = 0 THEN none ELSE some
  BY Zenon DEF Calculate
<1>2. /\ n = 0 => RowsOf(pricing, vendor, model) = {}
      /\ n # 0 => n \in DOMAIN pricing /\ RowsOf(pricing, vendor, model) = {n}
  BY LookupPriceFacts, Zenon
<1>3. /\ usage.input \in Nat /\ usage.output \in Nat
      /\ usage.cacheRead \in Nat /\ usage.cacheCreate \in Nat
  BY DEF TokenCounts
<1> HIDE DEF none, some
<1>4. CASE n = 0
  <2>1. event = none
    BY <1>1, <1>4, Zenon
  <2>2. /\ none.total = 0
        /\ none.parts[1] = 0 /\ none.parts[2] = 0 /\ none.parts[3] = 0 /\ none.parts[4] = 0
    BY DEF none
  <2>3. LET sum == none.parts[1] + none.parts[2] + none.parts[3] + none.parts[4]
        IN  sum <= none.total /\ none.total < sum + 4
    BY <2>2
  <2> QED
    BY <1>2, <1>4, <2>1, <2>3, Zenon
<1>5. CASE n # 0
  <2>1. /\ row.input \in Nat /\ row.output \in Nat /\ read \in Nat /\ create \in Nat
        /\ "cache_control" \in row.caps => row.cacheRead # Nil /\ row.cacheCreate # Nil
    BY <1>2, <1>5, RowFacts, Zenon
  <2>2. a \in Nat /\ b \in Nat /\ c \in Nat /\ d \in Nat
    <3> HIDE DEF read, create, row
    <3> QED
      BY <1>3, <2>1, Product, Zenon
  <2>3. event = some
    BY <1>1, <1>5, Zenon
  <2>4. (\E i \in RowsOf(pricing, vendor, model) : "cache_control" \in pricing[i].caps) =>
            source = "provider_usage"
    <3>1. (\E i \in RowsOf(pricing, vendor, model) : "cache_control" \in pricing[i].caps) =>
              row.cacheRead # Nil /\ row.cacheCreate # Nil
      BY <1>2, <1>5, <2>1, Zenon
    <3> QED
      BY <3>1, Zenon
  <2> HIDE DEF a, b, c, d, money, source
  <2>5. /\ some.total = (a + b + c + d) \div 1000 /\ some.source = source
        /\ some.parts[1] = a \div 1000 /\ some.parts[2] = b \div 1000
        /\ some.parts[3] = c \div 1000 /\ some.parts[4] = d \div 1000
    BY DEF some
  <2>6. LET sum == (a \div 1000) + (b \div 1000) + (c \div 1000) + (d \div 1000)
            total == (a + b + c + d) \div 1000
        IN  sum <= total /\ total < sum + 4
    BY <2>2
  <2>7. LET sum == some.parts[1] + some.parts[2] + some.parts[3] + some.parts[4]
        IN  sum <= some.total /\ some.total < sum + 4
    BY <2>5, <2>6
  <2> HIDE DEF event
  <2> QED
    BY <2>3, <2>4, <2>5, <2>7, Zenon DEF event
<1> QED
  BY <1>4, <1>5, Zenon

\* The source of an event is replaced when the stream did not complete.
WithSource(event, source) == [event EXCEPT !.source = source]
OnlySource(z, event, source) ==
    z.parts = event.parts /\ z.total = event.total /\ z.source = source

\* The rest of the event stays.
LEMMA EventFields ==
    ASSUME NEW pricing, NEW vendor, NEW model, NEW usage, NEW source
    PROVE  LET event == Calculate(pricing, vendor, model, usage)
           IN  OnlySource(WithSource(event, source), event, source)
<1> DEFINE event == Calculate(pricing, vendor, model, usage)
           held(e) == OnlySource(WithSource(e, source), e, source)
           n == lookupPrice(pricing, vendor, model)
           row == pricing[n]
           input == usage.input * row.input
           output == usage.output * row.output
           cacheRead == usage.cacheRead * effectivePrice(row.cacheRead, row.input)
           cacheCreate == usage.cacheCreate * effectivePrice(row.cacheCreate, row.input)
           guessed == \/ usage.cacheRead > 0 /\ row.cacheRead = Nil
                      \/ usage.cacheCreate > 0 /\ row.cacheCreate = Nil
           total == (input + output + cacheRead + cacheCreate) \div 1000
           parts == <<input \div 1000, output \div 1000, cacheRead \div 1000, cacheCreate \div 1000>>
           currency == IF row.currency = "" THEN "USD" ELSE row.currency
           from == IF guessed THEN "estimated" ELSE "provider_usage"
           free == <<0, 0, 0, 0>>
           usd == "USD"
           estimated == "estimated"
<1>1. event = IF n = 0 THEN [total |-> 0, parts |-> free, currency |-> usd, source |-> estimated]
              ELSE [total |-> total, parts |-> parts, currency |-> currency, source |-> from]
  BY Zenon DEF Calculate
<1> HIDE DEF event, n, total, parts, currency, from, free, usd, estimated
<1>2. CASE n = 0
  <2>1. event = [total |-> 0, parts |-> free, currency |-> usd, source |-> estimated]
    BY <1>1, <1>2, Zenon
  <2>2. held(event)
    BY <2>1 DEF WithSource, OnlySource
  <2> QED
    BY <2>2, Zenon DEF event
<1>3. CASE n # 0
  <2>1. event = [total |-> total, parts |-> parts, currency |-> currency, source |-> from]
    BY <1>1, <1>3, Zenon
  <2>2. held(event)
    BY <2>1 DEF WithSource, OnlySource
  <2> QED
    BY <2>2, Zenon DEF event
<1> QED
  BY <1>2, <1>3, Zenon

-----------------------------------------------------------------------------
(* Conversion *)

\* A block of the intermediate form, field by field.
LEMMA BlockToIRFacts ==
    ASSUME NEW b
    PROVE  anthropicBlockToIR(b) =
               [type   |-> b.type,
                cached |-> b.mark = "yes",
                inner  |-> IF b.type = "tool_result"
                           THEN [i \in DOMAIN b.inner |-> LeafToIR(b.inner[i])] ELSE <<>>,
                id     |-> IF b.type \in Carried THEN b.id ELSE ""]
<1> DEFINE inner == IF b.type = "tool_result"
                    THEN [i \in DOMAIN b.inner |-> LeafToIR(b.inner[i])] ELSE <<>>
           id == IF b.type \in Carried THEN b.id ELSE ""
           type == b.type
           cached == b.mark = "yes"
           empty == <<>>
           leaf == [type |-> type, id |-> id, cached |-> cached, inner |-> empty]
<1>1. LeafToIR(b) = leaf
  BY Zenon DEF LeafToIR
<1>2. anthropicBlockToIR(b) = [leaf EXCEPT !.inner = inner]
  BY <1>1, Zenon DEF anthropicBlockToIR
<1> HIDE DEF inner, id, type, cached, empty
<1>3. [leaf EXCEPT !.inner = inner] = [type |-> type, cached |-> cached, inner |-> inner, id |-> id]
  OBVIOUS
<1> HIDE DEF leaf
<1> QED
  BY <1>2, <1>3, Zenon DEF inner, id, type, cached

\* The intermediate form of a list has a block with cache_control where the list has an
\* object for it, and once it is taken out, none.
LEMMA CachedToIR ==
    ASSUME NEW blocks
    PROVE  /\ IsCached(BlocksToIR(blocks)) <=> Marked(blocks)
           /\ ~IsCached(Uncached(BlocksToIR(blocks)))
<1> DEFINE ir == BlocksToIR(blocks)
<1>1. DOMAIN ir = DOMAIN blocks /\ \A i \in DOMAIN blocks : ir[i] = anthropicBlockToIR(blocks[i])
  BY Zenon DEF BlocksToIR
<1>2. \A b : anthropicBlockToIR(b).cached <=> b.mark = "yes"
  BY BlockToIRFacts, Zenon
<1>3. ASSUME NEW b PROVE ~[anthropicBlockToIR(b) EXCEPT !.cached = FALSE].cached
  <2> DEFINE rec == anthropicBlockToIR(b)
  <2>1. "cached" \in DOMAIN rec
    <3>1. rec = [type   |-> b.type,
                 cached |-> b.mark = "yes",
                 inner  |-> IF b.type = "tool_result"
                            THEN [i \in DOMAIN b.inner |-> LeafToIR(b.inner[i])] ELSE <<>>,
                 id     |-> IF b.type \in Carried THEN b.id ELSE ""]
      BY BlockToIRFacts, Zenon
    <3> HIDE DEF rec
    <3> QED
      BY <3>1, Zenon
  <2> HIDE DEF rec
  <2>2. [rec EXCEPT !.cached = FALSE].cached = FALSE
    BY <2>1, Zenon
  <2> QED
    BY <2>2, Zenon DEF rec
<1> HIDE DEF ir
<1>4. IsCached(ir) <=> Marked(blocks)
  BY <1>1, <1>2, Zenon DEF IsCached, Marked
<1>5. /\ DOMAIN Uncached(ir) = DOMAIN ir
      /\ \A i \in DOMAIN ir : Uncached(ir)[i] = [ir[i] EXCEPT !.cached = FALSE]
  BY Zenon DEF Uncached
<1>6. ~IsCached(Uncached(ir))
  <2>1. ASSUME NEW i \in DOMAIN Uncached(ir) PROVE ~Uncached(ir)[i].cached
    <3>1. Uncached(ir)[i] = [anthropicBlockToIR(blocks[i]) EXCEPT !.cached = FALSE]
      BY <1>1, <1>5, <2>1, Zenon
    <3>2. ~[anthropicBlockToIR(blocks[i]) EXCEPT !.cached = FALSE].cached
      BY <1>3
    <3> QED
      BY <3>1, <3>2, Zenon
  <2> QED
    BY <2>1, Zenon DEF IsCached
<1> QED
  BY <1>4, <1>6, Zenon DEF ir

\* What is put on the wire has cache_control where the intermediate form has it.
LEMMA MarkedWhereCached ==
    ASSUME NEW blocks
    PROVE  Marked(BlocksToAnthropic(blocks)) <=> IsCached(blocks)
<1>1. ASSUME NEW b PROVE irBlockToAnthropicBlock(b).mark = "yes" <=> b.cached
  <2> DEFINE inner == IF b.type = "tool_result"
                      THEN [i \in DOMAIN b.inner |-> LeafToAnthropic(b.inner[i])] ELSE <<>>
             type == b.type
             id == IF b.type \in Carried THEN b.id ELSE ""
             mark == IF b.cached THEN "yes" ELSE "no"
             empty == <<>>
             leaf == [type |-> type, id |-> id, rest |-> "", mark |-> mark, inner |-> empty]
  <2>1. irBlockToAnthropicBlock(b) = [leaf EXCEPT !.inner = inner]
    BY Zenon DEF irBlockToAnthropicBlock, LeafToAnthropic
  <2> HIDE DEF inner, type, id, mark, empty
  <2>2. [leaf EXCEPT !.inner = inner].mark = mark
    OBVIOUS
  <2> HIDE DEF leaf
  <2>3. irBlockToAnthropicBlock(b).mark = mark
    BY <2>1, <2>2, Zenon
  <2> QED
    BY <2>3, Zenon DEF mark
<1>2. /\ DOMAIN BlocksToAnthropic(blocks) = DOMAIN blocks
      /\ \A i \in DOMAIN blocks : BlocksToAnthropic(blocks)[i] = irBlockToAnthropicBlock(blocks[i])
  BY Zenon DEF BlocksToAnthropic
<1> QED
  BY <1>1, <1>2, ZenonT(30) DEF Marked, IsCached

\* The intermediate form, and the form without Anthropic features.
LEMMA StrippedFacts ==
    ASSUME NEW body
    PROVE  LET ir  == AnthropicToIR(body)
               req == StripAnthropicFeatures(ir).req
           IN  /\ ir.system = BlocksToIR(body.system)
               /\ DOMAIN ir.messages = DOMAIN body.messages
               /\ \A i \in DOMAIN body.messages :
                     ir.messages[i].content = BlocksToIR(body.messages[i].content)
               /\ ir.thinking = IF body.thinking \in {"absent", "null"} THEN "absent" ELSE "enabled"
               /\ req.system = Uncached(ir.system)
               /\ DOMAIN req.messages = DOMAIN body.messages
               /\ \A i \in DOMAIN body.messages :
                     req.messages[i].content = Uncached(ir.messages[i].content)
               /\ req.thinking = "absent"
<1> DEFINE ir == AnthropicToIR(body)
           req == StripAnthropicFeatures(ir).req
           model == body.model
           stream == body.stream
           system == BlocksToIR(body.system)
           messages == [i \in DOMAIN body.messages |->
                          [role |-> body.messages[i].role,
                           content |-> BlocksToIR(body.messages[i].content)]]
           tools == [i \in DOMAIN body.tools |-> body.tools[i].name]
           choice == IF body.choice = "tool" THEN "specific" ELSE body.choice
           thinking == IF body.thinking \in {"absent", "null"} THEN "absent" ELSE "enabled"
           bareMessages == UncachedMessages(ir.messages)
           bareSystem == Uncached(ir.system)
           none == "absent"
<1>1. ir = [model |-> model, stream |-> stream, system |-> system, messages |-> messages,
            tools |-> tools, choice |-> choice, thinking |-> thinking]
  BY Zenon DEF AnthropicToIR
<1>2. req = [ir EXCEPT !.messages = bareMessages, !.system = bareSystem, !.thinking = none]
  BY Zenon DEF StripAnthropicFeatures
<1> HIDE DEF ir, req, model, stream, system, messages, tools, choice, thinking, bareMessages,
             bareSystem, none
<1>3. ir.system = system /\ ir.messages = messages /\ ir.thinking = thinking
  BY <1>1, Zenon
<1>4. req.system = bareSystem /\ req.messages = bareMessages /\ req.thinking = none
  <2> DEFINE one == [ir EXCEPT !.messages = bareMessages]
             two == [one EXCEPT !.system = bareSystem]
             three == [two EXCEPT !.thinking = none]
  <2>1. one = [model |-> model, stream |-> stream, system |-> system, messages |-> bareMessages,
               tools |-> tools, choice |-> choice, thinking |-> thinking]
    BY <1>1
  <2> HIDE DEF one
  <2>2. two = [model |-> model, stream |-> stream, system |-> bareSystem, messages |-> bareMessages,
               tools |-> tools, choice |-> choice, thinking |-> thinking]
    BY <2>1
  <2> HIDE DEF two
  <2>3. three = [model |-> model, stream |-> stream, system |-> bareSystem, messages |-> bareMessages,
                 tools |-> tools, choice |-> choice, thinking |-> none]
    BY <2>2
  <2>4. req = three
    BY <1>2, Zenon DEF one, two
  <2> HIDE DEF three
  <2> QED
    BY <2>3, <2>4, Zenon
<1>5. /\ DOMAIN messages = DOMAIN body.messages
      /\ \A i \in DOMAIN body.messages :
            /\ messages[i].content = BlocksToIR(body.messages[i].content)
            /\ "content" \in DOMAIN messages[i]
  BY Zenon DEF messages
<1>6. /\ DOMAIN bareMessages = DOMAIN messages
      /\ \A i \in DOMAIN messages :
            bareMessages[i] = [messages[i] EXCEPT !.content = Uncached(messages[i].content)]
  BY <1>3, Zenon DEF bareMessages, UncachedMessages
<1>7. ASSUME NEW i \in DOMAIN body.messages
      PROVE  bareMessages[i].content = Uncached(messages[i].content)
  <2> DEFINE bare == Uncached(messages[i].content)
             msg == messages[i]
  <2>1. "content" \in DOMAIN msg
    BY <1>5, Zenon
  <2> HIDE DEF bare, msg
  <2>2. [msg EXCEPT !.content = bare].content = bare
    BY <2>1, Zenon
  <2>3. bareMessages[i] = [msg EXCEPT !.content = bare]
    BY <1>5, <1>6, Zenon DEF bare, msg
  <2> QED
    BY <2>2, <2>3, Zenon DEF bare
<1> QED
  BY <1>3, <1>4, <1>5, <1>6, <1>7, Zenon DEF ir, req, system, thinking, bareSystem, none

\* The features that StripAnthropicFeatures takes out of the intermediate form are those
\* that DetectCapabilities finds in the body, of those that can be degraded, but for a
\* cache_control that is null wherever it stands (degraded.go, capability_detect.go:92).
THEOREM StripAgreesWithDetection ==
    ASSUME NEW body
    PROVE  LET detected == DetectCapabilities(body) \intersect Degradable
           IN  StripAnthropicFeatures(AnthropicToIR(body)).degraded =
                   IF HasMark(body) THEN detected ELSE detected \ {"cache_control"}
<1> DEFINE ir == AnthropicToIR(body)
           cachedIR == \/ IsCached(ir.system)
                       \/ \E i \in DOMAIN ir.messages : IsCached(ir.messages[i].content)
           cached == \/ hasCacheControlInArray(body.system)
                     \/ \E i \in DOMAIN body.messages : hasCacheControlInArray(body.messages[i].content)
           vision == \E i \in DOMAIN body.messages : hasVisionInArray(body.messages[i].content)
           marked == HasMark(body)
           thinks == body.thinking \notin {"absent", "null"}
<1>1. /\ ir.system = BlocksToIR(body.system)
      /\ DOMAIN ir.messages = DOMAIN body.messages
      /\ \A i \in DOMAIN body.messages : ir.messages[i].content = BlocksToIR(body.messages[i].content)
      /\ ir.thinking = IF body.thinking \in {"absent", "null"} THEN "absent" ELSE "enabled"
  BY StrippedFacts, Zenon
<1>2. ir.thinking = "enabled" <=> thinks
  BY <1>1, Zenon
<1>3. StripAnthropicFeatures(ir).degraded =
         (IF ir.thinking = "enabled" THEN {"extended_thinking"} ELSE {})
         \union (IF cachedIR THEN {"cache_control"} ELSE {})
  BY Zenon DEF StripAnthropicFeatures
<1>4. DetectCapabilities(body) =
         (IF cached THEN {"cache_control"} ELSE {})
         \union (IF thinks THEN {"extended_thinking"} ELSE {})
         \union (IF vision THEN {"vision"} ELSE {})
  BY Zenon DEF DetectCapabilities
<1> HIDE DEF ir
<1>5. cachedIR <=> marked
  BY <1>1, CachedToIR, Zenon DEF HasMark
<1>6. marked => cached
  BY Zenon DEF HasMark, Marked, hasCacheControlInArray
<1> HIDE DEF cachedIR, cached, vision, marked, thinks
<1>7. StripAnthropicFeatures(ir).degraded =
         IF marked THEN DetectCapabilities(body) \intersect Degradable
         ELSE (DetectCapabilities(body) \intersect Degradable) \ {"cache_control"}
  BY <1>2, <1>3, <1>4, <1>5, <1>6 DEF Degradable
<1> QED
  BY <1>7, Zenon DEF ir, marked

\* An Anthropic-shaped provider gets cache_control and thinking as the body had them, and
\* neither once they were taken out, whatever the body is (anthropic.go, degraded.go).
THEOREM FeaturesAreSentOrTaken ==
    ASSUME NEW body, NEW model
    PROVE  LET ir    == AnthropicToIR(body)
               whole == IRToAnthropic(ir, model)
               bare  == IRToAnthropic(StripAnthropicFeatures(ir).req, model)
           IN  /\ HasMark(whole) <=> HasMark(body)
               /\ whole.thinking = "enabled" <=> "extended_thinking" \in DetectCapabilities(body)
               /\ ~HasMark(bare) /\ bare.thinking # "enabled"
<1> DEFINE ir == AnthropicToIR(body)
           req == StripAnthropicFeatures(ir).req
<1>1. /\ ir.system = BlocksToIR(body.system)
      /\ DOMAIN ir.messages = DOMAIN body.messages
      /\ \A i \in DOMAIN body.messages : ir.messages[i].content = BlocksToIR(body.messages[i].content)
      /\ ir.thinking = IF body.thinking \in {"absent", "null"} THEN "absent" ELSE "enabled"
      /\ req.system = Uncached(ir.system)
      /\ DOMAIN req.messages = DOMAIN body.messages
      /\ \A i \in DOMAIN body.messages : req.messages[i].content = Uncached(ir.messages[i].content)
      /\ req.thinking = "absent"
  BY StrippedFacts, Zenon
<1>2. ASSUME NEW r
      PROVE  /\ IRToAnthropic(r, model).thinking = r.thinking
             /\ HasMark(IRToAnthropic(r, model)) <=>
                   \/ IsCached(r.system)
                   \/ \E i \in DOMAIN r.messages : IsCached(r.messages[i].content)
  <2> DEFINE sent == IRToAnthropic(r, model)
             messages == [i \in DOMAIN r.messages |->
                            [role |-> r.messages[i].role,
                             content |-> BlocksToAnthropic(r.messages[i].content)]]
  <2>1. /\ sent.thinking = r.thinking /\ sent.system = BlocksToAnthropic(r.system)
        /\ sent.messages = messages
    BY Zenon DEF IRToAnthropic
  <2>2. /\ DOMAIN messages = DOMAIN r.messages
        /\ \A i \in DOMAIN r.messages :
              messages[i].content = BlocksToAnthropic(r.messages[i].content)
    BY Zenon
  <2> HIDE DEF sent, messages
  <2>3. HasMark(sent) <=> \/ Marked(BlocksToAnthropic(r.system))
                          \/ \E i \in DOMAIN r.messages :
                                Marked(BlocksToAnthropic(r.messages[i].content))
    BY <2>1, <2>2, Zenon DEF HasMark
  <2> QED
    BY <2>1, <2>3, MarkedWhereCached, Zenon DEF sent
<1>3. "extended_thinking" \in DetectCapabilities(body) <=> body.thinking \notin {"absent", "null"}
  BY Zenon DEF DetectCapabilities
<1> HIDE DEF ir, req
<1>4. ir.thinking = "enabled" <=> body.thinking \notin {"absent", "null"}
  BY <1>1, Zenon
<1>5. HasMark(IRToAnthropic(ir, model)) <=> HasMark(body)
  <2>1. HasMark(IRToAnthropic(ir, model)) <=>
           \/ IsCached(ir.system)
           \/ \E i \in DOMAIN ir.messages : IsCached(ir.messages[i].content)
    BY <1>2, Zenon
  <2>2. IsCached(ir.system) <=> Marked(body.system)
    BY <1>1, CachedToIR, Zenon
  <2>3. \A i \in DOMAIN body.messages :
           IsCached(ir.messages[i].content) <=> Marked(body.messages[i].content)
    BY <1>1, CachedToIR, Zenon
  <2>4. HasMark(body) <=> \/ Marked(body.system)
                          \/ \E i \in DOMAIN body.messages : Marked(body.messages[i].content)
    BY Zenon DEF HasMark
  <2> QED
    BY <1>1, <2>1, <2>2, <2>3, <2>4, Zenon
<1>6. ~HasMark(IRToAnthropic(req, model))
  <2>1. HasMark(IRToAnthropic(req, model)) <=>
           \/ IsCached(req.system)
           \/ \E i \in DOMAIN req.messages : IsCached(req.messages[i].content)
    BY <1>2, Zenon
  <2>2. ~IsCached(req.system)
    BY <1>1, CachedToIR, Zenon
  <2>3. \A i \in DOMAIN body.messages : ~IsCached(req.messages[i].content)
    BY <1>1, CachedToIR, Zenon
  <2> QED
    BY <1>1, <2>1, <2>2, <2>3, Zenon
<1> QED
  BY <1>1, <1>2, <1>3, <1>4, <1>5, <1>6, Zenon DEF ir, req

-----------------------------------------------------------------------------
(* Configurations *)

\* The members of a pools file, as candidates.
MembersIn(pools) ==
    UNION {Registered(pools.endpoints, pools.pools[name].members) : name \in DOMAIN pools.pools}
AllMembers == UNION {MembersIn(Body[cfg.files["pools"]]) : cfg \in Configs}

\* Loader.Load accepted the files (loader.go:25).
LEMMA ConfigFacts ==
    ASSUME NEW cfg \in Configs
    PROVE  /\ \A f \in Files : cfg.files[f] \in DOMAIN Body
           /\ ValidPools(Body[cfg.files["pools"]])
           /\ ValidPolicy(Body[cfg.files["policy"]])
           /\ ValidPricing(Body[cfg.files["pricing"]])
           /\ ValidatePolicyAgainstPools(Body[cfg.files["policy"]], Body[cfg.files["pools"]])
<1>1. Decoded(cfg.files) /\ Acceptable(cfg.files)
  BY ConfigsAssumption, Zenon
<1>2. \A f \in Files : cfg.files[f] \in DOMAIN Body
  BY <1>1, Zenon DEF Decoded
<1>3. /\ AcceptsRead("pools", cfg.files) /\ AcceptsRead("policy", cfg.files)
      /\ AcceptsRead("pricing", cfg.files) /\ AcceptsRead("repos", cfg.files)
  BY <1>1, Zenon DEF Acceptable
<1> QED
  BY <1>2, <1>3, Zenon DEF AcceptsRead

\* The contents of the files of a configuration are known contents.
LEMMA ContentFacts ==
    ASSUME NEW cfg \in Configs
    PROVE  /\ cfg.files["pools"] \in DOMAIN Body /\ cfg.files["policy"] \in DOMAIN Body
           /\ cfg.files["pricing"] \in DOMAIN Body /\ cfg.files["teams"] \in DOMAIN Body
  BY ConfigFacts, Zenon DEF Files

\* A rule or the default of an accepted policy names a pool of the pools file when it
\* routes (pools.go and policy.go, the checks across files).
LEMMA PolicyRoutes ==
    ASSUME NEW cfg \in Configs
    PROVE  LET policy == Body[cfg.files["policy"]]
               names  == DOMAIN Body[cfg.files["pools"]].pools \ {""}
           IN  /\ Named(names)
               /\ Routes(policy.default, names)
               /\ \A i \in DOMAIN policy.rules : Routes(policy.rules[i], names)
<1> DEFINE policy == Body[cfg.files["policy"]]
           pools == Body[cfg.files["pools"]]
           names == DOMAIN pools.pools \ {""}
<1>1. ValidPolicy(policy) /\ ValidatePolicyAgainstPools(policy, pools)
  BY ConfigFacts, Zenon
<1> HIDE DEF policy, pools
<1>2. Named(names)
  BY Zenon DEF Named
<1>3. ASSUME NEW a, ValidAction(a), a.action = "route" /\ a.pool # "" => a.pool \in DOMAIN pools.pools
      PROVE  Routes(a, names)
  BY <1>3, Zenon DEF Routes, ValidAction
<1>4. Routes(policy.default, names)
  <2>1. ValidAction(policy.default)
    BY <1>1, Zenon DEF ValidPolicy
  <2>2. policy.default.action = "route" /\ policy.default.pool # "" => policy.default.pool \in DOMAIN pools.pools
    BY <1>1, Zenon DEF ValidatePolicyAgainstPools
  <2> QED
    BY <2>1, <2>2, <1>3, Zenon
<1>5. ASSUME NEW i \in DOMAIN policy.rules
      PROVE  Routes(policy.rules[i], names)
  <2> DEFINE a == policy.rules[i]
  <2>1. ValidAction(a)
    BY <1>1, Zenon DEF ValidPolicy
  <2>2. a.action = "route" /\ a.pool # "" => a.pool \in DOMAIN pools.pools
    BY <1>1, Zenon DEF ValidatePolicyAgainstPools
  <2> QED
    BY <2>1, <2>2, <1>3, Zenon
<1> QED
  BY <1>2, <1>4, <1>5, Zenon DEF policy, pools

\* The members of a pool as the decoder and the validation leave them.
LEMMA PoolFacts ==
    ASSUME NEW cfg \in Configs, NEW name \in DOMAIN Body[cfg.files["pools"]].pools
    PROVE  LET pools   == Body[cfg.files["pools"]]
               members == pools.pools[name].members
           IN  /\ members \in Seq([endpoint : STRING, model : STRING, weight : Int])
               /\ \A k \in 1..Len(members) :
                     /\ members[k].endpoint \in DOMAIN pools.endpoints
                     /\ members[k].weight \in Nat \ {0}
<1> DEFINE pools == Body[cfg.files["pools"]]
           members == pools.pools[name].members
           M == [endpoint : STRING, model : STRING, weight : Int]
<1>1. Decoded(cfg.files) /\ ValidPools(pools)
  BY ConfigsAssumption, ConfigFacts, Zenon
<1>2. members \in Seq(M)
  BY <1>1, Zenon DEF Decoded
<1>3. \A k \in DOMAIN members : ValidMember(members[k], pools.endpoints)
  BY <1>1, Zenon DEF ValidPools
<1>a. \A m \in M : m.weight \in Int
  OBVIOUS
<1> HIDE DEF pools, members, M
<1>b. \A k \in 1..Len(members) : members[k] \in M /\ k \in DOMAIN members
  BY <1>2
<1>4. \A k \in 1..Len(members) : members[k].weight \in Int /\ k \in DOMAIN members
  BY <1>a, <1>b, Zenon
<1>5. \A k \in 1..Len(members) : members[k].endpoint \in DOMAIN pools.endpoints /\ members[k].weight > 0
  BY <1>3, <1>4, Zenon DEF ValidMember
<1>6. \A k \in 1..Len(members) : members[k].weight \in Nat \ {0}
  BY <1>4, <1>5
<1> QED
  BY <1>2, <1>5, <1>6, Zenon DEF pools, members, M

\* A candidate of a pool of a configuration: its endpoint is registered, it weighs
\* something, and its wire is one main has an adapter for if main checked the file.
LEMMA MemberFacts ==
    ASSUME NEW cfg \in Configs, NEW m \in MembersIn(Body[cfg.files["pools"]])
    PROVE  /\ m.endpoint \in DOMAIN Body[cfg.files["pools"]].endpoints
           /\ m.weight \in Nat \ {0}
           /\ ValidatePoolAdapters(Body[cfg.files["pools"]], Adapters) => m.wire \in Adapters
<1> DEFINE pools == Body[cfg.files["pools"]]
<1>1. PICK name \in DOMAIN pools.pools : m \in Registered(pools.endpoints, pools.pools[name].members)
  BY Zenon DEF MembersIn
<1> DEFINE members == pools.pools[name].members
<1>2. PICK k \in 1..Len(members) : m = MemberOf(members[k], pools.endpoints[members[k].endpoint])
  BY <1>1, Zenon DEF Registered
<1>3. /\ members \in Seq([endpoint : STRING, model : STRING, weight : Int])
      /\ members[k].endpoint \in DOMAIN pools.endpoints /\ members[k].weight \in Nat \ {0}
  BY PoolFacts, <1>2, Zenon
<1>4. /\ m.endpoint = members[k].endpoint /\ m.weight = members[k].weight
      /\ m.wire = pools.endpoints[members[k].endpoint].wire
  BY <1>2, Zenon DEF MemberOf
<1>5. ASSUME ValidatePoolAdapters(pools, Adapters)
      PROVE  m.wire \in Adapters
  <2>1. k \in DOMAIN members
    <3> HIDE DEF members
    <3> QED
      BY <1>2, <1>3
  <2>2. \A i \in DOMAIN members : pools.endpoints[members[i].endpoint].wire \in Adapters
    BY <1>5, Zenon DEF ValidatePoolAdapters
  <2> QED
    BY <2>1, <2>2, <1>4, Zenon
<1> QED
  BY <1>3, <1>4, <1>5, Zenon

\* What the lookup of a pool finds.
LEMMA LookupFacts ==
    ASSUME NEW cfg \in Configs, NEW name \in DOMAIN Body[cfg.files["pools"]].pools
    PROVE  LET pools   == Body[cfg.files["pools"]]
               members == pools.pools[name].members
           IN  /\ Candidates(pools.endpoints, members) \in Seq(MembersIn(pools))
               /\ Len(Candidates(pools.endpoints, members)) <= Len(members)
<1> DEFINE pools == Body[cfg.files["pools"]]
           members == pools.pools[name].members
           M == [endpoint : STRING, model : STRING, weight : Int]
           R == Registered(pools.endpoints, members)
           all == Candidates(pools.endpoints, members)
<1>1. members \in Seq(M)
  BY PoolFacts, Zenon
<1>2. R \subseteq MembersIn(pools)
  BY Zenon DEF MembersIn
<1> HIDE DEF pools, members, M
<1>3. all \in Seq(R) /\ Len(all) <= Len(members)
  BY <1>1, CandidatesFacts, Zenon
<1> HIDE DEF all, R
<1>4. all \in Seq(MembersIn(pools))
  <2> DEFINE P == MembersIn(pools)
  <2>1. R \subseteq P
    BY <1>2
  <2> HIDE DEF P
  <2>2. all \in Seq(P)
    BY <1>3, <2>1
  <2> QED
    BY <2>2 DEF P
<1> QED
  BY <1>3, <1>4, Zenon DEF pools, members, all

\* Members of one configuration are members, and weigh something.
LEMMA AllMembersFacts ==
    /\ \A cfg \in Configs : MembersIn(Body[cfg.files["pools"]]) \subseteq AllMembers
    /\ \A m \in AllMembers : m.weight \in Nat \ {0}
<1>1. \A cfg \in Configs : MembersIn(Body[cfg.files["pools"]]) \subseteq AllMembers
  BY Zenon DEF AllMembers
<1>2. ASSUME NEW m \in AllMembers PROVE m.weight \in Nat \ {0}
  <2>1. PICK cfg \in Configs : m \in MembersIn(Body[cfg.files["pools"]])
    BY Zenon DEF AllMembers
  <2> QED
    BY <2>1, MemberFacts, Zenon
<1> QED
  BY <1>1, <1>2, Zenon

-----------------------------------------------------------------------------
(* The reloads *)

\* What a publisher may still have to do.
Todos == {<<"selPricing">>} \union {SubSeq(HolderOrder, i, 7) : i \in 1..8}

\* What a holder may hold: the part of some configuration.
PricingContents == {cfg.files["pricing"] : cfg \in Configs}
PoolsContents == {cfg.files["pools"] : cfg \in Configs}
PolicyContents == {cfg.files["policy"] : cfg \in Configs}
TeamsContents == {cfg.files["teams"] : cfg \in Configs}

\* Publications overlap, so that each holder may have its part of a different
\* configuration.
LiveInv ==
    /\ DOMAIN live = Holders
    /\ live.selPricing \in PricingContents /\ live.costPricing \in PricingContents
    /\ live.selPools \in PoolsContents
    /\ live.policy \in PolicyContents
    /\ live.registry \in TeamsContents
    /\ live.config \in Configs
    /\ pubs \in [Publishers -> [cfg : Configs, todo : Todos]]
    /\ reloads \in 0..MaxReloads
    /\ reloads = 0 => \A p \in Publishers : pubs[p].todo = <<>>

\* The seven holders by name.
LEMMA HolderNames ==
    /\ HolderOrder \in Seq(Holders) /\ Len(HolderOrder) = 7
    /\ HolderOrder[1] = "selPricing" /\ HolderOrder[2] = "selPools"
    /\ HolderOrder[3] = "costPricing" /\ HolderOrder[4] = "policy"
    /\ HolderOrder[5] = "caps" /\ HolderOrder[6] = "registry" /\ HolderOrder[7] = "config"
    /\ Holders = {"selPricing", "selPools", "costPricing", "policy", "caps", "registry", "config"}
<1>1. Len(HolderOrder) = 7 /\ DOMAIN HolderOrder = 1..7
  BY DEF HolderOrder
<1>2. /\ HolderOrder[1] = "selPricing" /\ HolderOrder[2] = "selPools"
      /\ HolderOrder[3] = "costPricing" /\ HolderOrder[4] = "policy"
      /\ HolderOrder[5] = "caps" /\ HolderOrder[6] = "registry" /\ HolderOrder[7] = "config"
  BY DEF HolderOrder
<1>3. \A i \in 1..7 : i = 1 \/ i = 2 \/ i = 3 \/ i = 4 \/ i = 5 \/ i = 6 \/ i = 7
  OBVIOUS
<1>4. Holders = {"selPricing", "selPools", "costPricing", "policy", "caps", "registry", "config"}
  BY <1>1, <1>2, <1>3 DEF Holders
<1>5. HolderOrder \in Seq(Holders)
  BY <1>4 DEF HolderOrder
<1> QED
  BY <1>1, <1>2, <1>4, <1>5, Zenon

\* What is left of the plan, and the next holder.
LEMMA PlanFacts ==
    /\ SubSeq(HolderOrder, 8, 7) = <<>>
    /\ SubSeq(HolderOrder, 1, 7) = HolderOrder
    /\ \A i \in 1..7 : /\ SubSeq(HolderOrder, i, 7) # <<>>
                       /\ Head(SubSeq(HolderOrder, i, 7)) = HolderOrder[i]
                       /\ Tail(SubSeq(HolderOrder, i, 7)) = SubSeq(HolderOrder, i + 1, 7)
<1> DEFINE n == Len(HolderOrder)
<1>1. HolderOrder \in Seq(Holders) /\ n = 7 /\ 7 + 1 = 8
  BY HolderNames
<1>2. /\ SubSeq(HolderOrder, n + 1, n) = <<>>
      /\ SubSeq(HolderOrder, 1, n) = HolderOrder
      /\ \A i \in 1..n : /\ SubSeq(HolderOrder, i, n) # <<>>
                         /\ Head(SubSeq(HolderOrder, i, n)) = HolderOrder[i]
                         /\ Tail(SubSeq(HolderOrder, i, n)) = SubSeq(HolderOrder, i + 1, n)
  BY <1>1, RestOfList, Zenon
<1> HIDE DEF n
<1>3. n + 1 = 8
  BY <1>1
<1> QED
  BY <1>1, <1>2, <1>3, Zenon

\* A publisher starts with a list of holders and takes the next one off it.
LEMMA TodoFacts ==
    /\ Callbacks \subseteq Todos /\ <<>> \in Todos
    /\ \A todo \in Todos : todo # <<>> => Head(todo) \in Holders /\ Tail(todo) \in Todos
<1>1. <<>> \in Todos /\ Callbacks \subseteq Todos
  <2>1. 1 \in 1..8 /\ 8 \in 1..8
    OBVIOUS
  <2>2. SubSeq(HolderOrder, 1, 7) \in Todos /\ SubSeq(HolderOrder, 8, 7) \in Todos
    BY <2>1, Zenon DEF Todos
  <2>3. <<"selPricing">> \in Todos
    BY Zenon DEF Todos
  <2> QED
    BY <2>2, <2>3, PlanFacts, Zenon DEF Callbacks
<1>2. ASSUME NEW todo \in Todos, todo # <<>>
      PROVE  Head(todo) \in Holders /\ Tail(todo) \in Todos
  <2>1. CASE todo = <<"selPricing">>
    <3>1. Head(todo) = "selPricing" /\ Tail(todo) = <<>>
      BY <2>1
    <3> QED
      BY <1>1, <3>1, HolderNames, Zenon
  <2>2. ASSUME NEW i \in 1..8, todo = SubSeq(HolderOrder, i, 7)
        PROVE  Head(todo) \in Holders /\ Tail(todo) \in Todos
    <3>1. i # 8
      BY <1>2, <2>2, PlanFacts, Zenon
    <3>2. i \in 1..7 /\ i + 1 \in 1..8
      BY <3>1
    <3>3. Head(todo) = HolderOrder[i] /\ Tail(todo) = SubSeq(HolderOrder, i + 1, 7)
      BY <2>2, <3>2, PlanFacts, Zenon
    <3>4. HolderOrder[i] \in Holders
      BY <3>2, HolderNames
    <3> QED
      BY <3>2, <3>3, <3>4, Zenon DEF Todos
  <2> QED
    BY <2>1, <2>2, Zenon DEF Todos
<1> QED
  BY <1>1, <1>2, Zenon

\* One holder is given its part of a configuration.
LEMMA PublishedHolder ==
    ASSUME DOMAIN live = Holders, NEW h \in Holders, NEW v,
           live' = [live EXCEPT ![h] = v]
    PROVE  /\ DOMAIN live' = Holders
           /\ \A x \in Holders : live'[x] = IF x = h THEN v ELSE live[x]
  OBVIOUS

\* The entry of one publisher is replaced.
LEMMA PublisherEntry ==
    ASSUME NEW P, NEW R, NEW f \in [P -> R], NEW p \in P, NEW r \in R
    PROVE  [f EXCEPT ![p] = r] \in [P -> R]
  OBVIOUS

\* A publication step.
LEMMA PublishLive ==
    ASSUME LiveInv, NEW p \in Publishers, PublishNext(p)
    PROVE  LiveInv' /\ reloads # 0
<1>1. /\ DOMAIN live = Holders /\ pubs \in [Publishers -> [cfg : Configs, todo : Todos]]
      /\ reloads \in 0..MaxReloads /\ reloads' = reloads /\ reloads # 0
      /\ pubs[p].todo # <<>>
  BY Zenon DEF LiveInv, PublishNext
<1> DEFINE c == pubs[p].cfg
           todo == pubs[p].todo
           h == Head(todo)
           v == Updated(h, c)
           rest == Tail(todo)
<1>2. /\ c \in Configs /\ todo \in Todos /\ pubs[p] = [cfg |-> c, todo |-> todo]
  <2> DEFINE T == Todos
             C == Configs
             entry == pubs[p]
  <2>1. entry \in [cfg : C, todo : T]
    BY <1>1, Zenon
  <2> HIDE DEF T, C, entry
  <2>2. entry.cfg \in C /\ entry.todo \in T /\ entry = [cfg |-> entry.cfg, todo |-> entry.todo]
    BY <2>1
  <2> QED
    BY <2>2, Zenon DEF T, C, entry
<1>3. h \in Holders /\ rest \in Todos
  BY <1>1, <1>2, TodoFacts, Zenon
<1>4. live' = [live EXCEPT ![h] = v] /\ pubs' = [pubs EXCEPT ![p].todo = rest]
  BY Zenon DEF PublishNext
<1>5. pubs' \in [Publishers -> [cfg : Configs, todo : Todos]]
  <2>1. [pubs[p] EXCEPT !.todo = rest] \in [cfg : Configs, todo : Todos]
    <3> DEFINE entry == pubs[p]
    <3>1. entry = [cfg |-> c, todo |-> todo]
      BY <1>2, Zenon
    <3> HIDE DEF entry, c, todo, rest
    <3>2. [entry EXCEPT !.todo = rest] = [cfg |-> c, todo |-> rest]
      BY <3>1
    <3> DEFINE T == Todos
               C == Configs
    <3>3. c \in C /\ rest \in T
      BY <1>2, <1>3
    <3> HIDE DEF T, C
    <3>4. [cfg |-> c, todo |-> rest] \in [cfg : C, todo : T]
      BY <3>3
    <3> QED
      BY <3>2, <3>4, Zenon DEF entry, T, C
  <2>2. pubs' = [pubs EXCEPT ![p] = [pubs[p] EXCEPT !.todo = rest]]
    BY <1>4, Zenon
  <2> QED
    BY <1>1, <2>1, <2>2, PublisherEntry, Zenon
<1> HIDE DEF v
<1>6. DOMAIN live' = Holders /\ \A x \in Holders : live'[x] = IF x = h THEN v ELSE live[x]
  <2> HIDE DEF h
  <2> QED
    BY <1>1, <1>3, <1>4, PublishedHolder
<1>7. /\ h \in {"selPricing", "costPricing"} => v \in PricingContents
      /\ h = "selPools" => v \in PoolsContents
      /\ h = "policy" => v \in PolicyContents
      /\ h = "registry" => v \in TeamsContents
      /\ h = "config" => v \in Configs
  <2>1. /\ c.files["pricing"] \in PricingContents /\ c.files["pools"] \in PoolsContents
        /\ c.files["policy"] \in PolicyContents /\ c.files["teams"] \in TeamsContents
    BY <1>2, Zenon DEF PricingContents, PoolsContents, PolicyContents, TeamsContents
  <2> HIDE DEF h, c
  <2>2. /\ h \in {"selPricing", "costPricing"} => v = c.files["pricing"]
        /\ h = "selPools" => v = c.files["pools"]
        /\ h = "policy" => v = c.files["policy"]
        /\ h = "registry" => v = c.files["teams"]
        /\ h = "config" => v = c
    BY DEF v, Updated
  <2> QED
    BY <1>2, <2>1, <2>2, Zenon
<1> HIDE DEF h
<1>8. /\ live'["selPricing"] \in PricingContents /\ live'["costPricing"] \in PricingContents
      /\ live'["selPools"] \in PoolsContents /\ live'["policy"] \in PolicyContents
      /\ live'["registry"] \in TeamsContents /\ live'["config"] \in Configs
  BY <1>6, <1>7, HolderNames, Zenon DEF LiveInv
<1> QED
  BY <1>1, <1>5, <1>6, <1>8, Zenon DEF LiveInv, PricingContents, PoolsContents, PolicyContents, TeamsContents

\* A reload begins: nothing has been published yet.
LEMMA BeginLive ==
    ASSUME LiveInv, NEW p \in Publishers, NEW cfg \in Configs, NEW holders \in Callbacks,
           BeginPublish(p, cfg, holders)
    PROVE  LiveInv' /\ reloads' # 0
<1>1. /\ pubs \in [Publishers -> [cfg : Configs, todo : Todos]] /\ reloads \in 0..MaxReloads
      /\ reloads < MaxReloads /\ reloads' = reloads + 1 /\ live' = live
      /\ pubs' = [pubs EXCEPT ![p] = [cfg |-> cfg, todo |-> holders]]
  BY Zenon DEF LiveInv, BeginPublish
<1>2. [cfg |-> cfg, todo |-> holders] \in [cfg : Configs, todo : Todos]
  <2> DEFINE T == Todos
             C == Configs
  <2>1. cfg \in C /\ holders \in T
    BY TodoFacts, Zenon
  <2> HIDE DEF T, C
  <2>2. [cfg |-> cfg, todo |-> holders] \in [cfg : C, todo : T]
    BY <2>1
  <2> QED
    BY <2>2, Zenon DEF T, C
<1>3. pubs' \in [Publishers -> [cfg : Configs, todo : Todos]]
  BY <1>1, <1>2, PublisherEntry, Zenon
<1>4. reloads' \in 0..MaxReloads /\ reloads' # 0
  BY <1>1, ReloadsAssumption
<1> QED
  BY <1>1, <1>3, <1>4, Zenon DEF LiveInv, PricingContents, PoolsContents, PolicyContents, TeamsContents

\* Nobody but the reloads touches the holders.
LEMMA LiveKept ==
    ASSUME LiveInv, UNCHANGED reloadVars
    PROVE  LiveInv'
<1>1. live' = live /\ pubs' = pubs /\ reloads' = reloads
  BY Zenon DEF reloadVars
<1> QED
  BY <1>1, Zenon DEF LiveInv, PricingContents, PoolsContents, PolicyContents, TeamsContents

\* What main wired.
LEMMA LiveInit ==
    ASSUME Init
    PROVE  LiveInv /\ ValidatePoolAdapters(Body[live.selPools], Adapters)
<1>1. PICK cfg \in Configs : /\ ValidatePoolAdapters(Body[cfg.files["pools"]], Adapters)
                             /\ live = Wired(cfg)
                             /\ pubs = [p \in Publishers |-> [cfg |-> cfg, todo |-> <<>>]]
  BY Zenon DEF Init
<1>2. reloads = 0
  BY Zenon DEF Init
<1>3. /\ DOMAIN live = Holders
      /\ live.selPricing = cfg.files["pricing"] /\ live.selPools = cfg.files["pools"]
      /\ live.costPricing = cfg.files["pricing"] /\ live.policy = cfg.files["policy"]
      /\ live.registry = cfg.files["teams"] /\ live.config = cfg
  BY <1>1, HolderNames DEF Wired
<1>4. pubs \in [Publishers -> [cfg : Configs, todo : Todos]]
  <2> DEFINE T == Todos
             C == Configs
             none == <<>>
  <2>1. cfg \in C /\ none \in T
    BY TodoFacts, Zenon
  <2>2. pubs = [p \in Publishers |-> [cfg |-> cfg, todo |-> none]]
    BY <1>1
  <2> HIDE DEF T, C, none
  <2>3. [cfg |-> cfg, todo |-> none] \in [cfg : C, todo : T]
    BY <2>1
  <2> DEFINE entry == [cfg |-> cfg, todo |-> none]
             R == [cfg : C, todo : T]
  <2>4. entry \in R /\ pubs = [p \in Publishers |-> entry]
    BY <2>2, <2>3
  <2> HIDE DEF entry, R
  <2>5. pubs \in [Publishers -> R]
    BY <2>4
  <2> QED
    BY <2>5 DEF R, T, C
<1>5. reloads \in 0..MaxReloads
  BY <1>2, ReloadsAssumption
<1>6. \A p \in Publishers : pubs[p].todo = <<>>
  BY <1>1
<1>7. LiveInv
  BY <1>2, <1>3, <1>4, <1>5, <1>6, Zenon
     DEF LiveInv, PricingContents, PoolsContents, PolicyContents, TeamsContents
<1> QED
  BY <1>1, <1>3, <1>7, Zenon

\* Each holder has its part of some configuration.
LEMMA LiveParts ==
    ASSUME LiveInv
    PROVE  /\ \E cfg \in Configs : live.selPricing = cfg.files["pricing"]
           /\ \E cfg \in Configs : live.selPools = cfg.files["pools"]
           /\ \E cfg \in Configs : live.costPricing = cfg.files["pricing"]
           /\ \E cfg \in Configs : live.policy = cfg.files["policy"]
           /\ \E cfg \in Configs : live.registry = cfg.files["teams"]
           /\ live.config \in Configs
  BY Zenon DEF LiveInv, PricingContents, PoolsContents, PolicyContents, TeamsContents

\* The steps of the reloads.
ReloadStep ==
    \/ \E p \in Publishers : PublishNext(p)
    \/ \E p \in Publishers, cfg \in Configs, holders \in Callbacks : BeginPublish(p, cfg, holders)

\* What a reload does to a request: it may change the tables, and then the request is
\* marked.
LEMMA ReloadStepFacts ==
    ASSUME LiveInv, ReloadStep, moved \in BOOLEAN
    PROVE  /\ UNCHANGED <<pc, requestVars>> /\ LiveInv'
           /\ prices \subseteq prices' /\ prices' \subseteq prices \union {live'.selPricing}
           /\ live.selPricing \in prices => live'.selPricing \in prices'
           /\ moved' \in BOOLEAN
           /\ ~moved' => ~moved /\ live' = live
           /\ reloads' # 0
<1>1. ASSUME NEW p \in Publishers, PublishNext(p)
      PROVE  /\ UNCHANGED <<pc, requestVars>> /\ LiveInv' /\ moved' = (moved \/ live' # live)
             /\ prices' = prices \union {live'.selPricing} /\ reloads' # 0
  <2>1. /\ UNCHANGED <<pc, requestVars>> /\ moved' = (moved \/ live' # live)
        /\ prices' = prices \union {live'.selPricing} /\ reloads' = reloads
    BY <1>1, Zenon DEF PublishNext
  <2> QED
    BY <1>1, <2>1, PublishLive, Zenon
<1>2. CASE \E p \in Publishers : PublishNext(p)
  <2>1. /\ UNCHANGED <<pc, requestVars>> /\ LiveInv' /\ moved' = (moved \/ live' # live)
        /\ prices' = prices \union {live'.selPricing} /\ reloads' # 0
    BY <1>1, <1>2, Zenon
  <2>2. moved' \in BOOLEAN /\ (~moved' => ~moved /\ live' = live)
    BY <2>1, Zenon
  <2>3. /\ prices \subseteq prices' /\ prices' \subseteq prices \union {live'.selPricing}
        /\ live'.selPricing \in prices'
    BY <2>1, Zenon
  <2> QED
    BY <2>1, <2>2, <2>3, Zenon
<1>3. ASSUME NEW p \in Publishers, NEW cfg \in Configs, NEW holders \in Callbacks,
             BeginPublish(p, cfg, holders)
      PROVE  /\ UNCHANGED <<pc, requestVars>> /\ LiveInv'
             /\ prices' = prices /\ live' = live /\ moved' = moved /\ reloads' # 0
  <2>1. UNCHANGED <<pc, requestVars>> /\ prices' = prices /\ live' = live /\ moved' = moved
    BY <1>3, Zenon DEF BeginPublish
  <2> QED
    BY <1>3, <2>1, BeginLive, Zenon
<1>4. CASE \E p \in Publishers, cfg \in Configs, holders \in Callbacks : BeginPublish(p, cfg, holders)
  <2>1. /\ UNCHANGED <<pc, requestVars>> /\ LiveInv'
        /\ prices' = prices /\ live' = live /\ moved' = moved /\ reloads' # 0
    BY <1>3, <1>4, Zenon
  <2>2. prices \subseteq prices' /\ prices' \subseteq prices \union {live'.selPricing}
    BY <2>1, Zenon
  <2> QED
    BY <2>1, <2>2, Zenon
<1> QED
  BY <1>2, <1>4, Zenon DEF ReloadStep

\* The tables that bill are decoded and valid.
LEMMA BillingTable ==
    ASSUME LiveInv
    PROVE  Body[live.costPricing] \in Seq(PricingRow) /\ ValidPricing(Body[live.costPricing])
<1>1. PICK cfg \in Configs : live.costPricing = cfg.files["pricing"]
  BY LiveParts, Zenon
<1>2. Body[cfg.files["pricing"]] \in Seq(PricingRow)
  BY ConfigsAssumption, Zenon DEF Decoded, PricingRow
<1> QED
  BY <1>1, <1>2, ConfigFacts, Zenon

-----------------------------------------------------------------------------
(* The decision of a request *)

Capabilities == {"cache_control", "extended_thinking", "vision"}

\* What every request may decide.
AllPools == UNION {DOMAIN Body[cfg.files["pools"]].pools : cfg \in Configs}
AnyDecision ==
    [action : {"route", "allow"}, pool : OrNone(AllPools), tier : {""}, regions : {{}},
     required : SUBSET Capabilities]

\* Records of the shape of a decision.
LEMMA WiderRecord ==
    ASSUME NEW A, NEW P, NEW T, NEW G, NEW Q, NEW P2, NEW Q2, P \subseteq P2, Q \subseteq Q2,
           NEW d \in [action : A, pool : P, tier : T, regions : G, required : Q]
    PROVE  d \in [action : A, pool : P2, tier : T, regions : G, required : Q2]
  OBVIOUS

\* Adding to what a decision requires leaves its other fields alone.
LEMMA MoreRequired ==
    ASSUME NEW A, NEW P, NEW T, NEW G, NEW C, NEW hard, hard \subseteq C,
           NEW d \in [action : A, pool : P, tier : T, regions : G, required : SUBSET C]
    PROVE  LET z == [d EXCEPT !.required = @ \union hard]
           IN  /\ z \in [action : A, pool : P, tier : T, regions : G, required : SUBSET C]
               /\ z.action = d.action /\ z.pool = d.pool /\ z.required = d.required \union hard
  OBVIOUS

\* Decide, with the rules of an accepted policy in any order that the sort leaves.
LEMMA DecideFacts ==
    ASSUME NEW cfg \in Configs, NEW sender,
           NEW sorted \in SortedRules(Body[cfg.files["policy"]].rules)
    PROVE  LET d == Decide(sorted, Body[cfg.files["policy"]].default, sender)
           IN  /\ d \in AnyDecision
               /\ d.action = "route" =>
                     d.pool # "" /\ d.pool \in DOMAIN Body[cfg.files["pools"]].pools
<1> DEFINE policy == Body[cfg.files["policy"]]
           pools == Body[cfg.files["pools"]].pools
           names == DOMAIN pools \ {""}
           rules == policy.rules
           R == {rules[i] : i \in DOMAIN rules}
           d == Decide(sorted, policy.default, sender)
<1>1. /\ Named(names) /\ Routes(policy.default, names)
      /\ \A i \in DOMAIN rules : Routes(rules[i], names)
  BY PolicyRoutes, Zenon
<1>2. rules \in Seq(R)
  BY ConfigsAssumption, Zenon DEF Decoded
<1>3. PICK o \in [DOMAIN rules -> DOMAIN rules] : sorted = [i \in DOMAIN rules |-> rules[o[i]]]
  BY Zenon DEF SortedRules
<1>4. sorted \in Seq(R) /\ \A k \in 1..Len(sorted) : \E i \in DOMAIN rules : sorted[k] = rules[i]
  <2>1. \A i \in DOMAIN rules : rules[o[i]] \in R /\ o[i] \in DOMAIN rules
    BY <1>3, Zenon
  <2> HIDE DEF rules, R
  <2>2. Len(rules) \in Nat /\ DOMAIN rules = 1..Len(rules)
    BY <1>2
  <2>3. sorted \in Seq(R) /\ Len(sorted) = Len(rules)
    BY <1>3, <2>1, <2>2
  <2> QED
    BY <1>3, <2>1, <2>2, <2>3
<1>5. \A k \in 1..Len(sorted) : Routes(sorted[k], names)
  BY <1>1, <1>4, Zenon
<1> HIDE DEF R, rules
<1>6. d \in Decisions(names)
  <2> HIDE DEF names, policy
  <2> QED
    BY <1>1, <1>4, <1>5, DecideNamesAPool, Zenon
<1> HIDE DEF d
<1>7. d.action = "route" => d.pool \in names
  <2> HIDE DEF names
  <2> QED
    BY <1>6, DecisionFacts, Zenon
<1>8. d \in AnyDecision
  <2> DEFINE A == {"route", "allow"}
             T == {""}
             G == {{}}
             Q == {{}}
             Q2 == SUBSET Capabilities
             P == OrNone(names)
             P2 == OrNone(AllPools)
  <2>1. d \in [action : A, pool : P, tier : T, regions : G, required : Q]
    BY <1>6, Zenon DEF Decisions
  <2>2. P \subseteq P2 /\ Q \subseteq Q2
    BY Zenon DEF OrNone, AllPools
  <2>3. AnyDecision = [action : A, pool : P2, tier : T, regions : G, required : Q2]
    BY Zenon DEF AnyDecision
  <2> HIDE DEF A, T, G, Q, Q2, P, P2
  <2> QED
    BY <2>1, <2>2, <2>3, WiderRecord, Zenon
<1> QED
  BY <1>7, <1>8, Zenon DEF d

\* What a body may require.
LEMMA DetectFacts ==
    ASSUME NEW body
    PROVE  DetectCapabilities(body) \subseteq Capabilities
  BY Zenon DEF DetectCapabilities, Capabilities

\* What it requires whatever the policy allows.
LEMMA HardFacts ==
    ASSUME NEW body, NEW allowed
    PROVE  Hard(body, allowed) \subseteq Capabilities
  BY DetectFacts, Zenon DEF Hard, FilterDegradable

\* RequireCapabilities adds to what is required and changes nothing else.
LEMMA RequireFacts ==
    ASSUME NEW d \in AnyDecision, NEW hard, hard \subseteq Capabilities
    PROVE  LET z == [d EXCEPT !.required = @ \union hard]
           IN  /\ z \in AnyDecision
               /\ z.action = d.action /\ z.pool = d.pool /\ z.required = d.required \union hard
<1> DEFINE A == {"route", "allow"}
           T == {""}
           G == {{}}
           P == OrNone(AllPools)
<1>1. AnyDecision = [action : A, pool : P, tier : T, regions : G, required : SUBSET Capabilities]
  BY Zenon DEF AnyDecision
<1> HIDE DEF A, T, G, P
<1> QED
  BY <1>1, MoreRequired, Zenon

=============================================================================
