-------------------------- MODULE LocalProxyProofs --------------------------
(***************************************************************************)
(* The relay of the local proxy, for every set of streams and bodies and   *)
(* every way the reads may cut them: the agent gets the provider's bytes   *)
(* unchanged and in order, the ledger follows the usage event, and the     *)
(* gateway serves a request once.                                          *)
(***************************************************************************)
EXTENDS LocalProxy, SequenceTheorems, WellFoundedInduction, TLAPS

USE BytesAssumption

-----------------------------------------------------------------------------
(* Runs of newlines, and the first delimiter. *)

\* The first n of the bytes w end on a frame boundary.
Boundary(w, n) ==
    \/ n = 0
    \/ \E pairs \in 1..n :
          /\ 2 * pairs <= n
          /\ \A i \in n - 2 * pairs + 1 .. n : w[i] = NL
          /\ 2 * pairs < n => w[n - 2 * pairs] # NL

\* Bytes p + 1 to p + k of w hold no delimiter.
NoDelimiter(w, p, k) == \A j \in 1..k - 1 : ~(w[p + j] = NL /\ w[p + j + 1] = NL)

\* A non-empty set of naturals has a least member.
LEMMA LeastMember ==
    ASSUME NEW T \in SUBSET Nat, T # {}
    PROVE  \E i \in T : \A j \in T : i <= j
<1>1. PICK i \in T : \A j \in T : ~(<<j, i>> \in OpToRel(<, Nat))
  BY WFMin, NatLessThanWellFounded, Zenon
<1>2. \A j \in T : ~(j < i)
  BY <1>1, Zenon DEF OpToRel
<1> QED BY <1>2

\* Index finds the first delimiter, if there is one.
LEMMA IndexIs ==
    ASSUME NEW S, NEW s \in Seq(S)
    PROVE  /\ Index(s) \in 0..Len(s) - 1 \/ Index(s) = 0
           /\ Index(s) > 0 => /\ s[Index(s)] = NL /\ s[Index(s) + 1] = NL
                              /\ \A j \in 1..Index(s) - 1 : ~(s[j] = NL /\ s[j + 1] = NL)
           /\ Index(s) = 0 => \A j \in 1..Len(s) - 1 : ~(s[j] = NL /\ s[j + 1] = NL)
<1> DEFINE hits == {i \in 1..Len(s) - 1 : s[i] = NL /\ s[i + 1] = NL}
           least == CHOOSE i \in hits : \A j \in hits : i <= j
<1>1. Len(s) \in Nat
  OBVIOUS
<1>2. CASE hits = {}
  <2>1. Index(s) = 0
    BY <1>2 DEF Index
  <2>2. \A j \in 1..Len(s) - 1 : j \notin hits
    BY <1>2, Zenon
  <2>3. \A j \in 1..Len(s) - 1 : ~(s[j] = NL /\ s[j + 1] = NL)
    BY <2>2
  <2> QED BY <2>1, <2>3
<1>3. CASE hits # {}
  <2>1. hits \in SUBSET Nat
    OBVIOUS
  <2> HIDE DEF hits
  <2>2. least \in hits /\ \A j \in hits : least <= j
    BY <1>3, <2>1, LeastMember, Zenon
  <2>3. Index(s) = least
    BY <1>3, Zenon DEF Index, hits
  <2> HIDE DEF least
  <2>4. Index(s) \in 1..Len(s) - 1 /\ s[Index(s)] = NL /\ s[Index(s) + 1] = NL
    BY <2>2, <2>3 DEF hits
  <2>5. ASSUME NEW j \in 1..Index(s) - 1 PROVE ~(s[j] = NL /\ s[j + 1] = NL)
    <3>1. j \in 1..Len(s) - 1 /\ ~(Index(s) <= j)
      BY <1>1, <2>4
    <3> QED BY <2>2, <2>3, <3>1 DEF hits
  <2> QED BY <1>1, <2>4, <2>5
<1> QED BY <1>2, <1>3

\* The delimiter that ends a frame is again a boundary.
LEMMA NextBoundary ==
    ASSUME NEW w, NEW p \in Nat, NEW k \in Nat \ {0}, Boundary(w, p), NoDelimiter(w, p, k),
           w[p + k] = NL, w[p + k + 1] = NL
    PROVE  Boundary(w, p + k + 1)
<1> DEFINE n == p + k + 1
<1>1. CASE k = 1 /\ p = 0
  <2>1. 1 \in 1..n /\ 2 * 1 <= n /\ ~(2 * 1 < n) /\ \A i \in n - 2 * 1 + 1 .. n : w[i] = NL
    <3>1. n = 2
      BY <1>1
    <3>2. \A i \in n - 2 * 1 + 1 .. n : i = p + k \/ i = p + k + 1
      BY <1>1, <3>1
    <3> QED BY <3>1, <3>2
  <2> QED BY <2>1 DEF Boundary
<1>2. CASE k = 1 /\ p # 0
  <2>1. PICK h \in 1..p : /\ 2 * h <= p
                          /\ \A i \in p - 2 * h + 1 .. p : w[i] = NL
                          /\ 2 * h < p => w[p - 2 * h] # NL
    BY <1>2 DEF Boundary
  <2>2. /\ h + 1 \in 1..n /\ 2 * (h + 1) <= n /\ n - 2 * (h + 1) = p - 2 * h
        /\ 2 * (h + 1) < n => 2 * h < p
    BY <1>2, <2>1
  <2>3. ASSUME NEW i \in n - 2 * (h + 1) + 1 .. n PROVE w[i] = NL
    <3>1. i \in p - 2 * h + 1 .. p \/ i = p + k \/ i = p + k + 1
      BY <1>2, <2>2
    <3> QED BY <2>1, <3>1
  <2> QED BY <2>1, <2>2, <2>3, Zenon DEF Boundary
<1>3. CASE k > 1
  <2>1. k - 1 \in 1..k - 1 /\ p + (k - 1) + 1 = p + k
    BY <1>3
  <2>2. w[p + (k - 1)] # NL
    BY <2>1, Zenon DEF NoDelimiter
  <2>3. 1 \in 1..n /\ 2 * 1 <= n /\ n - 2 * 1 = p + (k - 1)
    BY <1>3
  <2>4. \A i \in n - 2 * 1 + 1 .. n : i = p + k \/ i = p + k + 1
    BY <1>3
  <2> HIDE DEF n
  <2>5. (\A i \in n - 2 * 1 + 1 .. n : w[i] = NL) /\ w[n - 2 * 1] # NL
    BY <2>2, <2>3, <2>4
  <2> QED BY <2>3, <2>5, Zenon DEF Boundary, n
<1> QED BY <1>1, <1>2, <1>3

\* Bytes that a frame runs across do not end on a boundary.
LEMMA NoBoundaryInside ==
    ASSUME NEW w, NEW p \in Nat, NEW k \in Nat, NEW f \in Nat, Boundary(w, p),
           NoDelimiter(w, p, k), p < f, f < p + k
    PROVE  ~Boundary(w, f)
<1> SUFFICES ASSUME Boundary(w, f) PROVE FALSE
  OBVIOUS
<1>1. PICK h \in 1..f : /\ 2 * h <= f
                        /\ \A i \in f - 2 * h + 1 .. f : w[i] = NL
                        /\ 2 * h < f => w[f - 2 * h] # NL
  BY DEF Boundary
<1>2. f \in f - 2 * h + 1 .. f /\ f - 1 \in f - 2 * h + 1 .. f
  BY <1>1
<1>3. w[f] = NL /\ w[f - 1] = NL
  BY <1>1, <1>2
<1>4. CASE p < f - 1
  <2>1. (f - 1) - p \in 1..k - 1 /\ p + ((f - 1) - p) = f - 1 /\ p + ((f - 1) - p) + 1 = f
    BY <1>4
  <2> QED BY <1>3, <2>1, Zenon DEF NoDelimiter
<1>5. CASE p = f - 1
  <2>1. p # 0
    BY <1>1, <1>5
  <2>2. PICK g \in 1..p : /\ 2 * g <= p
                          /\ \A i \in p - 2 * g + 1 .. p : w[i] = NL
                          /\ 2 * g < p => w[p - 2 * g] # NL
    BY <2>1 DEF Boundary
  <2>3. CASE h <= g
    <3>1. f - 2 * h \in p - 2 * g + 1 .. p /\ 2 * h < f
      BY <1>1, <1>5, <2>2, <2>3
    <3> QED BY <1>1, <2>2, <3>1
  <2>4. CASE g < h
    <3>1. 2 * g < p /\ p - 2 * g \in f - 2 * h + 1 .. f
      BY <1>1, <1>5, <2>2, <2>4
    <3> QED BY <1>1, <2>2, <3>1
  <2> QED BY <2>3, <2>4
<1> QED BY <1>4, <1>5

-----------------------------------------------------------------------------
(* Pieces of a byte string. *)

\* s is the piece of w that begins after byte o.
Holds(w, s, o) == \A i \in 1..Len(s) : s[i] = w[o + i]

\* Adjacent pieces make a piece.
LEMMA HoldsConcat ==
    ASSUME NEW S, NEW s \in Seq(S), NEW t \in Seq(S), NEW w, NEW o \in Nat,
           Holds(w, s, o), Holds(w, t, o + Len(s))
    PROVE  s \o t \in Seq(S) /\ Len(s \o t) = Len(s) + Len(t) /\ Holds(w, s \o t, o)
<1>1. s \o t \in Seq(S) /\ Len(s \o t) = Len(s) + Len(t)
  OBVIOUS
<1>2. ASSUME NEW i \in 1..Len(s) + Len(t) PROVE (s \o t)[i] = w[o + i]
  <2>1. CASE i <= Len(s)
    <3>1. i \in 1..Len(s) /\ (s \o t)[i] = s[i]
      BY <2>1
    <3> QED BY <3>1 DEF Holds
  <2>2. CASE ~(i <= Len(s))
    <3>1. i - Len(s) \in 1..Len(t) /\ (s \o t)[i] = t[i - Len(s)]
      BY <2>2
    <3>2. o + Len(s) + (i - Len(s)) = o + i
      BY <2>2
    <3> QED BY <3>1, <3>2 DEF Holds
  <2> QED BY <2>1, <2>2
<1> QED BY <1>1, <1>2 DEF Holds

\* A piece of a piece is a piece.
LEMMA HoldsFirst ==
    ASSUME NEW S, NEW s \in Seq(S), NEW w, NEW o \in Nat, Holds(w, s, o),
           NEW n \in 0..Len(s)
    PROVE  /\ SubSeq(s, 1, n) \in Seq(S) /\ Len(SubSeq(s, 1, n)) = n
           /\ Holds(w, SubSeq(s, 1, n), o)
<1>1. /\ SubSeq(s, 1, n) \in Seq(S) /\ Len(SubSeq(s, 1, n)) = n
      /\ \A i \in 1..n : SubSeq(s, 1, n)[i] = s[i]
  BY SubSeqProperties
<1> QED BY <1>1 DEF Holds

\* What is left of a piece of the stream behind a position in it.
LEMMA HoldsAfter ==
    ASSUME NEW S, NEW s \in Seq(S), NEW w, NEW o \in Nat, Holds(w, s, o),
           NEW n \in 0..Len(s)
    PROVE  /\ SubSeq(s, n + 1, Len(s)) \in Seq(S)
           /\ Len(SubSeq(s, n + 1, Len(s))) = Len(s) - n
           /\ Holds(w, SubSeq(s, n + 1, Len(s)), o + n)
<1>1. /\ SubSeq(s, n + 1, Len(s)) \in Seq(S)
      /\ Len(SubSeq(s, n + 1, Len(s))) = Len(s) - n
      /\ \A i \in 1..Len(s) - n : SubSeq(s, n + 1, Len(s))[i] = s[n + i]
  BY SubSeqProperties
<1>2. \A i \in 1..Len(s) - n : n + i \in 1..Len(s) /\ o + (n + i) = o + n + i
  OBVIOUS
<1> QED BY <1>1, <1>2 DEF Holds

\* A piece with one more byte.
LEMMA HoldsAppend ==
    ASSUME NEW S, NEW s \in Seq(S), NEW x \in S, NEW w, NEW o \in Nat, Holds(w, s, o),
           x = w[o + Len(s) + 1]
    PROVE  /\ Append(s, x) \in Seq(S) /\ Len(Append(s, x)) = Len(s) + 1
           /\ Holds(w, Append(s, x), o)
<1>1. /\ Append(s, x) \in Seq(S) /\ Len(Append(s, x)) = Len(s) + 1
      /\ \A i \in 1..Len(s) : Append(s, x)[i] = s[i]
      /\ Append(s, x)[Len(s) + 1] = x
  OBVIOUS
<1>2. \A i \in 1..Len(s) + 1 : i \in 1..Len(s) \/ i = Len(s) + 1
  OBVIOUS
<1>3. o + (Len(s) + 1) = o + Len(s) + 1
  OBVIOUS
<1> QED BY <1>1, <1>2, <1>3 DEF Holds

\* Only the bytes of a piece matter to it.
LEMMA HoldsKept ==
    ASSUME NEW S, NEW s \in Seq(S), NEW w, NEW v, NEW o \in Nat, NEW n \in Nat,
           o + Len(s) <= n, \A i \in 1..n : w[i] = v[i], Holds(w, s, o)
    PROVE  Holds(v, s, o)
<1>1. \A i \in 1..Len(s) : o + i \in 1..n
  OBVIOUS
<1> QED BY <1>1 DEF Holds

\* Only the first bytes matter to a boundary.
LEMMA BoundaryKept ==
    ASSUME NEW w, NEW v, NEW n \in Nat, \A i \in 1..n : w[i] = v[i]
    PROVE  Boundary(w, n) <=> Boundary(v, n)
<1>1. ASSUME NEW h \in 1..n, 2 * h <= n
      PROVE  /\ \A i \in n - 2 * h + 1 .. n : i \in 1..n
             /\ 2 * h < n => n - 2 * h \in 1..n
  BY <1>1
<1> QED BY <1>1, Zenon DEF Boundary

-----------------------------------------------------------------------------
(* The inductive invariant. *)

Tokens == Bytes \union Metadata \union {"api error", "bad gateway"}

\* Everything the gateway has put on the wire, byte by byte, and how much it is.
Whole == [i \in Nat |-> IF i <= fed THEN text[i] ELSE IF i = fed + 1 THEN tail ELSE NL]
Total == IF tail \in Metadata THEN fed + 3 ELSE fed

\* Types, those of the byte strings included.
Shape ==
    /\ TypeOK
    /\ text \in Seq(Bytes)
    /\ out \in Seq(Tokens) /\ buf \in Seq(Tokens) /\ pipe \in Seq(Tokens)

\* Before an answer has come.
Blank ==
    /\ status = "none" /\ text = <<>> /\ fed = 0 /\ tail = "none"
    /\ pipe = <<>> /\ buf = <<>> /\ ~eof /\ out = <<>> /\ ledger = <<>> /\ ~dropped

\* What was written, what is buffered and what is on its way are everything sent.
Flow ==
    /\ Holds(Whole, out, 0)
    /\ Holds(Whole, buf, Len(out))
    /\ Holds(Whole, pipe, Len(out) + Len(buf))
    /\ Len(out) + Len(buf) + Len(pipe) = Total

\* The usage event has been taken out and recorded.
Taken ==
    /\ tail = "usage" /\ buf = <<>> /\ pipe = <<>>
    /\ Len(out) = fed /\ Holds(Whole, out, 0) /\ Boundary(Whole, fed)
    /\ ledger = <<forwards>> \/ (ledger = <<>> /\ dropped)

\* The agent has been sent the gateway's event only behind an unfinished one.
Glued == Len(out) > fed => ~Boundary(Whole, fed)

Relaying ==
    /\ status = "200" /\ tail \in Metadata \union {"none"}
    /\ eof => tail # "none" /\ pipe = <<>>
    /\ Taken \/ (Flow /\ Boundary(Whole, Len(out)) /\ Glued /\ ledger = <<>>)

Copying ==
    /\ status = "4xx" /\ tail = "close" /\ fed = Len(text)
    /\ buf = <<>> /\ Flow /\ ledger = <<>>

\* What the agent may have been sent.
Partial == Holds(Whole, out, 0) /\ Len(out) <= Total /\ Glued

Error == [i \in Nat |-> IF i = fed + 1 THEN "api error" ELSE Whole[i]]
Translated ==
    /\ tail = "error" /\ Boundary(Whole, fed)
    /\ Len(out) >= fed /\ Len(out) <= fed + 3
    /\ Holds(Error, out, 0)

\* An answer that nothing interrupted.
Complete ==
    /\ tail # "none"
    /\ tail = "close" => Len(out) = fed
    /\ tail \in Metadata /\ ~Boundary(Whole, fed) => Len(out) = fed + 3
    /\ tail = "usage" /\ Boundary(Whole, fed) => Len(out) = fed /\ (ledger # <<>> \/ dropped)
    /\ tail = "error" /\ Boundary(Whole, fed) => Len(out) = fed + 3

Ended ==
    /\ status = "200" => tail \in Metadata \union {"none"}
    /\ status = "4xx" => tail = "close" /\ fed = Len(text)
    /\ Partial \/ Translated
    /\ ledger # <<>> => ledger = <<forwards>> /\ tail = "usage" /\ Boundary(Whole, fed)
    /\ link = "up" /\ agent = "there" => Complete

IndInv ==
    /\ Shape
    /\ at \in {"idle", "waiting"} => Blank
    /\ at = "idle" => forwards = 0
    /\ at = "waiting" => forwards \in 1..2
    /\ at = "relay" => Relaying
    /\ at = "copy" => Copying
    /\ at = "done" => \/ status = "bad gateway" /\ tail = "none" /\ ledger = <<>>
                      \/ status \in {"200", "4xx"} /\ Ended

-----------------------------------------------------------------------------
(* The steps. *)

\* What is on the wire: the provider's bytes, and at most one event of the gateway.
LEMMA WholeIs ==
    ASSUME Shape
    PROVE  /\ fed \in Nat /\ Total \in Nat /\ fed <= Total
           /\ \A i \in 1..fed : Whole[i] = text[i] /\ Whole[i] \in Bytes
           /\ Whole[fed + 1] = tail
           /\ \A i \in Nat : i > fed + 1 => Whole[i] = NL
<1>1. fed \in Nat /\ fed <= Len(text) /\ Len(text) \in Nat
  <2>1. text \in Seq(Bytes) /\ fed \in 0..Len(text)
    BY Zenon DEF Shape, TypeOK
  <2>2. Len(text) \in Nat
    BY <2>1
  <2>3. fed \in Nat /\ fed <= Len(text)
    BY <2>1, <2>2
  <2> QED BY <2>2, <2>3
<1>2. \A i \in 1..fed : i \in 1..Len(text) /\ i \in Nat
  BY <1>1
<1>3. \A i \in 1..fed : Whole[i] = text[i] /\ Whole[i] \in Bytes
  <2>1. \A i \in 1..fed : text[i] \in Bytes
    BY <1>2 DEF Shape
  <2>2. \A i \in 1..fed : Whole[i] = text[i]
    BY <1>1, <1>2 DEF Whole
  <2> QED BY <2>1, <2>2
<1>4. Whole[fed + 1] = tail
  BY <1>1 DEF Whole
<1>5. \A i \in Nat : i > fed + 1 => Whole[i] = NL
  BY <1>1 DEF Whole
<1> QED BY <1>1, <1>3, <1>4, <1>5 DEF Total

\* The empty string is a piece of everything.
LEMMA NothingHolds ==
    /\ Len(<<>>) = 0 /\ \A S : <<>> \in Seq(S)
    /\ \A w, o : Holds(w, <<>>, o)
BY DEF Holds

\* Short strings.
LEMMA OneByte ==
    ASSUME NEW S, NEW x \in S
    PROVE  <<x>> \in Seq(S) /\ Len(<<x>>) = 1 /\ <<x>>[1] = x
OBVIOUS

\* Two bytes as a sequence.
LEMMA TwoBytes ==
    ASSUME NEW S, NEW x \in S
    PROVE  /\ <<x, x>> \in Seq(S) /\ Len(<<x, x>>) = 2
           /\ <<x, x>>[1] = x /\ <<x, x>>[2] = x
OBVIOUS

\* The initial state.
LEMMA InitInd == Init => IndInv
<1> SUFFICES ASSUME Init PROVE IndInv
  OBVIOUS
<1>1. Len(<<>>) = 0 /\ \A S : <<>> \in Seq(S)
  BY NothingHolds
<1>2. Blank /\ at = "idle" /\ forwards = 0 /\ link = "up" /\ agent = "there"
  BY DEF Init, Blank
<1>3. Shape
  <2>1. TypeOK
    <3>1. fed \in 0..Len(text)
      BY <1>1, <1>2 DEF Blank
    <3>2. forwards \in 0..2
      BY <1>2 DEF Blank
    <3> QED BY <1>2, <3>1, <3>2, Zenon DEF TypeOK, Blank, Init
  <2> QED BY <1>1, <1>2, <2>1, Zenon DEF Shape, Blank
<1> QED BY <1>2, <1>3 DEF IndInv, Blank

\* The link and the agent go away; nothing else changes.
LEMMA SameInd ==
    ASSUME IndInv, UNCHANGED <<at, gwVars, pipe, lpVars>>,
           link' \in {"up", "broken"}, agent' \in {"there", "gone"},
           link' = "up" /\ agent' = "there" => link = "up" /\ agent = "there"
    PROVE  IndInv'
<1>1. Whole' = Whole /\ Total' = Total
  BY DEF Whole, Total, gwVars
<1>2. /\ Blank' = Blank /\ Relaying' = Relaying /\ Copying' = Copying
      /\ Partial' = Partial /\ Translated' = Translated /\ Complete' = Complete
  BY <1>1 DEF gwVars, lpVars, Blank, Relaying, Taken, Flow, Glued, Copying, Partial,
              Translated, Error, Complete
<1>3. Shape'
  BY Zenon DEF IndInv, Shape, TypeOK, gwVars, lpVars
<1>4. Ended => Ended'
  BY <1>1, <1>2 DEF Ended, gwVars, lpVars
<1> QED BY <1>2, <1>3, <1>4, Zenon DEF IndInv, gwVars, lpVars

\* Post sends the first request.
LEMMA PostInd == IndInv /\ Post => IndInv'
BY DEF IndInv, Post, Shape, TypeOK, Blank, gwVars

\* No answer, or a 5xx.
LEMMA NoAnswerInd == IndInv /\ (TransportError \/ ServerError) => IndInv'
<1> SUFFICES ASSUME IndInv, TransportError \/ ServerError PROVE IndInv'
  OBVIOUS
<1>1. at = "waiting" /\ Blank /\ forwards \in 1..2
  BY Zenon DEF IndInv, TransportError, ServerError
<1>2. CASE BadGateway
  <2>1. Shape'
    <3>1. out' \in Seq(Tokens)
      <4>1. "bad gateway" \in Tokens /\ out \in Seq(Tokens)
        BY Zenon DEF Tokens, IndInv, Shape
      <4>2. <<"bad gateway">> \in Seq(Tokens)
        BY <4>1, OneByte, Zenon
      <4> QED BY <1>2, <4>1, <4>2, Zenon DEF BadGateway
    <3>2. forwards' = forwards
      <4>1. at' = "done" /\ at = "waiting"
        BY <1>1, <1>2, Zenon DEF BadGateway
      <4> QED BY <4>1 DEF TransportError, ServerError
    <3>3. /\ text' = text /\ fed' = fed /\ tail' = tail /\ pipe' = pipe /\ link' = link
          /\ agent' = agent /\ buf' = buf /\ eof' = eof /\ ledger' = ledger
          /\ dropped' = dropped /\ at' = "done" /\ status' = "bad gateway"
      BY <1>2, Zenon DEF TransportError, ServerError, BadGateway
    <3> QED BY <3>1, <3>2, <3>3, Zenon DEF IndInv, Shape, TypeOK
  <2>2. /\ at' = "done" /\ status' = "bad gateway" /\ tail' = "none" /\ ledger' = <<>>
    BY <1>1, <1>2, Zenon DEF BadGateway, TransportError, ServerError, Blank
  <2> QED BY <2>1, <2>2, Zenon DEF IndInv
<1>3. CASE ServerError /\ forwards = 1
  BY <1>1, <1>3 DEF ServerError, IndInv, Shape, TypeOK, Blank
<1> QED BY <1>1, <1>2, <1>3 DEF TransportError, ServerError

\* A refusal is relayed from its beginning.
LEMMA RefusedInd ==
    ASSUME IndInv, NEW body \in Bodies, Refused(body)
    PROVE  IndInv'
<1>1. /\ Blank /\ at' = "copy" /\ status' = "4xx" /\ text' = body /\ fed' = Len(body)
      /\ tail' = "close" /\ pipe' = body /\ out' = <<>> /\ buf' = <<>> /\ ledger' = <<>>
  BY DEF IndInv, Refused, Blank, lpVars
<1>2. body \in Seq(Bytes) /\ body \in Seq(Tokens) /\ Len(body) \in Nat
  <2>1. body \in Seq(Bytes) /\ Bytes \subseteq Tokens
    BY Zenon DEF Tokens
  <2> QED BY <2>1
<1>3. Shape'
  <2>1. fed' \in 0..Len(text')
    BY <1>1, <1>2
  <2>2. /\ at' = "copy" /\ forwards' = forwards /\ status' = "4xx"
        /\ tail' = "close" /\ link' = link /\ agent' = agent /\ eof' = eof
        /\ dropped' = dropped /\ out' = out /\ buf' = buf
    BY <1>1 DEF Refused, lpVars
  <2> QED BY <1>1, <1>2, <2>1, <2>2, Zenon DEF IndInv, Shape, TypeOK
<1>4. \A i \in 1..Len(body) : body[i] = Whole'[i] /\ 0 + 0 + i = i
  BY <1>1, <1>2, <1>3, WholeIs DEF Whole
<1>5. Total' = Len(body)
  BY <1>1 DEF Total, Metadata
<1>6. Holds(Whole', <<>>, 0) /\ Len(<<>>) = 0
  BY DEF Holds
<1>7. Holds(Whole', body, 0 + 0)
  BY <1>4 DEF Holds
<1>8. Flow'
  BY <1>1, <1>2, <1>5, <1>6, <1>7 DEF Flow
<1> QED BY <1>1, <1>3, <1>8, Zenon DEF IndInv, Copying

\* So is a stream.
LEMMA StreamingInd ==
    ASSUME IndInv, NEW stream \in Streams, Streaming(stream)
    PROVE  IndInv'
<1>1. /\ Blank /\ at' = "relay" /\ status' = "200" /\ text' = stream
      /\ fed' = 0 /\ tail' = "none" /\ pipe' = <<>> /\ out' = <<>> /\ buf' = <<>>
      /\ ledger' = <<>> /\ eof' = eof /\ ~eof
  BY DEF IndInv, Streaming, Blank, lpVars
<1>2. stream \in Seq(Bytes) /\ Len(stream) \in Nat
  OBVIOUS
<1>3. Shape'
  <2>1. fed' \in 0..Len(text')
    BY <1>1, <1>2
  <2>2. /\ forwards' = forwards /\ link' = link /\ agent' = agent /\ dropped' = dropped
        /\ eof' = eof /\ out' = out /\ buf' = buf /\ pipe' = pipe /\ tail' = tail
    BY DEF Streaming, lpVars
  <2> QED BY <1>1, <1>2, <2>1, <2>2, Zenon DEF IndInv, Shape, TypeOK
<1>4. Total' = 0 /\ Len(<<>>) = 0
  BY <1>1 DEF Total, Metadata
<1>5. \A n \in Nat : Holds(Whole', <<>>, n)
  BY DEF Holds
<1>6. Flow'
  BY <1>1, <1>4, <1>5 DEF Flow
<1>7. Boundary(Whole, Len(out))' /\ Glued'
  BY <1>1, <1>4 DEF Boundary, Glued
<1>8. Relaying'
  BY <1>1, <1>6, <1>7, Zenon DEF Relaying
<1> QED BY <1>1, <1>3, <1>8, Zenon DEF IndInv

\* The gateway is sending only while the stream is relayed, or was given up.
LEMMA SendingIs ==
    ASSUME IndInv, status = "200", tail = "none", link = "up"
    PROVE  \/ at = "relay" /\ ~eof /\ Flow /\ Boundary(Whole, Len(out)) /\ ledger = <<>>
           \/ at = "done" /\ agent = "gone" /\ Partial /\ ledger = <<>>
<1>1. at \in {"relay", "done"}
  BY DEF IndInv, Shape, TypeOK, Blank, Copying
<1>2. CASE at = "relay"
  BY <1>2, Zenon DEF IndInv, Relaying, Taken
<1>3. CASE at = "done"
  <2>1. Ended
    BY <1>3 DEF IndInv
  <2>2. agent \in {"there", "gone"}
    BY Zenon DEF IndInv, Shape, TypeOK
  <2>3. ~Complete /\ ~Translated
    BY DEF Complete, Translated
  <2> QED BY <1>3, <2>1, <2>2, <2>3 DEF Ended
<1> QED BY <1>1, <1>2, <1>3

\* One more byte of the provider is on the wire.
LEMMA GwForwardInd == IndInv /\ GwForward => IndInv'
<1> SUFFICES ASSUME IndInv, GwForward PROVE IndInv'
  OBVIOUS
<1>1. /\ status = "200" /\ tail = "none" /\ link = "up" /\ fed < Len(text)
      /\ fed' = fed + 1 /\ pipe' = Append(pipe, text[fed + 1])
      /\ at' = at /\ status' = status /\ text' = text /\ tail' = tail
      /\ link' = link /\ agent' = agent /\ UNCHANGED lpVars
  BY DEF GwForward
<1>2. /\ forwards' = forwards /\ buf' = buf /\ eof' = eof /\ out' = out
      /\ ledger' = ledger /\ dropped' = dropped
  BY <1>1 DEF lpVars
<1>3. Shape
  BY Zenon DEF IndInv
<1>4. /\ text \in Seq(Bytes) /\ Len(text) \in Nat /\ fed \in Nat
      /\ out \in Seq(Tokens) /\ buf \in Seq(Tokens) /\ pipe \in Seq(Tokens)
      /\ Len(out) \in Nat /\ Len(buf) \in Nat /\ Len(pipe) \in Nat
  BY <1>3, WholeIs DEF Shape
<1>5. text[fed + 1] \in Bytes /\ text[fed + 1] \in Tokens
  <2>1. fed + 1 \in 1..Len(text)
    BY <1>1, <1>4
  <2>2. text[fed + 1] \in Bytes
    BY <1>4, <2>1
  <2> QED BY <2>2, Zenon DEF Tokens
<1>6. Shape'
  <2>1. fed' \in 0..Len(text')
    BY <1>1, <1>4
  <2>2. pipe' \in Seq(Tokens)
    BY <1>1, <1>4, <1>5
  <2> QED BY <1>1, <1>2, <1>3, <2>1, <2>2, Zenon DEF Shape, TypeOK
<1>7. /\ \A i \in 1..fed : Whole[i] = Whole'[i]
      /\ Whole'[fed + 1] = text[fed + 1]
      /\ Total = fed /\ Total' = fed + 1
  <2>1. \A i \in 1..fed : i \in 1..fed + 1
    BY <1>4
  <2>2. \A i \in 1..fed + 1 : Whole'[i] = text[i]
    BY <1>1, <1>4 DEF Whole
  <2>3. \A i \in 1..fed : Whole[i] = text[i]
    BY <1>3, WholeIs
  <2>4. fed + 1 \in 1..fed + 1
    BY <1>4
  <2>5. Total = fed /\ Total' = fed + 1
    BY <1>1 DEF Total, Metadata
  <2> QED BY <2>1, <2>2, <2>3, <2>4, <2>5
<1>8. CASE at = "relay"
  <2>1. ~eof /\ Flow /\ Boundary(Whole, Len(out)) /\ ledger = <<>>
    BY <1>1, <1>8, SendingIs
  <2>2. Len(out) + Len(buf) + Len(pipe) = fed
    BY <1>7, <2>1 DEF Flow
  <2>3. Holds(Whole', out, 0)
    BY <1>4, <1>7, <2>1, <2>2, HoldsKept, SMTT(30) DEF Flow
  <2>4. Holds(Whole', buf, Len(out))
    BY <1>4, <1>7, <2>1, <2>2, HoldsKept, SMTT(30) DEF Flow
  <2>5. Holds(Whole', pipe, Len(out) + Len(buf))
    <3>1. Len(out) + Len(buf) \in Nat /\ Len(out) + Len(buf) + Len(pipe) <= fed
      BY <1>4, <2>2
    <3>2. Holds(Whole, pipe, Len(out) + Len(buf))
      BY <2>1 DEF Flow
    <3> QED BY <1>4, <1>7, <3>1, <3>2, HoldsKept
  <2>6. Len(pipe') = Len(pipe) + 1 /\ Holds(Whole', pipe', Len(out) + Len(buf))
    BY <1>1, <1>4, <1>5, <1>7, <2>2, <2>5, HoldsAppend
  <2>7. Flow'
    <3>1. Len(out) + Len(buf) + (Len(pipe) + 1) = fed + 1
      BY <1>4, <2>2
    <3> QED BY <1>2, <1>7, <2>3, <2>4, <2>6, <3>1 DEF Flow
  <2>8. Boundary(Whole', Len(out))
    BY <1>4, <1>7, <2>1, <2>2, BoundaryKept
  <2>9. Glued'
    BY <1>1, <1>2, <1>4, <2>2 DEF Glued
  <2>10. Relaying'
    BY <1>1, <1>2, <2>1, <2>7, <2>8, <2>9, Zenon DEF Relaying
  <2>11. at' = "relay"
    BY <1>1, <1>8 DEF IndInv
  <2> QED BY <1>6, <2>10, <2>11, Zenon DEF IndInv
<1>9. CASE at = "done"
  <2>1. agent = "gone" /\ Partial /\ ledger = <<>>
    BY <1>1, <1>9, SendingIs
  <2>2. Len(out) <= fed /\ Holds(Whole, out, 0)
    BY <1>7, <2>1 DEF Partial
  <2>3. Holds(Whole', out, 0)
    BY <1>4, <1>7, <2>2, HoldsKept
  <2>4. Partial'
    BY <1>1, <1>2, <1>4, <1>7, <2>2, <2>3 DEF Partial, Glued
  <2>5. Ended'
    BY <1>1, <1>2, <2>1, <2>4 DEF Ended
  <2>6. at' = "done" /\ status' = "200"
    BY <1>1, <1>9 DEF IndInv
  <2> QED BY <1>6, <2>5, <2>6, Zenon DEF IndInv
<1> QED BY <1>1, <1>8, <1>9, SendingIs

\* What the types say of the byte strings.
LEMMA Lengths ==
    ASSUME IndInv
    PROVE  /\ Shape /\ fed \in Nat /\ Total \in Nat /\ fed <= Total
           /\ out \in Seq(Tokens) /\ buf \in Seq(Tokens) /\ pipe \in Seq(Tokens)
           /\ Len(out) \in Nat /\ Len(buf) \in Nat /\ Len(pipe) \in Nat
<1>1. Shape
  BY Zenon DEF IndInv
<1>2. out \in Seq(Tokens) /\ buf \in Seq(Tokens) /\ pipe \in Seq(Tokens)
  BY <1>1 DEF Shape
<1>3. Len(out) \in Nat /\ Len(buf) \in Nat /\ Len(pipe) \in Nat
  BY <1>2
<1> QED BY <1>1, <1>2, <1>3, WholeIs

\* The gateway's own event is on the wire.
LEMMA GwCloseInd ==
    ASSUME IndInv, NEW event \in Metadata, GwClose(event)
    PROVE  IndInv'
<1>1. /\ status = "200" /\ tail = "none" /\ link = "up"
      /\ tail' = event /\ pipe' = pipe \o <<event, NL, NL>>
      /\ at' = at /\ status' = status /\ text' = text /\ fed' = fed
      /\ link' = link /\ agent' = agent /\ UNCHANGED lpVars
  BY DEF GwClose
<1>2. /\ forwards' = forwards /\ buf' = buf /\ eof' = eof /\ out' = out
      /\ ledger' = ledger /\ dropped' = dropped
  BY <1>1 DEF lpVars
<1>3. /\ Shape /\ fed \in Nat
      /\ out \in Seq(Tokens) /\ buf \in Seq(Tokens) /\ pipe \in Seq(Tokens)
      /\ Len(out) \in Nat /\ Len(buf) \in Nat /\ Len(pipe) \in Nat
  BY Lengths
<1>4. event \in Tokens /\ NL \in Tokens
  BY Zenon DEF Tokens
<1> DEFINE coda == <<event, NL, NL>>
<1>5. /\ coda \in Seq(Tokens) /\ Len(coda) = 3
      /\ coda[1] = event /\ coda[2] = NL /\ coda[3] = NL
  BY <1>4
<1> HIDE DEF coda
<1>6. Shape'
  <2>1. pipe' \in Seq(Tokens)
    BY <1>1, <1>3, <1>5 DEF coda
  <2>2. tail' \in Metadata \union {"none", "close"}
    BY <1>1
  <2> QED BY <1>1, <1>2, <1>3, <2>1, <2>2, Zenon DEF Shape, TypeOK
<1>7. /\ \A i \in 1..fed : Whole[i] = Whole'[i]
      /\ Whole'[fed + 1] = event /\ Whole'[fed + 2] = NL /\ Whole'[fed + 3] = NL
      /\ Total = fed /\ Total' = fed + 3
  <2>1. \A i \in 1..fed : Whole[i] = Whole'[i]
    BY <1>1, <1>3 DEF Whole
  <2>2. Whole'[fed + 1] = event /\ Whole'[fed + 2] = NL /\ Whole'[fed + 3] = NL
    BY <1>1, <1>3 DEF Whole
  <2>3. Total = fed /\ Total' = fed + 3
    BY <1>1 DEF Total, Metadata
  <2> QED BY <2>1, <2>2, <2>3
<1>8. CASE at = "relay"
  <2>1. ~eof /\ Flow /\ Boundary(Whole, Len(out)) /\ ledger = <<>>
    BY <1>1, <1>8, SendingIs
  <2>2. /\ Len(out) + Len(buf) + Len(pipe) = fed /\ Len(out) + Len(buf) \in Nat
        /\ Len(out) <= fed
    BY <1>3, <1>7, <2>1 DEF Flow
  <2>3. Holds(Whole', out, 0)
    BY <1>3, <1>7, <2>1, <2>2, HoldsKept DEF Flow
  <2>4. Holds(Whole', buf, Len(out))
    BY <1>3, <1>7, <2>1, <2>2, HoldsKept DEF Flow
  <2>5. Holds(Whole', pipe, Len(out) + Len(buf))
    <3>1. Len(out) + Len(buf) \in Nat /\ Len(out) + Len(buf) + Len(pipe) <= fed
      BY <1>3, <2>2
    <3>2. Holds(Whole, pipe, Len(out) + Len(buf))
      BY <2>1 DEF Flow
    <3> QED BY <1>3, <1>7, <3>1, <3>2, HoldsKept
  <2>6. Holds(Whole', coda, Len(out) + Len(buf) + Len(pipe))
    <3>1. \A i \in 1..3 : i = 1 \/ i = 2 \/ i = 3
      OBVIOUS
    <3> QED BY <1>5, <1>7, <2>2, <3>1, SMTT(30) DEF Holds
  <2>7. Len(pipe') = Len(pipe) + 3 /\ Holds(Whole', pipe', Len(out) + Len(buf))
    <3>1. pipe' = pipe \o coda
      BY <1>1 DEF coda
    <3>2. Len(pipe \o coda) = Len(pipe) + Len(coda) /\ Holds(Whole', pipe \o coda, Len(out) + Len(buf))
      BY <1>3, <1>5, <2>2, <2>5, <2>6, HoldsConcat, Zenon
    <3> QED BY <1>5, <3>1, <3>2
  <2>8. Flow'
    <3>0. \A a, b, c, d \in Nat : a + b + c = d => a + b + (c + 3) = d + 3
      OBVIOUS
    <3>1. Len(out) + Len(buf) + (Len(pipe) + 3) = fed + 3
      BY <1>3, <2>2, <3>0, SMTT(30)
    <3>2. Len(out') = Len(out) /\ Len(buf') = Len(buf)
      BY <1>2
    <3>3. Holds(Whole', out', 0) /\ Holds(Whole', buf', Len(out'))
      BY <1>2, <2>3, <2>4
    <3>4. Holds(Whole', pipe', Len(out') + Len(buf'))
      BY <2>7, <3>2
    <3> QED BY <1>7, <2>7, <3>1, <3>2, <3>3, <3>4 DEF Flow
  <2>9. Boundary(Whole', Len(out))
    BY <1>3, <1>7, <2>1, <2>2, BoundaryKept
  <2>10. Glued'
    BY <1>1, <1>2, <1>3, <2>2 DEF Glued
  <2>11. Relaying'
    BY <1>1, <1>2, <2>1, <2>8, <2>9, <2>10, Zenon DEF Relaying
  <2>12. at' = "relay"
    BY <1>1, <1>8 DEF IndInv
  <2> QED BY <1>6, <2>11, <2>12, Zenon DEF IndInv
<1>9. CASE at = "done"
  <2>1. agent = "gone" /\ Partial /\ ledger = <<>>
    BY <1>1, <1>9, SendingIs
  <2>2. Len(out) <= fed /\ Holds(Whole, out, 0)
    BY <1>7, <2>1 DEF Partial
  <2>3. Holds(Whole', out, 0)
    BY <1>3, <1>7, <2>2, HoldsKept
  <2>4. Partial'
    BY <1>1, <1>2, <1>3, <1>7, <2>2, <2>3 DEF Partial, Glued
  <2>5. Ended'
    BY <1>1, <1>2, <2>1, <2>4 DEF Ended
  <2>6. at' = "done" /\ status' = "200"
    BY <1>1, <1>9 DEF IndInv
  <2> QED BY <1>6, <2>5, <2>6, Zenon DEF IndInv
<1> QED BY <1>1, <1>8, <1>9, SendingIs

\* While the answer is being relayed the agent has a piece of it.
LEMMA RelayedIsPartial ==
    ASSUME IndInv, at \in {"relay", "copy"}
    PROVE  /\ Partial
           /\ ledger # <<>> => ledger = <<forwards>> /\ tail = "usage" /\ Boundary(Whole, fed)
<1>1. /\ fed \in Nat /\ Total \in Nat /\ fed <= Total
      /\ Len(out) \in Nat /\ Len(buf) \in Nat /\ Len(pipe) \in Nat
  BY Lengths
<1>2. CASE at = "relay"
  BY <1>1, <1>2 DEF IndInv, Relaying, Taken, Flow, Partial, Glued
<1>3. CASE at = "copy"
  <2>1. Copying /\ Total = fed
    BY <1>3 DEF IndInv, Copying, Total, Metadata
  <2> QED BY <1>1, <2>1 DEF Copying, Flow, Partial, Glued
<1> QED BY <1>2, <1>3

\* An interrupted relay leaves what the agent has.
LEMMA InterruptedInd ==
    ASSUME IndInv, at \in {"relay", "copy"}, at' = "done", UNCHANGED <<gwVars, lpVars>>,
           pipe' \in Seq(Tokens), link' = link, agent' = agent,
           link = "broken" \/ agent = "gone" \/ Complete
    PROVE  IndInv'
<1>1. Whole' = Whole /\ Total' = Total
  BY DEF Whole, Total, gwVars
<1>2. Partial' = Partial /\ Complete' = Complete
  BY <1>1 DEF Partial, Glued, Complete, gwVars, lpVars
<1>3. Shape'
  BY Zenon DEF IndInv, Shape, TypeOK, gwVars, lpVars
<1>4. /\ status \in {"200", "4xx"}
      /\ status = "200" => tail \in Metadata \union {"none"}
      /\ status = "4xx" => tail = "close" /\ fed = Len(text)
  BY Zenon DEF IndInv, Relaying, Copying
<1>5. Ended'
  BY <1>1, <1>2, <1>4, RelayedIsPartial DEF Ended, gwVars, lpVars
<1> QED BY <1>3, <1>4, <1>5, Zenon DEF IndInv, gwVars

\* Bytes move from the wire to the buffer.
LEMMA ReadMoreInd ==
    ASSUME IndInv, NEW n \in 1..Len(pipe), ReadMore(n)
    PROVE  IndInv'
<1> DEFINE first == SubSeq(pipe, 1, n)
           rest == SubSeq(pipe, n + 1, Len(pipe))
<1>1. /\ at = "relay" /\ at' = "relay" /\ buf' = buf \o first /\ pipe' = rest
      /\ UNCHANGED gwVars /\ link' = link /\ agent' = agent /\ forwards' = forwards
      /\ eof' = eof /\ out' = out /\ ledger' = ledger /\ dropped' = dropped /\ ~eof
  BY DEF ReadMore
<1>2. /\ Shape /\ out \in Seq(Tokens) /\ buf \in Seq(Tokens) /\ pipe \in Seq(Tokens)
      /\ Len(out) \in Nat /\ Len(buf) \in Nat /\ Len(pipe) \in Nat
  BY Lengths
<1>3. pipe # <<>>
  BY NothingHolds
<1>4. Relaying /\ Flow /\ Boundary(Whole, Len(out)) /\ Glued /\ ledger = <<>>
  BY <1>1, <1>3 DEF IndInv, Relaying, Taken
<1>5. Len(out) + Len(buf) \in Nat /\ n \in 0..Len(pipe) /\ n \in Nat
  BY <1>2
<1>6. /\ Holds(Whole, out, 0) /\ Holds(Whole, buf, Len(out))
      /\ Holds(Whole, pipe, Len(out) + Len(buf)) /\ Len(out) + Len(buf) + Len(pipe) = Total
  BY <1>4 DEF Flow
<1>7. first \in Seq(Tokens) /\ Len(first) = n /\ Holds(Whole, first, Len(out) + Len(buf))
  BY <1>2, <1>5, <1>6, HoldsFirst
<1>8. /\ rest \in Seq(Tokens) /\ Len(rest) = Len(pipe) - n
      /\ Holds(Whole, rest, Len(out) + Len(buf) + n)
  BY <1>2, <1>5, <1>6, HoldsAfter
<1> HIDE DEF first, rest
<1>9. /\ buf' \in Seq(Tokens) /\ Len(buf') = Len(buf) + n
      /\ Holds(Whole, buf', Len(out))
  BY <1>1, <1>2, <1>6, <1>7, HoldsConcat, Zenon
<1>10. Whole' = Whole /\ Total' = Total
  BY <1>1 DEF Whole, Total, gwVars
<1>11. /\ Len(out') = Len(out) /\ Len(pipe') = Len(pipe) - n
       /\ Len(out) + (Len(buf) + n) = Len(out) + Len(buf) + n
       /\ Len(out) + (Len(buf) + n) + (Len(pipe) - n) = Total
  <2>1. \A a, b, c, d \in Nat : a + b + c = d =>
            \A m \in Nat : a + (b + m) = a + b + m /\ a + (b + m) + (c - m) = d
    OBVIOUS
  <2> QED BY <1>1, <1>2, <1>5, <1>6, <1>8, <2>1, Lengths
<1>12. Holds(Whole', pipe', Len(out') + Len(buf'))
  BY <1>1, <1>8, <1>9, <1>10, <1>11
<1>13. Flow'
  BY <1>1, <1>6, <1>9, <1>10, <1>11, <1>12 DEF Flow
<1>14. Shape'
  BY <1>1, <1>2, <1>8, <1>9, Zenon DEF Shape, TypeOK, gwVars
<1>15. Boundary(Whole, Len(out))' /\ Glued'
  BY <1>1, <1>4, <1>10, Zenon DEF Glued, gwVars
<1>16. Relaying'
  BY <1>1, <1>4, <1>13, <1>15, Zenon DEF Relaying, gwVars
<1>17. at' = "relay"
  BY <1>1 DEF IndInv, gwVars
<1> QED BY <1>14, <1>16, <1>17, Zenon DEF IndInv

\* The end of the stream is seen.
LEMMA ReadEOFInd == IndInv /\ ReadEOF => IndInv'
<1> SUFFICES ASSUME IndInv, ReadEOF PROVE IndInv'
  OBVIOUS
<1>1. /\ at = "relay" /\ at' = at /\ eof' = TRUE /\ pipe = <<>> /\ tail # "none"
      /\ UNCHANGED gwVars /\ pipe' = pipe /\ link' = link /\ agent' = agent
      /\ forwards' = forwards /\ buf' = buf /\ out' = out /\ ledger' = ledger
      /\ dropped' = dropped
  BY DEF ReadEOF
<1>2. Whole' = Whole /\ Total' = Total
  BY <1>1 DEF Whole, Total, gwVars
<1>3. Taken' = Taken /\ Flow' = Flow /\ Glued' = Glued
  BY <1>1, <1>2 DEF Taken, Flow, Glued, gwVars
<1>4. Relaying
  BY <1>1 DEF IndInv
<1>5. Relaying'
  BY <1>1, <1>2, <1>3, <1>4, Zenon DEF Relaying, gwVars
<1>6. Shape'
  <2>1. eof' \in BOOLEAN
    BY <1>1
  <2> QED BY <1>1, <2>1, Zenon DEF IndInv, Shape, TypeOK, gwVars
<1>7. at' = "relay"
  BY <1>1 DEF IndInv, gwVars
<1> QED BY <1>5, <1>6, <1>7, Zenon DEF IndInv

\* The read fails, or the stream has been relayed to its end.
LEMMA RelayStopsInd == IndInv /\ (ReadError \/ RelayEnds) => IndInv'
<1> SUFFICES ASSUME IndInv, ReadError \/ RelayEnds PROVE IndInv'
  OBVIOUS
<1>1. /\ at \in {"relay", "copy"} /\ at' = "done" /\ UNCHANGED <<gwVars, lpVars>>
      /\ pipe' = pipe /\ link' = link /\ agent' = agent /\ at = "relay"
  BY DEF ReadError, RelayEnds
<1>2. pipe' \in Seq(Tokens)
  BY <1>1, Lengths
<1>3. CASE ReadError
  BY <1>1, <1>2, <1>3, InterruptedInd DEF ReadError
<1>4. CASE RelayEnds
  <2>1. buf = <<>> /\ pipe = <<>> /\ tail \in Metadata
    BY <1>1, <1>4 DEF RelayEnds, IndInv, Relaying
  <2>2. Total = fed + 3 /\ fed \in Nat /\ Len(out) \in Nat /\ Len(buf) = 0 /\ Len(pipe) = 0
    BY <2>1, Lengths, NothingHolds DEF Total
  <2>3. ASSUME Taken PROVE Complete
    <3>1. <<forwards>> # <<>>
      OBVIOUS
    <3>2. tail # "none" /\ tail # "close" /\ tail # "error"
      BY <2>3 DEF Taken
    <3>3. Boundary(Whole, fed) /\ Len(out) = fed
      BY <2>3 DEF Taken
    <3>4. ledger # <<>> \/ dropped
      BY <2>3, <3>1, Zenon DEF Taken
    <3> QED BY <3>2, <3>3, <3>4, Zenon DEF Complete
  <2>4. ASSUME Flow, Glued PROVE Complete
    <3>1. Len(out) = fed + 3
      BY <2>2, <2>4 DEF Flow
    <3>2. ~Boundary(Whole, fed)
      BY <2>2, <2>4, <3>1 DEF Glued
    <3>3. tail # "none" /\ tail # "close"
      BY <2>1 DEF Metadata
    <3> QED BY <3>1, <3>2, <3>3, Zenon DEF Complete
  <2>5. Complete
    BY <1>1, <2>3, <2>4, Zenon DEF IndInv, Relaying
  <2> QED BY <1>1, <1>2, <2>5, InterruptedInd
<1> QED BY <1>3, <1>4

\* A chunk of a refusal is copied, or the agent has gone.
LEMMA CopyReadInd ==
    ASSUME IndInv, NEW n \in 1..Len(pipe), CopyRead(n)
    PROVE  IndInv'
<1> DEFINE chunk == SubSeq(pipe, 1, n)
           rest == SubSeq(pipe, n + 1, Len(pipe))
<1>1. /\ at = "copy" /\ pipe' = rest /\ UNCHANGED gwVars /\ link' = link /\ agent' = agent
      /\ forwards' = forwards /\ buf' = buf /\ eof' = eof /\ ledger' = ledger
      /\ dropped' = dropped
  BY DEF CopyRead
<1>2. /\ Shape /\ out \in Seq(Tokens) /\ pipe \in Seq(Tokens)
      /\ Len(out) \in Nat /\ Len(pipe) \in Nat /\ Total \in Nat
  BY Lengths
<1>3. Copying
  BY <1>1 DEF IndInv
<1>4. /\ Holds(Whole, out, 0) /\ Holds(Whole, pipe, Len(out)) /\ Len(out) + Len(pipe) = Total
      /\ buf = <<>> /\ Len(buf) = 0 /\ Holds(Whole, buf, Len(out))
  <2>1. buf = <<>> /\ Len(buf) = 0
    BY <1>3, NothingHolds DEF Copying
  <2>2. Len(out) + 0 = Len(out)
    BY <1>2
  <2> QED BY <1>3, <2>1, <2>2 DEF Copying, Flow
<1>5. n \in 0..Len(pipe) /\ n \in Nat
  BY <1>2
<1>6. chunk \in Seq(Tokens) /\ Len(chunk) = n /\ Holds(Whole, chunk, Len(out))
  BY <1>2, <1>4, <1>5, HoldsFirst
<1>7. /\ rest \in Seq(Tokens) /\ Len(rest) = Len(pipe) - n /\ Holds(Whole, rest, Len(out) + n)
  BY <1>2, <1>4, <1>5, HoldsAfter
<1>8. CASE agent = "gone" /\ at' = "done" /\ out' = out
  <2>1. UNCHANGED lpVars
    BY <1>1, <1>8 DEF lpVars
  <2> HIDE DEF chunk, rest
  <2> QED BY <1>1, <1>7, <1>8, <2>1, InterruptedInd
<1>9. CASE out' = out \o chunk /\ at' = at
  <2>0. 0 + Len(out) = Len(out)
    BY <1>2
  <2> HIDE DEF chunk, rest
  <2>1. out' \in Seq(Tokens) /\ Len(out') = Len(out) + n /\ Holds(Whole, out', 0)
    BY <1>2, <1>4, <1>6, <1>9, <2>0, HoldsConcat, Zenon
  <2>2. Whole' = Whole /\ Total' = Total
    BY <1>1 DEF Whole, Total, gwVars
  <2>3. Len(out) + n + 0 = Len(out) + n /\ Len(out) + n + 0 + (Len(pipe) - n) = Total
    <3>1. \A a, c, d, m \in Nat : a + c = d => a + m + 0 = a + m /\ a + m + 0 + (c - m) = d
      OBVIOUS
    <3> QED BY <1>2, <1>4, <1>5, <3>1
  <2>4. /\ buf' = <<>> /\ Len(buf') = 0 /\ Holds(Whole, buf', Len(out'))
    BY <1>1, <1>4, NothingHolds
  <2>5. Flow'
    <3>1. Holds(Whole', pipe', Len(out') + Len(buf'))
      BY <1>1, <1>7, <2>1, <2>2, <2>3, <2>4
    <3>2. Len(out') + Len(buf') + Len(pipe') = Total'
      BY <1>1, <1>7, <2>1, <2>2, <2>3, <2>4
    <3> QED BY <2>1, <2>2, <2>4, <3>1, <3>2 DEF Flow
  <2>6. Copying'
    BY <1>1, <1>3, <2>4, <2>5 DEF Copying, gwVars
  <2>7. Shape'
    BY <1>1, <1>2, <1>7, <1>9, <2>1, Zenon DEF Shape, TypeOK, gwVars
  <2>8. at' = "copy"
    BY <1>1, <1>9 DEF IndInv, gwVars
  <2> QED BY <2>6, <2>7, <2>8, Zenon DEF IndInv
<1> QED BY <1>8, <1>9 DEF CopyRead

\* The copy ends.
LEMMA CopyEndsInd == IndInv /\ CopyEnds => IndInv'
<1> SUFFICES ASSUME IndInv, CopyEnds PROVE IndInv'
  OBVIOUS
<1>1. /\ at = "copy" /\ at \in {"relay", "copy"} /\ at' = "done"
      /\ UNCHANGED <<gwVars, lpVars>> /\ pipe' = pipe /\ link' = link /\ agent' = agent
      /\ pipe = <<>> \/ link = "broken"
  BY DEF CopyEnds
<1>2. pipe' \in Seq(Tokens)
  BY <1>1, Lengths
<1>3. ASSUME pipe = <<>> PROVE Complete
  <2>1. Copying /\ Len(pipe) = 0 /\ Len(buf) = 0
    BY <1>1, <1>3, NothingHolds DEF IndInv, Copying
  <2>2. tail = "close" /\ tail # "none" /\ tail \notin Metadata
    BY <2>1 DEF Copying, Metadata
  <2>3. Len(out) = fed
    BY <2>1, <2>2, Lengths DEF Copying, Flow, Total
  <2>4. tail # "usage" /\ tail # "error"
    BY <2>2 DEF Metadata
  <2> QED BY <2>2, <2>3, <2>4, Zenon DEF Complete
<1> QED BY <1>1, <1>2, <1>3, InterruptedInd

\* A boundary is not behind the gateway's event without its newlines.
LEMMA BoundaryPlace ==
    ASSUME NEW w, NEW f \in Nat, w[f + 1] # NL, NEW p \in Nat, Boundary(w, p)
    PROVE  p # f + 1 /\ p # f + 2
<1> SUFFICES ASSUME p = f + 1 \/ p = f + 2 PROVE FALSE
  OBVIOUS
<1>1. PICK h \in 1..p : 2 * h <= p /\ \A i \in p - 2 * h + 1 .. p : w[i] = NL
  BY DEF Boundary
<1>2. f + 1 \in p - 2 * h + 1 .. p
  BY <1>1
<1> QED BY <1>1, <1>2

\* A frame of the relay lies on a boundary and ends with a delimiter.
LEMMA FrameIs ==
    ASSUME IndInv, at = "relay", FrameReady, NEW k, k = Index(buf)
    PROVE  /\ k \in Nat \ {0} /\ k + 1 <= Len(buf)
           /\ Flow /\ Boundary(Whole, Len(out)) /\ Glued /\ ledger = <<>>
           /\ NoDelimiter(Whole, Len(out), k)
           /\ Whole[Len(out) + k] = NL /\ Whole[Len(out) + k + 1] = NL
           /\ Len(out) + k + 1 <= Total
<1>1. /\ Shape /\ fed \in Nat /\ Total \in Nat
      /\ out \in Seq(Tokens) /\ buf \in Seq(Tokens) /\ pipe \in Seq(Tokens)
      /\ Len(out) \in Nat /\ Len(buf) \in Nat /\ Len(pipe) \in Nat
  BY Lengths
<1>2. /\ k \in 0..Len(buf) - 1 \/ k = 0
      /\ k > 0 => /\ buf[k] = NL /\ buf[k + 1] = NL
                  /\ \A j \in 1..k - 1 : ~(buf[j] = NL /\ buf[j + 1] = NL)
      /\ k = 0 => \A j \in 1..Len(buf) - 1 : ~(buf[j] = NL /\ buf[j + 1] = NL)
  BY <1>1, IndexIs
<1>3. buf # <<>>
  <2>1. ASSUME buf = <<>> PROVE FALSE
    <3>1. Len(buf) = 0
      BY <2>1, NothingHolds
    <3>2. k = 0
      BY <1>2, <3>1
    <3>3. ~(Index(buf) > 0)
      BY <3>2
    <3> QED BY <2>1, <3>3, Zenon DEF FrameReady
  <2> QED BY <2>1
<1>4. Relaying
  BY DEF IndInv
<1>5. Flow /\ Boundary(Whole, Len(out)) /\ Glued /\ ledger = <<>>
  BY <1>3, <1>4, Zenon DEF Relaying, Taken
<1>6. ASSUME NEW j \in 1..Len(buf) PROVE buf[j] = Whole[Len(out) + j]
  BY <1>5 DEF Flow, Holds
<1>7. Len(out) + Len(buf) + Len(pipe) = Total
  BY <1>5 DEF Flow
<1>8. k # 0
  <2> SUFFICES ASSUME k = 0 PROVE FALSE
    OBVIOUS
  <2>1. eof
    <3>1. ~(Index(buf) > 0)
      OBVIOUS
    <3> QED BY <3>1, Zenon DEF FrameReady
  <2>2. tail # "none" /\ pipe = <<>> /\ tail \in Metadata \union {"none"}
    BY <1>4, <2>1, Zenon DEF Relaying
  <2>3. tail \in Metadata /\ Len(pipe) = 0 /\ tail # NL
    BY <2>2, NothingHolds
  <2>4. Total = fed + 3 /\ Whole[fed + 1] = tail
    BY <1>1, <2>3, WholeIs DEF Total
  <2>5. Len(out) # fed + 1 /\ Len(out) # fed + 2
    BY <1>1, <1>5, <2>3, <2>4, BoundaryPlace
  <2>6. Len(buf) # 0
    BY <1>1, <1>3
  <2>7. Len(out) <= fed /\ Len(out) + Len(buf) = fed + 3
    BY <1>1, <1>7, <2>3, <2>4, <2>5, <2>6
  <2> DEFINE j == fed + 2 - Len(out)
  <2>8. /\ j \in 1..Len(buf) - 1 /\ j \in 1..Len(buf) /\ j + 1 \in 1..Len(buf)
        /\ Len(out) + j = fed + 2 /\ Len(out) + (j + 1) = fed + 3
    BY <1>1, <2>7
  <2>9. Whole[fed + 2] = NL /\ Whole[fed + 3] = NL
    BY <1>1, WholeIs
  <2> HIDE DEF j
  <2>10. buf[j] = NL /\ buf[j + 1] = NL
    BY <1>6, <2>8, <2>9
  <2> QED BY <1>2, <2>8, <2>10
<1>9. k \in Nat \ {0} /\ k + 1 <= Len(buf) /\ Len(out) + k + 1 <= Total
  BY <1>1, <1>2, <1>7, <1>8
<1>10. Whole[Len(out) + k] = NL /\ Whole[Len(out) + k + 1] = NL
  <2>0. \A a, b, c \in Nat : b # 0 /\ b + 1 <= c =>
            b \in 1..c /\ b + 1 \in 1..c /\ a + (b + 1) = a + b + 1
    OBVIOUS
  <2>1. k \in 1..Len(buf) /\ k + 1 \in 1..Len(buf) /\ Len(out) + (k + 1) = Len(out) + k + 1
    <3>1. Len(out) \in Nat /\ Len(buf) \in Nat /\ k \in Nat /\ k # 0 /\ k + 1 <= Len(buf)
      BY <1>1, <1>9
    <3> QED BY <2>0, <3>1, Zenon
  <2>2. buf[k] = Whole[Len(out) + k] /\ buf[k + 1] = Whole[Len(out) + (k + 1)]
    BY <1>6, <2>1
  <2> QED BY <1>2, <1>9, <2>1, <2>2, SMTT(30)
<1>11. NoDelimiter(Whole, Len(out), k)
  <2> SUFFICES ASSUME NEW j \in 1..k - 1
               PROVE  ~(Whole[Len(out) + j] = NL /\ Whole[Len(out) + j + 1] = NL)
    BY DEF NoDelimiter
  <2>1. /\ j \in 1..Len(buf) /\ j + 1 \in 1..Len(buf)
        /\ Len(out) + (j + 1) = Len(out) + j + 1
    BY <1>1, <1>9, SMTT(30)
  <2>2. buf[j] = Whole[Len(out) + j] /\ buf[j + 1] = Whole[Len(out) + (j + 1)]
    BY <1>6, <2>1
  <2>3. ~(buf[j] = NL /\ buf[j + 1] = NL)
    BY <1>2, <1>9, SMTT(30)
  <2> QED BY <2>1, <2>2, <2>3
<1> QED BY <1>5, <1>9, <1>10, <1>11

\* A frame of the gateway begins with its event, right behind the provider's bytes.
LEMMA GatewayFrame ==
    ASSUME IndInv, at = "relay", FrameReady, NEW k, k = Index(buf), isAgentGateFrame(Frame)
    PROVE  /\ k = 2 /\ Len(buf) = 3 /\ pipe = <<>> /\ Len(out) = fed
           /\ tail \in Metadata /\ Head(Frame) = tail /\ Frame # <<>>
<1>1. /\ Shape /\ fed \in Nat /\ Total \in Nat /\ fed <= Total
      /\ out \in Seq(Tokens) /\ buf \in Seq(Tokens) /\ pipe \in Seq(Tokens)
      /\ Len(out) \in Nat /\ Len(buf) \in Nat /\ Len(pipe) \in Nat
  BY Lengths
<1>2. /\ k \in Nat \ {0} /\ k + 1 <= Len(buf) /\ Flow
      /\ Whole[Len(out) + k] = NL /\ Len(out) + k + 1 <= Total
  BY FrameIs
<1>3. Frame = SubSeq(buf, 1, k - 1)
  BY <1>2 DEF Frame
<1>4. /\ SubSeq(buf, 1, k - 1) \in Seq(Tokens) /\ Len(SubSeq(buf, 1, k - 1)) = k - 1
      /\ Holds(Whole, SubSeq(buf, 1, k - 1), Len(out))
  <2>1. k - 1 \in 0..Len(buf)
    BY <1>1, <1>2
  <2>2. Holds(Whole, buf, Len(out))
    BY <1>2 DEF Flow
  <2> QED BY <1>1, <2>1, <2>2, HoldsFirst
<1>5. Frame # <<>> /\ Head(Frame) \in Metadata
  BY DEF isAgentGateFrame
<1>6. k - 1 # 0
  <2>1. \A q \in Seq(Tokens) : Len(q) = 0 => q = <<>>
    OBVIOUS
  <2> QED BY <1>3, <1>4, <1>5, <2>1
<1>7. Head(Frame) = Whole[Len(out) + 1]
  <2>1. 1 \in 1..k - 1
    BY <1>2, <1>6
  <2>2. Head(Frame) = Frame[1]
    BY <1>3, <1>4, <1>5
  <2> QED BY <1>3, <1>4, <2>1, <2>2 DEF Holds
<1>8. Len(out) = fed
  <2>1. CASE Len(out) + 1 <= fed
    <3>1. Whole[Len(out) + 1] \in Bytes
      BY <1>1, <2>1, WholeIs
    <3> QED BY <1>5, <1>7, <3>1
  <2>2. CASE Len(out) + 1 > fed + 1
    <3>1. Whole[Len(out) + 1] = NL
      BY <1>1, <2>2, WholeIs
    <3> QED BY <1>5, <1>7, <3>1
  <2> QED BY <1>1, <2>1, <2>2
<1>9. Head(Frame) = tail /\ tail \in Metadata
  BY <1>1, <1>5, <1>7, <1>8, WholeIs
<1>10. Total = fed + 3
  BY <1>9 DEF Total
<1>11. Len(out) + Len(buf) + Len(pipe) = Total
  BY <1>2 DEF Flow
<1>12. k = 2 /\ Len(buf) = 3 /\ Len(pipe) = 0
  <2>1. \A a, b, c, d \in Nat :
            a + b + c = a + 3 /\ d # 0 /\ d - 1 # 0 /\ d + 1 <= b => d = 2 /\ b = 3 /\ c = 0
    OBVIOUS
  <2>2. fed + Len(buf) + Len(pipe) = fed + 3
    BY <1>8, <1>10, <1>11
  <2> QED BY <1>1, <1>2, <1>6, <2>1, <2>2, Zenon
<1>13. pipe = <<>>
  BY <1>1, <1>12
<1> QED BY <1>5, <1>8, <1>9, <1>12, <1>13

\* A frame of the provider passes the end of the provider's bytes only when these do not
\* end on a boundary.
LEMMA ProviderFrame ==
    ASSUME IndInv, at = "relay", FrameReady, NEW k, k = Index(buf), ~isAgentGateFrame(Frame)
    PROVE  Len(out) + k + 1 > fed => ~Boundary(Whole, fed)
<1> SUFFICES ASSUME Len(out) + k + 1 > fed PROVE ~Boundary(Whole, fed)
  OBVIOUS
<1>1. /\ Shape /\ fed \in Nat /\ Total \in Nat /\ fed <= Total
      /\ out \in Seq(Tokens) /\ buf \in Seq(Tokens)
      /\ Len(out) \in Nat /\ Len(buf) \in Nat
  BY Lengths
<1>2. /\ k \in Nat \ {0} /\ k + 1 <= Len(buf) /\ Flow /\ Boundary(Whole, Len(out))
      /\ NoDelimiter(Whole, Len(out), k)
      /\ Whole[Len(out) + k] = NL /\ Whole[Len(out) + k + 1] = NL
      /\ Len(out) + k + 1 <= Total
  BY FrameIs
<1>3. tail \in Metadata /\ Total = fed + 3
  BY <1>1, <1>2 DEF Total
<1>4. Whole[fed + 1] = tail /\ tail # NL
  BY <1>1, <1>3, WholeIs
<1>5. Len(out) + k # fed + 1 /\ Len(out) + k + 1 # fed + 1
  BY <1>2, <1>4
<1>6. Len(out) # fed + 1 /\ Len(out) # fed + 2
  BY <1>1, <1>2, <1>4, BoundaryPlace
<1>7. Len(out) <= fed /\ Len(out) + k > fed + 1
  BY <1>1, <1>2, <1>3, <1>5, <1>6, SMTT(30)
<1>8. Len(out) # fed
  <2> SUFFICES ASSUME Len(out) = fed PROVE FALSE
    OBVIOUS
  <2>1. k > 1 /\ 1 \in 1..k - 1 /\ k - 1 \in 0..Len(buf) /\ k - 1 # 0
    BY <1>1, <1>2, <1>7
  <2>2. Frame = SubSeq(buf, 1, k - 1)
    BY <1>2 DEF Frame
  <2>3. Frame \in Seq(Tokens) /\ Len(Frame) = k - 1 /\ Holds(Whole, Frame, Len(out))
    <3>1. Holds(Whole, buf, Len(out))
      BY <1>2 DEF Flow
    <3> QED BY <1>1, <2>1, <2>2, <3>1, HoldsFirst
  <2>4. Frame # <<>>
    BY <2>1, <2>3, NothingHolds
  <2>5. Head(Frame) = Whole[fed + 1]
    <3>1. Head(Frame) = Frame[1]
      BY <2>3, <2>4
    <3> QED BY <2>1, <2>3, <3>1 DEF Holds
  <2> QED BY <1>3, <1>4, <2>4, <2>5 DEF isAgentGateFrame
<1>9. Len(out) < fed /\ fed < Len(out) + k
  BY <1>1, <1>2, <1>7, <1>8
<1> QED BY <1>1, <1>2, <1>9, NoBoundaryInside

\* What the agent was sent, and a write of k + 1 bytes of the stream or of n of them.
LEMMA WriteIs ==
    ASSUME NEW S, NEW o \in Seq(S), NEW bytes \in Seq(S), NL \in S, NEW w,
           Holds(w, o, 0), Holds(w, bytes, Len(o)),
           w[Len(o) + Len(bytes) + 1] = NL, w[Len(o) + Len(bytes) + 2] = NL
    PROVE  /\ o \o bytes \o <<NL, NL>> \in Seq(S)
           /\ Len(o \o bytes \o <<NL, NL>>) = Len(o) + Len(bytes) + 2
           /\ Holds(w, o \o bytes \o <<NL, NL>>, 0)
           /\ \A n \in 0..Len(bytes) + 1 :
                 /\ o \o SubSeq(bytes \o <<NL, NL>>, 1, n) \in Seq(S)
                 /\ Len(o \o SubSeq(bytes \o <<NL, NL>>, 1, n)) = Len(o) + n
                 /\ Holds(w, o \o SubSeq(bytes \o <<NL, NL>>, 1, n), 0)
<1> DEFINE end == <<NL, NL>>
<1>1. /\ end \in Seq(S) /\ Len(end) = 2 /\ end[1] = NL /\ end[2] = NL
      /\ Len(o) \in Nat /\ Len(bytes) \in Nat
  <2>1. Len(o) \in Nat /\ Len(bytes) \in Nat
    OBVIOUS
  <2> QED BY <2>1, TwoBytes
<1> HIDE DEF end
<1>2. Holds(w, end, Len(o) + Len(bytes))
  <2>1. \A i \in 1..2 : i = 1 \/ i = 2
    OBVIOUS
  <2> QED BY <1>1, <2>1, Zenon DEF Holds
<1>3. 0 + Len(o) = Len(o) /\ 0 + (Len(o) + Len(bytes)) = Len(o) + Len(bytes) /\ 0 \in Nat
      /\ Len(o) + Len(bytes) \in Nat
  BY <1>1
<1>4. /\ o \o bytes \in Seq(S) /\ Len(o \o bytes) = Len(o) + Len(bytes)
      /\ Holds(w, o \o bytes, 0)
  BY <1>3, HoldsConcat
<1>5. /\ (o \o bytes) \o end \in Seq(S)
      /\ Len((o \o bytes) \o end) = Len(o) + Len(bytes) + 2
      /\ Holds(w, (o \o bytes) \o end, 0)
  <2> DEFINE front == o \o bytes
  <2>1. front \in Seq(S) /\ Len(front) = Len(o) + Len(bytes) /\ Holds(w, front, 0)
    BY <1>4
  <2> HIDE DEF front
  <2>2. Holds(w, end, 0 + Len(front))
    BY <1>2, <1>3, <2>1
  <2>3. /\ front \o end \in Seq(S) /\ Len(front \o end) = Len(front) + Len(end)
        /\ Holds(w, front \o end, 0)
    BY <1>1, <1>3, <2>1, <2>2, HoldsConcat, Zenon
  <2> QED BY <1>1, <2>1, <2>3 DEF front
<1>6. /\ bytes \o end \in Seq(S) /\ Len(bytes \o end) = Len(bytes) + 2
      /\ Holds(w, bytes \o end, Len(o))
  BY <1>1, <1>2, HoldsConcat, ZenonT(30)
<1>7. ASSUME NEW n \in 0..Len(bytes) + 1
      PROVE  /\ o \o SubSeq(bytes \o end, 1, n) \in Seq(S)
             /\ Len(o \o SubSeq(bytes \o end, 1, n)) = Len(o) + n
             /\ Holds(w, o \o SubSeq(bytes \o end, 1, n), 0)
  <2> DEFINE all == bytes \o end
             some == SubSeq(all, 1, n)
  <2>1. all \in Seq(S) /\ Holds(w, all, Len(o)) /\ n \in 0..Len(all)
    BY <1>1, <1>6
  <2> HIDE DEF all
  <2>2. some \in Seq(S) /\ Len(some) = n /\ Holds(w, some, Len(o))
    BY <1>1, <2>1, HoldsFirst
  <2> HIDE DEF some
  <2>3. o \o some \in Seq(S) /\ Len(o \o some) = Len(o) + n /\ Holds(w, o \o some, 0)
    BY <1>3, <2>2, HoldsConcat
  <2> QED BY <2>3, Zenon DEF some, all
<1> QED BY <1>5, <1>7, Zenon DEF end

\* A frame of the provider is passed on.
LEMMA ProviderFrameInd ==
    ASSUME IndInv, RelayFrame, ~isAgentGateFrame(Frame)
    PROVE  IndInv'
<1>1. /\ at = "relay" /\ FrameReady /\ buf' = Rest /\ Write(Frame, "relay")
      /\ ledger' = ledger /\ dropped' = dropped /\ UNCHANGED gwVars /\ pipe' = pipe
      /\ link' = link /\ agent' = agent /\ forwards' = forwards /\ eof' = eof
  BY DEF RelayFrame
<1>2. /\ Shape /\ fed \in Nat /\ Total \in Nat /\ fed <= Total
      /\ out \in Seq(Tokens) /\ buf \in Seq(Tokens) /\ pipe \in Seq(Tokens)
      /\ Len(out) \in Nat /\ Len(buf) \in Nat /\ Len(pipe) \in Nat /\ NL \in Tokens
  BY Lengths, Zenon DEF Tokens
<1>3. PICK k : k = Index(buf)
  OBVIOUS
<1>4. /\ k \in Nat \ {0} /\ k + 1 <= Len(buf)
      /\ Flow /\ Boundary(Whole, Len(out)) /\ ledger = <<>>
      /\ NoDelimiter(Whole, Len(out), k)
      /\ Whole[Len(out) + k] = NL /\ Whole[Len(out) + k + 1] = NL
      /\ Len(out) + k + 1 <= Total
  BY <1>1, <1>3, FrameIs
<1>5. Len(out) + k + 1 > fed => ~Boundary(Whole, fed)
  BY <1>1, <1>3, ProviderFrame
<1>6. /\ Holds(Whole, out, 0) /\ Holds(Whole, buf, Len(out))
      /\ Holds(Whole, pipe, Len(out) + Len(buf)) /\ Len(out) + Len(buf) + Len(pipe) = Total
  BY <1>4 DEF Flow
<1>7. k - 1 \in 0..Len(buf) /\ k + 1 \in 0..Len(buf) /\ k + 2 = (k + 1) + 1
  BY <1>2, <1>4
<1>8. Frame \in Seq(Tokens) /\ Len(Frame) = k - 1 /\ Holds(Whole, Frame, Len(out))
  <2>1. Frame = SubSeq(buf, 1, k - 1)
    BY <1>3, <1>4 DEF Frame
  <2> QED BY <1>2, <1>6, <1>7, <2>1, HoldsFirst
<1>9. /\ Rest \in Seq(Tokens) /\ Len(Rest) = Len(buf) - (k + 1)
      /\ Holds(Whole, Rest, Len(out) + (k + 1))
  <2>1. Rest = SubSeq(buf, (k + 1) + 1, Len(buf))
    <3>1. Index(buf) > 0
      BY <1>3, <1>4
    <3>2. Rest = SubSeq(buf, k + 2, Len(buf))
      BY <1>3, <3>1, Zenon DEF Rest
    <3> QED BY <1>7, <3>2, SMTT(30)
  <2> QED BY <1>2, <1>6, <1>7, <2>1, HoldsAfter, Zenon
<1>10. /\ Len(out) + Len(Frame) + 1 = Len(out) + k
       /\ Len(out) + Len(Frame) + 2 = Len(out) + k + 1
       /\ Len(Frame) + 1 = k /\ Len(out) + (k + 1) = Len(out) + k + 1
  <2>1. \A a, b \in Nat : b # 0 => /\ a + (b - 1) + 1 = a + b /\ a + (b - 1) + 2 = a + b + 1
                                   /\ (b - 1) + 1 = b /\ a + (b + 1) = a + b + 1
    OBVIOUS
  <2> QED BY <1>2, <1>4, <1>8, <2>1
<1>11. Whole' = Whole /\ Total' = Total
  BY <1>1 DEF Whole, Total, gwVars
<1>12. Relaying
  BY <1>1 DEF IndInv
<1> DEFINE whole == out \o Frame \o <<NL, NL>>
           part(n) == out \o SubSeq(Frame \o <<NL, NL>>, 1, n)
<1>15. /\ whole \in Seq(Tokens) /\ Len(whole) = Len(out) + Len(Frame) + 2
       /\ Holds(Whole, whole, 0)
       /\ \A n \in 0..Len(Frame) + 1 :
             /\ part(n) \in Seq(Tokens) /\ Len(part(n)) = Len(out) + n
             /\ Holds(Whole, part(n), 0)
  <2>1. Whole[Len(out) + Len(Frame) + 1] = NL /\ Whole[Len(out) + Len(Frame) + 2] = NL
    BY <1>4, <1>10
  <2>2. /\ out \in Seq(Tokens) /\ Frame \in Seq(Tokens) /\ NL \in Tokens
        /\ Holds(Whole, out, 0) /\ Holds(Whole, Frame, Len(out))
    BY <1>2, <1>6, <1>8
  <2>3. /\ out \o Frame \o <<NL, NL>> \in Seq(Tokens)
        /\ Len(out \o Frame \o <<NL, NL>>) = Len(out) + Len(Frame) + 2
        /\ Holds(Whole, out \o Frame \o <<NL, NL>>, 0)
        /\ \A n \in 0..Len(Frame) + 1 :
              /\ out \o SubSeq(Frame \o <<NL, NL>>, 1, n) \in Seq(Tokens)
              /\ Len(out \o SubSeq(Frame \o <<NL, NL>>, 1, n)) = Len(out) + n
              /\ Holds(Whole, out \o SubSeq(Frame \o <<NL, NL>>, 1, n), 0)
    BY <2>1, <2>2, WriteIs, Zenon
  <2> QED BY <2>3, Zenon
<1> HIDE DEF whole, part
<1>13. CASE out' = out \o Frame \o <<NL, NL>> /\ at' = "relay"
  <2>1. out' \in Seq(Tokens) /\ Len(out') = Len(out) + k + 1 /\ Holds(Whole, out', 0)
    <3>1. out' = whole
      BY <1>13 DEF whole
    <3> QED BY <1>10, <1>15, <3>1
  <2>2. /\ Len(out) + k + 1 + (Len(buf) - (k + 1)) = Len(out) + Len(buf)
    <3>1. \A a, b, c \in Nat : a + b + 1 + (c - (b + 1)) = a + c
      OBVIOUS
    <3> QED BY <1>2, <1>4, <3>1
  <2>3. Flow'
    <3>1. Len(out') + Len(buf') = Len(out) + Len(buf)
      BY <1>1, <1>9, <2>1, <2>2
    <3>2. Holds(Whole', buf', Len(out'))
      BY <1>1, <1>9, <1>10, <1>11, <2>1
    <3>3. Holds(Whole', pipe', Len(out') + Len(buf'))
      BY <1>1, <1>6, <1>11, <3>1
    <3>4. Len(out') + Len(buf') + Len(pipe') = Total'
      BY <1>1, <1>6, <1>11, <3>1
    <3> QED BY <1>11, <2>1, <3>2, <3>3, <3>4 DEF Flow
  <2>4. Boundary(Whole', Len(out'))
    BY <1>2, <1>4, <1>11, <2>1, NextBoundary
  <2>5. Glued'
    BY <1>1, <1>5, <1>11, <2>1 DEF Glued, gwVars
  <2>6. Relaying'
    BY <1>1, <1>4, <1>12, <2>3, <2>4, <2>5, Zenon DEF Relaying, gwVars
  <2>7. Shape'
    BY <1>1, <1>2, <1>9, <1>13, <2>1, Zenon DEF Shape, TypeOK, gwVars
  <2>8. at' = "relay"
    BY <1>1, <1>13 DEF IndInv, gwVars
  <2> QED BY <2>6, <2>7, <2>8, Zenon DEF IndInv
<1>14. CASE /\ agent = "gone" /\ at' = "done"
            /\ \E n \in 0..Len(Frame) + 1 : out' = out \o SubSeq(Frame \o <<NL, NL>>, 1, n)
  <2>1. PICK n \in 0..Len(Frame) + 1 : out' = out \o SubSeq(Frame \o <<NL, NL>>, 1, n)
    BY <1>14, Zenon
  <2>2. out' \in Seq(Tokens) /\ Len(out') = Len(out) + n /\ Holds(Whole, out', 0)
    <3>1. out' = part(n)
      BY <2>1 DEF part
    <3> QED BY <1>15, <3>1
  <2>3. Len(out') <= Total /\ (Len(out') > fed => Len(out) + k + 1 > fed)
    <3>1. n \in Nat /\ n <= k
      BY <1>4, <1>10
    <3> QED BY <1>2, <1>4, <2>2, <3>1
  <2>4. Partial'
    BY <1>1, <1>5, <1>11, <2>2, <2>3 DEF Partial, Glued, gwVars
  <2>5. status' = "200" /\ tail' \in Metadata \union {"none"} /\ ledger' = <<>>
    BY <1>1, <1>4, <1>12 DEF Relaying, gwVars
  <2>6. Ended'
    BY <1>1, <1>14, <2>4, <2>5 DEF Ended
  <2>7. Shape'
    BY <1>1, <1>2, <1>9, <1>14, <2>2, Zenon DEF Shape, TypeOK, gwVars
  <2>8. at' = "done"
    BY <1>1, <1>14 DEF IndInv, gwVars
  <2> QED BY <2>5, <2>6, <2>7, <2>8, Zenon DEF IndInv
<1> QED BY <1>1, <1>13, <1>14, Zenon DEF Write

\* A frame of the gateway is recorded or translated.
LEMMA GatewayFrameInd ==
    ASSUME IndInv, RelayFrame, isAgentGateFrame(Frame)
    PROVE  IndInv'
<1>1. /\ at = "relay" /\ FrameReady /\ buf' = Rest /\ UNCHANGED gwVars /\ pipe' = pipe
      /\ link' = link /\ agent' = agent /\ forwards' = forwards /\ eof' = eof
  BY Zenon DEF RelayFrame
<1>2. /\ Shape /\ fed \in Nat
      /\ out \in Seq(Tokens) /\ buf \in Seq(Tokens) /\ pipe \in Seq(Tokens)
      /\ Len(out) \in Nat /\ NL \in Tokens /\ "api error" \in Tokens
  BY Lengths, Zenon DEF Tokens
<1>0. fed \in Nat
  BY <1>2, Zenon
<1>3. PICK k : k = Index(buf)
  OBVIOUS
<1>4. /\ Flow /\ Boundary(Whole, Len(out)) /\ ledger = <<>>
  BY <1>1, <1>3, FrameIs
<1>5. /\ k = 2 /\ Len(buf) = 3 /\ pipe = <<>> /\ Len(out) = fed
      /\ tail \in Metadata /\ Head(Frame) = tail /\ Frame # <<>>
  BY <1>1, <1>3, GatewayFrame
<1>6. Rest = <<>>
  <2>1. Rest = SubSeq(buf, 4, 3)
    BY <1>3, <1>5 DEF Rest
  <2> QED BY <2>1, SubSeqEmpty
<1>7. Whole' = Whole /\ Total' = Total
  BY <1>1 DEF Whole, Total, gwVars
<1>8. Relaying /\ Holds(Whole, out, 0) /\ Boundary(Whole, fed)
  BY <1>1, <1>4, <1>5 DEF IndInv, Flow
<1>10. CASE tail = "usage"
  <2>1. Insert /\ at' = at /\ out' = out
    BY <1>5, <1>10 DEF RelayFrame, IsUsage
  <2>2. ledger' = <<forwards>>' \/ (ledger' = <<>> /\ dropped')
    <3>1. CASE ledger' = Append(ledger, forwards)
      <4>1. Append(<<>>, forwards) = <<forwards>>
        OBVIOUS
      <4> QED BY <1>1, <1>4, <3>1, <4>1
    <3>2. CASE dropped' = TRUE /\ ledger' = ledger
      BY <1>4, <3>2
    <3> QED BY <2>1, <3>1, <3>2, Zenon DEF Insert
  <2>3. Taken'
    <3>1. /\ tail' = "usage" /\ buf' = <<>> /\ pipe' = <<>> /\ Len(out') = fed'
          /\ Holds(Whole', out', 0) /\ Boundary(Whole', fed')
      BY <1>1, <1>5, <1>6, <1>7, <1>8, <1>10, <2>1 DEF gwVars
    <3> QED BY <2>2, <3>1, Zenon DEF Taken
  <2>4. Relaying'
    BY <1>1, <1>8, <2>3, Zenon DEF Relaying, gwVars
  <2>5. Shape'
    <3>1. buf' \in Seq(Tokens)
      BY <1>1, <1>6, NothingHolds
    <3>2. dropped' \in BOOLEAN
      <4>1. dropped \in BOOLEAN
        BY <1>2, Zenon DEF Shape, TypeOK
      <4>2. dropped' = TRUE \/ dropped' = dropped
        BY <2>1, Zenon DEF Insert
      <4> QED BY <4>1, <4>2, Zenon
    <3> QED BY <1>1, <1>2, <2>1, <3>1, <3>2, Zenon DEF Shape, TypeOK, gwVars
  <2>6. at' = "relay"
    BY <1>1, <2>1
  <2> QED BY <2>4, <2>5, <2>6, Zenon DEF IndInv
<1>11. CASE tail = "error"
  <2>1. Write(<<"api error">>, "done") /\ ledger' = ledger /\ dropped' = dropped
    BY <1>5, <1>11, Zenon DEF RelayFrame, IsUsage
  <2>2. /\ \A i \in 1..fed : Whole[i] = Error[i]
        /\ Error[fed + 1] = "api error" /\ Error[fed + 2] = NL /\ Error[fed + 3] = NL
    <3>1. Whole[fed + 2] = NL /\ Whole[fed + 3] = NL
      <4>1. fed + 2 \in Nat /\ fed + 3 \in Nat /\ fed + 2 > fed + 1 /\ fed + 3 > fed + 1
        BY <1>0
      <4> QED BY <1>2, <4>1, WholeIs, Zenon
    <3>2. \A i \in 1..fed : i \in Nat /\ i # fed + 1
      BY <1>0
    <3>3. /\ fed + 1 \in Nat /\ fed + 2 \in Nat /\ fed + 3 \in Nat
          /\ fed + 2 # fed + 1 /\ fed + 3 # fed + 1
      BY <1>0
    <3> QED BY <3>1, <3>2, <3>3, Zenon DEF Error
  <2>3. Holds(Error, out, 0)
    <3>1. 0 + Len(out) <= fed /\ 0 \in Nat /\ out \in Seq(Tokens)
      <4>1. 0 + fed <= fed
        BY <1>0
      <4> QED BY <1>2, <1>5, <4>1, Zenon
    <3>2. \A i \in 1..fed : Whole[i] = Error[i]
      BY <2>2, Zenon
    <3> QED BY <1>0, <1>8, <3>1, <3>2, HoldsKept
  <2> DEFINE message == <<"api error">>
  <2>4. message \in Seq(Tokens) /\ Len(message) = 1 /\ message[1] = "api error"
    BY <1>2, OneByte, Zenon
  <2> HIDE DEF message
  <2>5. Holds(Error, message, Len(out))
    <3>1. \A i \in 1..1 : i = 1
      OBVIOUS
    <3> QED BY <1>5, <2>2, <2>4, <3>1, Zenon DEF Holds
  <2>6. Error[Len(out) + Len(message) + 1] = NL /\ Error[Len(out) + Len(message) + 2] = NL
    <3>1. fed + 1 + 1 = fed + 2 /\ fed + 1 + 2 = fed + 3
      BY <1>0
    <3> QED BY <1>5, <2>2, <2>4, <3>1, Zenon
  <2>7. out \in Seq(Tokens) /\ NL \in Tokens
    BY <1>2, Zenon
  <2>8. /\ out \o message \o <<NL, NL>> \in Seq(Tokens)
        /\ Len(out \o message \o <<NL, NL>>) = Len(out) + Len(message) + 2
        /\ Holds(Error, out \o message \o <<NL, NL>>, 0)
        /\ \A n \in 0..Len(message) + 1 :
              /\ out \o SubSeq(message \o <<NL, NL>>, 1, n) \in Seq(Tokens)
              /\ Len(out \o SubSeq(message \o <<NL, NL>>, 1, n)) = Len(out) + n
              /\ Holds(Error, out \o SubSeq(message \o <<NL, NL>>, 1, n), 0)
    BY <2>3, <2>4, <2>5, <2>6, <2>7, WriteIs, Zenon
  <2>9. /\ at' = "done" /\ out' \in Seq(Tokens) /\ Holds(Error, out', 0)
        /\ Len(out') = fed + 3 \/ (agent = "gone" /\ \E n \in 0..2 : Len(out') = fed + n)
    <3>1. CASE at' = "done" /\ out' = out \o message \o <<NL, NL>>
      <4>1. fed + 1 + 2 = fed + 3
        BY <1>0
      <4> QED BY <1>5, <2>4, <2>8, <3>1, <4>1, Zenon
    <3>2. CASE /\ at' = "done" /\ agent = "gone"
               /\ \E n \in 0..Len(message) + 1 : out' = out \o SubSeq(message \o <<NL, NL>>, 1, n)
      <4>1. PICK n \in 0..Len(message) + 1 : out' = out \o SubSeq(message \o <<NL, NL>>, 1, n)
        BY <3>2, Zenon
      <4>2. n \in 0..2
        <5>1. Len(message) = 1
          BY <2>4, Zenon
        <5>2. 0..1 + 1 = 0..2
          OBVIOUS
        <5> QED BY <5>1, <5>2
      <4>3. out' \in Seq(Tokens) /\ Len(out') = Len(out) + n /\ Holds(Error, out', 0)
        BY <2>8, <4>1, Zenon
      <4> QED BY <1>5, <3>2, <4>2, <4>3
    <3> QED BY <2>1, <3>1, <3>2, Zenon DEF Write, message
  <2>10. Error' = Error
    BY <1>1, <1>7 DEF Error, gwVars
  <2>11. Translated'
    <3>1. Len(out') >= fed /\ Len(out') <= fed + 3
      BY <1>0, <2>9
    <3> QED BY <1>1, <1>7, <1>8, <1>11, <2>9, <2>10, <3>1 DEF Translated, gwVars
  <2>12. Complete' \/ agent' = "gone"
    <3>1. CASE Len(out') = fed + 3
      <4>1. /\ tail' # "none" /\ tail' # "close" /\ tail' # "usage" /\ Boundary(Whole', fed')
            /\ Len(out') = fed' + 3
        BY <1>1, <1>7, <1>8, <1>11, <3>1 DEF gwVars
      <4> QED BY <4>1, Zenon DEF Complete
    <3> QED BY <1>1, <2>9, <3>1
  <2>13. status' = "200" /\ tail' \in Metadata \union {"none"} /\ ledger' = <<>>
    BY <1>1, <1>4, <1>8, <2>1, Zenon DEF Relaying, gwVars
  <2>14. Ended'
    BY <2>11, <2>12, <2>13 DEF Ended
  <2>15. Shape'
    <3>1. buf' \in Seq(Tokens)
      BY <1>1, <1>6, NothingHolds
    <3> QED BY <1>1, <1>2, <2>1, <2>9, <3>1, Zenon DEF Shape, TypeOK, gwVars
  <2>16. at' = "done"
    BY <2>9
  <2> QED BY <2>13, <2>14, <2>15, <2>16, Zenon DEF IndInv
<1> QED BY <1>5, <1>10, <1>11 DEF Metadata

\* Every step keeps the invariant.
LEMMA NextInd == IndInv /\ [Next]_vars => IndInv'
<1> SUFFICES ASSUME IndInv, [Next]_vars PROVE IndInv'
  OBVIOUS
<1>1. CASE Post
  BY <1>1, PostInd
<1>2. CASE forward
  BY <1>2, NoAnswerInd, RefusedInd, StreamingInd DEF forward
<1>3. CASE relay
  BY <1>3, ReadMoreInd, ReadEOFInd, RelayStopsInd, ProviderFrameInd, GatewayFrameInd DEF relay
<1>4. CASE copy
  BY <1>4, CopyReadInd, CopyEndsInd DEF copy
<1>5. CASE GwForward
  BY <1>5, GwForwardInd
<1>6. ASSUME NEW event \in Metadata, GwClose(event) PROVE IndInv'
  BY <1>6, GwCloseInd
<1>7. link \in {"up", "broken"} /\ agent \in {"there", "gone"}
  BY Zenon DEF IndInv, Shape, TypeOK
<1>8. CASE Break
  BY <1>7, <1>8, SameInd DEF Break
<1>9. CASE Disconnect
  BY <1>7, <1>9, SameInd DEF Disconnect
<1>10. CASE Done \/ UNCHANGED vars
  BY <1>7, <1>10, SameInd DEF Done, vars
<1> QED BY <1>1, <1>2, <1>3, <1>4, <1>5, <1>6, <1>8, <1>9, <1>10 DEF Next

-----------------------------------------------------------------------------
(* The theorems. *)

\* A boundary of the provider's bytes, as the properties say it.
LEMMA AlignedIs ==
    ASSUME Shape
    PROVE  /\ Sent \in Seq(Bytes) /\ Len(Sent) = fed /\ \A i \in 1..fed : Sent[i] = Whole[i]
           /\ Aligned(Sent) <=> Boundary(Whole, fed)
<1>1. text \in Seq(Bytes) /\ fed \in 0..Len(text) /\ fed \in Nat
  BY WholeIs, Zenon DEF Shape, TypeOK
<1>2. Holds(text, text, 0)
  <2>1. \A i \in 1..Len(text) : 0 + i = i
    OBVIOUS
  <2> QED BY <2>1 DEF Holds
<1>3. Sent \in Seq(Bytes) /\ Len(Sent) = fed /\ Holds(text, Sent, 0)
  BY <1>1, <1>2, HoldsFirst DEF Sent
<1>4. \A i \in 1..fed : Sent[i] = Whole[i]
  <2>1. \A i \in 1..fed : 0 + i = i
    BY <1>1
  <2>2. \A i \in 1..fed : Whole[i] = text[i]
    BY WholeIs
  <2> QED BY <1>3, <2>1, <2>2 DEF Holds
<1>5. Boundary(Sent, fed) <=> Boundary(Whole, fed)
  BY <1>1, <1>4, BoundaryKept
<1>6. Aligned(Sent) <=> Boundary(Sent, fed)
  <2>1. Sent = <<>> <=> fed = 0
    BY <1>3
  <2> QED BY <1>3, <2>1 DEF Aligned, Boundary
<1> QED BY <1>3, <1>4, <1>5, <1>6

\* A piece from the beginning is a prefix.
LEMMA PrefixIs ==
    ASSUME NEW S, NEW s \in Seq(S), NEW t \in Seq(S), NEW w, Holds(w, s, 0), Holds(w, t, 0),
           Len(s) <= Len(t)
    PROVE  IsPrefix(s, t) /\ (Len(s) = Len(t) => s = t)
<1>1. Len(s) \in Nat /\ Len(t) \in Nat /\ \A i \in 1..Len(s) : i \in 1..Len(t)
  OBVIOUS
<1>2. \A i \in 1..Len(s) : s[i] = t[i]
  BY <1>1 DEF Holds
<1>3. s = SubSeq(t, 1, Len(s))
  <2> DEFINE b == SubSeq(t, 1, Len(s))
  <2>1. b \in Seq(S) /\ Len(b) = Len(s) /\ \A i \in 1..Len(s) : b[i] = t[i]
    BY <1>1, SubSeqProperties
  <2> HIDE DEF b
  <2>2. s = b
    BY <1>2, <2>1, SeqEqual
  <2> QED BY <2>2 DEF b
<1>4. Len(s) = Len(t) => s = t
  BY <1>2, SeqEqual
<1> QED BY <1>3, <1>4 DEF IsPrefix

\* What the invariant says of an answer, at every step of the relay.
LEMMA Delivered ==
    ASSUME IndInv, status \in {"200", "4xx"}
    PROVE  /\ Partial \/ Translated
           /\ at = "done" /\ link = "up" /\ agent = "there" => Complete
<1>1. at \in {"relay", "copy", "done"}
  <2>1. at \in {"idle", "waiting", "relay", "copy", "done"}
    BY Zenon DEF IndInv, Shape, TypeOK
  <2> QED BY <2>1, Zenon DEF IndInv, Blank
<1>2. CASE at = "done"
  BY <1>2, Zenon DEF IndInv, Ended
<1>3. CASE at \in {"relay", "copy"}
  BY <1>3, RelayedIsPartial
<1> QED BY <1>1, <1>2, <1>3

\* The provider's bytes and an event behind them.
LEMMA CodaIs ==
    ASSUME Shape, NEW w, \A i \in 1..fed : Whole[i] = w[i], NEW event \in Tokens,
           w[fed + 1] = event, w[fed + 2] = NL, w[fed + 3] = NL
    PROVE  /\ Sent \in Seq(Tokens) /\ Holds(w, Sent, 0)
           /\ Sent \o <<event, NL, NL>> \in Seq(Tokens)
           /\ Len(Sent \o <<event, NL, NL>>) = fed + 3
           /\ Holds(w, Sent \o <<event, NL, NL>>, 0)
<1>1. fed \in Nat /\ NL \in Tokens
  BY WholeIs, Zenon DEF Tokens
<1>2. Sent \in Seq(Tokens) /\ Len(Sent) = fed /\ Holds(w, Sent, 0)
  <2>1. Sent \in Seq(Bytes) /\ Bytes \subseteq Tokens
    BY AlignedIs, Zenon DEF Tokens
  <2>2. Sent \in Seq(Tokens)
    BY <2>1
  <2>3. \A i \in 1..fed : 0 + i = i
    BY <1>1
  <2> QED BY <2>2, <2>3, AlignedIs DEF Holds
<1> DEFINE coda == <<event, NL, NL>>
<1>3. /\ coda \in Seq(Tokens) /\ Len(coda) = 3
      /\ coda[1] = event /\ coda[2] = NL /\ coda[3] = NL
  BY <1>1
<1> HIDE DEF coda
<1>4. Holds(w, coda, 0 + Len(Sent))
  <2>1. \A i \in 1..3 : i = 1 \/ i = 2 \/ i = 3
    OBVIOUS
  <2>2. 0 + fed = fed
    BY <1>1
  <2> QED BY <1>2, <1>3, <2>1, <2>2 DEF Holds
<1>5. /\ Sent \o coda \in Seq(Tokens) /\ Len(Sent \o coda) = Len(Sent) + Len(coda)
      /\ Holds(w, Sent \o coda, 0)
  BY <1>2, <1>3, <1>4, HoldsConcat, Zenon
<1> QED BY <1>2, <1>3, <1>5 DEF coda

\* The invariant implies the property of the relay.
LEMMA IndInvRelayed == IndInv => RelayedVerbatim
<1> SUFFICES ASSUME IndInv, status \in {"200", "4xx"}
             PROVE  IF Clean THEN IsPrefix(out, Expected) /\ (Uninterrupted => out = Expected)
                    ELSE /\ IsPrefix(out, Sent) \/ IsPrefix(Sent, out)
                         /\ Uninterrupted => IsPrefix(Sent, out)
  BY DEF RelayedVerbatim
<1>1. /\ Shape /\ fed \in Nat /\ out \in Seq(Tokens) /\ Len(out) \in Nat
  BY Lengths
<1>2. /\ Partial \/ Translated
      /\ Uninterrupted => Complete
  BY Delivered, SMTT(30) DEF Uninterrupted
<1>3. /\ Aligned(Sent) <=> Boundary(Whole, fed)
      /\ Len(Sent) = fed
  BY <1>1, AlignedIs
<1>4. tail \in Metadata \union {"none", "close"}
  BY <1>1, Zenon DEF Shape, TypeOK
<1>5. CASE tail \in {"none", "close"} \/ (tail = "usage" /\ Boundary(Whole, fed))
  <2>1. Expected = Sent /\ Clean
    <3>1. tail # "error" /\ (tail \notin Metadata \/ Aligned(Sent))
      <4>1. CASE tail \in {"none", "close"}
        BY <4>1 DEF Metadata
      <4>2. CASE tail = "usage" /\ Boundary(Whole, fed)
        BY <1>3, <4>2
      <4> QED BY <1>5, <4>1, <4>2
    <3> QED BY <3>1, Zenon DEF Expected, Clean
  <2>2. Partial
    BY <1>2, <1>5 DEF Translated
  <2>3. Len(out) <= fed /\ Holds(Whole, out, 0)
    BY <1>1, <1>5, <2>2 DEF Partial, Glued, Total, Metadata
  <2>4. Sent \in Seq(Tokens) /\ Holds(Whole, Sent, 0)
    <3>1. Sent \in Seq(Bytes) /\ Bytes \subseteq Tokens
      BY <1>1, AlignedIs, Zenon DEF Tokens
    <3>2. Sent \in Seq(Tokens)
      BY <3>1
    <3>3. \A i \in 1..fed : 0 + i = i
      BY <1>1
    <3> QED BY <1>1, <3>2, <3>3, AlignedIs DEF Holds
  <2>5. IsPrefix(out, Sent) /\ (Len(out) = fed => out = Sent)
    BY <1>1, <1>3, <2>3, <2>4, PrefixIs
  <2>6. Complete => Len(out) = fed
    <3>1. CASE tail = "none"
      BY <3>1, Zenon DEF Complete
    <3>2. CASE tail = "close"
      BY <3>2, Zenon DEF Complete
    <3>3. CASE tail = "usage" /\ Boundary(Whole, fed)
      BY <3>3, Zenon DEF Complete
    <3> QED BY <1>5, <3>1, <3>2, <3>3
  <2> QED BY <1>2, <2>1, <2>5, <2>6
<1>6. CASE tail \in Metadata /\ ~Boundary(Whole, fed)
  <2>1. ~Clean
    BY <1>3, <1>6, Zenon DEF Clean
  <2>2. Partial
    BY <1>2, <1>6 DEF Translated
  <2>3. Holds(Whole, out, 0)
    BY <2>2, SMTT(30) DEF Partial
  <2>4. Sent \in Seq(Tokens) /\ Holds(Whole, Sent, 0)
    <3>1. Sent \in Seq(Bytes) /\ Bytes \subseteq Tokens
      BY <1>1, AlignedIs, Zenon DEF Tokens
    <3>2. Sent \in Seq(Tokens)
      BY <3>1
    <3>3. \A i \in 1..fed : 0 + i = i
      BY <1>1
    <3> QED BY <1>1, <3>2, <3>3, AlignedIs DEF Holds
  <2>5. Len(out) <= fed => IsPrefix(out, Sent)
    BY <1>1, <1>3, <2>3, <2>4, PrefixIs
  <2>6. Len(out) >= fed => IsPrefix(Sent, out)
    BY <1>1, <1>3, <2>3, <2>4, PrefixIs
  <2>7. Complete => Len(out) >= fed
    <3>1. Complete => Len(out) = fed + 3
      BY <1>6, Zenon DEF Complete
    <3> QED BY <1>1, <3>1
  <2>8. Len(out) <= fed \/ Len(out) >= fed
    BY <1>1
  <2> QED BY <1>2, <2>1, <2>5, <2>6, <2>7, <2>8
<1>7. CASE tail = "error" /\ Boundary(Whole, fed)
  <2>0. Clean
    BY <1>3, <1>7, Zenon DEF Clean
  <2>1. Expected = Sent \o <<"api error", NL, NL>>
    BY <1>7, Zenon DEF Expected
  <2>2. /\ \A i \in 1..fed : Whole[i] = Error[i]
        /\ Error[fed + 1] = "api error" /\ Error[fed + 2] = NL /\ Error[fed + 3] = NL
        /\ "api error" \in Tokens
    <3>1. /\ fed + 2 \in Nat /\ fed + 3 \in Nat /\ fed + 2 > fed + 1 /\ fed + 3 > fed + 1
          /\ fed + 2 # fed + 1 /\ fed + 3 # fed + 1 /\ fed + 1 \in Nat
          /\ \A i \in 1..fed : i \in Nat /\ i # fed + 1
      BY <1>1
    <3>2. Whole[fed + 2] = NL /\ Whole[fed + 3] = NL
      BY <1>1, <3>1, WholeIs, Zenon
    <3> QED BY <3>1, <3>2, Zenon DEF Error, Tokens
  <2>3. Expected \in Seq(Tokens) /\ Len(Expected) = fed + 3 /\ Holds(Error, Expected, 0)
    BY <1>1, <2>1, <2>2, CodaIs, Zenon
  <2>4. Len(out) <= fed + 3 /\ Holds(Error, out, 0)
    <3>1. CASE Translated
      BY <3>1 DEF Translated
    <3>2. CASE Partial
      <4>1. Len(out) <= fed /\ Holds(Whole, out, 0)
        BY <1>1, <1>7, <3>2 DEF Partial, Glued
      <4>2. 0 + Len(out) <= fed /\ 0 \in Nat /\ Len(out) <= fed + 3
        BY <1>1, <4>1
      <4> QED BY <1>1, <2>2, <4>1, <4>2, HoldsKept, Zenon
    <3> QED BY <1>2, <3>1, <3>2
  <2>5. IsPrefix(out, Expected) /\ (Len(out) = fed + 3 => out = Expected)
    BY <1>1, <2>3, <2>4, PrefixIs
  <2>6. Complete => Len(out) = fed + 3
    BY <1>7, Zenon DEF Complete
  <2> QED BY <1>2, <2>0, <2>5, <2>6
<1> QED BY <1>4, <1>5, <1>6, <1>7 DEF Metadata

\* The invariant implies the property of the ledger.
LEMMA IndInvLedger == IndInv => LedgerFollowsStream
<1> SUFFICES ASSUME IndInv PROVE LedgerFollowsStream
  OBVIOUS
<1>1. Shape /\ (Aligned(Sent) <=> Boundary(Whole, fed))
  BY Lengths, AlignedIs
<1>2. at \in {"idle", "waiting", "relay", "copy", "done"}
  BY <1>1, Zenon DEF Shape, TypeOK
<1>3. ledger # <<>> => ledger = <<forwards>> /\ tail = "usage" /\ Boundary(Whole, fed)
  <2>1. CASE at \in {"idle", "waiting"}
    BY <2>1, Zenon DEF IndInv, Blank
  <2>2. CASE at \in {"relay", "copy"}
    BY <2>2, RelayedIsPartial
  <2>3. CASE at = "done"
    BY <2>3, Zenon DEF IndInv, Ended
  <2> QED BY <1>2, <2>1, <2>2, <2>3
<1>4. ASSUME at = "done", link = "up", agent = "there", ~dropped, tail = "usage",
             Boundary(Whole, fed)
      PROVE  ledger # <<>>
  <2>1. Complete
    BY <1>4 DEF IndInv, Ended
  <2> QED BY <1>4, <2>1, Zenon DEF Complete
<1> QED BY <1>1, <1>3, <1>4, Zenon DEF LedgerFollowsStream

\* The invariant always holds.
LEMMA Invariance == Spec => []IndInv
BY InitInd, NextInd, PTL DEF Spec

\* Types; the gateway is asked at most twice (doWithRetry).
THEOREM TypeCorrect == Spec => []TypeOK
<1>1. IndInv => TypeOK
  BY Zenon DEF IndInv, Shape
<1> QED BY Invariance, <1>1, PTL

\* Whatever the stream and wherever the reads cut it, the agent gets the provider's bytes
\* unchanged and in order, all of them unless the relay is interrupted, and nothing else
\* but the translated error when the gateway's event follows a finished one (relayStream,
\* sseReader.NextFrame).
THEOREM RelayIsVerbatim == Spec => []RelayedVerbatim
BY Invariance, IndInvRelayed, PTL

\* The local ledger has a row exactly when a usage event on a frame boundary was relayed
\* and stored (processUsageFrame).
THEOREM LedgerIsFaithful == Spec => []LedgerFollowsStream
BY Invariance, IndInvLedger, PTL

\* A retry is the second request and comes before anything of an answer has been read,
\* written or recorded (doWithRetry, client.go:76).
THEOREM RetryIsEarly == Spec => RetriedBeforeFirstByte
<1>1. ASSUME IndInv, [Next]_vars, forwards > 0, forwards' # forwards
      PROVE  out' = <<>> /\ buf' = <<>> /\ pipe' = <<>> /\ ledger' = <<>>
  <2>1. CASE ServerError
    <3>1. Blank
      BY <1>1, <2>1, Zenon DEF IndInv, ServerError
    <3>2. out' = out /\ buf' = buf /\ pipe' = pipe /\ ledger' = ledger
      BY <1>1, <2>1 DEF ServerError
    <3> QED BY <3>1, <3>2 DEF Blank
  <2>2. CASE Post
    BY <1>1, <2>2 DEF IndInv, Post
  <2>3. CASE ~ServerError /\ ~Post
    <3>1. forwards' = forwards
      BY <1>1, <2>3, Zenon
         DEF Next, forward, relay, copy, TransportError, Refused, Streaming, ReadMore,
             ReadEOF, ReadError, RelayFrame, RelayEnds, CopyRead, CopyEnds, GwForward,
             GwClose, Break, Disconnect, Done, vars, lpVars
    <3> QED BY <1>1, <3>1
  <2> QED BY <2>1, <2>2, <2>3
<1>2. IndInv /\ [Next]_vars =>
        [forwards > 0 /\ forwards' # forwards =>
           out' = <<>> /\ buf' = <<>> /\ pipe' = <<>> /\ ledger' = <<>>]_vars
  BY <1>1
<1> QED BY Invariance, <1>2, PTL DEF Spec, RetriedBeforeFirstByte

=============================================================================
