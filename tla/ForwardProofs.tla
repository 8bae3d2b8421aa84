--------------------------- MODULE ForwardProofs ---------------------------
(***************************************************************************)
(* Proofs about Forward for any set of requests, any costs and any bounds. *)
(* RequestInv is what one request keeps true at every point of its two     *)
(* goroutines; no action but the settler's tick and a crash concerns more  *)
(* than one request, so each action is shown to preserve it for the        *)
(* request it belongs to, and Frame covers the others.                     *)
(***************************************************************************)
EXTENDS Forward, TLAPS

\* Where the goroutine is tells what it has already recorded.
Progress(r) ==
    /\ hpc[r] \in {"idle", "call", "retry", "reserve"} => rows[r].state = "none"
    /\ hpc[r] \in {"idle", "call", "retry", "reserve", "start"} => gpc[r] = "off"
    /\ gpc[r] \in {"off", "read", "offer"} => ended[r] = "open"
    /\ gpc[r] = "usage" => ended[r] = "eof"
    /\ gpc[r] = "error" => ended[r] = "err"
    /\ gpc[r] \in {"cost", "settle"} => ended[r] # "open"
    /\ gpc[r] \in {"off", "read", "offer", "cost", "usage"} => told[r] = NoBill
    /\ gpc[r] \in {"off", "read", "offer", "cost"} => costEvents[r] = <<>>
    /\ gpc[r] = "settle" /\ ended[r] = "eof" => told[r] = bill[r]

\* The accumulator has seen what the provider sent, up to the line in hand.
Accumulated(r) ==
    /\ gpc[r] = "off" => acc[r] = NoUsage /\ last[r] = NoUsage
    /\ gpc[r] \in {"read", "cost"} => acc[r] = last[r]
    /\ gpc[r] = "offer" => last[r] = (IF line[r] = NoUsage THEN acc[r] ELSE line[r])
    /\ gpc[r] \in {"usage", "settle"} => bill[r] = Cents(last[r])

\* Nothing but the goroutine's one settlement and the settler end a hold.
RowInv(r) ==
    /\ gpc[r] \in {"off", "read", "offer", "cost", "usage", "settle"} =>
          rows[r].state \in {"none", "reserved", "expired"}
    /\ rows[r].state = "committed" => ended[r] = "eof" /\ have[r] /\ rows[r].actual = told[r]
    /\ rows[r].state = "released" => ended[r] = "err" /\ have[r]
    /\ rows[r].state = "expired" => rows[r].stale
    /\ rows[r].state = "committed" => rows[r].actual # NoActual

AccountInv(r) ==
    /\ Len(costEvents[r]) <= 1
    /\ \A k \in 1..Len(costEvents[r]) :
          /\ costEvents[r][k].cents = Cents(last[r])
          /\ costEvents[r][k].class = ended[r]
    /\ told[r] # NoBill => told[r] = Cents(last[r]) /\ ended[r] = "eof"

BlockedInv(r) ==
    hpc[r] = "done" /\ gpc[r] \notin {"off", "closed", "dead"} => client[r] = "gone"

RequestInv(r) ==
    Progress(r) /\ Accumulated(r) /\ RowInv(r) /\ AccountInv(r) /\ BlockedInv(r)

IndInv == TypeOK /\ \A r \in Ids : RequestInv(r)

-----------------------------------------------------------------------------

\* Init establishes the invariant.
LEMMA InitIndInv == Init => IndInv
  <1> SUFFICES ASSUME Init PROVE IndInv
    OBVIOUS
  <1>1. TypeOK
    BY DEF Init, RowsInit, NoRow, TypeOK, Row, States, Settled, NoActual, HandlerStates,
           StreamStates, NoUsage, NoBill
  <1>2. ASSUME NEW r \in Ids PROVE RequestInv(r)
    BY <1>2 DEF Init, RowsInit, NoRow, RequestInv, Progress, Accumulated, RowInv,
           AccountInv, BlockedInv, NoActual, NoUsage, NoBill
  <1> QED
    BY <1>1, <1>2 DEF IndInv

\* Each SQL statement keeps the table well typed.
LEMMA RowsType ==
  ASSUME rows \in [Ids -> Row], NEW i \in Ids, NEW e \in Nat, NEW c \in Nat \union {NoActual}
  PROVE  /\ InsertRow(i, e) => rows' \in [Ids -> Row]
         /\ CommitRow(i, c) => rows' \in [Ids -> Row]
         /\ ReleaseRow(i) => rows' \in [Ids -> Row]
         /\ AgeRow(i) => rows' \in [Ids -> Row]
  <1>1. InsertRow(i, e) => rows' \in [Ids -> Row]
    BY DEF InsertRow, Row, States, Settled, NoActual
  <1>2. CommitRow(i, c) => rows' \in [Ids -> Row]
    <2>1. [rows[i] EXCEPT !.state = "committed", !.actual = c] \in Row
      BY Zenon DEF Row, States, Settled
    <2> QED
      BY <2>1 DEF CommitRow
  <1>3. ReleaseRow(i) => rows' \in [Ids -> Row]
    <2>1. [rows[i] EXCEPT !.state = "released"] \in Row
      BY DEF Row, States, Settled
    <2> QED
      BY <2>1 DEF ReleaseRow
  <1>4. AgeRow(i) => rows' \in [Ids -> Row]
    <2>1. [rows[i] EXCEPT !.stale = TRUE] \in Row
      BY Zenon DEF Row
    <2> QED
      BY <2>1 DEF AgeRow
  <1> QED
    BY <1>1, <1>2, <1>3, <1>4

\* The settler's UPDATE keeps the table well typed.
LEMMA ExpireType ==
  ASSUME rows \in [Ids -> Row], ExpireRows
  PROVE  rows' \in [Ids -> Row]
  <1>1. ASSUME NEW i \in Ids PROVE [rows[i] EXCEPT !.state = "expired"] \in Row
    BY <1>1 DEF Row, States, Settled
  <1> QED
    BY <1>1 DEF ExpireRows

\* Every step keeps every variable in its domain.
LEMMA TypeStep == TypeOK /\ [Next]_vars => TypeOK'
  <1> SUFFICES ASSUME TypeOK, [Next]_vars PROVE TypeOK'
    OBVIOUS
  <1> USE ForwardAssumption
  <1> USE DEF TypeOK, HandlerStates, StreamStates, NoUsage, NoBill, HandlerStep,
              StreamStep, handlerVars, streamVars, history
  <1>1. ASSUME NEW r \in Ids, Handle(r) PROVE TypeOK'
    <2>1. CASE Accept(r)
      BY <2>1, Zenon DEF Accept
    <2>2. CASE CallProvider(r)
      BY <2>2 DEF CallProvider
    <2>3. CASE RetryProvider(r)
      BY <2>3 DEF RetryProvider
    <2>4. CASE Reserve(r)
      BY <2>4, RowsType, Zenon DEF Reserve, NoActual
    <2>5. CASE StartStream(r)
      BY <2>5 DEF StartStream
    <2>6. CASE Persist(r)
      BY <2>6 DEF Persist
    <2>7. CASE Flush(r)
      BY <2>7, Zenon DEF Flush
    <2>8. CASE ReadEOF(r)
      BY <2>8 DEF ReadEOF
    <2> QED
      BY <1>1, <2>1, <2>2, <2>3, <2>4, <2>5, <2>6, <2>7, <2>8, ZenonT(30) DEF Handle
  <1>2. ASSUME NEW r \in Ids, Stream(r) PROVE TypeOK'
    <2>1. CASE ReadUpstream(r)
      <3>1. CASE StreamStep(r, "read", "offer")
        <4>1. PICK l \in Costs \union {NoUsage} :
                /\ line' = [line EXCEPT ![r] = l]
                /\ last' = [last EXCEPT ![r] = IF l = NoUsage THEN @ ELSE l]
                /\ lines' = [lines EXCEPT ![r] = @ + 1]
                /\ UNCHANGED ended
          BY <2>1, <3>1, Zenon DEF ReadUpstream
        <4>2. UNCHANGED <<rows, hpc, client, have, acc, bill, costEvents, told, crashes>>
          BY <2>1 DEF ReadUpstream
        <4> QED
          BY <3>1, <4>1, <4>2
      <3>2. CASE StreamStep(r, "read", "cost")
        <4>1. PICK e \in {"eof", "err"} : ended' = [ended EXCEPT ![r] = e]
          BY <2>1, <3>2 DEF ReadUpstream
        <4>2. UNCHANGED <<rows, hpc, client, have, acc, bill, costEvents, told, crashes,
                          line, lines, last>>
          BY <2>1, <3>2 DEF ReadUpstream
        <4> QED
          BY <3>2, <4>1, <4>2
      <3> QED
        BY <2>1, <3>1, <3>2 DEF ReadUpstream
    <2>2. CASE ForwardLine(r)
      BY <2>2 DEF ForwardLine
    <2>3. CASE Account(r)
      <3>1. Cents(acc[r]) \in Nat
        BY Zenon DEF Cents
      <3>2. Append(costEvents[r], [cents |-> Cents(acc[r]), class |-> ended[r]])
              \in Seq([cents : Nat, class : {"open", "eof", "err"}])
        BY <3>1
      <3> QED
        BY <2>3, <3>1, <3>2, ZenonT(30) DEF Account
    <2>4. CASE InjectUsage(r)
      BY <2>4 DEF InjectUsage
    <2>5. CASE PostAccount(r)
      <3>1. rows' \in [Ids -> Row]
        <4>1. CASE have[r] /\ ended[r] = "eof" /\ CommitRow(r, bill[r])
          BY <4>1, RowsType, Zenon DEF NoActual
        <4>2. CASE ReleaseRow(r)
          BY <4>2, RowsType
        <4> QED
          BY <2>5, <4>1, <4>2 DEF PostAccount
      <3> QED
        BY <2>5, <3>1, Zenon DEF PostAccount
    <2>6. CASE InjectError(r)
      BY <2>6 DEF InjectError
    <2>7. CASE CloseStream(r)
      BY <2>7 DEF CloseStream
    <2> QED
      BY <1>2, <2>1, <2>2, <2>3, <2>4, <2>5, <2>6, <2>7, ZenonT(30) DEF Stream
  <1>3. ASSUME NEW r \in Ids, ClientLeaves(r) PROVE TypeOK'
    BY <1>3 DEF ClientLeaves
  <1>4. ASSUME NEW r \in Ids, Age(r) PROVE TypeOK'
    BY <1>4, RowsType DEF Age
  <1>5. CASE SettlerTick
    <2>1. rows' \in [Ids -> Row]
      BY <1>5, ExpireType DEF SettlerTick
    <2> QED
      BY <1>5, <2>1 DEF SettlerTick
  <1>6. CASE Crash
    BY <1>6 DEF Crash
  <1>7. CASE UNCHANGED vars
    BY <1>7, Zenon DEF vars
  <1> QED
    BY <1>1, <1>2, <1>3, <1>4, <1>5, <1>6, <1>7, ZenonT(30) DEF Next
-----------------------------------------------------------------------------

\* What a step does not touch of a request, it does not disturb.
Same(q) ==
    /\ rows'[q] = rows[q] /\ hpc'[q] = hpc[q] /\ client'[q] = client[q]
    /\ have'[q] = have[q] /\ gpc'[q] = gpc[q] /\ line'[q] = line[q]
    /\ acc'[q] = acc[q] /\ ended'[q] = ended[q] /\ bill'[q] = bill[q]
    /\ costEvents'[q] = costEvents[q] /\ told'[q] = told[q] /\ last'[q] = last[q]

\* A request none of whose variables change keeps its invariant.
LEMMA Frame == ASSUME NEW q \in Ids, RequestInv(q), Same(q) PROVE RequestInv(q)'
  BY DEF Same, RequestInv, Progress, Accumulated, RowInv, AccountInv, BlockedInv, Cents

Own(r) == Handle(r) \/ Stream(r) \/ ClientLeaves(r) \/ Age(r)

\* An action of one request leaves every other request as it is.
LEMMA Others ==
  ASSUME TypeOK, NEW r \in Ids, Own(r), NEW q \in Ids, q # r
  PROVE  Same(q)
  <1> USE DEF TypeOK, HandlerStep, StreamStep, handlerVars, streamVars, history, Same
  <1>1. CASE Handle(r)
    <2>1. CASE Accept(r)
      BY <2>1 DEF Accept
    <2>2. CASE CallProvider(r)
      BY <2>2 DEF CallProvider
    <2>3. CASE RetryProvider(r)
      BY <2>3 DEF RetryProvider
    <2>4. CASE Reserve(r)
      BY <2>4 DEF Reserve, InsertRow
    <2>5. CASE StartStream(r)
      BY <2>5 DEF StartStream
    <2>6. CASE Persist(r)
      BY <2>6 DEF Persist
    <2>7. CASE Flush(r)
      BY <2>7 DEF Flush
    <2>8. CASE ReadEOF(r)
      BY <2>8 DEF ReadEOF
    <2> QED
      BY <1>1, <2>1, <2>2, <2>3, <2>4, <2>5, <2>6, <2>7, <2>8, ZenonT(30) DEF Handle
  <1>2. CASE Stream(r)
    <2>1. CASE ReadUpstream(r)
      BY <2>1 DEF ReadUpstream
    <2>2. CASE ForwardLine(r)
      BY <2>2 DEF ForwardLine
    <2>3. CASE Account(r)
      BY <2>3 DEF Account
    <2>4. CASE InjectUsage(r)
      BY <2>4 DEF InjectUsage
    <2>5. CASE PostAccount(r)
      BY <2>5 DEF PostAccount, CommitRow, ReleaseRow
    <2>6. CASE InjectError(r)
      BY <2>6 DEF InjectError
    <2>7. CASE CloseStream(r)
      BY <2>7 DEF CloseStream
    <2> QED
      BY <1>2, <2>1, <2>2, <2>3, <2>4, <2>5, <2>6, <2>7, Zenon DEF Stream
  <1>3. CASE ClientLeaves(r)
    BY <1>3 DEF ClientLeaves
  <1>4. CASE Age(r)
    BY <1>4 DEF Age, AgeRow
  <1> QED
    BY <1>1, <1>2, <1>3, <1>4, SMTT(30) DEF Own

\* AccountInv reads four variables only.
LEMMA AccountFrame ==
  ASSUME NEW r \in Ids, AccountInv(r), costEvents'[r] = costEvents[r],
         told'[r] = told[r], last'[r] = last[r], ended'[r] = ended[r]
  PROVE  AccountInv(r)'
  BY DEF AccountInv

\* Nothing recorded and nothing invoiced: AccountInv holds.
LEMMA AccountEmpty ==
  ASSUME NEW r \in Ids, costEvents'[r] = <<>>, told'[r] = NoBill
  PROVE  AccountInv(r)'
  BY DEF AccountInv

\* What a step of request r needs of the types.
Shape(r) ==
    /\ r \in DOMAIN rows /\ r \in DOMAIN hpc /\ r \in DOMAIN client /\ r \in DOMAIN have
    /\ r \in DOMAIN gpc /\ r \in DOMAIN line /\ r \in DOMAIN acc /\ r \in DOMAIN ended
    /\ r \in DOMAIN bill /\ r \in DOMAIN costEvents /\ r \in DOMAIN told
    /\ r \in DOMAIN lines /\ r \in DOMAIN last
    /\ rows[r] \in Row /\ rows'[r] \in Row
    /\ ended[r] \in {"open", "eof", "err"}
    /\ acc[r] \in Nat \union {NoUsage} /\ last[r] \in Nat \union {NoUsage}

\* Types of a step's two states, for the request it belongs to.
LEMMA Shapes ==
  ASSUME TypeOK, TypeOK', NEW r \in Ids
  PROVE  Shape(r)
  <1>1. rows[r] \in Row /\ rows'[r] \in Row /\ r \in DOMAIN rows
    BY DEF TypeOK
  <1>2. acc[r] \in Nat \union {NoUsage} /\ last[r] \in Nat \union {NoUsage}
    <2>1. acc[r] \in Costs \union {NoUsage} /\ last[r] \in Costs \union {NoUsage}
      BY DEF TypeOK
    <2> QED
      BY <2>1, ForwardAssumption, Zenon
  <1>3. ended[r] \in {"open", "eof", "err"}
    BY DEF TypeOK
  <1>4. /\ r \in DOMAIN hpc /\ r \in DOMAIN client /\ r \in DOMAIN have
        /\ r \in DOMAIN gpc /\ r \in DOMAIN line /\ r \in DOMAIN acc
        /\ r \in DOMAIN ended /\ r \in DOMAIN bill /\ r \in DOMAIN costEvents
        /\ r \in DOMAIN told /\ r \in DOMAIN lines /\ r \in DOMAIN last
    BY DEF TypeOK
  <1> QED
    BY <1>1, <1>2, <1>3, <1>4 DEF Shape

\* The request an action belongs to keeps RequestInv.
LEMMA OwnStep ==
  ASSUME NEW r \in Ids, Shape(r), RequestInv(r), Own(r)
  PROVE  RequestInv(r)'
  <1> USE ForwardAssumption
  <1> USE DEF Shape, HandlerStep, StreamStep, handlerVars, streamVars, history,
              RequestInv, Progress, Accumulated, RowInv, BlockedInv,
              Cents, NoUsage, NoBill, NoActual
  <1>1. CASE Handle(r)
    <2>1. CASE Accept(r)
      BY <2>1, AccountFrame, Zenon DEF Accept
    <2>2. CASE CallProvider(r)
      BY <2>2, AccountFrame, Zenon DEF CallProvider
    <2>3. CASE RetryProvider(r)
      BY <2>3, AccountFrame, Zenon DEF RetryProvider
    <2>4. CASE Reserve(r)
      <3>1. AccountInv(r)'
        BY <2>4, AccountFrame DEF Reserve
      <3>2. Progress(r)' /\ Accumulated(r)'
        BY <2>4 DEF Reserve, InsertRow
      <3>3. RowInv(r)' /\ BlockedInv(r)'
        BY <2>4 DEF Reserve, InsertRow
      <3> HIDE DEF Progress, Accumulated, RowInv, BlockedInv
      <3> QED
        BY <3>1, <3>2, <3>3, Zenon
    <2>5. CASE StartStream(r)
      BY <2>5, AccountFrame, Zenon DEF StartStream
    <2>6. CASE Persist(r)
      BY <2>6, AccountFrame, Zenon DEF Persist
    <2>7. CASE Flush(r)
      <3>1. AccountInv(r)'
        BY <2>7, AccountFrame, Zenon DEF Flush
      <3>2. Progress(r)' /\ Accumulated(r)'
        BY <2>7, Zenon DEF Flush
      <3>3. RowInv(r)' /\ BlockedInv(r)'
        BY <2>7, Zenon DEF Flush
      <3> HIDE DEF Progress, Accumulated, RowInv, BlockedInv
      <3> QED
        BY <3>1, <3>2, <3>3
    <2>8. CASE ReadEOF(r)
      BY <2>8, AccountFrame DEF ReadEOF
    <2> HIDE DEF Shape, HandlerStep, StreamStep, RequestInv, Progress, Accumulated, RowInv, BlockedInv
    <2> QED
      BY <1>1, <2>1, <2>2, <2>3, <2>4, <2>5, <2>6, <2>7, <2>8, Zenon DEF Handle
  <1>2. CASE Stream(r)
    <2>1. CASE ReadUpstream(r)
      <3>1. costEvents'[r] = <<>> /\ told'[r] = NoBill
        BY <2>1, Zenon DEF ReadUpstream
      <3>2. AccountInv(r)'
        BY <3>1, AccountEmpty, Zenon
      <3>3. Progress(r)' /\ RowInv(r)' /\ BlockedInv(r)'
        BY <2>1 DEF ReadUpstream
      <3>4. Accumulated(r)'
        BY <2>1 DEF ReadUpstream
      <3> HIDE DEF Progress, Accumulated, RowInv, BlockedInv
      <3> QED
        BY <3>2, <3>3, <3>4
    <2>2. CASE ForwardLine(r)
      BY <2>2, AccountFrame, Zenon DEF ForwardLine
    <2>3. CASE Account(r)
      <3>1. /\ gpc[r] = "cost" /\ costEvents[r] = <<>> /\ told[r] = NoBill
            /\ acc[r] = last[r] /\ ended[r] \in {"eof", "err"}
        BY <2>3, ZenonT(30) DEF Account
      <3>2. \/ costEvents'[r] = <<>>
            \/ costEvents'[r] = <<[cents |-> Cents(last[r]), class |-> ended[r]]>>
        <4> DEFINE event == [cents |-> Cents(acc[r]), class |-> ended[r]]
        <4> HIDE DEF event
        <4>1. \/ costEvents' = [costEvents EXCEPT ![r] = Append(@, event)]
              \/ costEvents' = costEvents
          BY <2>3, Zenon DEF Account, event
        <4>2. costEvents'[r] = <<>> \/ costEvents'[r] = <<event>>
          BY <3>1, <4>1
        <4>3. event = [cents |-> Cents(last[r]), class |-> ended[r]]
          BY <3>1, Zenon DEF event
        <4> QED BY <4>2, <4>3, Zenon
      <3>3. AccountInv(r)'
        <4>1. told'[r] = NoBill /\ last'[r] = last[r] /\ ended'[r] = ended[r]
          BY <2>3, <3>1, Zenon DEF Account
        <4>2. CASE costEvents'[r] = <<>>
          BY <4>1, <4>2, AccountEmpty, Zenon
        <4>3. CASE costEvents'[r] = <<[cents |-> Cents(last[r]), class |-> ended[r]]>>
          <5>1. Len(costEvents'[r]) = 1
            BY <4>3
          <5>2. /\ costEvents'[r][1].cents = Cents(last'[r])
                /\ costEvents'[r][1].class = ended'[r]
            BY <4>1, <4>3, SMTT(30)
          <5> HIDE DEF Cents
          <5> QED
            BY <4>1, <5>1, <5>2 DEF AccountInv
        <4> QED
          BY <3>2, <4>2, <4>3, Zenon
      <3>4. Progress(r)' /\ Accumulated(r)' /\ RowInv(r)' /\ BlockedInv(r)'
        BY <2>3, <3>1, Zenon DEF Account
      <3> QED
        BY <3>3, <3>4
    <2>4. CASE InjectUsage(r)
      <3>1. /\ told'[r] = Cents(last[r]) /\ ended[r] = "eof"
            /\ costEvents'[r] = costEvents[r] /\ last'[r] = last[r] /\ ended'[r] = ended[r]
        BY <2>4, Zenon DEF InjectUsage
      <3>2. AccountInv(r)'
        <4> HIDE DEF Cents
        <4> QED
          BY <3>1, SMTT(30) DEF AccountInv
      <3>3. Progress(r)' /\ Accumulated(r)' /\ RowInv(r)' /\ BlockedInv(r)'
        BY <2>4, Zenon DEF InjectUsage
      <3> QED
        BY <3>2, <3>3
    <2>5. CASE PostAccount(r)
      <3>1. RowInv(r)'
        <4>1. CASE have[r] /\ ended[r] = "eof" /\ CommitRow(r, bill[r])
          <5>1. CASE rows[r].state = "reserved"
            <6>1. rows'[r].state = "committed" /\ rows'[r].actual = bill[r]
              <7>1. rows'[r] = [rows[r] EXCEPT !.state = "committed", !.actual = bill[r]]
                BY <4>1, <5>1 DEF CommitRow
              <7> QED
                BY <7>1 DEF Row
            <6> QED
              <7>1. /\ gpc'[r] = "close" /\ ended'[r] = "eof" /\ have'[r]
                    /\ told'[r] = bill[r]
                BY <2>5, <4>1, ZenonT(30) DEF PostAccount
              <7>2. bill[r] # NoActual
                BY <2>5 DEF PostAccount
              <7> HIDE DEF Shape, RequestInv, Progress, Accumulated, Cents, NoActual
              <7> QED
                BY <6>1, <7>1, <7>2, SMTT(30)
          <5>2. CASE rows[r].state # "reserved"
            BY <2>5, <4>1, <5>2 DEF PostAccount, CommitRow
          <5> QED
            BY <5>1, <5>2, Zenon
        <4>2. CASE have[r] /\ ended[r] = "err" /\ ReleaseRow(r)
          BY <2>5, <4>2, Zenon DEF PostAccount, ReleaseRow, Row
        <4>3. CASE UNCHANGED rows
          BY <2>5, <4>3, Zenon DEF PostAccount
        <4> HIDE DEF RowInv
        <4> QED
          BY <2>5, <4>1, <4>2, <4>3, ZenonT(30) DEF PostAccount
      <3>2. Progress(r)' /\ Accumulated(r)' /\ AccountInv(r)' /\ BlockedInv(r)'
        BY <2>5, AccountFrame, Zenon DEF PostAccount
      <3> QED
        BY <3>1, <3>2, SMTT(30)
    <2>6. CASE InjectError(r)
      BY <2>6, AccountFrame, Zenon DEF InjectError
    <2>7. CASE CloseStream(r)
      BY <2>7, AccountFrame, Zenon DEF CloseStream
    <2> HIDE DEF Shape, HandlerStep, StreamStep, RequestInv, Progress, Accumulated, RowInv, BlockedInv
    <2> QED
      BY <1>2, <2>1, <2>2, <2>3, <2>4, <2>5, <2>6, <2>7, Zenon DEF Stream
  <1>3. CASE ClientLeaves(r)
    BY <1>3, AccountFrame DEF ClientLeaves
  <1>4. CASE Age(r)
    <2>1. rows[r].state = "reserved" /\ rows'[r] = [rows[r] EXCEPT !.stale = TRUE]
      BY <1>4 DEF Age, AgeRow
    <2>2. rows'[r].state = "reserved"
      BY <2>1 DEF Row
    <2> QED
      BY <1>4, <2>1, <2>2, AccountFrame DEF Age
  <1> HIDE DEF Shape, HandlerStep, StreamStep, RequestInv, Progress, Accumulated, RowInv, BlockedInv
  <1> QED
    BY <1>1, <1>2, <1>3, <1>4 DEF Own

-----------------------------------------------------------------------------

\* A tick of the settler moves overdue rows from "reserved" to "expired".
LEMMA TickStep ==
  ASSUME TypeOK, NEW q \in Ids, RequestInv(q), SettlerTick
  PROVE  RequestInv(q)'
  <1> USE DEF SettlerTick, handlerVars, streamVars, history
  <1>1. CASE rows[q].state = "reserved" /\ rows[q].stale
    <2>1. rows'[q].state = "expired" /\ rows'[q].stale
      BY <1>1, SMTT(30) DEF ExpireRows, TypeOK, Row
    <2>2. AccountInv(q)'
      BY AccountFrame, Zenon DEF RequestInv
    <2>3. Progress(q)' /\ Accumulated(q)' /\ RowInv(q)' /\ BlockedInv(q)'
      BY <1>1, <2>1, Zenon DEF RequestInv, Progress, Accumulated, RowInv, BlockedInv, Cents
    <2> QED
      BY <2>2, <2>3 DEF RequestInv
  <1>2. CASE ~(rows[q].state = "reserved" /\ rows[q].stale)
    <2>1. rows'[q] = rows[q]
      BY <1>2 DEF ExpireRows
    <2> QED
      BY <2>1, Frame DEF Same
  <1> QED
    BY <1>1, <1>2

\* After a crash nothing is left of a goroutine but what it has recorded.
LEMMA CrashStep ==
  ASSUME TypeOK, NEW q \in Ids, RequestInv(q), Crash
  PROVE  RequestInv(q)'
  <1>1. AccountInv(q)'
    BY AccountFrame, Zenon DEF Crash, RequestInv
  <1>2. Progress(q)' /\ Accumulated(q)' /\ RowInv(q)' /\ BlockedInv(q)'
    BY DEF Crash, TypeOK, RequestInv, Progress, Accumulated, RowInv, BlockedInv, Cents
  <1> QED
    BY <1>1, <1>2, Zenon DEF RequestInv

\* IndInv is inductive.
LEMMA StepIndInv == IndInv /\ [Next]_vars => IndInv'
  <1> SUFFICES ASSUME IndInv, [Next]_vars PROVE IndInv'
    OBVIOUS
  <1>1. TypeOK /\ TypeOK'
    BY TypeStep DEF IndInv
  <1>2. ASSUME NEW q \in Ids PROVE RequestInv(q)'
    <2>1. RequestInv(q)
      BY DEF IndInv
    <2>2. CASE \E r \in Ids : Own(r)
      <3>1. PICK r \in Ids : Own(r)
        BY <2>2
      <3>2. CASE q = r
        BY <1>1, <2>1, <3>1, <3>2, Shapes, OwnStep DEF IndInv
      <3>3. CASE q # r
        BY <1>1, <2>1, <3>1, <3>3, Others, Frame
      <3> QED
        BY <3>2, <3>3
    <2>3. CASE SettlerTick
      BY <1>1, <2>1, <2>3, TickStep
    <2>4. CASE Crash
      BY <1>1, <2>1, <2>4, CrashStep
    <2>5. CASE UNCHANGED vars
      BY <2>1, <2>5, Frame, Zenon DEF vars, handlerVars, streamVars, history, Same
    <2> QED
      BY <2>2, <2>3, <2>4, <2>5 DEF Next, Own
  <1> QED
    BY <1>1, <1>2 DEF IndInv

\* IndInv is an invariant.
LEMMA Invariance == Spec => []IndInv
  <1> QED
    BY InitIndInv, StepIndInv, PTL DEF Spec

-----------------------------------------------------------------------------

\* Forward's variables keep to their domains in every behaviour of handler,
\* stream goroutine, settler and crash.
THEOREM TypeCorrect == Spec => []TypeOK
  <1>1. IndInv => TypeOK
    BY DEF IndInv
  <1> QED
    BY <1>1, Invariance, PTL

\* The cost_event, at most one, and the aicg.usage event of a request agree with
\* the provider's last usage.
THEOREM AccountsOnce == Spec => []OneAccount
  <1>1. IndInv => OneAccount
    BY ZenonT(30) DEF IndInv, RequestInv, AccountInv, OneAccount
  <1> QED
    BY <1>1, Invariance, PTL

\* Charged means: ended normally, and reported to the client with that amount
\* (run writes aicg.usage before it calls PostAccount).
THEOREM ChargesAreReported == Spec => []ChargeWasReported
  <1>1. IndInv => ChargeWasReported
    BY ZenonT(30) DEF IndInv, RequestInv, RowInv, ChargeWasReported, NoActual, NoBill
  <1> QED
    BY <1>1, Invariance, PTL

\* A reservation ends the way its stream did, or overdue (the PostAccount
\* closure of Pipeline.Run, and the settler).
THEOREM SettlesAsEnded == Spec => []SettledAsEnded
  <1>1. IndInv => SettledAsEnded
    BY Zenon DEF IndInv, RequestInv, RowInv, SettledAsEnded
  <1> QED
    BY <1>1, Invariance, PTL

\* Only a disconnected client leaves a goroutine on a pipe nobody reads
\* (HandleForward's copy loop).
THEOREM BlockedMeansGone == Spec => []StuckOnlyIfClientGone
  <1>1. IndInv => StuckOnlyIfClientGone
    BY ZenonT(30) DEF IndInv, RequestInv, BlockedInv, StuckOnlyIfClientGone
  <1> QED
    BY <1>1, Invariance, PTL

-----------------------------------------------------------------------------
(* The steps that write the table, seen from one row. *)

\* Who writes a row: the INSERT of its own request, its one settlement, the
\* clock and the settler.
RowStep(q) ==
    \/ rows'[q] = rows[q]
    \/ rows[q].state = "none" /\ rows'[q].state = "reserved"
    \/ rows[q].state = "reserved" /\ rows'[q].state = "reserved"
    \/ rows[q].state = "reserved" /\ rows'[q].state \in {"released", "expired"}
    \/ /\ rows[q].state = "reserved" /\ rows'[q].state = "committed"
       /\ told[q] # NoBill /\ rows'[q].actual = told[q]

\* How the rows of budget_reservation may move in one step.
LEMMA RowSteps ==
  ASSUME IndInv, [Next]_vars, NEW q \in Ids
  PROVE  RowStep(q)
  <1> USE DEF RowStep, handlerVars, streamVars, history
  <1>1. TypeOK /\ RequestInv(q)
    BY Zenon DEF IndInv
  <1>2. CASE \E r \in Ids : Own(r)
    <2>1. PICK r \in Ids : Own(r)
      BY <1>2
    <2>2. CASE q # r
      BY <1>1, <2>1, <2>2, Others, Zenon DEF Same
    <2>3. CASE q = r
      <3>1. CASE Handle(r)
        <4>1. CASE Reserve(r)
          BY <1>1, <2>3, <4>1, SMTT(30) DEF Reserve, InsertRow, TypeOK
        <4>2. CASE ~Reserve(r)
          BY <3>1, <4>2, Zenon DEF Handle, Accept, CallProvider, RetryProvider, StartStream,
                            Persist, Flush, ReadEOF
        <4> QED
          BY <4>1, <4>2, Zenon
      <3>2. CASE Stream(r)
        <4>1. CASE PostAccount(r)
          <5>1. gpc[q] = "settle" /\ rows[q].state \in {"none", "reserved", "expired"}
            BY <1>1, <2>3, <4>1, Zenon DEF PostAccount, StreamStep, RequestInv, RowInv
          <5>2. CASE ended[r] = "eof" /\ CommitRow(r, bill[r])
            <6>1. told[q] = bill[q] /\ bill[q] # NoBill
              BY <1>1, <2>3, <5>1, <5>2, ForwardAssumption
              DEF RequestInv, Progress, Accumulated, Cents, TypeOK, NoBill, NoUsage
            <6>2. CASE rows[q].state = "reserved"
              BY <1>1, <2>3, <5>2, <6>1, <6>2 DEF CommitRow, TypeOK, Row
            <6>3. CASE rows[q].state # "reserved"
              BY <1>1, <2>3, <5>2, <6>3 DEF CommitRow, TypeOK
            <6> QED
              BY <6>2, <6>3, Zenon
          <5>3. CASE ReleaseRow(r)
            BY <1>1, <2>3, <5>1, <5>3, SMTT(30) DEF ReleaseRow, TypeOK, Row
          <5> QED
            BY <4>1, <5>2, <5>3, Zenon DEF PostAccount
        <4>2. CASE ~PostAccount(r)
          BY <3>2, <4>2, Zenon DEF Stream, ReadUpstream, ForwardLine, Account, InjectUsage,
                            InjectError, CloseStream
        <4> QED
          BY <4>1, <4>2
      <3>3. CASE ClientLeaves(r)
        BY <3>3 DEF ClientLeaves
      <3>4. CASE Age(r)
        BY <1>1, <2>3, <3>4 DEF Age, AgeRow, TypeOK, Row
      <3> QED
        BY <2>1, <3>1, <3>2, <3>3, <3>4, Zenon DEF Own
    <2> QED
      BY <2>2, <2>3
  <1>3. CASE SettlerTick
    BY <1>1, <1>3, SMTT(30) DEF SettlerTick, ExpireRows, TypeOK, Row
  <1>4. CASE Crash
    BY <1>4, ZenonT(30) DEF Crash
  <1>5. CASE UNCHANGED vars
    BY <1>5 DEF vars
  <1> QED
    BY <1>2, <1>3, <1>4, <1>5, ZenonT(30) DEF Next, Own

\* No step changes a settled reservation: the WHERE clauses of Commit, Release
\* and ReleaseExpired, and one settlement per stream.
THEOREM SettlementIsFinal == Spec => SettledIsFinal
  <1>1. ASSUME IndInv, [Next]_vars, NEW r \in Ids, rows[r].state \in Settled
        PROVE  rows'[r] = rows[r]
    BY <1>1, RowSteps, Zenon DEF RowStep, Settled
  <1>2. IndInv /\ [Next]_vars =>
          [\A r \in Ids : rows[r].state \in Settled => rows'[r] = rows[r]]_vars
    BY <1>1
  <1> QED
    BY <1>2, Invariance, PTL DEF Spec, SettledIsFinal

-----------------------------------------------------------------------------
(* Refinement: reservations are holds, aicg.usage events invoices. *)

\* A step that keeps the holds and the invoices is a stutter of the ledger.
LEMMA LedgerUnchanged ==
  ASSUME told' = told, \A q \in Ids : HoldOf(rows[q])' = HoldOf(rows[q])
  PROVE  UNCHANGED Ledger!ledgerVars
  BY DEF Ledger!ledgerVars, Hold

\* A step of one request other than InjectUsage is a ledger step on its hold.
LEMMA OwnLedgerStep ==
  ASSUME IndInv, NEW r \in Ids, Own(r), told' = told, RowStep(r),
         \A q \in Ids \ {r} : rows'[q] = rows[q]
  PROVE  [Ledger!LedgerNext]_Ledger!ledgerVars
  <1>1. \A q \in Ids \ {r} : HoldOf(rows[q])' = HoldOf(rows[q])
    BY DEF HoldOf
  <1>2. ASSUME NEW h, HoldOf(rows[r])' = h
        PROVE  Hold' = [Hold EXCEPT ![r] = h]
    BY <1>1, <1>2, Zenon DEF Hold
  <1>3. CASE HoldOf(rows[r])' = HoldOf(rows[r])
    BY <1>1, <1>3, LedgerUnchanged
  <1>4. CASE rows[r].state = "none" /\ rows'[r].state = "reserved"
    <2>1. Hold[r] = <<"none">> /\ Hold' = [Hold EXCEPT ![r] = <<"held">>]
      BY <1>2, <1>4 DEF Hold, HoldOf
    <2>2. Ledger!PutHold(r)
      BY <2>1 DEF Ledger!PutHold
    <2> QED
      BY <2>2 DEF Ledger!LedgerNext
  <1>5. CASE rows[r].state = "reserved" /\ rows'[r].state \in {"released", "expired"}
    <2>1. Hold[r] = <<"held">> /\ Hold' = [Hold EXCEPT ![r] = <<"freed">>]
      BY <1>2, <1>5, Zenon DEF Hold, HoldOf
    <2>2. Ledger!Free({r})
      BY <2>1, Zenon DEF Ledger!Free, Hold
    <2> QED
      BY <2>2 DEF Ledger!LedgerNext
  <1>6. CASE /\ rows[r].state = "reserved" /\ rows'[r].state = "committed"
             /\ told[r] # NoBill /\ rows'[r].actual = told[r]
    <2>1. Hold[r] = <<"held">> /\ Hold' = [Hold EXCEPT ![r] = <<"charged", told[r]>>]
      BY <1>2, <1>6 DEF Hold, HoldOf
    <2>2. Ledger!Charge(r)
      BY <1>6, <2>1 DEF Ledger!Charge, Ledger!Charged, Ledger!None, NoBill
    <2> QED
      BY <2>2 DEF Ledger!LedgerNext
  <1>7. CASE rows'[r] = rows[r] \/ (rows[r].state = "reserved" /\ rows'[r].state = "reserved")
    BY <1>3, <1>7 DEF HoldOf
  <1> QED
    BY <1>4, <1>5, <1>6, <1>7 DEF RowStep

\* InjectUsage issues the invoice.
LEMMA InvoiceStep ==
  ASSUME IndInv, NEW r \in Ids, InjectUsage(r)
  PROVE  [Ledger!LedgerNext]_Ledger!ledgerVars
  <1>1. TypeOK /\ RequestInv(r)
    BY Zenon DEF IndInv
  <1>2. told[r] = NoBill /\ bill[r] \in Costs \union {0}
    BY <1>1, ForwardAssumption
    DEF InjectUsage, StreamStep, RequestInv, Progress, Accumulated, Cents, TypeOK
  <1>3. Hold' = Hold
    BY DEF InjectUsage, Hold, HoldOf
  <1>4. Ledger!Invoice(r, bill[r])
    BY <1>2, <1>3, Zenon DEF InjectUsage, Ledger!Invoice, Ledger!None, NoBill
  <1> QED
    BY <1>2, <1>4 DEF Ledger!LedgerNext

\* A tick frees every overdue hold at once.
LEMMA TickFrees ==
  ASSUME IndInv, SettlerTick
  PROVE  [Ledger!LedgerNext]_Ledger!ledgerVars
  <1> DEFINE S == {q \in Ids : rows[q].state = "reserved" /\ rows[q].stale}
  <1>1. \A q \in S : Hold[q] = <<"held">>
    BY Zenon DEF Hold, HoldOf
  <1>2. ASSUME NEW q \in Ids
        PROVE  HoldOf(rows[q])' = IF q \in S THEN <<"freed">> ELSE HoldOf(rows[q])
    <2>1. CASE q \in S
      <3>1. rows'[q].state = "expired"
        BY <2>1 DEF SettlerTick, ExpireRows, IndInv, TypeOK, Row
      <3> QED
        BY <2>1, <3>1 DEF HoldOf
    <2>2. CASE q \notin S
      BY <2>2 DEF SettlerTick, ExpireRows, HoldOf
    <2> QED
      BY <2>1, <2>2
  <1>3. Hold' = [q \in Ids |-> IF q \in S THEN <<"freed">> ELSE Hold[q]]
    BY <1>2 DEF Hold
  <1>4. told' = told
    BY DEF SettlerTick
  <1>5. Ledger!Free(S)
    BY <1>1, <1>3, <1>4 DEF Ledger!Free
  <1> QED
    BY <1>5 DEF Ledger!LedgerNext

\* The gateway's reservations and aicg.usage events implement the abstract
\* ledger, step by step.
THEOREM Refinement == Spec => ImplementsLedger
  <1>1. Init => Ledger!LedgerInit
    BY DEF Init, RowsInit, NoRow, Ledger!LedgerInit, Ledger!None, NoBill, Hold, HoldOf
  <1>2. IndInv /\ [Next]_vars => [Ledger!LedgerNext]_Ledger!ledgerVars
    <2> SUFFICES ASSUME IndInv, [Next]_vars
                 PROVE  [Ledger!LedgerNext]_Ledger!ledgerVars
      OBVIOUS
    <2>1. ASSUME NEW r \in Ids, Own(r) PROVE [Ledger!LedgerNext]_Ledger!ledgerVars
      <3>1. CASE InjectUsage(r)
        BY <3>1, InvoiceStep
      <3>2. CASE ~InjectUsage(r)
        <4>1. told' = told
          BY <2>1, <3>2, ZenonT(30)
          DEF Own, Handle, Accept, CallProvider, RetryProvider, Reserve, StartStream,
              Persist, Flush, ReadEOF, Stream, ReadUpstream, ForwardLine, Account,
              PostAccount, InjectError, CloseStream, ClientLeaves, Age
        <4>2. \A q \in Ids \ {r} : rows'[q] = rows[q]
          BY <2>1, Others DEF IndInv, Same
        <4> QED
          BY <2>1, <4>1, <4>2, RowSteps, OwnLedgerStep, SMTT(30)
      <3> QED
        BY <3>1, <3>2
    <2>2. CASE SettlerTick
      BY <2>2, TickFrees
    <2>3. CASE Crash
      BY <2>3, LedgerUnchanged DEF Crash, HoldOf
    <2>4. CASE UNCHANGED vars
      BY <2>4, LedgerUnchanged DEF vars, HoldOf
    <2> QED
      BY <2>1, <2>2, <2>3, <2>4 DEF Next, Own
  <1> QED
    BY <1>1, <1>2, Invariance, PTL DEF Spec, ImplementsLedger, Ledger!LedgerSpec

=============================================================================
