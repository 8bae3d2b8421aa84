------------------------------ MODULE Forward ------------------------------
(***************************************************************************)
(* POST /v1/agent/forward on the gateway, from the provider call to the    *)
(* settlement of the budget.  One request is served by two goroutines that *)
(* share an io.Pipe without a buffer:                                      *)
(*   - the handler (HandleForward, Pipeline.Run, EgressPipeline.Run) calls *)
(*     the provider, reserves budget, starts the stream and then copies    *)
(*     from the pipe to the client;                                        *)
(*   - the stream goroutine (AccountedStream.run) reads the provider's     *)
(*     body, offers each line to the pipe, and accounts at the end.        *)
(* Around them run the settler, the clock, the clients and a crash of the  *)
(* process, which loses everything but the database.                       *)
(*                                                                         *)
(* An element of Ids is one request; it reserves at most once, so it also  *)
(* names its reservation.  A line of the provider's stream is NoUsage or   *)
(* the cost, in cents, of the usage accumulated once the line is parsed.   *)
(***************************************************************************)
EXTENDS BudgetRows, Sequences

CONSTANTS Costs,       \* costs the calculator may yield, in cents
          Estimate,    \* what Run reserves (100 in the code)
          DbMayFail,   \* statements may fail, or report an error although they ran
          MaxLines,    \* bound: lines of a provider stream that carry data
          MaxCrashes   \* bound: crashes of the gateway process

ASSUME ForwardAssumption ==
    /\ Costs \subseteq Nat /\ Estimate \in Nat
    /\ DbMayFail \in BOOLEAN
    /\ MaxLines \in Nat /\ MaxCrashes \in Nat

VARIABLES
    hpc,         \* where the handler of a request is
    client,      \* "here", or "gone" once the client has disconnected
    have,        \* Reserve returned a reservation: PostAccount is set
    gpc,         \* where the stream goroutine of a request is
    line,        \* the line it has read and offers to the pipe
    acc,         \* usageAccumulator
    ended,       \* what forwardFrames returned: "open" until it does
    bill,        \* result.CostEvent.CostCents
    costEvents,  \* rows of cost_event with this trace_id; class stands for
                 \* success ("eof") and error_class stream_interrupted ("err")
    told,        \* cost_cents of the aicg.usage event the pipe has carried
    lines,       \* history: lines the provider has sent
    last,        \* history: the last usage it has sent
    crashes

handlerVars == <<hpc, client, have>>
streamVars == <<gpc, line, acc, ended, bill>>
history == <<lines, last, crashes>>
vars == <<rows, handlerVars, streamVars, costEvents, told, history>>

NoUsage == -1
NoBill == -1

\* usageAccumulator.usage() priced: no usage seen costs nothing.
Cents(usage) == IF usage = NoUsage THEN 0 ELSE usage

HandlerStates == {"idle", "call", "retry", "reserve", "start", "persist",
                  "copy", "flush", "done", "dead"}
StreamStates == {"off", "read", "offer", "cost", "usage", "settle",
                 "error", "close", "closed", "dead"}

Init ==
    /\ RowsInit
    /\ hpc = [r \in Ids |-> "idle"]
    /\ client = [r \in Ids |-> "here"]
    /\ have = [r \in Ids |-> FALSE]
    /\ gpc = [r \in Ids |-> "off"]
    /\ line = [r \in Ids |-> NoUsage]
    /\ acc = [r \in Ids |-> NoUsage]
    /\ ended = [r \in Ids |-> "open"]
    /\ bill = [r \in Ids |-> NoBill]
    /\ costEvents = [r \in Ids |-> <<>>]
    /\ told = [r \in Ids |-> NoBill]
    /\ lines = [r \in Ids |-> 0]
    /\ last = [r \in Ids |-> NoUsage]
    /\ crashes = 0

HandlerStep(r, from, to) == hpc[r] = from /\ hpc' = [hpc EXCEPT ![r] = to]
StreamStep(r, from, to) == gpc[r] = from /\ gpc' = [gpc EXCEPT ![r] = to]

-----------------------------------------------------------------------------
(* The handler. *)

\* Validation, policy, routing and translation: refused with 4xx/5xx, or on to
\* the provider.
Accept(r) ==
    /\ HandlerStep(r, "idle", "call") \/ HandlerStep(r, "idle", "done")
    /\ UNCHANGED <<rows, client, have, streamVars, costEvents, told, history>>

\* adapter.Stream: a body; an UpstreamError, which ends the request; or any
\* other error, which is retried once.
CallProvider(r) ==
    /\ \E to \in {"reserve", "done", "retry"} : HandlerStep(r, "call", to)
    /\ UNCHANGED <<rows, client, have, streamVars, costEvents, told, history>>

RetryProvider(r) ==
    /\ \E to \in {"reserve", "done"} : HandlerStep(r, "retry", to)
    /\ UNCHANGED <<rows, client, have, streamVars, costEvents, told, history>>

\* Reserve under the request's context; Run drops the error.  The INSERT may
\* have run although Exec returned an error (context cancelled, connection
\* lost): the row is then one nobody holds the id of.
Reserve(r) ==
    /\ HandlerStep(r, "reserve", "start")
    /\ \/ InsertRow(r, Estimate) /\ have' = [have EXCEPT ![r] = TRUE]
       \/ /\ DbMayFail \/ client[r] = "gone"
          /\ InsertRow(r, Estimate) \/ UNCHANGED rows
          /\ UNCHANGED have
    /\ UNCHANGED <<client, streamVars, costEvents, told, history>>

\* NewAccountedStream: go as.run(...).
StartStream(r) ==
    /\ HandlerStep(r, "start", "persist")
    /\ StreamStep(r, "off", "read")
    /\ UNCHANGED <<rows, client, have, line, acc, ended, bill, costEvents, told, history>>

\* Best-effort audit, routing and raw records, then the response headers.
Persist(r) ==
    /\ HandlerStep(r, "persist", "copy")
    /\ UNCHANGED <<rows, client, have, streamVars, costEvents, told, history>>

\* A handler that stops copying although its client is there.
FlushGivesUp(r) ==
    /\ HandlerStep(r, "flush", "copy") \/ HandlerStep(r, "flush", "done")
    /\ UNCHANGED <<rows, client, have, streamVars, costEvents, told, history>>

\* w.Write of what was read.  It may still succeed after the client has gone;
\* when it fails the handler returns, and result.Body is not closed.
Flush(r) ==
    /\ \/ HandlerStep(r, "flush", "copy")
       \/ client[r] = "gone" /\ HandlerStep(r, "flush", "done")
    /\ UNCHANGED <<rows, client, have, streamVars, costEvents, told, history>>

\* result.Body.Read returns io.EOF.
ReadEOF(r) ==
    /\ gpc[r] = "closed"
    /\ HandlerStep(r, "copy", "done")
    /\ UNCHANGED <<rows, client, have, streamVars, costEvents, told, history>>

-----------------------------------------------------------------------------
(* The stream goroutine. *)

\* reader.ReadBytes: a line, the end of the body, or a read error.
ReadUpstream(r) ==
    /\ \/ /\ lines[r] < MaxLines
          /\ StreamStep(r, "read", "offer")
          /\ \E l \in Costs \union {NoUsage} :
                /\ line' = [line EXCEPT ![r] = l]
                /\ last' = [last EXCEPT ![r] = IF l = NoUsage THEN @ ELSE l]
          /\ lines' = [lines EXCEPT ![r] = @ + 1]
          /\ UNCHANGED ended
       \/ /\ StreamStep(r, "read", "cost")
          /\ \E e \in {"eof", "err"} : ended' = [ended EXCEPT ![r] = e]
          /\ UNCHANGED <<line, lines, last>>
    /\ UNCHANGED <<rows, handlerVars, acc, bill, costEvents, told, crashes>>

\* An accumulator that keeps the first usage it sees (message_start) and
\* ignores the cumulative ones that follow.
ForwardLineFirstUsage(r) ==
    /\ StreamStep(r, "offer", "read")
    /\ HandlerStep(r, "copy", "flush")
    /\ acc' = [acc EXCEPT ![r] = IF @ = NoUsage THEN line[r] ELSE @]
    /\ line' = [line EXCEPT ![r] = NoUsage]
    /\ UNCHANGED <<rows, client, have, ended, bill, costEvents, told, history>>

\* dst.Write(line) meets the handler's Read; then the line is parsed.  The pipe
\* has no buffer and no production code closes its reading end, so a handler
\* that has returned leaves the goroutine here for good.
ForwardLine(r) ==
    /\ StreamStep(r, "offer", "read")
    /\ HandlerStep(r, "copy", "flush")
    /\ acc' = [acc EXCEPT ![r] = IF line[r] = NoUsage THEN @ ELSE line[r]]
    /\ line' = [line EXCEPT ![r] = NoUsage]
    /\ UNCHANGED <<rows, client, have, ended, bill, costEvents, told, history>>

\* A cost_event that carries "no usage seen" through instead of zero.
AccountRaw(r) ==
    /\ StreamStep(r, "cost", IF ended[r] = "eof" THEN "usage" ELSE "settle")
    /\ bill' = [bill EXCEPT ![r] = acc[r]]
    /\ costEvents' = [costEvents EXCEPT ![r] = Append(@, [cents |-> acc[r], class |-> ended[r]])]
    /\ UNCHANGED <<rows, handlerVars, line, acc, ended, told, history>>

\* cost.BuildEvent and the cost_event INSERT, whose failure is only logged.
Account(r) ==
    /\ StreamStep(r, "cost", IF ended[r] = "eof" THEN "usage" ELSE "settle")
    /\ bill' = [bill EXCEPT ![r] = Cents(acc[r])]
    /\ \/ costEvents' = [costEvents EXCEPT ![r] =
             Append(@, [cents |-> Cents(acc[r]), class |-> ended[r]])]
       \/ DbMayFail /\ UNCHANGED costEvents
    /\ UNCHANGED <<rows, handlerVars, line, acc, ended, told, history>>

\* The aicg.usage tail event goes through the pipe before PostAccount runs.
InjectUsage(r) ==
    /\ StreamStep(r, "usage", "settle")
    /\ HandlerStep(r, "copy", "flush")
    /\ told' = [told EXCEPT ![r] = bill[r]]
    /\ UNCHANGED <<rows, client, have, line, acc, ended, bill, costEvents, history>>

\* Settlement that charges an interrupted stream as well.
PostAccountAlwaysCommit(r) ==
    /\ StreamStep(r, "settle", IF ended[r] = "eof" THEN "close" ELSE "error")
    /\ \/ have[r] /\ CommitRow(r, bill[r])
       \/ (DbMayFail \/ ~have[r]) /\ UNCHANGED rows
    /\ UNCHANGED <<handlerVars, line, acc, ended, bill, costEvents, told, history>>

\* PostAccount: Release after an error, Commit otherwise; a statement may fail
\* and the error is dropped.  Without a reservation there is nothing to do.
PostAccount(r) ==
    /\ StreamStep(r, "settle", IF ended[r] = "eof" THEN "close" ELSE "error")
    /\ \/ have[r] /\ ended[r] = "eof" /\ CommitRow(r, bill[r])
       \/ have[r] /\ ended[r] = "err" /\ ReleaseRow(r)
       \/ (DbMayFail \/ ~have[r]) /\ UNCHANGED rows
    /\ UNCHANGED <<handlerVars, line, acc, ended, bill, costEvents, told, history>>

\* The aicg.error event of an interrupted stream.
InjectError(r) ==
    /\ StreamStep(r, "error", "close")
    /\ HandlerStep(r, "copy", "flush")
    /\ UNCHANGED <<rows, client, have, line, acc, ended, bill, costEvents, told, history>>

\* A pipe that is closed only after a stream that ended normally.
CloseStreamAfterSuccess(r) ==
    /\ ended[r] = "eof"
    /\ StreamStep(r, "close", "closed")
    /\ UNCHANGED <<rows, handlerVars, line, acc, ended, bill, costEvents, told, history>>

\* The deferred body.Close, pw.Close and close(as.done).
CloseStream(r) ==
    /\ StreamStep(r, "close", "closed")
    /\ UNCHANGED <<rows, handlerVars, line, acc, ended, bill, costEvents, told, history>>

-----------------------------------------------------------------------------
(* The surroundings. *)

ClientLeaves(r) ==
    /\ client[r] = "here"
    /\ hpc[r] \notin {"done", "dead"}
    /\ client' = [client EXCEPT ![r] = "gone"]
    /\ UNCHANGED <<rows, hpc, have, streamVars, costEvents, told, history>>

\* Ten minutes pass for a reservation.
Age(r) ==
    /\ AgeRow(r)
    /\ UNCHANGED <<handlerVars, streamVars, costEvents, told, history>>

\* A tick of the settler; a tick whose UPDATE fails changes nothing.
SettlerTick ==
    /\ ExpireRows
    /\ UNCHANGED <<handlerVars, streamVars, costEvents, told, history>>

\* The process dies and is restarted: requests not yet begun may still come.
Crash ==
    /\ crashes < MaxCrashes
    /\ crashes' = crashes + 1
    /\ hpc' = [r \in Ids |-> IF hpc[r] \in {"idle", "done"} THEN hpc[r] ELSE "dead"]
    /\ gpc' = [r \in Ids |-> IF gpc[r] \in {"off", "closed"} THEN gpc[r] ELSE "dead"]
    /\ line' = [r \in Ids |-> NoUsage]
    /\ acc' = [r \in Ids |-> NoUsage]
    /\ bill' = [r \in Ids |-> NoBill]
    /\ UNCHANGED <<rows, client, have, ended, costEvents, told, lines, last>>

Handle(r) ==
    \/ Accept(r) \/ CallProvider(r) \/ RetryProvider(r) \/ Reserve(r)
    \/ StartStream(r) \/ Persist(r) \/ Flush(r) \/ ReadEOF(r)

Stream(r) ==
    \/ ReadUpstream(r) \/ ForwardLine(r) \/ Account(r) \/ InjectUsage(r)
    \/ PostAccount(r) \/ InjectError(r) \/ CloseStream(r)

Next ==
    \/ \E r \in Ids : Handle(r) \/ Stream(r) \/ ClientLeaves(r) \/ Age(r)
    \/ SettlerTick
    \/ Crash

Spec == Init /\ [][Next]_vars

\* A step of the handler other than a write to a client that is there: the server has
\* no WriteTimeout, so such a write returns only if the client reads.
Runs(r) == Handle(r) /\ (hpc[r] = "flush" => client[r] = "gone")

\* The gateway's goroutines and the settler are scheduled; the provider ends
\* every answer, time passes.  Nothing makes a client read or leave, or a process die.
Fairness ==
    /\ \A r \in Ids : WF_vars(Runs(r)) /\ WF_vars(Stream(r)) /\ WF_vars(Age(r))
    /\ WF_vars(SettlerTick)

FairSpec == Spec /\ Fairness

-----------------------------------------------------------------------------
(* Properties. *)

\* Every variable keeps to its domain.
TypeOK ==
    /\ rows \in [Ids -> Row]
    /\ hpc \in [Ids -> HandlerStates]
    /\ client \in [Ids -> {"here", "gone"}]
    /\ have \in [Ids -> BOOLEAN]
    /\ gpc \in [Ids -> StreamStates]
    /\ line \in [Ids -> Costs \union {NoUsage}]
    /\ acc \in [Ids -> Costs \union {NoUsage}]
    /\ ended \in [Ids -> {"open", "eof", "err"}]
    /\ bill \in [Ids -> Nat \union {NoBill}]
    /\ costEvents \in [Ids -> Seq([cents : Nat, class : {"open", "eof", "err"}])]
    /\ told \in [Ids -> Nat \union {NoBill}]
    /\ lines \in [Ids -> Nat]
    /\ last \in [Ids -> Costs \union {NoUsage}]
    /\ crashes \in Nat

\* A request has at most one cost_event, and its cost_event and its aicg.usage
\* event both carry the cost of the last usage the provider sent, although the
\* goroutine parses a line only after the handler has taken it and the three
\* are written at different times (stream_accounting.go, run and forwardFrames).
OneAccount ==
    \A r \in Ids :
        /\ Len(costEvents[r]) <= 1
        /\ \A k \in 1..Len(costEvents[r]) :
              /\ costEvents[r][k].cents = Cents(last[r])
              /\ costEvents[r][k].class = ended[r]
        /\ told[r] # NoBill => told[r] = Cents(last[r]) /\ ended[r] = "eof"

\* The budget is charged only for a stream that ended normally, with the amount
\* the client was told in aicg.usage (PostAccount runs after InjectUsage).
ChargeWasReported ==
    \A r \in Ids : rows[r].state = "committed" =>
        /\ ended[r] = "eof"
        /\ told[r] # NoBill
        /\ rows[r].actual = told[r]

\* How a stream ended decides how its reservation may end: a normal end never
\* refunds, an interruption never charges, and a row whose INSERT was reported
\* as failed is left to the settler (Run, the PostAccount closure).
SettledAsEnded ==
    \A r \in Ids :
        /\ rows[r].state = "released" => ended[r] = "err" /\ have[r]
        /\ rows[r].state = "committed" => ended[r] = "eof" /\ have[r]
        /\ rows[r].state = "expired" => rows[r].stale

\* A stream goroutine is left blocked on the pipe by a handler that has
\* returned only if the client disconnected (HandleForward, the copy loop).
StuckOnlyIfClientGone ==
    \A r \in Ids :
        hpc[r] = "done" /\ gpc[r] \notin {"off", "closed", "dead"} => client[r] = "gone"

\* A settled reservation is never touched again: not by a late Commit after the
\* settler, not by Release, which would accept a committed row.
SettledIsFinal ==
    [][\A r \in Ids : rows[r].state \in Settled => rows'[r] = rows[r]]_vars

HoldOf(row) ==
    CASE row.state = "none" -> <<"none">>
      [] row.state = "reserved" -> <<"held">>
      [] row.state = "committed" -> <<"charged", row.actual>>
      [] OTHER -> <<"freed">>

Hold == [r \in Ids |-> HoldOf(rows[r])]

Ledger == INSTANCE BudgetLedger
            WITH Amounts <- Costs \union {0}, hold <- Hold, invoice <- told

\* The gateway implements the abstract ledger: reservations are the holds, the
\* aicg.usage events the invoices.
ImplementsLedger == Ledger!LedgerSpec

\* Every reservation is settled in the end, whatever client, provider, database
\* error or crash did to its request, a client that stops reading included: the
\* settler's promise.
HoldsEnd ==
    \A r \in Ids : rows[r].state = "reserved" ~> rows[r].state \in Settled

\* The client does not stop reading without leaving: a write to it ends.
ClientReads(r) == hpc[r] = "flush" ~> hpc[r] # "flush" \/ client[r] = "gone"

\* For a client that reads or leaves, and a provider that ends its answer, the handler
\* returns, and so does the stream goroutine unless the client disconnected
\* (HandleForward's copy loop, AccountedStream.run).
RequestEnds ==
    \A r \in Ids :
        ClientReads(r) =>
            /\ hpc[r] # "idle" ~> hpc[r] \in {"done", "dead"}
            /\ gpc[r] # "off" ~> (gpc[r] \in {"closed", "dead"} \/ client[r] = "gone")

\* SYSTEM-DESIGN.md 9.5: a client disconnect triggers Release.  Stated for a
\* handler that has returned because of it while the stream goroutine had a line
\* on offer, long before the settler's cutoff.
DisconnectReleases ==
    \A r \in Ids :
        (hpc[r] = "done" /\ gpc[r] = "offer" /\ have[r]
            /\ rows[r].state = "reserved" /\ ~rows[r].stale)
        ~> rows[r].state \in {"released", "committed"}

=============================================================================
