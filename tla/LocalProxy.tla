----------------------------- MODULE LocalProxy -----------------------------
(***************************************************************************)
(* The local proxy relaying one agent request: handleMessages, the         *)
(* gateway client with its retry, the SSE frame reader, the filter for the *)
(* gateway's own frames, and the local ledger.                             *)
(*                                                                         *)
(* Bytes are tokens: a line of a provider event, the gateway's events      *)
(* "usage" and "error" (an event line with its data line), and NL, one     *)
(* newline.  An event ends with two newlines, and a read may end anywhere, *)
(* between the two newlines included.  A line cut short by the provider    *)
(* is still a line token, without its NL.                                  *)
(*                                                                         *)
(* The gateway is its interface: it answers with a status, forwards the    *)
(* provider's bytes and appends one event of its own (AccountedStream.run, *)
(* the subject of Forward).  The connection may break at any moment, also  *)
(* by the client's own five-minute timeout or a cancelled agent request.   *)
(***************************************************************************)
EXTENDS Integers, Sequences

CONSTANTS
    Bytes,         \* the tokens of answers
    Streams,       \* what a provider may send, as tokens
    Bodies,        \* bodies of answers other than 200
    NL             \* a newline

VARIABLES
    at,            \* step of handleMessages
    forwards,      \* requests sent to the gateway
    status,        \* status of the answer being relayed
    text,          \* bytes the provider sends
    fed,           \* how many of them the gateway has forwarded
    tail,          \* the event the gateway ended the stream with
    pipe,          \* bytes between gateway and proxy
    link,          \* connection to the gateway
    agent,         \* the agent's end
    buf, eof,      \* sseReader.buf, sseReader.done
    out,           \* bytes written to the agent
    ledger,        \* rows of the local ledger, by gateway request
    dropped        \* an insert failed (history)

gwVars == <<status, text, fed, tail>>
lpVars == <<forwards, buf, eof, out, ledger, dropped>>
vars == <<at, gwVars, pipe, link, agent, lpVars>>

Metadata == {"usage", "error"}

\* The gateway's events have names of their own, with the prefix aicg.
ASSUME BytesAssumption ==
    /\ NL \in Bytes
    /\ Bytes \intersect Metadata = {}
    /\ Streams \union Bodies \subseteq Seq(Bytes)

Init ==
    /\ at = "idle" /\ forwards = 0 /\ status = "none"
    /\ text = <<>> /\ fed = 0 /\ tail = "none" /\ pipe = <<>>
    /\ link = "up" /\ agent = "there"
    /\ buf = <<>> /\ eof = FALSE
    /\ out = <<>> /\ ledger = <<>> /\ dropped = FALSE

-----------------------------------------------------------------------------
(* The environment. *)

\* A network failure, a gateway crash, the client's timeout, or the cancelled context.
Break ==
    /\ at \in {"waiting", "relay", "copy"}
    /\ link = "up"
    /\ link' = "broken"
    /\ UNCHANGED <<at, gwVars, pipe, agent, lpVars>>

Disconnect ==
    /\ at # "done"
    /\ agent = "there"
    /\ agent' = "gone"
    /\ UNCHANGED <<at, gwVars, pipe, link, lpVars>>

GwForward ==
    /\ status = "200" /\ tail = "none" /\ link = "up"
    /\ fed < Len(text)
    /\ fed' = fed + 1
    /\ pipe' = Append(pipe, text[fed + 1])
    /\ UNCHANGED <<at, status, text, tail, link, agent, lpVars>>

\* The provider's stream ends, normally or with an error, wherever it is.
GwClose(event) ==
    /\ status = "200" /\ tail = "none" /\ link = "up"
    /\ tail' = event
    /\ pipe' = pipe \o <<event, NL, NL>>
    /\ UNCHANGED <<at, status, text, fed, link, agent, lpVars>>

-----------------------------------------------------------------------------
(* Forward and doWithRetry *)

Post ==
    /\ at = "idle"
    /\ at' = "waiting"
    /\ forwards' = forwards + 1
    /\ UNCHANGED <<gwVars, pipe, link, agent, buf, eof, out, ledger, dropped>>

\* writeJSON with 502; the agent may be gone.
BadGateway ==
    /\ at' = "done"
    /\ status' = "bad gateway"
    /\ out' = IF agent = "there" THEN <<"bad gateway">> ELSE out

\* No answer: the request was lost, or the answer was.
TransportError ==
    /\ at = "waiting"
    /\ link = "broken"
    /\ BadGateway
    /\ UNCHANGED <<text, fed, tail, pipe, link, agent, forwards, buf, eof, ledger, dropped>>

ServerErrorAlwaysRetried ==
    /\ at = "waiting"
    /\ link = "up"
    /\ forwards < 3
    /\ forwards' = forwards + 1
    /\ UNCHANGED <<at, gwVars, pipe, link, agent, buf, eof, out, ledger, dropped>>

\* A 5xx answer: retried once.
ServerError ==
    /\ at = "waiting"
    /\ link = "up"
    /\ IF forwards = 1
       THEN forwards' = 2 /\ UNCHANGED <<at, status, out>>
       ELSE BadGateway /\ UNCHANGED forwards
    /\ UNCHANGED <<text, fed, tail, pipe, link, agent, buf, eof, ledger, dropped>>

\* Any other status but 200 has a complete body and is copied as it is.
Refused(body) ==
    /\ at = "waiting"
    /\ link = "up"
    /\ at' = "copy" /\ status' = "4xx"
    /\ text' = body /\ fed' = Len(body) /\ tail' = "close" /\ pipe' = body
    /\ UNCHANGED <<link, agent, lpVars>>

Streaming(stream) ==
    /\ at = "waiting"
    /\ link = "up"
    /\ at' = "relay" /\ status' = "200"
    /\ text' = stream
    /\ UNCHANGED <<fed, tail, pipe, link, agent, lpVars>>

-----------------------------------------------------------------------------
(* sseReader *)

\* Where the first frame delimiter of s begins; 0 when there is none.
Index(s) ==
    LET hits == {i \in 1..Len(s) - 1 : s[i] = NL /\ s[i + 1] = NL}
    IN  IF hits = {} THEN 0 ELSE CHOOSE i \in hits : \A j \in hits : i <= j

FrameReady == Index(buf) > 0 \/ (eof /\ buf # <<>>)
Frame == IF Index(buf) > 0 THEN SubSeq(buf, 1, Index(buf) - 1) ELSE buf

RestKeepsNewline == IF Index(buf) > 0 THEN SubSeq(buf, Index(buf) + 1, Len(buf)) ELSE <<>>

Rest == IF Index(buf) > 0 THEN SubSeq(buf, Index(buf) + 2, Len(buf)) ELSE <<>>

\* Read returned n bytes.
ReadMore(n) ==
    /\ at = "relay" /\ ~FrameReady /\ ~eof
    /\ buf' = buf \o SubSeq(pipe, 1, n)
    /\ pipe' = SubSeq(pipe, n + 1, Len(pipe))
    /\ UNCHANGED <<at, gwVars, link, agent, forwards, eof, out, ledger, dropped>>

ReadEOF ==
    /\ at = "relay" /\ ~FrameReady /\ ~eof
    /\ pipe = <<>> /\ tail # "none" /\ link = "up"
    /\ eof' = TRUE
    /\ UNCHANGED <<at, gwVars, pipe, link, agent, forwards, buf, out, ledger, dropped>>

ReadErrorIgnored ==
    /\ at = "relay" /\ ~FrameReady /\ ~eof
    /\ link = "broken"
    /\ pipe' = <<>>
    /\ UNCHANGED <<at, gwVars, link, agent, lpVars>>

ReadErrorRetried ==
    /\ at = "relay" /\ ~FrameReady /\ ~eof
    /\ link = "broken"
    /\ IF forwards = 1
       THEN /\ at' = "waiting" /\ forwards' = 2 /\ link' = "up"
            /\ status' = "none" /\ text' = <<>> /\ fed' = 0 /\ tail' = "none"
            /\ pipe' = <<>> /\ buf' = <<>>
       ELSE at' = "done" /\ UNCHANGED <<forwards, link, gwVars, pipe, buf>>
    /\ UNCHANGED <<agent, eof, out, ledger, dropped>>

\* Read failed: whatever is buffered is given up, and the response just ends.
ReadError ==
    /\ at = "relay" /\ ~FrameReady /\ ~eof
    /\ link = "broken"
    /\ at' = "done"
    /\ UNCHANGED <<gwVars, pipe, link, agent, lpVars>>

-----------------------------------------------------------------------------
(* relayStream *)

isAgentGateFrame(frame) == frame # <<>> /\ Head(frame) \in Metadata

IsUsageAny(frame) == isAgentGateFrame(frame)
IsUsage(frame) == frame # <<>> /\ Head(frame) = "usage"

\* w.Write of bytes and a delimiter.  When the agent is gone a write may still be
\* accepted, or fail after some of the bytes, which ends the handler.
Write(bytes, next) ==
    \/ /\ out' = out \o bytes \o <<NL, NL>>
       /\ at' = next
    \/ /\ agent = "gone"
       /\ \E n \in 0..Len(bytes) + 1 : out' = out \o SubSeq(bytes \o <<NL, NL>>, 1, n)
       /\ at' = "done"

\* processUsageFrame: opening the ledger or inserting may fail, which is only logged.
Insert ==
    \/ ledger' = Append(ledger, forwards) /\ UNCHANGED dropped
    \/ dropped' = TRUE /\ UNCHANGED ledger

RelayFrame ==
    /\ at = "relay"
    /\ FrameReady
    /\ buf' = Rest
    /\ IF ~isAgentGateFrame(Frame) THEN Write(Frame, "relay") /\ UNCHANGED <<ledger, dropped>>
       ELSE IF IsUsage(Frame) THEN Insert /\ UNCHANGED <<at, out>>
       ELSE Write(<<"api error">>, "done") /\ UNCHANGED <<ledger, dropped>>
    /\ UNCHANGED <<gwVars, pipe, link, agent, forwards, eof>>

RelayEnds ==
    /\ at = "relay"
    /\ eof /\ buf = <<>>
    /\ at' = "done"
    /\ UNCHANGED <<gwVars, pipe, link, agent, lpVars>>

-----------------------------------------------------------------------------
(* The direct copy of handleMessages.  writeUsageToLedger, called at its end, finds *)
(* no usage event: the body is the JSON of an error.                                *)

CopyRead(n) ==
    /\ at = "copy"
    /\ LET chunk == SubSeq(pipe, 1, n)
       IN  \/ out' = out \o chunk /\ UNCHANGED at
           \/ agent = "gone" /\ at' = "done" /\ UNCHANGED out
    /\ pipe' = SubSeq(pipe, n + 1, Len(pipe))
    /\ UNCHANGED <<gwVars, link, agent, forwards, buf, eof, ledger, dropped>>

CopyEnds ==
    /\ at = "copy"
    /\ pipe = <<>> \/ link = "broken"
    /\ at' = "done"
    /\ UNCHANGED <<gwVars, pipe, link, agent, lpVars>>

-----------------------------------------------------------------------------
forward ==
    \/ TransportError
    \/ ServerError
    \/ \E body \in Bodies : Refused(body)
    \/ \E stream \in Streams : Streaming(stream)

relay ==
    \/ \E n \in 1..Len(pipe) : ReadMore(n)
    \/ ReadEOF
    \/ ReadError
    \/ RelayFrame
    \/ RelayEnds

copy ==
    \/ \E n \in 1..Len(pipe) : CopyRead(n)
    \/ CopyEnds

Done == at = "done" /\ UNCHANGED vars

Next ==
    \/ Post
    \/ forward
    \/ relay
    \/ copy
    \/ GwForward
    \/ \E event \in Metadata : GwClose(event)
    \/ Break
    \/ Disconnect
    \/ Done

Spec == Init /\ [][Next]_vars

\* The handler's goroutine runs, and the client's timeout fires: nothing is assumed
\* about the gateway.
FairSpec == Spec /\ WF_vars(TransportError) /\ WF_vars(relay) /\ WF_vars(copy) /\ WF_vars(Break)

-----------------------------------------------------------------------------
(* Properties *)

\* Types; the gateway is asked at most twice (client.go:107).
TypeOK ==
    /\ at \in {"idle", "waiting", "relay", "copy", "done"}
    /\ forwards \in 0..2
    /\ status \in {"none", "200", "4xx", "bad gateway"}
    /\ fed \in 0..Len(text)
    /\ tail \in Metadata \union {"none", "close"}
    /\ link \in {"up", "broken"} /\ agent \in {"there", "gone"}
    /\ eof \in BOOLEAN /\ dropped \in BOOLEAN

Sent == SubSeq(text, 1, fed)

\* As in SequencesExt, whose modules would be part of every proof obligation.
IsPrefix(s, t) == Len(s) <= Len(t) /\ s = SubSeq(t, 1, Len(s))

\* The bytes end on a frame boundary: there are none, or they end with a run of
\* newlines that is all pairs.
Aligned(s) ==
    \/ s = <<>>
    \/ \E pairs \in 1..Len(s) :
          /\ 2 * pairs <= Len(s)
          /\ \A i \in Len(s) - 2 * pairs + 1 .. Len(s) : s[i] = NL
          /\ 2 * pairs < Len(s) => s[Len(s) - 2 * pairs] # NL

\* The gateway has appended no event, or has on a frame boundary.
Clean == tail \notin Metadata \/ Aligned(Sent)

\* What the agent should see of an answer that was not interrupted.
Expected == IF tail = "error" THEN Sent \o <<"api error", NL, NL>> ELSE Sent

Uninterrupted == at = "done" /\ link = "up" /\ agent = "there"

\* Whatever the read boundaries, the agent gets the provider's bytes unchanged and in
\* order, a prefix while the relay runs and all of them at its end.  When the gateway's
\* event follows a finished one, it gets nothing else but the translated error: the
\* usage event is taken out and the error event is last (relayStream,
\* sseReader.NextFrame).
RelayedVerbatim ==
    status \in {"200", "4xx"} =>
        IF Clean THEN IsPrefix(out, Expected) /\ (Uninterrupted => out = Expected)
        ELSE /\ IsPrefix(out, Sent) \/ IsPrefix(Sent, out)
             /\ Uninterrupted => IsPrefix(Sent, out)

\* SYSTEM-DESIGN.md:516-519: aicg.usage and aicg.error are not passed through,
\* "The LP must intercept them to keep SDK behavior stable."
EventsIntercepted == \A i \in DOMAIN out : out[i] \notin Metadata

\* The local ledger has at most one row, of the request that was answered, and only
\* when the gateway reported usage on a frame boundary; it has that row at the end
\* unless the relay was interrupted or the insert failed (anthropic.go:278).
LedgerFollowsStream ==
    /\ ledger # <<>> => ledger = <<forwards>> /\ tail = "usage" /\ Aligned(Sent)
    /\ /\ at = "done" /\ link = "up" /\ agent = "there" /\ ~dropped
       /\ tail = "usage" /\ Aligned(Sent)
       => ledger # <<>>

\* The gateway is asked again only while the agent has seen nothing of an answer and
\* nothing of one is recorded or buffered, so that what the agent gets is never put
\* together from two answers (client.go:76, "on pre-first-byte 5xx, retries once").
RetriedBeforeFirstByte ==
    [][forwards > 0 /\ forwards' # forwards =>
          out' = <<>> /\ buf' = <<>> /\ pipe' = <<>> /\ ledger' = <<>>]_vars

\* Every request of the agent ends, even when the gateway stalls (client.go:56, the
\* timeout).
HandlerEnds == at = "waiting" ~> at = "done"

=============================================================================
