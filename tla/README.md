# AgentGate: TLA+ models, model checking and proofs

AgentGate puts a gateway between coding agents and model providers. A local
proxy (LP) on the developer's machine speaks the Anthropic protocol to the agent
and forwards each message to the gateway (GW). The gateway authenticates it,
evaluates policy, routes it to a provider, streams the answer back, prices it
and charges a team's budget in PostgreSQL.

This directory holds specifications of the parts whose correctness depends on
the order in which things happen. They are translated from the Go source. Paths
below are relative to the repository; `gw/` stands for `internal/gw/` and `lp/`
for `internal/lp/`.

## The system

| Part | State | Operations that change it | Interacts with |
|---|---|---|---|
| Forward (`gw/server/handlers.go`, `ingress_pipeline.go`, `egress_pipeline.go`) | where a request is; the response being copied | accept or refuse, call and retry the provider, reserve, start the stream, persist, copy to the client | policy, routing, providers, budget, stream |
| Stream accounting (`gw/server/stream_accounting.go`) | usage accumulated, how the stream ended, the pipe | read a line, offer it, write `cost_event`, inject `aicg.usage` or `aicg.error`, settle, close | handler (unbuffered pipe), cost, budget |
| Budget (`gw/budget/pg_service.go`) | table `budget_reservation`, caps | Reserve (INSERT, SUM, alert), Commit, Release, expire, SetTeamCap | forward, settler, audit, reload |
| Settler (`gw/budget/settler.go`) | none | tick every minute: expire reservations older than ten minutes | budget |
| Enrolment (`cmd/aicg-gw/main.go`, `gw/auth`, `gw/server/handlers_invite.go`) | `setup_tokens`, `invites`, `api_keys`, the key cache | bootstrap, exchange a setup token, create and exchange an invite, look up and delete a key | operators, LP |
| Reload (`gw/config`, `gw/secretref`, `main.go`) | watches, debounce timer, the current configuration, seven holders of parts of it | watch, debounce, load and validate, resolve keys, swap, publish | routing, policy, cost, budget caps |
| Policy (`gw/policy`) | compiled rules | SetPolicy, Decide, Merge | forward, reload |
| Routing (`gw/routing`) | pools, pricing | SetPools, SetPricing, BuildChain, Replay | forward, reload |
| Translation (`shared/transformer`) | none | Anthropic request to IR, strip features, IR to the provider's form | forward, providers |
| Cost (`gw/cost`) | pricing | SetPricing, Calculate | stream accounting, reload |
| Audit (`gw/audit`) | in-memory slice, `audit_event` | Write, AlertBudget | everything |
| LP (`lp/server`, `lp/gwclient`, `lp/ledger`) | the frame buffer, the local ledger | forward with retry, relay frames, copy errors, record usage | agent, GW |

What is hard here: the handler and the stream goroutine of one request meet on a
pipe without a buffer; settlement happens after the last byte and races the
settler; statements can fail, or report an error although they ran; the process
can die between any two statements; calls that hold a one-shot credential race
one another; a configuration is published while requests read it; two reloads can
run at once; a stream reaches the LP in pieces that end anywhere.

`PROJECT.json` lists every component with its status, the hazards at their
lines, and for each definition the source lines it models.

## Modules

| Module | Models |
|---|---|
| `BudgetRows` | the table `budget_reservation` and the SQL statements on it, one operator each |
| `BudgetLedger` | what accounting promises: a hold is put once, invoiced once, then charged with the invoiced amount or freed, and never touched again |
| `Forward` | a forward from the provider call to settlement: handler, stream goroutine, settler, client, crash |
| `PgBudget` | the budget service with unconstrained callers: overlapping Reserves, caps, alerts, restarts |
| `Enrolment` | bootstrap, setup tokens, invites, keys and the key cache |
| `GatewayConfig` | the six configuration files, the order `Load` reads them in, every validation of one file and across files |
| `LiveConfig` | the seven holders of live configuration and what each takes from a new one |
| `Reload` | watcher, debounce timer, reload goroutines, secret files, publication |
| `PolicyEngine`, `Routing`, `Translate`, `Cost` | operators for the decision, the candidate chain, the conversion and the price of a request |
| `Ingress` | one request through these four, reading the holders of `LiveConfig` while reloads publish into them |
| `LocalProxy` | the LP's handler for one agent message: retry, frame reader, filter, ledger |
| `ForwardProofs`, `EnrolmentProofs`, `PgBudgetProofs`, `ReloadProofs`, `LocalProxyProofs` | theorems about the module of that name |
| `SetInduction` | induction over the natural numbers in a form the provers can use |
| `PathProofs`, `IngressProofs` | theorems about the operators a request goes through, and about `Ingress` |
| `MC*` | constants for TLC |

**BudgetRows.** A row has its `state`, `estimated_cents`, `actual_cents` and one
bit of age, `stale`: older than the settler's cutoff. Each UPDATE keeps its WHERE
clause: one that matches nothing changes nothing.

**Forward.** An element of `Ids` is a request and, since a request reserves at
most once, also its reservation. `hpc` is where the handler is, `gpc` where the
goroutine of `AccountedStream.run` is. A write to the pipe and the read that
takes it are one joint step (`ForwardLine`, `InjectUsage`, `InjectError`): that is
what a pipe without a buffer means. A line of the provider's stream is the cost
of the usage accumulated once it has been parsed, or `NoUsage`. The provider is
called with `context.TODO()`, so a disconnect does not reach it. `DbMayFail` lets
every statement fail; an INSERT may also have run although it reported an error.
`Crash` loses both goroutines and keeps the database. Policy, routing and
translation are the choice in `Accept` and `CallProvider` between going on and
refusing; `Ingress` is about how that choice is made.

**PgBudget.** `ReserveInsert` and `ReserveCheck` are Reserve's two statements;
anything may come between. The read of the cap is taken together with the SUM.
Commit and Release are offered only ids that Reserve has returned. `warned` and
`excused` are history: whether the team was alerted since it was last under 80%,
and whether it went over by a cap change, a failed statement or a `Restart`, in
which the process dies between the INSERT and the SUM of a call. The threshold of
the code is `Over`, a truncating division; the history and the property use
`Reached80`, which multiplies out and does not round.

**Enrolment.** An exchange call draws one fresh key, so an element of `Keys` is
both. `HandleExchangeSetup` is two statements (`ConsumeToken`, `StoreAPIKey`);
`ConsumeAndIssueKey` is one transaction that holds the invite's row lock between
`ConsumeInvite` and `IssueKey`. Each may fail, or fail after taking effect, and
the reply may be lost. A lookup is two steps, since it selects rows, compares
them with bcrypt and only then fills the cache; one lookup per key is in flight
at a time. The cache, keyed by an eight-character prefix in the code, is keyed by
the key. A lookup answered by the cache changes nothing and is no action.

**GatewayConfig, LiveConfig.** `disk` and the holders hold content ids; `Body`
gives what a content parses to, or `Unreadable` when it is not valid YAML.
`AcceptsRead(f, got)` is what `Load` checks after reading `f`, given what it has
read before; `Acceptable` is all of it. A configuration is the six contents with
the resolved key of each endpoint. `HolderOrder` is the order of the callback in
`main.go:202`; `SetTeamCaps` leaves the cap of a team that is no longer listed.

**Reload.** The operator edits configuration files (whose directories are watched),
writes secret files in place or replaces them (they are watched one by one, and a
replaced file takes its watch along), and sends SIGHUP. `events` are the files with
undelivered events, `timer` is the armed debounce timer. Every expiry starts a
goroutine, since `time.AfterFunc` does; it reads one file per step, resolves one key
per step in any order (a Go map), swaps `current`, adjusts the watches, fetches the
callback registered at that moment and updates one holder per step. Before
`OnReload` of the full callback ("wiring") the callback only knows the pricing.
After it ("registered") main fills the team registry from the configuration it read
at start (`rebuildTeamRegistry`, `main.go:278`), whatever a reload has put there
since, and serves. `MapRace` is the unsynchronised access to `secretPaths`: the
process may die. Secret files are assumed to lie outside the configuration
directories. `seen`, `missed` and `disturbed` are history: what the latest read of a
file found, what was edited before the watcher started, and whether reloads
overlapped, ran too early, met a missing secret or had their teams put back.

**Ingress.** Every read of a holder is a step of its own, in the order of
`Pipeline.Run` and `EgressPipeline.Run`: policy, the degradation list of the
configuration snapshot, pools, the pricing once per candidate, keys, then pools
and pricing again for the second chain, and the calculator's pricing when the
stream ends. A CEL condition is the set of requesters it matches. The ChaCha8
generator is external: a sequence of draws fixed by the trace, so both chains of
a request use the same draws. Publications are not serialised: each of
`Publishers` is a reload goroutine inside the callback, with all seven holders to
update or, if it fetched the callback before main registered the full one, the
selector's pricing alone. Two that interleave leave a mix of configurations
behind, and every request may start on such a mix. `moved` says that a holder
changed during the request. Capabilities are detected for the protocol
`anthropic_messages` only. A `cache_control` may be absent, null or an object; the
fields that the transformer's structs do not declare (`stop_sequences`, `top_p`, a
thinking block's signature) are in `rest` and are lost on the way, as is a mark on
a tool.

**LocalProxy.** Bytes are tokens: a line, a newline, or an event of the gateway.
`ReadMore(n)` takes any number of the bytes in the connection, so every split is
covered, one inside a delimiter included. The gateway is its interface: a status,
the provider's bytes, one event of its own at the end. `Break` is a network
failure, the five-minute timeout of the client or a cancelled context.

## Runs

| Run | Bounds | Shows |
|---|---|---|
| `forward` | 1 request, costs 0, 3, 5, 3 lines, 1 crash | safety of one request, that it implements `BudgetLedger`, `HoldsEnd`, `RequestEnds` |
| `forward_disconnect` | 1 request, no failures | violated: a disconnect does not release |
| `pgbudget` | 3 reservations of one team, estimate 4, cap 10 or none | `NoSilentOverspend`, `RefundIsFinal` |
| `pgbudget_audit` | 2 reservations, no failures | violated: the soft warning is not in `audit_event` |
| `enrolment` | 3 calls, 2 setup tokens, 1 invite, 3 starts | issue once, no burned invite, a way in after every start, a deleted key is refused in the end |
| `enrolment_revocation` | the same instance | violated: a deleted key is refused at once |
| `reload` | 2 edits, 2 reloads at once, 3 pools files, 3 policies, 2 team lists, 1 secret | `NoLostEdit`, `LastKnownGood`, `OneConfiguration`, `EditTakesEffect`, `SighupRereadsSecrets` |
| `reload_secret` | the same instance | violated: a replaced secret file is no longer watched |
| `reload_partial` | the same instance | violated: the request path is never left with parts of two configurations |
| `ingress` | 2 configurations, 2 reloads at once, 5 requests, 2 requesters, 2 draws, 2 usages | the six properties below |
| `localproxy` | 3 streams of up to 8 tokens, 1 error body | relay, ledger, retry, termination |
| `localproxy_events` | the same instance | violated: the gateway's events never reach the agent |

The bounds. Requests share nothing but the settler's tick and a crash, so the run
has one request, and `ForwardProofs` is about any number of them; three lines are
enough for a usage that is replaced and a line without one. Costs lie on both sides
of the estimate, and zero is among them. With an estimate of 4 and a cap of 10 one
reservation is under 80% and two are exactly at it; a commit of 6 goes above its
estimate and one of 1 below. Three calls let two race for a credential while a third
holds its key; three starts let a token be burned, replaced, and the replacement be
lost. Two edits are enough for one reload to overtake another and for a pools file
and a policy that only fit together; the theorems remove these bounds for the safety
properties. They are too few for a secret whose watch is lost, that changes again,
and is then re-read by a SIGHUP: `SighupRereadsSecrets` is checked for secrets with
and without a pending event, not for that history. In `ingress` the two
configurations differ in every file; one pool has a member twice and one has members
of different weight, so that the shuffle has something to lose and the deduplication
something to do; the requests have cache marks in system, messages and tool results,
images, thinking, tools, and a body that does not parse. The streams of `localproxy`
have an event of two lines, a third and fourth newline between events, and an event
ended with CR LF, in which the proxy sees no delimiter; the provider may stop after
any token.

What `ingress` checks, beside types: the chain has every eligible endpoint once
(`ChainIsComplete`); the member called supports what the body needs and the policy
does not let go (`RequirementsMet`); key, record and call agree
(`CalledAsRecorded`); a validated configuration finds its pools and adapters
(`FailuresExplained`); the two implementations of "which features does this body
use" agree, and an Anthropic-shaped provider gets a feature exactly when it is not
recorded as degraded (`DegradedAsDetected`); a request that needs cache prices has
them, and buckets and total differ by rounding only (`CacheIsPriced`).

These hold on any mix of configurations that reloads have left, with exceptions
that the properties state:

- a holder that changes during the request (`moved`) ends what is said about the
  current pricing, the agreement of key, record and call, the pool and the price.
  That the member supports the requirements by *some* table in force during the
  request still holds;
- the key is the one configured for the endpoint called only if selector and
  pipeline have the same pools;
- a pool is found only if the engine's policy and the selector's pools are of one
  configuration (`PolicyFitsPools`);
- cache prices are there only if selector and calculator have the same table;
- a `cache_control` that is null is detected, but is neither stripped nor recorded.

Deadlock is checked in `localproxy` and `pgbudget`. The others may stop: a finite
set of requests, calls or edits is finished at some point, and the rest is
waiting.

Fairness. `forward` assumes weak fairness of each handler, each stream goroutine and
the settler (the Go scheduler runs them), of the clock, and, as part of the stream,
that a provider ends every answer: the gateway's provider client has no timeout, so
without this nothing ends. A write to the client is not part of it while the client
is there (`Runs`): a client that does not read blocks it, since the server sets no
write timeout (`gw/edge/router.go:104`). `HoldsEnd` holds all the same;
`RequestEnds` assumes that the client reads or leaves (`ClientReads`). No fairness
makes a client leave or a process die. `enrolment` assumes that a running lookup
finishes and that the five minutes of a cache entry pass. `reload` assumes that main
gets through its wiring, that the loop and each reload goroutine are scheduled and
that the timer expires; an operator who never stops editing could re-arm it for
ever, and is excluded by the bound on edits. `localproxy` assumes that the handler's
goroutine runs and that the client's timeout fires; it assumes nothing about the
gateway.

## What the runs found

- **A disconnect does not release** (`DisconnectReleases`). The design document
  says a disconnect triggers `Release` in a `ctx.Done()` defer. `HandleForward`
  returns when a write fails and does not close the body; the stream goroutine
  blocks in its next write to the pipe, no `cost_event` is written, and the row
  waits for the settler.
- **The soft warning is lost** (`AlertIsAudited`). `AlertBudget` writes an empty
  trace id into a `UUID NOT NULL` column, and the error is dropped.
- **A deleted key lives on in the cache** (`RevokedInstantly`). The threat model says
  an administrator can revoke a key instantly. `DeleteAPIKey` leaves the cache
  entry, and a lookup under way may still make one: up to five minutes. Nothing
  calls `DeleteAPIKey`. That the key is refused in the end is
  `RevocationTakesEffect`.
- **A secret that is rotated by rename is seen once** (`SecretsReResolved`).
  `syncSecretWatches` skips paths it already knows, although the kernel dropped
  the watch with the old file. SIGHUP still re-reads it (`SighupRereadsSecrets`).
- **Reloads leave parts of two configurations** (`NeverPartlyLoaded`). The operations
  guide says no request is served with a partially loaded configuration, and a
  comment speaks of a "single-goroutine reload path". Two timer expiries are two
  goroutines; when their callbacks interleave, the selector keeps the pools of one
  configuration and the pipeline the pools and keys of the other.
- **The gateway's event can reach the agent** (`EventsIntercepted`). The design says
  the LP intercepts `aicg.usage` and `aicg.error`. It recognises them at the start
  of a frame; behind an event that the provider left unfinished, or ended with
  CR LF, they are passed on, and the usage is not recorded.

Not stated as violations, but worth knowing:

- An exchange whose transaction commits while `tx.Commit` reports an error leaves
  a used invite whose key nobody has. A start that dies between `InsertToken` and
  the banner leaves a token nobody has seen, and no later start mints another. A
  failed count at start-up reads as "no keys".
- The caps are called monthly (`pg_service.go:29`), and `TeamUsed` sums the rows of
  all months.
- When two routing rules match, `Decide` goes from high to low priority and `Merge`
  keeps the later pool, so the lowest priority routes; `engine_test.go:78` and the
  policy cookbook (line 284) expect the highest to.
- `Replay` applies no constraint filter; when a candidate was filtered out, the
  same draws shuffle another list and the chain differs from the recorded one,
  which `execute.go:19` says it matches.
- A reload that runs before the full callback is registered updates `Current` and
  the selector's pricing only. One that runs between the callback's registration
  and `main.go:278` has its teams put back. Neither is repaired before the next
  edit; `OneConfiguration` and `EditTakesEffect` except both by name.
- A 5xx before the first byte is retried once, a broken connection is not, although
  the design lists both (`SYSTEM-DESIGN.md:544`).
- A request during the publication may be routed by one configuration, sent with
  the key of another, or billed for a member that was not called.
- On the OpenAI wires the client's own model name is sent, system blocks and the
  tool choice are dropped, and of several text blocks in a message the last one
  stays. On the Anthropic wires the request is rebuilt from the fields the
  transformer knows, although the design calls it a passthrough
  (`SYSTEM-DESIGN.md:1351`): stop sequences, sampling parameters, image and document
  sources and the signature of a thinking block are lost. A `thinking` field of
  type "disabled" arrives as enabled. A
  `cache_control` mark inside a tool result is neither detected nor stripped. A
  hard-required `cache_control` is still stripped on `anthropic_compat`.
- An endpoint needs one priced pool member to pass validation; another member
  without a price costs nothing, marked "estimated".
- A link that breaks in the middle ends the agent's response without an error event.

## What is proved

TLAPS proves, for every value of the constants:

`ForwardProofs`, from `ForwardAssumption` (costs, estimate and bounds are natural
numbers):

- `TypeCorrect`, `AccountsOnce`, `ChargesAreReported`, `SettlesAsEnded`,
  `BlockedMeansGone`: the five invariants of run `forward`;
- `SettlementIsFinal`: the action property;
- `Refinement`: `Forward` implements `BudgetLedger`.

The invariants are not inductive alone. `IndInv` adds what each place of the
stream goroutine implies (`Progress`: which of bill, cost event, invoice and
settlement have happened), that the accumulator agrees with the last usage sent
unless a line is on offer (`Accumulated`), which rows a request without a
reservation can have (`RowInv`), and when a goroutine can be left behind
(`BlockedInv`). Every action touches one request, apart from the tick and the
crash; `Own` and `Same` say so once, `OwnStep` proves the step for the request
that moves from the types of that request alone (`Shape`), `TickStep` and
`CrashStep` for the other two. The refinement maps a row to a hold and `told` to
the invoice: a Commit that matches is a Charge, since `ChargeWasReported` gives
the amount, and a tick frees the set of overdue holds.

`EnrolmentProofs`, from `EnrolmentAssumption` (tokens and invites are disjoint,
none of them is the value "none"):

- `TypeCorrect`, `KeysAreIssuedOnce`, `InvitesAreNotBurned`,
  `GivenKeysAreStored`: the four invariants of run `enrolment`;
- `BootstrapLeavesAWayIn`: the action property.

`IssuedOnce` speaks of rows that exist; its strengthening `ClaimInv` speaks of
claims, calls that have consumed a credential and may yet store a key, and says
that a claimed credential is spent and has one claimant. `LockInv` ties the row
lock to the transaction that holds it, `CallInv` says what each place of a call
implies, and `MintInv` that the token about to be printed is in the table.

`PgBudgetProofs`, from `PgBudgetAssumption` (every reservation has a team; amounts
and caps are natural numbers), for any number of teams and reservations:

- `TypeCorrect`, which is inductive, and `RefundsAreFinal`: a released row matches
  no later UPDATE;
- `OverspendIsNoticed`: the invariant `NoSilentOverspend`, which is about a sum
  over the live rows of a team. `SumExists` and `SumUnique` say that such a sum is
  well defined for a finite set, `SumMonotonic` that it grows with its set and its
  terms. `AlertInv` adds that only finitely many rows exist and that an
  outstanding row has no actual amount yet (`RowsInv`). Every statement but INSERT
  lets each row count for at most what it did (`RowsFall`), so it announces no
  more than before; an INSERT puts its own call into `checking`; and the SUM of
  that call sees at least what is announced (`AnnouncedIsUsed`), so it alerts if
  the team is over: the truncating division of the code finds 80% exactly when the
  product does (`DivisionIsExact`).

`ReloadProofs`, from the assumptions of `Reload` on contents, paths and keys, for
any number of edits and of reloads at once:

- `TypeCorrect`;
- `EditsAreNotLost`: `ReadInv` says how far a reload has read (`ReadTo`) and that
  what it has read was accepted. `EditInv` says that while the files on disk are
  acceptable, a file whose latest read is out of date is awaited: some event is
  queued, the timer is armed, or a reload that no edit has overtaken (`Fresh`) has
  the file still to read. The difficult step is a refused reload, which gives up
  the files it has not reached: if it was fresh, the disk itself is refused
  (`FailedRead`), and if it was not, the file was awaited by somebody else;
- `ConfigurationsAreGood`: `GoodInv` carries acceptance from what a goroutine read
  to `current` and on to each holder;
- `OneConfigurationIsLive`: `UniInv` says that while nothing disturbed a reload one
  goroutine at most is past reading, it publishes `current`, and the holders it
  has passed already agree with it (`PublishFrom`). The disturbances are the three
  that `OneConfiguration` names: an overlap, the pricing-only callback, and main
  putting the first teams back.

`LocalProxyProofs`, from `BytesAssumption` (the gateway's events are not among a
provider's lines), for every set of streams of any length:

- `TypeCorrect`;
- `RetryIsEarly`: the action property `RetriedBeforeFirstByte`;
- `RelayIsVerbatim`, `LedgerIsFaithful`: `IndInv` says, by step, that what was
  written, what is buffered and what is in the connection put together are the
  bytes sent so far with the gateway's event behind them (`Flow`), and that what
  was written ends on a frame boundary, until the gateway's event has been taken
  out (`Taken`), translated (`Translated`) or passed on behind an unfinished event
  (`Glued`). That the event is recognised exactly when the provider's bytes end on
  a frame boundary is a fact about runs of newlines (`NextBoundary`,
  `NoBoundaryInside`).

`SetInduction`. The loops of the selector and of the policy engine are recursive
functions of the number of elements they have been through, and what they compute
needs induction. The library's induction rule takes a predicate, which the
installed provers cannot instantiate; `SetInduction` derives the rule for a *set*
of numbers from the well-foundedness of `Nat`, and first-order provers can use
that one. `RunExists` shows that a recursive function with a typed step exists,
and `BoundedInduction` carries a fact along its run.

`PathProofs`, about the operators, with no behaviour involved:

- `ChainIsFair`: for any members with positive weights and any draws, the weighted
  shuffle and the deduplication neither lose nor repeat an endpoint and offer
  nobody else. The shuffle is shown to reorder its list, one swap at a time;
- `ReplayCoversTheChain`: `Replay`, which applies no filter, offers every endpoint of
  the recorded chain, and is that chain when the filter dropped nobody;
- `DecideNamesAPool`: a decision names a pool that a rule or the default names,
  whichever rules match and in whatever order the unstable sort left them;
- `CostIsSound`: buckets and total of a cost event differ by less than a cent for
  each bucket, and a model that supports `cache_control` has its cache prices, for
  any table that passes `ValidPricing`;
- `StripAgreesWithDetection`: what `StripAnthropicFeatures` takes out of the
  intermediate form is what `DetectCapabilities` found in the body, but for a
  `cache_control` that is null everywhere;
- `FeaturesAreSentOrTaken`: the Anthropic form of a converted request has
  `cache_control` and thinking exactly when the body had, and neither once they
  were taken out.

`IngressProofs`, for every set of configurations, requests, requesters, draws and
usages, every set of adapters and any number of reloads, overlapping or not, proves
every invariant of run `ingress`: `RequestTypes`, `ChainComplete`,
`CalledSupports`, `CallMatchesRecord`, `FailuresAreExplained`,
`DegradationIsRecorded`, `CacheTokensArePriced`. It assumes
of a configuration that the YAML decoder gave it the types of `config/types.go`
(`Decoded`) and that `Load` accepted it (`Acceptable`; that only such
configurations are published is `ConfigurationsAreGood`), of a body that it has the
shape of the API (`Bodies`), of usages that they are token counts, and of a trace
that something is drawn.

None of these is inductive: what is true of the member called rests on what was
read from six holders in a dozen earlier steps, while other goroutines rewrite
them. `RequestInv` is, and `RequestInvHolds` proves it. Its parts:

- `LiveInv`: each holder has its part of some accepted configuration, not
  necessarily of the same one as the others, and what a publisher has left is the
  end of its callback;
- `StageInv`: what is set at which stage of the request;
- `KeptInv`: whatever reloads do, every member kept or called met each requirement
  by a pricing table that was in force during the request;
- `ChainInv`, `AdapterInv`: the first chain offers the members kept; before the
  first reload every member seen has an adapter;
- `FoundInv`, `WalkInv`, `HeadInv` speak of a request that no reload has touched
  (`Still`). If policy and pools fit, the pool of its decision exists; its filter is
  at some candidate n of that pool and has kept exactly those of the first n that
  pass; the first chain is therefore the one that the second lookup and filter would
  give again from the same draws, and key, record and call go to its head;
- `RecordInv`: the properties about what was sent, degraded and billed, which
  follow from the operators above when the step is taken.

A step of a reload either leaves the holders as they are or sets `moved`, which
ends what `Still` promises (`ReloadStepFacts`); a step of the request leaves the
holders alone. There is one lemma for each stage and part that it can disturb.

Only model-checked: the liveness properties (`HoldsEnd`, `RequestEnds`,
`RevocationTakesEffect`, `EditTakesEffect`, `SighupRereadsSecrets`,
`HandlerEnds`), since reasoning about fairness and `ENABLED` is beyond the prover.
The six properties of the violation runs are false, and have nothing to prove.
Every other property of a run is a theorem.

## What is not modelled

- The in-memory budget service: `main` does not wire it.
- Months, of which the budget service knows nothing.
- `HotReloader.Stop`, the reload metrics with their file labels, and a `Start`
  that fails, after which the configuration stays as it was read.
- The error path of `SetPolicy` in the callback: `Load` has compiled the same
  rules before.
- Trust tier and residency in a decision are part of `Routing`, but no rule can
  set them. Of the decision's other fields no rule sets any.
- The text of CEL conditions, YAML, JSON and SQL; HTTP headers; float64 rounding
  of prices.
- `OpenAIToIR` and the conversion of stream events, which have no caller in the
  gateway.
- The LP's command line, session, tagger and statistics, migrations, dashboards,
  metrics and repository bindings: sequential code, or single statements without
  shared state.
- An agent that neither reads nor leaves: the LP has no write timeout, so its
  handler waits with it. `HandlerEnds` assumes that a write returns.
