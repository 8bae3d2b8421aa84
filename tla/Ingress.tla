------------------------------ MODULE Ingress ------------------------------
(***************************************************************************)
(* One request through Pipeline.Run and EgressPipeline.Run while reloads   *)
(* replace the configuration: decision, required capabilities, candidate   *)
(* chain, key, a second candidate chain, conversion, the provider's answer *)
(* and what is recorded.  Each step reads a holder of LiveConfig at its    *)
(* own time.  Reloads publish into the holders one by one, each in its own *)
(* goroutine, so that two of them, or one that still has the pricing-only  *)
(* callback, can leave a mix of configurations behind for good.            *)
(***************************************************************************)
EXTENDS LiveConfig, PolicyEngine, Routing, Translate, Cost

CONSTANTS
    Configs,       \* accepted configurations [files, keys]
    Publishers,    \* reloads that may publish at once (bound)
    Requests,      \* request id -> what the handler decodes (Bodies)
    Who,           \* requesters
    Usages,        \* token counts a provider may report
    Draws,         \* words the generator may produce for a trace
    Adapters,      \* wires with a registered adapter
    Absent,        \* no value yet
    MaxReloads     \* reloads in a behaviour (bound)

ASSUME ConfigsAssumption == \A cfg \in Configs : Decoded(cfg.files) /\ Acceptable(cfg.files)
ASSUME RequestsAssumption == \A id \in DOMAIN Requests : Requests[id] \in Bodies
ASSUME UsagesAssumption ==
    Usages \subseteq [input : Nat, output : Nat, cacheRead : Nat, cacheCreate : Nat]
ASSUME DrawsAssumption == \A draw \in Draws : draw \in Seq(Nat) /\ draw # <<>>
ASSUME ReloadsAssumption == MaxReloads \in Nat

VARIABLES
    pubs,          \* publisher -> [cfg, todo]: its configuration, holders still to update
    reloads,       \* publications begun
    pc,            \* step of the request
    request,       \* its id
    who,           \* its sender
    words,         \* draws of its trace
    dec,           \* the Decision
    cands,         \* candidates still to filter
    kept,          \* candidates that passed
    chain,         \* the chain of Pipeline.Run
    key,           \* the API key chosen for its head
    called,        \* the member EgressPipeline.Run calls
    posted,        \* what is sent to it
    degraded,      \* features taken out
    billed,        \* what the cost_event carries
    outcome,       \* how the request ended
    moved,         \* a holder changed during the request (history)
    prices         \* pricing tables in force during the request (history)

reloadVars == <<live, pubs, reloads>>
requestVars == <<request, who, words, dec, cands, kept, chain, key, called, posted, degraded, billed, outcome>>
vars == <<reloadVars, pc, requestVars, moved, prices>>

NoRequest ==
    /\ request = Absent /\ who = Absent /\ words = <<>>
    /\ dec = NoDecision
    /\ cands = <<>> /\ kept = <<>> /\ chain = <<>>
    /\ key = "" /\ called = Absent /\ posted = Absent /\ degraded = {}
    /\ billed = Absent /\ outcome = "none"

Init ==
    /\ \E cfg \in Configs : /\ ValidatePoolAdapters(Body[cfg.files["pools"]], Adapters)
                            /\ live = Wired(cfg)
                            /\ pubs = [p \in Publishers |-> [cfg |-> cfg, todo |-> <<>>]]
    /\ reloads = 0
    /\ pc = "idle" /\ NoRequest
    /\ moved = FALSE /\ prices = {}

-----------------------------------------------------------------------------
(* The reloads. *)

\* The holders that a callback updates: all seven, or, for a reload that called
\* onReload before main registered the full callback, the selector's pricing alone.
Callbacks == {HolderOrder, <<"selPricing">>}

BeginPublish(p, cfg, holders) ==
    /\ pubs[p].todo = <<>>
    /\ reloads < MaxReloads
    /\ pubs' = [pubs EXCEPT ![p] = [cfg |-> cfg, todo |-> holders]]
    /\ reloads' = reloads + 1
    /\ UNCHANGED <<live, pc, requestVars, moved, prices>>

PublishNext(p) ==
    /\ pubs[p].todo # <<>>
    /\ LET h == Head(pubs[p].todo)
       IN  live' = [live EXCEPT ![h] = Updated(h, pubs[p].cfg)]
    /\ pubs' = [pubs EXCEPT ![p].todo = Tail(@)]
    /\ moved' = (moved \/ live' # live)
    /\ prices' = prices \union {live'.selPricing}
    /\ UNCHANGED <<reloads, pc, requestVars>>

-----------------------------------------------------------------------------
(* Pipeline.Run *)

End(why) ==
    /\ outcome' = why
    /\ pc' = "done"

Arrive(id, sender, draw) ==
    /\ pc = "idle"
    /\ request' = id /\ who' = sender /\ words' = draw
    /\ pc' = "decide"
    /\ moved' = FALSE
    /\ prices' = {live.selPricing}
    /\ UNCHANGED <<reloadVars, dec, cands, kept, chain, key, called, posted, degraded, billed, outcome>>

EvaluatePolicy ==
    /\ pc = "decide"
    /\ LET policy == Body[live.policy]
       IN  \E sorted \in SortedRules(policy.rules) : dec' = Decide(sorted, policy.default, who)
    /\ pc' = "require"
    /\ UNCHANGED <<reloadVars, request, who, words, cands, kept, chain, key, called, posted,
                   degraded, billed, outcome, moved, prices>>

\* What a request needs that the policy does not let the gateway drop.  Only the body
\* of an anthropic_messages request is inspected.
Hard(body, allowed) ==
    IF body.protocol = "anthropic_messages"
    THEN FilterDegradable(DetectCapabilities(body), allowed) ELSE {}

\* Hard requirements, from the degradation list of the pipeline's own configuration.
RequireCapabilities ==
    /\ pc = "require"
    /\ LET allowed == Body[live.config.files["policy"]].degradable
       IN  dec' = [dec EXCEPT !.required = @ \union Hard(Requests[request], allowed)]
    /\ pc' = "lookup"
    /\ UNCHANGED <<reloadVars, request, who, words, cands, kept, chain, key, called, posted,
                   degraded, billed, outcome, moved, prices>>

PoolName == IF dec.pool = "" THEN "standard" ELSE dec.pool

\* BuildChain, up to the end of its read lock; it is called twice.
LookupPool ==
    /\ pc \in {"lookup", "lookup again"}
    /\ LET pools == Body[live.selPools]
       IN  IF PoolName \in DOMAIN pools.pools
           THEN /\ cands' = Candidates(pools.endpoints, pools.pools[PoolName].members)
                /\ pc' = IF pc = "lookup" THEN "filter" ELSE "filter again"
                /\ UNCHANGED outcome
           ELSE End("pool not found") /\ UNCHANGED cands
    /\ kept' = <<>>
    /\ UNCHANGED <<reloadVars, request, who, words, dec, chain, key, called, posted, degraded, billed,
                   moved, prices>>

\* BuildChain loads the pricing table anew for every candidate.
FilterCandidate ==
    /\ pc \in {"filter", "filter again"}
    /\ cands # <<>>
    /\ kept' = IF satisfiesConstraints(Head(cands), dec, Body[live.selPricing])
               THEN Append(kept, Head(cands)) ELSE kept
    /\ cands' = Tail(cands)
    /\ UNCHANGED <<reloadVars, pc, request, who, words, dec, chain, key, called, posted,
                   degraded, billed, outcome, moved, prices>>

NoCandidate ==
    /\ pc \in {"filter", "filter again"}
    /\ cands = <<>> /\ kept = <<>>
    /\ End("no candidate")
    /\ UNCHANGED <<reloadVars, request, who, words, dec, cands, kept, chain, key, called, posted,
                   degraded, billed, moved, prices>>

BuildChain ==
    /\ pc = "filter"
    /\ cands = <<>> /\ kept # <<>>
    /\ chain' = Chain(kept, words)
    /\ pc' = "key"
    /\ UNCHANGED <<reloadVars, request, who, words, dec, cands, kept, key, called, posted,
                   degraded, billed, outcome, moved, prices>>

ResolvedKeyUnchecked ==
    /\ pc = "key"
    /\ key' = live.config.keys[chain[1].endpoint]
    /\ pc' = "lookup again"
    /\ UNCHANGED <<reloadVars, request, who, words, dec, cands, kept, chain, called, posted,
                   degraded, billed, outcome, moved, prices>>

\* The key of the head of the chain; none when the configuration does not know it.
ResolvedKey ==
    /\ pc = "key"
    /\ LET e == chain[1].endpoint
       IN  key' = IF e \in DOMAIN Body[live.config.files["pools"]].endpoints
                  THEN live.config.keys[e] ELSE ""
    /\ pc' = "lookup again"
    /\ UNCHANGED <<reloadVars, request, who, words, dec, cands, kept, chain, called, posted,
                   degraded, billed, outcome, moved, prices>>

-----------------------------------------------------------------------------
(* EgressPipeline.Run: the head of its own chain is called. *)

BuildNextChain ==
    /\ pc = "filter again"
    /\ cands = <<>> /\ kept # <<>>
    /\ \E draw \in Draws : called' = Chain(kept, draw)[1]
    /\ pc' = "convert"
    /\ UNCHANGED <<reloadVars, request, who, words, dec, cands, kept, chain, key, posted,
                   degraded, billed, outcome, moved, prices>>

BuildChainAgain ==
    /\ pc = "filter again"
    /\ cands = <<>> /\ kept # <<>>
    /\ called' = Chain(kept, words)[1]
    /\ pc' = "convert"
    /\ UNCHANGED <<reloadVars, request, who, words, dec, cands, kept, chain, key, posted,
                   degraded, billed, outcome, moved, prices>>

\* No adapter, or a body that does not parse.
CannotConvert ==
    /\ pc = "convert"
    /\ IF called.wire \notin Adapters THEN End("no adapter")
       ELSE ~Requests[request].parses /\ End("bad request")
    /\ UNCHANGED <<reloadVars, request, who, words, dec, cands, kept, chain, key, called, posted,
                   degraded, billed, moved, prices>>

Convert ==
    /\ pc = "convert"
    /\ called.wire \in Adapters
    /\ Requests[request].parses
    /\ LET ir       == AnthropicToIR(Requests[request])
           stripped == IF called.wire = "anthropic" THEN [req |-> ir, degraded |-> {}]
                       ELSE StripAnthropicFeatures(ir)
       IN  /\ degraded' = stripped.degraded
           /\ posted' = IF called.wire \in {"openai", "openai_compat"}
                        THEN IRToOpenAI(stripped.req)
                        ELSE IRToAnthropic(stripped.req, called.model)
    /\ pc' = "call"
    /\ UNCHANGED <<reloadVars, request, who, words, dec, cands, kept, chain, key, called, billed, outcome,
                   moved, prices>>

\* The provider's answer, after the retry.
Answer ==
    /\ pc = "call"
    /\ \/ End("provider error")
       \/ pc' = "stream" /\ UNCHANGED outcome
    /\ UNCHANGED <<reloadVars, request, who, words, dec, cands, kept, chain, key, called, posted,
                   degraded, billed, moved, prices>>

\* The stream ends, after Pipeline.Run recorded the head of its own chain: that member
\* is billed, with the prices of this moment.  A stream that broke, or reported no
\* usage, is estimated.
Account(usage, complete) ==
    /\ pc = "stream"
    /\ LET m == chain[1]
           event == Calculate(Body[live.costPricing], m.vendor, m.model, usage)
       IN  billed' = [event EXCEPT !.source = IF complete THEN @ ELSE "estimated"]
    /\ End(IF complete THEN "served" ELSE "cut")
    /\ UNCHANGED <<reloadVars, request, who, words, dec, cands, kept, chain, key, called, posted,
                   degraded, moved, prices>>

-----------------------------------------------------------------------------
Next ==
    \/ \E p \in Publishers, cfg \in Configs, holders \in Callbacks : BeginPublish(p, cfg, holders)
    \/ \E p \in Publishers : PublishNext(p)
    \/ \E id \in DOMAIN Requests, sender \in Who, draw \in Draws : Arrive(id, sender, draw)
    \/ EvaluatePolicy
    \/ RequireCapabilities
    \/ LookupPool
    \/ FilterCandidate
    \/ NoCandidate
    \/ BuildChain
    \/ ResolvedKey
    \/ BuildChainAgain
    \/ CannotConvert
    \/ Convert
    \/ Answer
    \/ \E usage \in Usages, complete \in BOOLEAN : Account(usage, complete)

Spec == Init /\ [][Next]_vars

-----------------------------------------------------------------------------
(* Properties *)

EndpointsIn(s) == {s[i].endpoint : i \in DOMAIN s}
KeyValues == UNION {{cfg.keys[e] : e \in DOMAIN Body[cfg.files["pools"]].endpoints} : cfg \in Configs}

\* Types of the request's state; the key is one that a configuration resolved, or
\* none (ingress_pipeline.go:137).
TypeOK ==
    /\ \A h \in {"selPools", "selPricing", "costPricing", "policy", "registry"} :
          live[h] \in DOMAIN Body
    /\ live.config \in Configs
    /\ \A p \in Publishers :
          /\ pubs[p].cfg \in Configs
          /\ \/ pubs[p].todo = <<"selPricing">>
             \/ \E i \in 1..8 : pubs[p].todo = SubSeq(HolderOrder, i, 7)
    /\ reloads \in 0..MaxReloads
    /\ pc \in {"idle", "decide", "require", "lookup", "filter", "key", "lookup again",
               "filter again", "convert", "call", "stream", "done"}
    /\ request \in DOMAIN Requests \union {Absent}
    /\ dec.action \in {"", "route", "allow"}
    /\ dec.required \subseteq {"cache_control", "extended_thinking", "vision"}
    /\ key \in KeyValues \union {""}
    /\ degraded \subseteq Degradable
    /\ outcome \in {"none", "served", "cut", "provider error", "pool not found", "no candidate",
                    "no adapter", "bad request"}
    /\ moved \in BOOLEAN /\ prices \subseteq DOMAIN Body

\* The candidate chain offers every eligible endpoint of the pool exactly once, in
\* whatever order the draws put them (selector.go:149, the weighted shuffle and the
\* deduplication neither lose nor repeat one).
ChainIsComplete ==
    pc = "key" => /\ EndpointsIn(chain) = EndpointsIn(kept)
                  /\ \A i, j \in DOMAIN chain : chain[i].endpoint = chain[j].endpoint => i = j

\* What the body needs and the policy does not allow to be dropped, the called member
\* supports: by the current pricing when no holder changed during the request, and by
\* a pricing table that was in force during the request in any case, whatever mix of
\* configurations earlier reloads have left (ingress_pipeline.go:113, selector.go:149).
RequirementsMet ==
    called # Absent =>
        /\ \A cap \in dec.required : \E p \in prices : memberSupports(called, cap, Body[p])
        /\ ~moved =>
              \A cap \in Hard(Requests[request], Body[live.config.files["policy"]].degradable) :
                  memberSupports(called, cap, Body[live.selPricing])

\* Two chains are built for a request, one for the key and the records and one for
\* the call (ingress_pipeline.go:129, egress_pipeline.go:59).  When no holder changed
\* in between they have the same head, on any mix of configurations; the key sent is
\* then the one configured for the endpoint that is called, provided the pipeline's
\* configuration and the selector have the same pools.
CalledAsRecorded ==
    called # Absent /\ ~moved =>
        /\ called = chain[1]
        /\ live.selPools = live.config.files["pools"] => key = live.config.keys[called.endpoint]

\* The engine's policy and the selector's pools are of one configuration.
PolicyFitsPools ==
    \E cfg \in Configs : live.policy = cfg.files["policy"] /\ live.selPools = cfg.files["pools"]

\* A configuration that passed validation serves: a pool that a rule names is found
\* unless a holder changed during the request or reloads have left the policy of one
\* configuration with the pools of another, and so is an adapter unless a reload
\* brought the endpoint in after the check at start (main.go:331).
FailuresExplained ==
    /\ outcome = "pool not found" => moved \/ dec.action = "allow" \/ ~PolicyFitsPools
    /\ outcome = "no adapter" => reloads > 0

\* A block, or the request, has a cache_control object of its own.
Marked(blocks) == \E i \in DOMAIN blocks : blocks[i].mark = "yes"
HasMark(body) ==
    Marked(body.system) \/ \E i \in DOMAIN body.messages : Marked(body.messages[i].content)

\* The features recorded as degraded are the ones the body had, of those that can be
\* degraded, and only a wire other than "anthropic" loses them: the detection on raw
\* JSON and the stripping of the IR agree, but for a cache_control that is null, which
\* is detected and not recorded (capability_detect.go:92, anthropic.go:219).  An
\* Anthropic-shaped provider gets the feature exactly when it was there and is not
\* recorded.
DegradedAsDetected ==
    posted # Absent =>
        LET body     == Requests[request]
            detected == DetectCapabilities(body) \intersect Degradable
        IN  /\ degraded = IF called.wire = "anthropic" THEN {}
                          ELSE IF HasMark(body) THEN detected ELSE detected \ {"cache_control"}
            /\ called.wire \in {"anthropic", "anthropic_compat"} =>
                  /\ HasMark(posted) <=> HasMark(body) /\ "cache_control" \notin degraded
                  /\ posted.thinking = "enabled" <=>
                        "extended_thinking" \in detected /\ "extended_thinking" \notin degraded

\* A model that must support cache_control has cache prices, so the tokens of a request
\* that could only go to such a model are never guessed: the rule of pricing.yaml
\* (pricing.go:49), the filter of the selector and the fallback of the calculator fit
\* together when both have the same pricing and no holder changed during the request.
\* The buckets of an event never add up to more than its total, and miss it by less
\* than one cent each.
CacheIsPriced ==
    billed # Absent =>
        /\ /\ outcome = "served" /\ "cache_control" \in dec.required
           /\ ~moved /\ live.costPricing = live.selPricing
           => billed.source = "provider_usage"
        /\ LET sum == billed.parts[1] + billed.parts[2] + billed.parts[3] + billed.parts[4]
           IN  sum <= billed.total /\ billed.total < sum + 4

=============================================================================
