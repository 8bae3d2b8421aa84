--------------------------- MODULE IngressProofs ---------------------------
(***************************************************************************)
(* The request path of the gateway under concurrent reloads: every         *)
(* invariant of Ingress, for every set of configurations, requests, draws, *)
(* usages and publishers, and for any number of reloads.                   *)
(***************************************************************************)
EXTENDS PathProofs

-----------------------------------------------------------------------------
(* The inductive invariant *)

\* The stages of a request that has called a member, or is about to.
Calling == {"convert", "call", "stream"}

\* What is set at which stage.
StageInv ==
    /\ pc \in {"idle", "decide", "require", "lookup", "filter", "key", "lookup again",
               "filter again", "done"} \union Calling
    /\ pc = "idle" => request = Absent
    /\ pc # "idle" => request \in DOMAIN Requests /\ words \in Draws
    /\ pc \in {"idle", "decide"} => dec = NoDecision
    /\ pc \notin {"idle", "decide"} => dec \in AnyDecision
    /\ pc \in {"idle", "decide", "require", "lookup"} => kept = <<>>
    /\ pc \notin Calling \union {"done"} => called = Absent
    /\ pc \notin {"call", "stream", "done"} => posted = Absent /\ degraded = {}
    /\ pc # "done" => billed = Absent /\ outcome = "none"

\* Members that had each required capability by some table among these.
Supporting(required, tables) ==
    {m \in AllMembers : \A cap \in required : \E p \in tables : memberSupports(m, cap, Body[p])}
Supported == Supporting(dec.required, prices)

HasCalled == called # Absent \/ pc \in Calling

\* Candidates are members of pools; those kept met the requirements when they were looked
\* at, by a table in force during the request.
KeptInv ==
    /\ prices \subseteq {cfg.files["pricing"] : cfg \in Configs}
    /\ pc # "idle" => live.selPricing \in prices
    /\ cands \in Seq(AllMembers)
    /\ kept \in Seq(Supported)
    /\ HasCalled => called \in Supported

\* The stages after the first chain was built.
Recorded == {"key", "lookup again", "filter again"} \union Calling

\* The first chain.
ChainInv ==
    /\ pc \in Recorded => chain \in Seq(AllMembers) /\ chain # <<>>
    /\ pc = "key" => EndpointsOf(chain) = EndpointsOf(kept) /\ Unique(chain)

\* Before the first reload only members with an adapter are seen.
Adapted == {m \in AllMembers : m.wire \in Adapters}
AdapterInv ==
    reloads = 0 =>
        /\ ValidatePoolAdapters(Body[live.selPools], Adapters)
        /\ cands \in Seq(Adapted) /\ kept \in Seq(Adapted)
        /\ HasCalled => called \in Adapted
        /\ outcome # "no adapter"

\* The candidates of the pool that is looked up, and those that pass the filter.
LivePool == Body[live.selPools].pools[PoolName]
Offered == Candidates(Body[live.selPools].endpoints, LivePool.members)
Passed == Eligible(Offered, dec, Body[live.selPricing])
HardCapabilities == Hard(Requests[request], Body[live.config.files["policy"]].degradable)

\* A request that no reload has touched.
Still == pc # "idle" /\ ~moved

\* It sees one table of prices and, if policy and pools fit, the pool its decision names;
\* the decision requires what the pipeline's policy does not allow to be dropped.
FoundInv ==
    Still =>
        /\ prices = {live.selPricing}
        /\ PolicyFitsPools /\ pc # "decide" /\ dec.action = "route" =>
              dec.pool # "" /\ dec.pool \in DOMAIN Body[live.selPools].pools
        /\ PolicyFitsPools /\ outcome = "pool not found" => dec.action = "allow"
        /\ pc \notin {"decide", "require"} => HardCapabilities \subseteq dec.required

\* Its filter is at some candidate of the pool.
WalkInv ==
    Still =>
        /\ pc \in {"filter"} \union Recorded => PoolName \in DOMAIN Body[live.selPools].pools
        /\ pc \in {"filter", "filter again"} =>
              \E n \in 0..Len(Offered) :
                 cands = SubSeq(Offered, n + 1, Len(Offered)) /\ kept = Passed[n]
        /\ pc = "key" => kept = Passed[Len(Offered)]

\* The pipeline's configuration and the selector have the same pools.
SamePools == live.selPools = live.config.files["pools"]

\* Its first chain is the one the second filter would give again, and the call goes to
\* the head of it, with the key of the head when the pools are the same.
HeadInv ==
    Still =>
        /\ pc \in Recorded =>
              chain = Chain(Passed[Len(Offered)], words) /\ Passed[Len(Offered)] # <<>>
        /\ SamePools /\ pc \in Recorded \ {"key"} => key = live.config.keys[chain[1].endpoint]
        /\ HasCalled => /\ called = chain[1]
                        /\ SamePools => key = live.config.keys[called.endpoint]

\* What is recorded of it.
RecordInv ==
    /\ key \in KeyValues \union {""} /\ degraded \subseteq Degradable
    /\ outcome \in {"none", "served", "cut", "provider error", "pool not found", "no candidate",
                    "no adapter", "bad request"}
    /\ DegradedAsDetected /\ CacheIsPriced

\* All of it.
RequestInv ==
    /\ LiveInv /\ moved \in BOOLEAN
    /\ StageInv /\ KeptInv /\ ChainInv /\ AdapterInv
    /\ FoundInv /\ WalkInv /\ HeadInv
    /\ RecordInv

-----------------------------------------------------------------------------
(* The stages *)

\* The steps of the request, which leave the holders alone.
RequestStep ==
    \/ \E id \in DOMAIN Requests, sender \in Who, draw \in Draws : Arrive(id, sender, draw)
    \/ EvaluatePolicy \/ RequireCapabilities \/ LookupPool \/ FilterCandidate \/ NoCandidate
    \/ BuildChain \/ ResolvedKey \/ BuildChainAgain \/ CannotConvert \/ Convert \/ Answer
    \/ \E usage \in Usages, complete \in BOOLEAN : Account(usage, complete)

\* A step is a step of the reload, or one of the request.
LEMMA StepIs ==
    ASSUME Next
    PROVE  ReloadStep \/ RequestStep
  BY Zenon DEF Next, ReloadStep, RequestStep

\* Nothing of a request is set before its time.
LEMMA StageNext ==
    ASSUME LiveInv, StageInv, RequestStep
    PROVE  StageInv'
<1>1. ASSUME NEW id \in DOMAIN Requests, NEW sender \in Who, NEW draw \in Draws, Arrive(id, sender, draw)
      PROVE  StageInv'
  BY <1>1 DEF StageInv, Arrive, Calling
<1>2. CASE EvaluatePolicy
  <2>1. PICK cfg \in Configs : live.policy = cfg.files["policy"]
    BY LiveParts, Zenon
  <2>2. PICK sorted \in SortedRules(Body[live.policy].rules) :
            dec' = Decide(sorted, Body[live.policy].default, who)
    BY <1>2, Zenon DEF EvaluatePolicy
  <2>3. dec' \in AnyDecision
    BY <2>1, <2>2, DecideFacts, Zenon
  <2> QED
    BY <1>2, <2>3 DEF StageInv, EvaluatePolicy, Calling
<1>3. CASE RequireCapabilities
  <2> DEFINE hard == Hard(Requests[request], Body[live.config.files["policy"]].degradable)
  <2>1. hard \subseteq Capabilities
    BY HardFacts, Zenon
  <2>2. dec' = [dec EXCEPT !.required = @ \union hard] /\ pc = "require"
    BY <1>3, Zenon DEF RequireCapabilities
  <2>3. dec \in AnyDecision
    BY <2>2 DEF StageInv
  <2> HIDE DEF hard
  <2>4. dec' \in AnyDecision
    BY <2>1, <2>2, <2>3, RequireFacts, Zenon
  <2> QED
    BY <1>3, <2>4 DEF StageInv, RequireCapabilities, Calling
<1>4. CASE LookupPool
  <2>1. /\ pc \in {"lookup", "lookup again"}
        /\ \/ pc' = (IF pc = "lookup" THEN "filter" ELSE "filter again") /\ outcome' = outcome
           \/ pc' = "done" /\ outcome' = "pool not found"
        /\ kept' = <<>>
        /\ UNCHANGED <<request, who, words, dec, called, posted, degraded, billed>>
    BY <1>4, Zenon DEF LookupPool, End
  <2> QED
    BY <2>1, Zenon DEF StageInv, Calling
<1>5. CASE FilterCandidate
  BY <1>5, Zenon DEF StageInv, FilterCandidate, Calling
<1>6. CASE NoCandidate
  BY <1>6, Zenon DEF StageInv, NoCandidate, End, Calling
<1>7. CASE BuildChain
  BY <1>7 DEF StageInv, BuildChain, Calling
<1>8. CASE ResolvedKey
  <2>1. /\ pc = "key" /\ pc' = "lookup again"
        /\ UNCHANGED <<request, who, words, dec, kept, called, posted, degraded, billed, outcome>>
    BY <1>8, Zenon DEF ResolvedKey
  <2> QED
    BY <2>1, Zenon DEF StageInv, Calling
<1>9. CASE BuildChainAgain
  BY <1>9, Zenon DEF StageInv, BuildChainAgain, Calling
<1>10. CASE CannotConvert
  BY <1>10, Zenon DEF StageInv, CannotConvert, End, Calling
<1>11. CASE Convert
  <2>1. /\ pc = "convert" /\ pc' = "call"
        /\ UNCHANGED <<request, who, words, dec, kept, called, billed, outcome>>
    BY <1>11, Zenon DEF Convert
  <2> QED
    BY <2>1 DEF StageInv, Calling
<1>12. CASE Answer
  BY <1>12, Zenon DEF StageInv, Answer, End, Calling
<1>13. ASSUME NEW usage \in Usages, NEW complete \in BOOLEAN, Account(usage, complete)
       PROVE  StageInv'
  <2>1. /\ pc = "stream" /\ pc' = "done"
        /\ UNCHANGED <<request, who, words, dec, kept, called, posted, degraded>>
    BY <1>13, Zenon DEF Account, End
  <2> QED
    BY <2>1 DEF StageInv, Calling
<1> QED
  BY <1>1, <1>2, <1>3, <1>4, <1>5, <1>6, <1>7, <1>8, <1>9, <1>10, <1>11, <1>12, <1>13, Zenon
     DEF RequestStep

-----------------------------------------------------------------------------
(* The candidates *)

\* With more tables, more members support what is required.
LEMMA SupportingMore ==
    ASSUME NEW required, NEW tables, NEW more, tables \subseteq more
    PROVE  Supporting(required, tables) \subseteq Supporting(required, more)
  BY Zenon DEF Supporting

\* They are members of pools, and their weights are positive.
LEMMA SupportingFacts ==
    ASSUME NEW required, NEW tables
    PROVE  /\ Supporting(required, tables) \subseteq AllMembers
           /\ \A m \in Supporting(required, tables) : m.weight \in Nat \ {0}
<1>1. Supporting(required, tables) \subseteq AllMembers
  BY Zenon DEF Supporting
<1> QED
  BY <1>1, AllMembersFacts, Zenon

\* A candidate that passes the filter with one of the tables.
LEMMA PassesFilter ==
    ASSUME NEW d, NEW m \in AllMembers, NEW tables, NEW p \in tables,
           satisfiesConstraints(m, d, Body[p])
    PROVE  m \in Supporting(d.required, tables)
  BY Zenon DEF satisfiesConstraints, Supporting

\* The filter starts with nobody kept.
LEMMA EmptyList ==
    ASSUME NEW S PROVE <<>> \in Seq(S)
  OBVIOUS

\* The candidate it looks at is one of the list.
LEMMA HeadIn ==
    ASSUME NEW S, NEW c \in Seq(S), c # <<>> PROVE Head(c) \in S
  OBVIOUS

\* One turn of the filter: a candidate leaves one list and may join the other.
LEMMA FilterLists ==
    ASSUME NEW S, NEW T, NEW c \in Seq(S), c # <<>>, NEW k \in Seq(T), NEW passes \in BOOLEAN,
           passes => Head(c) \in T
    PROVE  /\ Head(c) \in S /\ Tail(c) \in Seq(S)
           /\ (IF passes THEN Append(k, Head(c)) ELSE k) \in Seq(T)
  OBVIOUS

\* The next table is one of a configuration.
LEMMA NextTable ==
    ASSUME LiveInv'
    PROVE  live'.selPricing \in {cfg.files["pricing"] : cfg \in Configs}
  BY Zenon DEF LiveInv, PricingContents

\* A reload adds tables and takes nothing back.
LEMMA KeptReload ==
    ASSUME LiveInv, KeptInv, ReloadStep, moved \in BOOLEAN
    PROVE  KeptInv'
<1>1. /\ UNCHANGED <<pc, requestVars>> /\ LiveInv'
      /\ prices \subseteq prices' /\ prices' \subseteq prices \union {live'.selPricing}
      /\ live.selPricing \in prices => live'.selPricing \in prices'
  BY ReloadStepFacts, Zenon
<1>2. /\ pc' = pc /\ dec' = dec /\ cands' = cands /\ kept' = kept /\ called' = called
  BY <1>1, Zenon DEF requestVars
<1>3. /\ prices \subseteq {cfg.files["pricing"] : cfg \in Configs}
      /\ pc # "idle" => live.selPricing \in prices
      /\ cands \in Seq(AllMembers) /\ kept \in Seq(Supported)
      /\ HasCalled => called \in Supported
  BY Zenon DEF KeptInv
<1>4. live'.selPricing \in {cfg.files["pricing"] : cfg \in Configs}
  BY <1>1, NextTable, Zenon
<1>5. Supported \subseteq Supported'
  BY <1>1, <1>2, SupportingMore, Zenon DEF Supported
<1>6. kept' \in Seq(Supported')
  BY <1>2, <1>3, <1>5, WiderList, Zenon
<1>7. HasCalled' => called' \in Supported'
  BY <1>2, <1>3, <1>5, Zenon DEF HasCalled
<1>8. prices' \subseteq {cfg.files["pricing"] : cfg \in Configs}
  BY <1>1, <1>3, <1>4, Zenon
<1> QED
  BY <1>1, <1>2, <1>3, <1>6, <1>7, <1>8, Zenon DEF KeptInv

\* A step that leaves the lists, the decision and the tables alone.
LEMMA KeptSame ==
    ASSUME KeptInv, pc # "idle", live' = live, prices' = prices, dec' = dec, cands' = cands,
           kept' = kept, called' = called, pc' \in Calling => HasCalled
    PROVE  KeptInv'
<1>1. Supported' = Supported
  BY Zenon DEF Supported
<1>2. HasCalled' => HasCalled
  BY Zenon DEF HasCalled
<1> QED
  BY <1>1, <1>2, Zenon DEF KeptInv

\* A step of a stage at which nothing has been kept.
LEMMA KeptNone ==
    ASSUME KeptInv, kept' = <<>>, called' = Absent, pc' \notin Calling,
           prices' \subseteq {cfg.files["pricing"] : cfg \in Configs},
           live'.selPricing \in prices', cands' \in Seq(AllMembers)
    PROVE  KeptInv'
<1>1. kept' \in Seq(Supported')
  BY EmptyList, Zenon
<1>2. ~HasCalled'
  BY Zenon DEF HasCalled
<1> QED
  BY <1>1, <1>2, Zenon DEF KeptInv

\* What a request has kept, it supports.
LEMMA KeptNext ==
    ASSUME LiveInv, StageInv, KeptInv, RequestStep
    PROVE  KeptInv'
<1> DEFINE Tables == {cfg.files["pricing"] : cfg \in Configs}
<1>0. /\ prices \subseteq Tables /\ (pc # "idle" => live.selPricing \in prices)
      /\ cands \in Seq(AllMembers) /\ kept \in Seq(Supported)
      /\ HasCalled => called \in Supported
  BY Zenon DEF KeptInv
<1>a. live.selPricing \in Tables
  BY LiveParts, Zenon
<1> HIDE DEF Tables
<1>1. ASSUME NEW id \in DOMAIN Requests, NEW sender \in Who, NEW draw \in Draws, Arrive(id, sender, draw)
      PROVE  KeptInv'
  <2>1. /\ pc = "idle" /\ pc' = "decide" /\ prices' = {live.selPricing} /\ live' = live
        /\ kept' = kept /\ called' = called /\ cands' = cands
    BY <1>1, Zenon DEF Arrive, reloadVars
  <2>2. kept' = <<>> /\ called' = Absent /\ pc' \notin Calling
    BY <2>1 DEF StageInv, Calling
  <2>3. prices' \subseteq Tables /\ live'.selPricing \in prices' /\ cands' \in Seq(AllMembers)
    BY <2>1, <1>0, <1>a, Zenon
  <2> QED
    BY <2>2, <2>3, KeptNone, Zenon DEF Tables
<1>2. CASE EvaluatePolicy \/ RequireCapabilities
  <2>1. /\ pc \in {"decide", "require"} /\ pc' \in {"require", "lookup"} /\ prices' = prices
        /\ live' = live /\ kept' = kept /\ called' = called /\ cands' = cands
    BY <1>2, Zenon DEF EvaluatePolicy, RequireCapabilities, reloadVars
  <2>2. kept' = <<>> /\ called' = Absent /\ pc' \notin Calling /\ pc # "idle"
    BY <2>1, Zenon DEF StageInv, Calling
  <2>3. prices' \subseteq Tables /\ live'.selPricing \in prices' /\ cands' \in Seq(AllMembers)
    BY <2>1, <2>2, <1>0, Zenon
  <2> QED
    BY <2>2, <2>3, KeptNone, Zenon DEF Tables
<1>3. CASE LookupPool
  <2>1. /\ pc \in {"lookup", "lookup again"} /\ pc' \in {"filter", "filter again", "done"}
        /\ prices' = prices /\ live' = live /\ kept' = <<>> /\ called' = called
    BY <1>3, Zenon DEF LookupPool, End, reloadVars
  <2>2. called' = Absent /\ pc' \notin Calling /\ pc # "idle"
    BY <2>1, Zenon DEF StageInv, Calling
  <2>3. cands' \in Seq(AllMembers)
    <3>1. PICK cfg \in Configs : live.selPools = cfg.files["pools"]
      BY LiveParts, Zenon
    <3> DEFINE pools == Body[cfg.files["pools"]]
               all == Candidates(pools.endpoints, pools.pools[PoolName].members)
               P == MembersIn(pools)
    <3>2. cands' = cands \/ (PoolName \in DOMAIN pools.pools /\ cands' = all)
      BY <1>3, <3>1, Zenon DEF LookupPool
    <3>3. PoolName \in DOMAIN pools.pools => all \in Seq(P)
      BY LookupFacts, Zenon
    <3>4. P \subseteq AllMembers
      BY AllMembersFacts, Zenon
    <3> HIDE DEF all, P
    <3> QED
      BY <1>0, <3>2, <3>3, <3>4, WiderList, Zenon
  <2>4. prices' \subseteq Tables /\ live'.selPricing \in prices'
    BY <2>1, <2>2, <1>0, Zenon
  <2> QED
    BY <2>1, <2>2, <2>3, <2>4, KeptNone, Zenon DEF Tables
<1>4. CASE FilterCandidate
  <2> DEFINE passes == satisfiesConstraints(Head(cands), dec, Body[live.selPricing])
  <2>1. /\ pc \in {"filter", "filter again"} /\ cands # <<>>
        /\ kept' = IF passes THEN Append(kept, Head(cands)) ELSE kept
        /\ cands' = Tail(cands) /\ pc' = pc /\ dec' = dec /\ prices' = prices
        /\ live' = live /\ called' = called
    BY <1>4, Zenon DEF FilterCandidate, reloadVars
  <2>2. pc # "idle" /\ pc' \notin Calling
    BY <2>1, Zenon DEF Calling
  <2>3. Head(cands) \in AllMembers
    BY <1>0, <2>1, HeadIn, Zenon
  <2>4. passes => Head(cands) \in Supported
    BY <1>0, <2>2, <2>3, PassesFilter, Zenon DEF Supported
  <2>5. passes \in BOOLEAN
    BY Zenon DEF satisfiesConstraints
  <2> HIDE DEF passes
  <2>6. cands' \in Seq(AllMembers) /\ kept' \in Seq(Supported)
    BY <1>0, <2>1, <2>4, <2>5, FilterLists, Zenon
  <2>7. Supported' = Supported
    BY <2>1, Zenon DEF Supported
  <2>8. HasCalled' => HasCalled
    BY <2>1, <2>2, Zenon DEF HasCalled
  <2> QED
    BY <1>0, <2>1, <2>2, <2>6, <2>7, <2>8, Zenon DEF KeptInv, Tables
<1>5. CASE BuildChainAgain
  <2>1. /\ pc = "filter again" /\ kept # <<>> /\ called' = Chain(kept, words)[1]
        /\ pc' = "convert" /\ dec' = dec /\ prices' = prices /\ cands' = cands /\ kept' = kept
        /\ live' = live
    BY <1>5, Zenon DEF BuildChainAgain, reloadVars
  <2>2. words \in Draws
    BY <2>1, Zenon DEF StageInv
  <2>3. words \in Seq(Nat) /\ words # <<>>
    BY <2>2, DrawsAssumption, Zenon
  <2>4. \A m \in Supported : m.weight \in Nat \ {0}
    BY SupportingFacts, Zenon DEF Supported
  <2>5. called' \in Supported
    BY <1>0, <2>1, <2>3, <2>4, ChainHead, Zenon
  <2>6. Supported' = Supported
    BY <2>1, Zenon DEF Supported
  <2>7. pc # "idle"
    BY <2>1, Zenon
  <2> QED
    BY <1>0, <2>1, <2>5, <2>6, <2>7, Zenon DEF KeptInv, Tables
<1>6. CASE \/ NoCandidate \/ BuildChain \/ ResolvedKey \/ CannotConvert \/ Convert \/ Answer
           \/ \E usage \in Usages, complete \in BOOLEAN : Account(usage, complete)
  <2>1. /\ live' = live /\ prices' = prices /\ dec' = dec /\ cands' = cands /\ kept' = kept
        /\ called' = called
        /\ pc \in {"filter", "filter again", "key", "convert", "call", "stream"}
        /\ pc' \in {"done", "key", "lookup again"} \/ pc \in Calling
    BY <1>6, Zenon
       DEF NoCandidate, BuildChain, ResolvedKey, CannotConvert, Convert, Answer, Account, End,
           reloadVars, Calling
  <2>2. pc # "idle" /\ (pc' \in Calling => HasCalled)
    BY <2>1, Zenon DEF HasCalled, Calling
  <2> QED
    BY <2>1, <2>2, KeptSame, Zenon
<1> QED
  BY <1>1, <1>2, <1>3, <1>4, <1>5, <1>6, Zenon DEF RequestStep

-----------------------------------------------------------------------------
(* The first chain *)

\* The chain is built once, from what was kept.
LEMMA ChainNext ==
    ASSUME StageInv, KeptInv, ChainInv, RequestStep
    PROVE  ChainInv'
<1>0. /\ pc \in Recorded => chain \in Seq(AllMembers) /\ chain # <<>>
      /\ pc = "key" => EndpointsOf(chain) = EndpointsOf(kept) /\ Unique(chain)
  BY Zenon DEF ChainInv
<1>1. CASE BuildChain
  <2>1. pc = "filter" /\ kept # <<>> /\ chain' = Chain(kept, words) /\ pc' = "key" /\ kept' = kept
    BY <1>1, Zenon DEF BuildChain
  <2>2. words \in Draws
    BY <2>1 DEF StageInv
  <2>3. words \in Seq(Nat) /\ words # <<>>
    BY <2>2, DrawsAssumption, Zenon
  <2>4. kept \in Seq(AllMembers) /\ \A m \in AllMembers : m.weight \in Nat \ {0}
    <3>1. kept \in Seq(Supported)
      BY Zenon DEF KeptInv
    <3>2. Supported \subseteq AllMembers
      BY SupportingFacts, Zenon DEF Supported
    <3> QED
      BY <3>1, <3>2, WiderList, AllMembersFacts, Zenon
  <2>5. chain' \in Seq(AllMembers) /\ chain' # <<>>
    BY <2>1, <2>3, <2>4, ChainHead, Zenon
  <2>6. EndpointsOf(chain') = EndpointsOf(kept') /\ Unique(chain')
    BY <2>1, <2>3, <2>4, ChainIsFair, Zenon
  <2> QED
    BY <2>5, <2>6, Zenon DEF ChainInv, EndpointsOf, Unique
<1>2. CASE LookupPool
  <2>1. /\ chain' = chain /\ pc' # "key" /\ (pc' \in Recorded => pc \in Recorded)
    BY <1>2, Zenon DEF LookupPool, End, Recorded, Calling
  <2> QED
    BY <1>0, <2>1, Zenon DEF ChainInv
<1>3. CASE \/ \E id \in DOMAIN Requests, sender \in Who, draw \in Draws : Arrive(id, sender, draw)
           \/ EvaluatePolicy \/ RequireCapabilities \/ FilterCandidate \/ NoCandidate
           \/ ResolvedKey \/ BuildChainAgain \/ CannotConvert \/ Convert \/ Answer
           \/ \E usage \in Usages, complete \in BOOLEAN : Account(usage, complete)
  <2>1. chain' = chain /\ (pc' = pc => kept' = kept \/ pc # "key") /\ pc' \in {pc} \union
           ({"decide", "require", "lookup", "lookup again", "convert", "call", "stream", "done"})
    BY <1>3, Zenon
       DEF Arrive, EvaluatePolicy, RequireCapabilities, FilterCandidate, NoCandidate, ResolvedKey,
           BuildChainAgain, CannotConvert, Convert, Answer, Account, End
  <2>2. pc' \in Recorded => pc \in Recorded
    BY <1>3, Zenon
       DEF Arrive, EvaluatePolicy, RequireCapabilities, FilterCandidate, NoCandidate, ResolvedKey,
           BuildChainAgain, CannotConvert, Convert, Answer, Account, End, Recorded, Calling
  <2>3. pc' = "key" => pc = "key" /\ kept' = kept
    BY <2>1, Zenon
  <2> QED
    BY <1>0, <2>1, <2>2, <2>3, Zenon DEF ChainInv
<1> QED
  BY <1>1, <1>2, <1>3, Zenon DEF RequestStep

\* A reload does not touch it.
LEMMA ChainReload ==
    ASSUME LiveInv, ChainInv, ReloadStep, moved \in BOOLEAN
    PROVE  ChainInv'
<1>1. pc' = pc /\ kept' = kept /\ chain' = chain
  BY ReloadStepFacts, Zenon DEF requestVars
<1> QED
  BY <1>1, Zenon DEF ChainInv

-----------------------------------------------------------------------------
(* Adapters *)

\* Members that have an adapter are members.
LEMMA AdaptedFacts ==
    ASSUME NEW cfg \in Configs, ValidatePoolAdapters(Body[cfg.files["pools"]], Adapters)
    PROVE  MembersIn(Body[cfg.files["pools"]]) \subseteq Adapted
  BY MemberFacts, AllMembersFacts, Zenon DEF Adapted

\* Until the first reload every candidate has an adapter, so that none is missing.
LEMMA AdapterNext ==
    ASSUME LiveInv, StageInv, AdapterInv, RequestStep
    PROVE  AdapterInv'
<1>0. live' = live /\ reloads' = reloads
  BY Zenon DEF RequestStep, Arrive, EvaluatePolicy, RequireCapabilities, LookupPool,
     FilterCandidate, NoCandidate, BuildChain, ResolvedKey, BuildChainAgain, CannotConvert,
     Convert, Answer, Account, reloadVars
<1> SUFFICES ASSUME reloads = 0
             PROVE  /\ cands' \in Seq(Adapted) /\ kept' \in Seq(Adapted)
                    /\ HasCalled' => called' \in Adapted
                    /\ outcome' # "no adapter"
  BY <1>0, Zenon DEF AdapterInv
<1>a. /\ ValidatePoolAdapters(Body[live.selPools], Adapters)
      /\ cands \in Seq(Adapted) /\ kept \in Seq(Adapted)
      /\ HasCalled => called \in Adapted
      /\ outcome # "no adapter"
  BY Zenon DEF AdapterInv
<1>1. CASE LookupPool
  <2>1. /\ pc \in {"lookup", "lookup again"} /\ kept' = <<>> /\ called' = called
        /\ pc' \in {"filter", "filter again", "done"}
        /\ outcome' = outcome \/ outcome' = "pool not found"
    BY <1>1, Zenon DEF LookupPool, End
  <2>2. outcome' # "no adapter" /\ ~HasCalled'
    BY <1>a, <2>1, Zenon DEF StageInv, HasCalled, Calling
  <2>3. PICK cfg \in Configs : live.selPools = cfg.files["pools"]
    BY LiveParts, Zenon
  <2> DEFINE pools == Body[cfg.files["pools"]]
             all == Candidates(pools.endpoints, pools.pools[PoolName].members)
             P == MembersIn(pools)
  <2>4. cands' = cands \/ (PoolName \in DOMAIN pools.pools /\ cands' = all)
    BY <1>1, <2>3, Zenon DEF LookupPool
  <2>5. PoolName \in DOMAIN pools.pools => all \in Seq(P)
    BY LookupFacts, Zenon
  <2>6. P \subseteq Adapted
    BY <1>a, <2>3, AdaptedFacts, Zenon
  <2> HIDE DEF all, P
  <2>7. cands' \in Seq(Adapted)
    BY <1>a, <2>4, <2>5, <2>6, WiderList, Zenon
  <2>8. kept' \in Seq(Adapted)
    BY <2>1, EmptyList, Zenon
  <2> QED
    BY <2>2, <2>7, <2>8, Zenon
<1>2. CASE FilterCandidate
  <2> DEFINE passes == satisfiesConstraints(Head(cands), dec, Body[live.selPricing])
  <2>1. /\ pc \in {"filter", "filter again"} /\ cands # <<>>
        /\ kept' = IF passes THEN Append(kept, Head(cands)) ELSE kept
        /\ cands' = Tail(cands) /\ pc' = pc /\ called' = called /\ outcome' = outcome
    BY <1>2, Zenon DEF FilterCandidate
  <2>2. Head(cands) \in Adapted
    BY <1>a, <2>1, HeadIn, Zenon
  <2>3. passes \in BOOLEAN
    BY Zenon DEF satisfiesConstraints
  <2> HIDE DEF passes
  <2>4. cands' \in Seq(Adapted) /\ kept' \in Seq(Adapted)
    BY <1>a, <2>1, <2>2, <2>3, FilterLists, Zenon
  <2>5. HasCalled' => HasCalled
    BY <2>1, Zenon DEF HasCalled
  <2> QED
    BY <1>a, <2>1, <2>4, <2>5, Zenon
<1>3. CASE BuildChainAgain
  <2>1. /\ pc = "filter again" /\ kept # <<>> /\ called' = Chain(kept, words)[1]
        /\ cands' = cands /\ kept' = kept /\ outcome' = outcome
    BY <1>3, Zenon DEF BuildChainAgain
  <2>2. words \in Draws
    BY <2>1, Zenon DEF StageInv
  <2>3. words \in Seq(Nat) /\ words # <<>>
    BY <2>2, DrawsAssumption, Zenon
  <2>4. \A m \in Adapted : m.weight \in Nat \ {0}
    BY AllMembersFacts, Zenon DEF Adapted
  <2>5. called' \in Adapted
    BY <1>a, <2>1, <2>3, <2>4, ChainHead, Zenon
  <2> QED
    BY <1>a, <2>1, <2>5, Zenon
<1>4. CASE CannotConvert
  <2>1. /\ pc = "convert" /\ pc' = "done" /\ called' = called /\ cands' = cands /\ kept' = kept
        /\ called.wire \in Adapters => outcome' = "bad request"
    BY <1>4, Zenon DEF CannotConvert, End
  <2>2. HasCalled
    BY <2>1, Zenon DEF HasCalled, Calling
  <2>3. called \in Adapted /\ called.wire \in Adapters
    BY <1>a, <2>2, Zenon DEF Adapted
  <2> QED
    BY <1>a, <2>1, <2>3, Zenon
<1>5. CASE \/ \E id \in DOMAIN Requests, sender \in Who, draw \in Draws : Arrive(id, sender, draw)
           \/ EvaluatePolicy \/ RequireCapabilities \/ NoCandidate
           \/ BuildChain \/ ResolvedKey \/ Convert \/ Answer
           \/ \E usage \in Usages, complete \in BOOLEAN : Account(usage, complete)
  <2>1. /\ called' = called /\ cands' = cands /\ kept' = kept
        /\ outcome' \in {outcome, "no candidate", "provider error", "served", "cut"}
    BY <1>5, Zenon
       DEF Arrive, EvaluatePolicy, RequireCapabilities, NoCandidate, BuildChain, ResolvedKey,
           Convert, Answer, Account, End
  <2>2. pc' \in Calling => pc \in Calling
    BY <1>5, Zenon
       DEF Arrive, EvaluatePolicy, RequireCapabilities, NoCandidate, BuildChain, ResolvedKey,
           Convert, Answer, Account, End, Calling
  <2>3. HasCalled' => HasCalled
    BY <2>1, <2>2, Zenon DEF HasCalled
  <2> QED
    BY <1>a, <2>1, <2>3, Zenon
<1> QED
  BY <1>1, <1>2, <1>3, <1>4, <1>5, Zenon DEF RequestStep

-----------------------------------------------------------------------------
(* A request that no reload touches *)

\* A reload leaves such a request as it is.
LEMMA StillReload ==
    ASSUME LiveInv, KeptInv, FoundInv, WalkInv, HeadInv, ReloadStep, moved \in BOOLEAN
    PROVE  FoundInv' /\ WalkInv' /\ HeadInv'
<1> SUFFICES ASSUME Still'
             PROVE  FoundInv' /\ WalkInv' /\ HeadInv'
  BY Zenon DEF FoundInv, WalkInv, HeadInv
<1>1. UNCHANGED <<pc, requestVars>>
  BY ReloadStepFacts, Zenon
<1>2. /\ pc' = pc /\ request' = request /\ words' = words /\ dec' = dec /\ cands' = cands
      /\ kept' = kept /\ chain' = chain /\ key' = key /\ called' = called /\ outcome' = outcome
  BY <1>1, Zenon DEF requestVars
<1>3. Still /\ live' = live
  BY <1>2, ReloadStepFacts, Zenon DEF Still
<1>4. prices' = prices
  <2>1. prices \subseteq prices' /\ prices' \subseteq prices \union {live.selPricing}
    BY <1>3, ReloadStepFacts, Zenon
  <2>2. live.selPricing \in prices
    BY <1>3, Zenon DEF FoundInv
  <2> QED
    BY <2>1, <2>2
<1>5. /\ Offered' = Offered /\ Passed' = Passed /\ HardCapabilities' = HardCapabilities
      /\ PoolName' = PoolName /\ HasCalled' = HasCalled /\ SamePools' = SamePools
  BY <1>2, <1>3, Zenon DEF Offered, Passed, HardCapabilities, PoolName, HasCalled, LivePool, SamePools
<1>6. PolicyFitsPools' => PolicyFitsPools
  BY <1>3, Zenon DEF PolicyFitsPools
<1>7. FoundInv'
  BY <1>2, <1>3, <1>4, <1>5, <1>6, Zenon DEF FoundInv
<1>8. WalkInv'
  BY <1>2, <1>3, <1>5, Zenon DEF WalkInv
<1>9. HeadInv'
  BY <1>2, <1>3, <1>5, Zenon DEF HeadInv
<1> QED
  BY <1>7, <1>8, <1>9

\* Once the request has arrived its own steps do not disturb it.
LEMMA StillStep ==
    ASSUME RequestStep, Still'
    PROVE  \/ \E id \in DOMAIN Requests, sender \in Who, draw \in Draws : Arrive(id, sender, draw)
           \/ /\ Still /\ live' = live /\ prices' = prices /\ request' = request /\ words' = words
  BY Zenon DEF RequestStep, Still, EvaluatePolicy, RequireCapabilities, LookupPool,
     FilterCandidate, NoCandidate, BuildChain, ResolvedKey, BuildChainAgain, CannotConvert,
     Convert, Answer, Account, reloadVars

\* The request arrives.
LEMMA ArriveStill ==
    ASSUME LiveInv, StageInv,
           NEW id \in DOMAIN Requests, NEW sender \in Who, NEW draw \in Draws,
           Arrive(id, sender, draw), Still'
    PROVE  FoundInv' /\ WalkInv' /\ HeadInv'
<1>1. /\ pc = "idle" /\ pc' = "decide" /\ prices' = {live.selPricing} /\ live' = live
      /\ called' = called /\ outcome' = outcome
  BY Zenon DEF Arrive, reloadVars
<1>2. called' = Absent /\ outcome' = "none"
  BY <1>1 DEF StageInv, Calling
<1>6. FoundInv'
  BY <1>1, <1>2 DEF FoundInv
<1>7. pc' \notin {"filter", "filter again", "key"} /\ pc' \notin Recorded /\ ~HasCalled'
  BY <1>1, <1>2 DEF Recorded, Calling, HasCalled
<1>8. pc' # "filter" /\ pc' # "key" /\ pc' \notin {"filter"} \union Recorded
  BY <1>7, Zenon
<1>9. WalkInv'
  BY <1>7, <1>8, Zenon DEF WalkInv
<1>10. HeadInv'
  BY <1>7, Zenon DEF HeadInv
<1> QED
  BY <1>6, <1>9, <1>10

\* What it has found stays true.
LEMMA FoundNext ==
    ASSUME LiveInv, StageInv, FoundInv, RequestStep,
           Still, live' = live, prices' = prices, request' = request
    PROVE  FoundInv'
<1>1. PolicyFitsPools' => PolicyFitsPools
  BY Zenon DEF PolicyFitsPools
<1>2. /\ prices = {live.selPricing}
      /\ PolicyFitsPools /\ pc # "decide" /\ dec.action = "route" =>
            dec.pool # "" /\ dec.pool \in DOMAIN Body[live.selPools].pools
      /\ PolicyFitsPools /\ outcome = "pool not found" => dec.action = "allow"
      /\ pc \notin {"decide", "require"} => HardCapabilities \subseteq dec.required
  BY Zenon DEF FoundInv
<1>3. prices' = {live'.selPricing}
  BY <1>2, Zenon
<1>4. HardCapabilities' = HardCapabilities
  BY Zenon DEF HardCapabilities
<1>5. CASE EvaluatePolicy
  <2>1. pc = "decide" /\ pc' = "require" /\ outcome' = outcome
    BY <1>5, Zenon DEF EvaluatePolicy
  <2>2. outcome' # "pool not found"
    BY <2>1 DEF StageInv
  <2>3. PICK sorted \in SortedRules(Body[live.policy].rules) :
            dec' = Decide(sorted, Body[live.policy].default, who)
    BY <1>5, Zenon DEF EvaluatePolicy
  <2>4. ASSUME PolicyFitsPools, dec'.action = "route"
        PROVE  dec'.pool # "" /\ dec'.pool \in DOMAIN Body[live.selPools].pools
    <3>1. PICK cfg \in Configs : live.policy = cfg.files["policy"] /\ live.selPools = cfg.files["pools"]
      BY <2>4, Zenon DEF PolicyFitsPools
    <3> QED
      BY <2>3, <2>4, <3>1, DecideFacts, Zenon
  <2> QED
    BY <1>1, <1>3, <2>1, <2>2, <2>4, Zenon DEF FoundInv
<1>6. CASE RequireCapabilities
  <2> DEFINE hard == Hard(Requests[request], Body[live.config.files["policy"]].degradable)
  <2>1. /\ pc = "require" /\ pc' = "lookup" /\ outcome' = outcome
        /\ dec' = [dec EXCEPT !.required = @ \union hard]
    BY <1>6, Zenon DEF RequireCapabilities
  <2>2. outcome' # "pool not found" /\ dec \in AnyDecision /\ pc # "decide"
    BY <2>1 DEF StageInv
  <2>3. hard \subseteq Capabilities
    BY HardFacts, Zenon
  <2>4. hard = HardCapabilities
    BY Zenon DEF HardCapabilities
  <2> HIDE DEF hard
  <2>5. /\ dec'.action = dec.action /\ dec'.pool = dec.pool
        /\ dec'.required = dec.required \union hard
    BY <2>1, <2>2, <2>3, RequireFacts, Zenon
  <2>6. HardCapabilities' \subseteq dec'.required
    BY <1>4, <2>4, <2>5, Zenon
  <2> QED
    BY <1>1, <1>2, <1>3, <2>2, <2>5, <2>6, Zenon DEF FoundInv
<1>7. CASE LookupPool
  <2>1. /\ pc \in {"lookup", "lookup again"} /\ dec' = dec
        /\ \/ outcome' = outcome
           \/ outcome' = "pool not found" /\ PoolName \notin DOMAIN Body[live.selPools].pools
    BY <1>7, Zenon DEF LookupPool, End
  <2>2. pc \notin {"decide", "require"} /\ dec \in AnyDecision /\ pc # "decide"
    BY <2>1, Zenon DEF StageInv
  <2>3. dec.action \in {"route", "allow"}
    BY <2>2, Zenon DEF AnyDecision
  <2>4. PolicyFitsPools /\ outcome' = "pool not found" => dec.action = "allow"
    <3>1. PolicyFitsPools /\ dec.action = "route" => PoolName \in DOMAIN Body[live.selPools].pools
      BY <1>2, <2>2, Zenon DEF PoolName
    <3> QED
      BY <1>2, <2>1, <2>3, <3>1, Zenon
  <2> QED
    BY <1>1, <1>2, <1>3, <1>4, <2>1, <2>2, <2>4, Zenon DEF FoundInv
<1>8. CASE \/ FilterCandidate \/ NoCandidate \/ BuildChain \/ ResolvedKey \/ BuildChainAgain
           \/ CannotConvert \/ Convert \/ Answer
           \/ \E usage \in Usages, complete \in BOOLEAN : Account(usage, complete)
  <2>1. /\ dec' = dec /\ pc \notin {"decide", "require"} /\ pc # "decide"
        /\ outcome' = "pool not found" => outcome = "pool not found"
    BY <1>8, Zenon
       DEF FilterCandidate, NoCandidate, BuildChain, ResolvedKey, BuildChainAgain, CannotConvert,
           Convert, Answer, Account, End
  <2> QED
    BY <1>1, <1>2, <1>3, <1>4, <2>1, Zenon DEF FoundInv
<1>9. ~(\E id \in DOMAIN Requests, sender \in Who, draw \in Draws : Arrive(id, sender, draw))
  BY Zenon DEF Still, Arrive
<1> QED
  BY <1>5, <1>6, <1>7, <1>8, <1>9, Zenon DEF RequestStep

\* The walk through a pool starts with nothing kept, ends when nothing is left, and takes
\* one candidate at a time.
LEMMA WalkStarts ==
    ASSUME NEW S, NEW all \in Seq(S), NEW d, NEW pricing
    PROVE  SubSeq(all, 1, Len(all)) = all /\ Eligible(all, d, pricing)[0] = <<>>
<1>1. SubSeq(all, 1, Len(all)) = all
  BY RestOfList, Zenon
<1>2. Eligible(all, d, pricing)[0] = <<>>
  BY EligibleRun, Zenon
<1> QED
  BY <1>1, <1>2, Zenon

\* After n candidates: the end, or one candidate more.
WalksOn(all, d, pricing, n) ==
    LET c == SubSeq(all, n + 1, Len(all))
        k == Eligible(all, d, pricing)[n]
    IN  \/ c = <<>> /\ n = Len(all)
        \/ /\ c # <<>> /\ n + 1 \in 0..Len(all)
           /\ Tail(c) = SubSeq(all, (n + 1) + 1, Len(all))
           /\ Keep(k, Head(c), d, pricing) = Eligible(all, d, pricing)[n + 1]

\* And this is all that can happen.
LEMMA WalkSteps ==
    ASSUME NEW S, NEW all \in Seq(S), NEW d, NEW pricing, NEW n \in 0..Len(all)
    PROVE  WalksOn(all, d, pricing, n)
<1> DEFINE c == SubSeq(all, n + 1, Len(all))
           k == Eligible(all, d, pricing)[n]
<1>1. CASE n = Len(all)
  BY <1>1, RestOfList, Zenon DEF WalksOn
<1>2. CASE n # Len(all)
  <2>1. n + 1 \in 1..Len(all) /\ n + 1 \in 0..Len(all) /\ (n + 1) - 1 = n
    BY <1>2
  <2>2. c # <<>> /\ Head(c) = all[n + 1] /\ Tail(c) = SubSeq(all, (n + 1) + 1, Len(all))
    BY <2>1, RestOfList, Zenon
  <2>3. Eligible(all, d, pricing)[n + 1] =
            Keep(Eligible(all, d, pricing)[(n + 1) - 1], all[n + 1], d, pricing)
    BY <2>1, EligibleRun, ZenonT(30)
  <2>4. Eligible(all, d, pricing)[n + 1] = Keep(k, all[n + 1], d, pricing)
    BY <2>1, <2>3, Zenon
  <2> QED
    BY <2>1, <2>2, <2>4, Zenon DEF WalksOn
<1> QED
  BY <1>1, <1>2, Zenon

\* What the pool offers.
LEMMA OfferedFacts ==
    ASSUME LiveInv, PoolName \in DOMAIN Body[live.selPools].pools
    PROVE  /\ Offered \in Seq(MembersIn(Body[live.selPools]))
           /\ Len(Offered) <= Len(LivePool.members)
<1>1. PICK cfg \in Configs : live.selPools = cfg.files["pools"]
  BY LiveParts, Zenon
<1> QED
  BY <1>1, LookupFacts, Zenon DEF Offered, LivePool

\* The candidates of the live pools file are registered there and weigh something.
LEMMA LiveMembers ==
    ASSUME LiveInv, NEW m \in MembersIn(Body[live.selPools])
    PROVE  m.endpoint \in DOMAIN Body[live.selPools].endpoints /\ m.weight \in Nat \ {0}
<1>1. PICK cfg \in Configs : live.selPools = cfg.files["pools"]
  BY LiveParts, Zenon
<1> QED
  BY <1>1, MemberFacts, Zenon

\* At the end of the filter all candidates of the pool have been looked at.
LEMMA FilteredAll ==
    ASSUME LiveInv, WalkInv, Still, pc \in {"filter", "filter again"}, cands = <<>>
    PROVE  kept = Passed[Len(Offered)]
<1>1. PoolName \in DOMAIN Body[live.selPools].pools
  BY Zenon DEF WalkInv, Recorded
<1>2. Offered \in Seq(MembersIn(Body[live.selPools]))
  BY <1>1, OfferedFacts, Zenon
<1>3. PICK n \in 0..Len(Offered) :
          cands = SubSeq(Offered, n + 1, Len(Offered)) /\ kept = Passed[n]
  BY Zenon DEF WalkInv
<1>4. WalksOn(Offered, dec, Body[live.selPricing], n)
  BY <1>2, WalkSteps, Zenon
<1>5. n = Len(Offered)
  BY <1>3, <1>4, Zenon DEF WalksOn
<1> QED
  BY <1>3, <1>5, Zenon

\* The filter goes through the candidates of one pool.
LEMMA WalkNext ==
    ASSUME LiveInv, WalkInv, RequestStep, Still, live' = live
    PROVE  WalkInv'
<1> DEFINE InPool == PoolName \in DOMAIN Body[live.selPools].pools
           At(n) == cands = SubSeq(Offered, n + 1, Len(Offered)) /\ kept = Passed[n]
<1>1. /\ pc \in {"filter"} \union Recorded => InPool
      /\ pc \in {"filter", "filter again"} => \E n \in 0..Len(Offered) : At(n)
      /\ pc = "key" => kept = Passed[Len(Offered)]
  BY Zenon DEF WalkInv
<1>2. dec' = dec =>
         Offered' = Offered /\ Passed' = Passed /\ PoolName' = PoolName /\ InPool' = InPool
  BY Zenon DEF Offered, Passed, PoolName, LivePool
<1>3. CASE EvaluatePolicy \/ RequireCapabilities \/ NoCandidate
  <2>1. pc' \in {"require", "lookup", "done"}
    BY <1>3, Zenon DEF EvaluatePolicy, RequireCapabilities, NoCandidate, End
  <2>2. pc' \notin {"filter"} \union Recorded /\ pc' \notin {"filter", "filter again"} /\ pc' # "key"
    BY <2>1, Zenon DEF Recorded, Calling
  <2> QED
    BY <2>2, Zenon DEF WalkInv
<1>4. CASE LookupPool
  <2>1. CASE InPool
    <3>1. cands' = Offered /\ kept' = <<>> /\ dec' = dec /\ pc' \in {"filter", "filter again"}
      BY <1>4, <2>1, Zenon DEF LookupPool, Offered, LivePool
    <3>2. Offered \in Seq(MembersIn(Body[live.selPools]))
      BY <2>1, OfferedFacts, Zenon
    <3>3. Offered = SubSeq(Offered, 1, Len(Offered)) /\ Passed[0] = <<>>
      <4> DEFINE S == MembersIn(Body[live.selPools])
                 pricing == Body[live.selPricing]
      <4>1. Offered \in Seq(S)
        BY <3>2, Zenon
      <4> HIDE DEF S, pricing
      <4>2. SubSeq(Offered, 1, Len(Offered)) = Offered /\ Eligible(Offered, dec, pricing)[0] = <<>>
        BY <4>1, WalkStarts, Zenon
      <4> QED
        BY <4>2, Zenon DEF Passed, pricing
    <3>4. Len(Offered) \in Nat
      BY <3>2
    <3>5. 0 \in 0..Len(Offered) /\ 0 + 1 = 1
      BY <3>4
    <3>6. At(0)'
      BY <1>2, <3>1, <3>3, <3>5, Zenon
    <3>7. \E n \in 0..Len(Offered') : At(n)'
      BY <1>2, <3>1, <3>5, <3>6, Zenon
    <3>8. pc' # "key"
      BY <3>1, Zenon
    <3> QED
      BY <1>2, <2>1, <3>1, <3>7, <3>8, Zenon DEF WalkInv
  <2>2. CASE ~InPool
    <3>1. pc' = "done"
      BY <1>4, <2>2, Zenon DEF LookupPool, End
    <3>2. pc' \notin {"filter"} \union Recorded /\ pc' \notin {"filter", "filter again"} /\ pc' # "key"
      BY <3>1, Zenon DEF Recorded, Calling
    <3> QED
      BY <3>2, Zenon DEF WalkInv
  <2> QED
    BY <2>1, <2>2, Zenon
<1>5. CASE FilterCandidate
  <2>1. /\ pc \in {"filter", "filter again"} /\ pc' = pc /\ dec' = dec /\ cands # <<>>
        /\ kept' = IF satisfiesConstraints(Head(cands), dec, Body[live.selPricing])
                   THEN Append(kept, Head(cands)) ELSE kept
        /\ cands' = Tail(cands)
    BY <1>5, Zenon DEF FilterCandidate
  <2>2. InPool /\ pc' # "key"
    BY <1>1, <2>1, Zenon DEF Recorded
  <2>3. Offered \in Seq(MembersIn(Body[live.selPools]))
    BY <2>2, OfferedFacts, Zenon
  <2>4. PICK n \in 0..Len(Offered) : At(n)
    BY <1>1, <2>1, Zenon
  <2>5. /\ n + 1 \in 0..Len(Offered)
        /\ cands' = SubSeq(Offered, (n + 1) + 1, Len(Offered)) /\ kept' = Passed[n + 1]
    <3> DEFINE S == MembersIn(Body[live.selPools])
               pricing == Body[live.selPricing]
               all == Offered
    <3>1. /\ all \in Seq(S) /\ cands = SubSeq(all, n + 1, Len(all))
          /\ kept = Eligible(all, dec, pricing)[n] /\ n \in 0..Len(all)
      BY <2>3, <2>4, Zenon DEF Passed
    <3>2. kept' = Keep(kept, Head(cands), dec, pricing) /\ cands' = Tail(cands) /\ cands # <<>>
      BY <2>1, Zenon DEF Keep
    <3> HIDE DEF S, pricing, all
    <3>3. /\ n + 1 \in 0..Len(all)
          /\ Tail(SubSeq(all, n + 1, Len(all))) = SubSeq(all, (n + 1) + 1, Len(all))
          /\ Keep(Eligible(all, dec, pricing)[n], Head(SubSeq(all, n + 1, Len(all))), dec, pricing)
               = Eligible(all, dec, pricing)[n + 1]
      <4>1. SubSeq(all, n + 1, Len(all)) # <<>>
        BY <3>1, <3>2, Zenon
      <4>2. all \in Seq(S) /\ n \in 0..Len(all)
        BY <3>1, Zenon
      <4>3. WalksOn(all, dec, pricing, n)
        BY <4>2, WalkSteps, Zenon
      <4> QED
        BY <4>1, <4>3, Zenon DEF WalksOn
    <3>4. /\ n + 1 \in 0..Len(all) /\ cands' = SubSeq(all, (n + 1) + 1, Len(all))
          /\ kept' = Eligible(all, dec, pricing)[n + 1]
      BY <3>1, <3>2, <3>3, Zenon
    <3> QED
      BY <3>4, Zenon DEF Passed, pricing, all
  <2>6. \E k \in 0..Len(Offered') : At(k)'
    BY <1>2, <2>1, <2>5, Zenon
  <2> QED
    BY <1>2, <2>1, <2>2, <2>6, Zenon DEF WalkInv
<1>6. CASE BuildChain
  <2>1. pc = "filter" /\ pc' = "key" /\ dec' = dec /\ cands = <<>> /\ kept' = kept
    BY <1>6, Zenon DEF BuildChain
  <2>2. InPool /\ pc' \notin {"filter", "filter again"}
    BY <1>1, <2>1, Zenon
  <2>3. kept = Passed[Len(Offered)]
    BY <2>1, FilteredAll, Zenon
  <2> QED
    BY <1>2, <2>1, <2>2, <2>3, Zenon DEF WalkInv
<1>7. CASE \/ ResolvedKey \/ BuildChainAgain \/ CannotConvert \/ Convert \/ Answer
           \/ \E usage \in Usages, complete \in BOOLEAN : Account(usage, complete)
  <2>1. dec' = dec /\ pc \in {"key", "filter again"} \union Calling
    BY <1>7, Zenon
       DEF ResolvedKey, BuildChainAgain, CannotConvert, Convert, Answer, Account, Calling
  <2>2. pc' \in {"lookup again", "convert", "call", "stream", "done"}
    BY <1>7, Zenon
       DEF ResolvedKey, BuildChainAgain, CannotConvert, Convert, Answer, Account, End
  <2>3. pc' \notin {"filter", "filter again"} /\ pc' # "key" /\ pc \in Recorded
    BY <2>1, <2>2, Zenon DEF Recorded
  <2> QED
    BY <1>1, <1>2, <2>1, <2>3, Zenon DEF WalkInv
<1>8. ~(\E id \in DOMAIN Requests, sender \in Who, draw \in Draws : Arrive(id, sender, draw))
  BY Zenon DEF Still, Arrive
<1> QED
  BY <1>3, <1>4, <1>5, <1>6, <1>7, <1>8, Zenon DEF RequestStep

\* The head of the first chain is registered in the configuration of the pipeline.
LEMMA ChainHeadRegistered ==
    ASSUME LiveInv, StageInv, WalkInv, Still, SamePools, pc \in Recorded,
           chain = Chain(Passed[Len(Offered)], words), Passed[Len(Offered)] # <<>>
    PROVE  chain[1].endpoint \in DOMAIN Body[live.config.files["pools"]].endpoints
<1> DEFINE S == MembersIn(Body[live.selPools])
           pricing == Body[live.selPricing]
           last == Passed[Len(Offered)]
<1>2. live.config.files["pools"] = live.selPools
  BY Zenon DEF SamePools
<1>3. PoolName \in DOMAIN Body[live.selPools].pools
  BY Zenon DEF WalkInv
<1>4. Offered \in Seq(S)
  BY <1>3, OfferedFacts, Zenon
<1>5. \A m \in S : m.weight \in Nat \ {0} /\ m.endpoint \in DOMAIN Body[live.selPools].endpoints
  BY LiveMembers, Zenon
<1>6. words \in Seq(Nat) /\ words # <<>>
  <2>1. words \in Draws
    BY Zenon DEF StageInv, Still
  <2> QED
    BY <2>1, DrawsAssumption, Zenon
<1>7. last \in Seq(S)
  <2> HIDE DEF S
  <2>1. Len(Offered) \in 0..Len(Offered)
    BY <1>4
  <2> QED
    BY <1>4, <2>1, EligibleFacts, Zenon DEF Passed
<1>8. chain[1] \in S
  <2> HIDE DEF S, last
  <2>1. last # <<>> /\ chain = Chain(last, words)
    BY Zenon DEF last
  <2> QED
    BY <1>5, <1>6, <1>7, <2>1, ChainHead, Zenon
<1> QED
  BY <1>2, <1>5, <1>8, Zenon

\* Both chains have the same head, whose key is taken.
LEMMA HeadNext ==
    ASSUME LiveInv, StageInv, WalkInv, HeadInv, RequestStep,
           Still, live' = live, words' = words
    PROVE  HeadInv'
<1> DEFINE last == Passed[Len(Offered)]
           keys == live.config.keys
<1>1. /\ pc \in Recorded => chain = Chain(last, words) /\ last # <<>>
      /\ SamePools /\ pc \in Recorded \ {"key"} => key = keys[chain[1].endpoint]
      /\ HasCalled => called = chain[1] /\ (SamePools => key = keys[called.endpoint])
  BY Zenon DEF HeadInv
<1>2. dec' = dec => last' = last
  BY Zenon DEF Offered, Passed, PoolName, LivePool
<1>3. keys' = keys /\ SamePools' = SamePools
  BY Zenon DEF SamePools
<1> HIDE DEF last, keys
<1>4. SUFFICES /\ pc' \in Recorded => chain' = Chain(last', words) /\ last' # <<>>
               /\ SamePools /\ pc' \in Recorded \ {"key"} => key' = keys[chain'[1].endpoint]
               /\ HasCalled' => called' = chain'[1] /\ (SamePools => key' = keys[called'.endpoint])
  BY <1>3, Zenon DEF HeadInv, last, keys
<1>5. CASE EvaluatePolicy \/ RequireCapabilities \/ NoCandidate
  <2>1. pc' \in {"require", "lookup", "done"} /\ called' = called
    BY <1>5, Zenon DEF EvaluatePolicy, RequireCapabilities, NoCandidate, End
  <2>2. called = Absent
    <3>1. pc \in {"decide", "require", "filter", "filter again"}
      BY <1>5, Zenon DEF EvaluatePolicy, RequireCapabilities, NoCandidate
    <3> QED
      BY <3>1, Zenon DEF StageInv, Calling
  <2>3. pc' \notin Recorded /\ pc' \notin Calling
    BY <2>1, Zenon DEF Recorded, Calling
  <2>4. ~HasCalled'
    BY <2>1, <2>2, <2>3, Zenon DEF HasCalled
  <2> QED
    BY <2>3, <2>4, Zenon
<1>6. CASE LookupPool
  <2>1. /\ pc \in {"lookup", "lookup again"} /\ dec' = dec /\ chain' = chain /\ key' = key
        /\ called' = called
        /\ pc' \in {"filter", "done"} \/ (pc = "lookup again" /\ pc' = "filter again")
    BY <1>6, Zenon DEF LookupPool, End
  <2>2. called = Absent
    BY <2>1, Zenon DEF StageInv, Calling
  <2>3. /\ pc' \notin Calling /\ (pc' \in Recorded => pc \in Recorded)
        /\ (pc' \in Recorded \ {"key"} => pc \in Recorded \ {"key"})
    BY <2>1, Zenon DEF Recorded, Calling
  <2>4. ~HasCalled'
    BY <2>1, <2>2, <2>3, Zenon DEF HasCalled
  <2> QED
    BY <1>1, <1>2, <2>1, <2>3, <2>4, Zenon
<1>7. CASE FilterCandidate
  <2>1. /\ pc' = pc /\ dec' = dec /\ chain' = chain /\ key' = key /\ called' = called
    BY <1>7, Zenon DEF FilterCandidate
  <2>2. HasCalled' = HasCalled
    BY <2>1, Zenon DEF HasCalled
  <2> QED
    BY <1>1, <1>2, <2>1, <2>2, Zenon
<1>8. CASE BuildChain
  <2>1. /\ pc = "filter" /\ cands = <<>> /\ kept # <<>> /\ pc' = "key" /\ dec' = dec
        /\ chain' = Chain(kept, words) /\ called' = called
    BY <1>8, Zenon DEF BuildChain
  <2>2. kept = last
    BY <2>1, FilteredAll, Zenon DEF last
  <2>3. called = Absent
    BY <2>1, Zenon DEF StageInv, Calling
  <2>4. ~HasCalled' /\ pc' \notin Recorded \ {"key"}
    BY <2>1, <2>3, Zenon DEF HasCalled, Calling
  <2> QED
    BY <1>2, <2>1, <2>2, <2>4, Zenon
<1>9. CASE ResolvedKey
  <2> DEFINE e == chain[1].endpoint
             ends == DOMAIN Body[live.config.files["pools"]].endpoints
  <2>1. /\ pc = "key" /\ pc' = "lookup again" /\ dec' = dec /\ chain' = chain
        /\ key' = (IF e \in ends THEN keys[e] ELSE "") /\ called' = called
    BY <1>9, Zenon DEF ResolvedKey, keys
  <2>2. pc \in Recorded
    BY <2>1, Zenon DEF Recorded
  <2>3. called = Absent
    BY <2>1, Zenon DEF StageInv, Calling
  <2>4. ~HasCalled'
    BY <2>1, <2>3, Zenon DEF HasCalled, Calling
  <2>5. SamePools => e \in ends
    BY <1>1, <2>2, ChainHeadRegistered, Zenon DEF last
  <2> QED
    BY <1>1, <1>2, <2>1, <2>2, <2>4, <2>5, Zenon
<1>10. CASE BuildChainAgain
  <2>1. /\ pc = "filter again" /\ cands = <<>> /\ pc' = "convert" /\ dec' = dec
        /\ chain' = chain /\ key' = key /\ called' = Chain(kept, words)[1]
    BY <1>10, Zenon DEF BuildChainAgain
  <2>2. kept = last
    BY <2>1, FilteredAll, Zenon DEF last
  <2>3. pc \in Recorded /\ pc \in Recorded \ {"key"}
    BY <2>1, Zenon DEF Recorded
  <2> QED
    BY <1>1, <1>2, <2>1, <2>2, <2>3, Zenon
<1>11. CASE \/ CannotConvert \/ Convert \/ Answer
            \/ \E usage \in Usages, complete \in BOOLEAN : Account(usage, complete)
  <2>1. /\ dec' = dec /\ chain' = chain /\ key' = key /\ called' = called
        /\ pc \in {"convert", "call", "stream"}
    BY <1>11, Zenon DEF CannotConvert, Convert, Answer, Account
  <2>2. pc \in Recorded /\ pc \in Recorded \ {"key"} /\ HasCalled
    BY <2>1, Zenon DEF Recorded, Calling, HasCalled
  <2> QED
    BY <1>1, <1>2, <2>1, <2>2, Zenon
<1>12. ~(\E id \in DOMAIN Requests, sender \in Who, draw \in Draws : Arrive(id, sender, draw))
  BY Zenon DEF Still, Arrive
<1> QED
  BY <1>5, <1>6, <1>7, <1>8, <1>9, <1>10, <1>11, <1>12, Zenon DEF RequestStep

-----------------------------------------------------------------------------
(* What is sent *)

\* What Convert records and sends.
LEMMA Converted ==
    ASSUME StageInv, Convert
    PROVE  degraded' \subseteq Degradable /\ DegradedAsDetected'
<1> DEFINE body == Requests[request]
           ir == AnthropicToIR(body)
           stripped == StripAnthropicFeatures(ir)
           detected == DetectCapabilities(body) \intersect Degradable
           lost == IF HasMark(body) THEN detected ELSE detected \ {"cache_control"}
           thinks == "extended_thinking" \in detected
<1>1. /\ called' = called /\ request' = request
      /\ degraded' = (IF called.wire = "anthropic" THEN [req |-> ir, degraded |-> {}]
                      ELSE stripped).degraded
      /\ called.wire \in {"anthropic", "anthropic_compat"} =>
            posted' = IRToAnthropic((IF called.wire = "anthropic" THEN [req |-> ir, degraded |-> {}]
                                     ELSE stripped).req, called.model)
  BY Zenon DEF Convert
<1>2. /\ called.wire = "anthropic" => degraded' = {}
      /\ called.wire # "anthropic" => degraded' = lost
  <2>1. called.wire = "anthropic" => degraded' = {}
    BY <1>1, Zenon
  <2>2. called.wire # "anthropic" => degraded' = stripped.degraded
    BY <1>1, Zenon
  <2> QED
    BY <2>1, <2>2, StripAgreesWithDetection, Zenon
<1>3. degraded' \subseteq Degradable
  <2>1. lost \subseteq Degradable
    BY Zenon
  <2> HIDE DEF lost
  <2> QED
    BY <1>2, <2>1, Zenon
<1>4. /\ HasMark(IRToAnthropic(ir, called.model)) <=> HasMark(body)
      /\ IRToAnthropic(ir, called.model).thinking = "enabled" <=>
            "extended_thinking" \in DetectCapabilities(body)
      /\ ~HasMark(IRToAnthropic(stripped.req, called.model))
      /\ IRToAnthropic(stripped.req, called.model).thinking # "enabled"
  BY FeaturesAreSentOrTaken, Zenon
<1>5. /\ thinks <=> "extended_thinking" \in DetectCapabilities(body)
      /\ HasMark(body) => "cache_control" \in lost
      /\ thinks => "extended_thinking" \in lost
  <2>1. HasMark(body) => "cache_control" \in DetectCapabilities(body)
    BY Zenon DEF HasMark, Marked, DetectCapabilities, hasCacheControlInArray
  <2> QED
    BY <2>1, Zenon DEF Degradable
<1> HIDE DEF ir, stripped, detected, lost
<1>6. ASSUME called.wire \in {"anthropic", "anthropic_compat"}
      PROVE  /\ HasMark(posted') <=> HasMark(body) /\ "cache_control" \notin degraded'
             /\ posted'.thinking = "enabled" <=> thinks /\ "extended_thinking" \notin degraded'
  <2>1. CASE called.wire = "anthropic"
    <3>1. posted' = IRToAnthropic(ir, called.model) /\ degraded' = {}
      BY <1>1, <1>2, <1>6, <2>1, Zenon
    <3> HIDE DEF thinks
    <3> QED
      BY <1>4, <1>5, <3>1, Zenon
  <2>2. CASE called.wire # "anthropic"
    <3>1. posted' = IRToAnthropic(stripped.req, called.model) /\ degraded' = lost
      BY <1>1, <1>2, <1>6, <2>2, Zenon
    <3> HIDE DEF thinks
    <3> QED
      BY <1>4, <1>5, <3>1, Zenon
  <2> QED
    BY <2>1, <2>2, Zenon
<1>7. DegradedAsDetected'
  BY <1>1, <1>2, <1>6, Zenon DEF DegradedAsDetected, detected, lost, thinks
<1> QED
  BY <1>3, <1>7, Zenon

-----------------------------------------------------------------------------
(* What is billed *)

\* A request that no reload touched and that requires cache_control is billed from a row
\* that has it, when selector and calculator have the same table.
LEMMA RequiredIsPriced ==
    ASSUME KeptInv, FoundInv, HeadInv, Still, pc = "stream", "cache_control" \in dec.required,
           live.costPricing = live.selPricing
    PROVE  \E i \in RowsOf(Body[live.costPricing], chain[1].vendor, chain[1].model) :
              "cache_control" \in Body[live.costPricing][i].caps
<1>2. prices = {live.selPricing}
  BY Zenon DEF FoundInv
<1>3. HasCalled
  BY Zenon DEF HasCalled, Calling
<1>4. called = chain[1]
  BY <1>3, Zenon DEF HeadInv
<1>5. called \in Supporting(dec.required, prices)
  BY <1>3, Zenon DEF KeptInv, Supported
<1>6. memberSupports(chain[1], "cache_control", Body[live.costPricing])
  BY <1>2, <1>4, <1>5, Zenon DEF Supporting
<1>7. "cache_control" # "streaming"
  OBVIOUS
<1> QED
  BY <1>6, <1>7, Zenon DEF memberSupports, RowsOf

\* Account records an event that adds up.
LEMMA Billed ==
    ASSUME LiveInv, KeptInv, FoundInv, HeadInv,
           NEW usage \in Usages, NEW complete \in BOOLEAN, Account(usage, complete)
    PROVE  CacheIsPriced'
<1> DEFINE table == Body[live.costPricing]
           vendor == chain[1].vendor
           model == chain[1].model
           event == Calculate(table, vendor, model, usage)
           source == IF complete THEN event.source ELSE "estimated"
           z == WithSource(event, source)
           sum == event.parts[1] + event.parts[2] + event.parts[3] + event.parts[4]
<1>1. /\ pc = "stream" /\ moved' = moved /\ dec' = dec /\ live' = live
      /\ outcome' = (IF complete THEN "served" ELSE "cut")
      /\ billed' = z
  BY Zenon DEF Account, End, WithSource, reloadVars
<1>2. usage \in TokenCounts
  BY UsagesAssumption, Zenon DEF TokenCounts
<1>3. /\ sum <= event.total /\ event.total < sum + 4
      /\ (\E i \in RowsOf(table, vendor, model) : "cache_control" \in table[i].caps) =>
            event.source = "provider_usage"
  <2> HIDE DEF vendor, model
  <2> QED
    BY <1>2, BillingTable, CostIsSound, Zenon
<1>4. z.parts = event.parts /\ z.total = event.total /\ z.source = source
  <2>1. OnlySource(z, event, source)
    <3> HIDE DEF table, vendor, model, source
    <3> QED
      BY EventFields, Zenon
  <2> QED
    BY <2>1, Zenon DEF OnlySource
<1> HIDE DEF event, z
<1>5. ASSUME outcome' = "served", ~moved', "cache_control" \in dec'.required,
             live'.costPricing = live'.selPricing
      PROVE  billed'.source = "provider_usage"
  <2>1. complete
    BY <1>1, <1>5, Zenon
  <2>2. Still /\ "cache_control" \in dec.required /\ live.costPricing = live.selPricing
    BY <1>1, <1>5, Zenon DEF Still
  <2>3. event.source = "provider_usage"
    BY <1>1, <1>3, <2>2, RequiredIsPriced, Zenon
  <2> QED
    BY <1>1, <1>4, <2>1, <2>3, Zenon
<1>6. LET s == billed'.parts[1] + billed'.parts[2] + billed'.parts[3] + billed'.parts[4]
      IN  s <= billed'.total /\ billed'.total < s + 4
  BY <1>1, <1>3, <1>4, Zenon
<1> QED
  BY <1>5, <1>6, Zenon DEF CacheIsPriced

-----------------------------------------------------------------------------
(* What is recorded *)

\* A reload does not change what is recorded.
LEMMA RecordReload ==
    ASSUME LiveInv, RecordInv, ReloadStep, moved \in BOOLEAN
    PROVE  RecordInv'
<1>1. UNCHANGED <<pc, requestVars>> /\ (~moved' => ~moved /\ live' = live)
  BY ReloadStepFacts, Zenon
<1>2. /\ request' = request /\ dec' = dec /\ key' = key /\ called' = called /\ posted' = posted
      /\ degraded' = degraded /\ billed' = billed /\ outcome' = outcome
  BY <1>1, Zenon DEF requestVars
<1>3. DegradedAsDetected'
  BY <1>2, Zenon DEF RecordInv, DegradedAsDetected
<1>5. CacheIsPriced'
  BY <1>1, <1>2, Zenon DEF RecordInv, CacheIsPriced
<1> QED
  BY <1>2, <1>3, <1>5, Zenon DEF RecordInv

\* The key is taken from the configuration of the pipeline.
LEMMA KeyFacts ==
    ASSUME LiveInv, ResolvedKey
    PROVE  key' \in KeyValues \union {""}
<1>1. live.config \in Configs
  BY LiveParts, Zenon
<1> DEFINE cfg == live.config
           e == chain[1].endpoint
           known == DOMAIN Body[cfg.files["pools"]].endpoints
<1>2. key' = IF e \in known THEN cfg.keys[e] ELSE ""
  BY Zenon DEF ResolvedKey
<1>3. e \in known => cfg.keys[e] \in KeyValues
  <2>1. {cfg.keys[x] : x \in known} \subseteq KeyValues
    BY <1>1, Zenon DEF KeyValues
  <2> HIDE DEF e, known, cfg
  <2>2. e \in known => cfg.keys[e] \in {cfg.keys[x] : x \in known}
    BY Zenon
  <2> QED
    BY <2>1, <2>2, Zenon
<1> QED
  BY <1>2, <1>3, Zenon

\* A step of the request records what it should.
LEMMA RecordNext ==
    ASSUME LiveInv, StageInv, KeptInv, FoundInv, HeadInv, RecordInv, RequestStep
    PROVE  RecordInv'
<1> DEFINE Outcomes == {"none", "served", "cut", "provider error", "pool not found",
                        "no candidate", "no adapter", "bad request"}
           Others == \/ \E id \in DOMAIN Requests, sender \in Who, draw \in Draws : Arrive(id, sender, draw)
                     \/ EvaluatePolicy \/ RequireCapabilities \/ LookupPool \/ FilterCandidate
                     \/ NoCandidate \/ BuildChain \/ ResolvedKey \/ BuildChainAgain \/ CannotConvert
<1>1. outcome \in Outcomes /\ degraded \subseteq Degradable /\ key \in KeyValues \union {""}
  BY Zenon DEF RecordInv
<1>2. CASE Others
  <2>1. /\ posted' = posted /\ degraded' = degraded /\ billed' = billed
        /\ pc \notin {"call", "stream", "done"}
    BY <1>2, Zenon DEF Arrive, EvaluatePolicy, RequireCapabilities, LookupPool, FilterCandidate,
       NoCandidate, BuildChain, ResolvedKey, BuildChainAgain, CannotConvert
  <2>2. posted = Absent /\ billed = Absent
    BY <2>1, Zenon DEF StageInv
  <2>3. key' = key \/ ResolvedKey
    BY <1>2, Zenon DEF Arrive, EvaluatePolicy, RequireCapabilities, LookupPool, FilterCandidate,
       NoCandidate, BuildChain, BuildChainAgain, CannotConvert
  <2>4. outcome' \in {outcome, "pool not found", "no candidate", "no adapter", "bad request"}
    BY <1>2, Zenon DEF Arrive, EvaluatePolicy, RequireCapabilities, LookupPool, FilterCandidate,
       NoCandidate, BuildChain, ResolvedKey, BuildChainAgain, CannotConvert, End
  <2>5. DegradedAsDetected' /\ CacheIsPriced'
    BY <2>1, <2>2, Zenon DEF DegradedAsDetected, CacheIsPriced
  <2>6. key' \in KeyValues \union {""}
    BY <1>1, <2>3, KeyFacts, Zenon
  <2>7. outcome' \in Outcomes
    BY <1>1, <2>4, Zenon
  <2> QED
    BY <1>1, <2>1, <2>5, <2>6, <2>7, Zenon DEF RecordInv
<1>3. CASE Convert
  <2>1. key' = key /\ billed' = billed /\ outcome' = outcome /\ pc = "convert"
    BY <1>3, Zenon DEF Convert
  <2>2. billed' = Absent
    BY <2>1, Zenon DEF StageInv
  <2>3. CacheIsPriced'
    BY <2>2, Zenon DEF CacheIsPriced
  <2> QED
    BY <1>1, <1>3, <2>1, <2>3, Converted, Zenon DEF RecordInv
<1>4. CASE Answer \/ \E usage \in Usages, complete \in BOOLEAN : Account(usage, complete)
  <2>1. /\ request' = request /\ key' = key /\ called' = called /\ posted' = posted
        /\ degraded' = degraded
        /\ outcome' \in {outcome, "served", "cut", "provider error"}
    BY <1>4, Zenon DEF Answer, Account, End
  <2>2. DegradedAsDetected'
    BY <2>1, Zenon DEF RecordInv, DegradedAsDetected
  <2>4. CacheIsPriced'
    <3>1. CASE Answer
      <4>1. billed' = Absent
        BY <3>1, Zenon DEF Answer, StageInv
      <4> QED
        BY <4>1, Zenon DEF CacheIsPriced
    <3>2. CASE \E usage \in Usages, complete \in BOOLEAN : Account(usage, complete)
      BY <3>2, Billed, Zenon
    <3> QED
      BY <1>4, <3>1, <3>2, Zenon
  <2>5. outcome' \in Outcomes
    BY <1>1, <2>1, Zenon
  <2> QED
    BY <1>1, <2>1, <2>2, <2>4, <2>5, Zenon DEF RecordInv
<1> QED
  BY <1>2, <1>3, <1>4, Zenon DEF RequestStep

-----------------------------------------------------------------------------
(* The invariant is inductive *)

\* No request yet, and the configuration main checked.
LEMMA InitEstablishes == Init => RequestInv
<1> SUFFICES ASSUME Init PROVE RequestInv
  OBVIOUS
<1>1. LiveInv /\ ValidatePoolAdapters(Body[live.selPools], Adapters)
  BY LiveInit, Zenon
<1>2. /\ pc = "idle" /\ request = Absent /\ dec = NoDecision /\ cands = <<>> /\ kept = <<>>
      /\ key = "" /\ called = Absent /\ posted = Absent /\ degraded = {} /\ billed = Absent
      /\ outcome = "none" /\ moved = FALSE /\ prices = {}
  BY Zenon DEF Init, NoRequest
<1>3. StageInv
  BY <1>2, Zenon DEF StageInv, Calling
<1>4. pc \notin Recorded /\ pc # "key" /\ ~HasCalled /\ ~Still
  BY <1>2, Zenon DEF Recorded, Calling, HasCalled, Still
<1>5. KeptInv
  BY <1>2, <1>4, EmptyList, Zenon DEF KeptInv
<1>6. ChainInv
  BY <1>4, Zenon DEF ChainInv
<1>7. AdapterInv
  <2>1. outcome # "no adapter"
    BY <1>2, Zenon
  <2> QED
    BY <1>1, <1>2, <1>4, <2>1, EmptyList, Zenon DEF AdapterInv
<1>8. FoundInv /\ WalkInv /\ HeadInv
  BY <1>4, Zenon DEF FoundInv, WalkInv, HeadInv
<1>9. RecordInv
  <2>1. DegradedAsDetected /\ CacheIsPriced
    BY <1>2, Zenon DEF DegradedAsDetected, CacheIsPriced
  <2> QED
    BY <1>2, <2>1, Zenon DEF RecordInv
<1> QED
  BY <1>1, <1>2, <1>3, <1>5, <1>6, <1>7, <1>8, <1>9, Zenon DEF RequestInv

\* The holders publish.
LEMMA ReloadPreserves ==
    ASSUME RequestInv, ReloadStep
    PROVE  RequestInv'
<1>1. /\ LiveInv /\ moved \in BOOLEAN /\ StageInv /\ KeptInv /\ ChainInv /\ AdapterInv
      /\ FoundInv /\ WalkInv /\ HeadInv /\ RecordInv
  BY Zenon DEF RequestInv
<1>2. UNCHANGED <<pc, requestVars>> /\ LiveInv' /\ moved' \in BOOLEAN /\ reloads' # 0
  BY <1>1, ReloadStepFacts, Zenon
<1>3. StageInv'
  <2>1. /\ pc' = pc /\ request' = request /\ words' = words /\ dec' = dec /\ kept' = kept
        /\ called' = called /\ posted' = posted /\ degraded' = degraded /\ billed' = billed
        /\ outcome' = outcome
    BY <1>2, Zenon DEF requestVars
  <2> QED
    BY <1>1, <2>1, Zenon DEF StageInv
<1>4. KeptInv' /\ ChainInv' /\ RecordInv'
  BY <1>1, KeptReload, ChainReload, RecordReload, Zenon
<1>5. AdapterInv'
  BY <1>2, Zenon DEF AdapterInv
<1>6. FoundInv' /\ WalkInv' /\ HeadInv'
  BY <1>1, StillReload, Zenon
<1> QED
  BY <1>2, <1>3, <1>4, <1>5, <1>6, Zenon DEF RequestInv

\* The request goes on.
LEMMA RequestPreserves ==
    ASSUME RequestInv, RequestStep
    PROVE  RequestInv'
<1>1. /\ LiveInv /\ moved \in BOOLEAN /\ StageInv /\ KeptInv /\ ChainInv /\ AdapterInv
      /\ FoundInv /\ WalkInv /\ HeadInv /\ RecordInv
  BY Zenon DEF RequestInv
<1>2. UNCHANGED reloadVars /\ moved' \in {moved, FALSE}
  BY Zenon DEF RequestStep, Arrive, EvaluatePolicy, RequireCapabilities, LookupPool,
     FilterCandidate, NoCandidate, BuildChain, ResolvedKey, BuildChainAgain, CannotConvert,
     Convert, Answer, Account, reloadVars
<1>3. LiveInv' /\ moved' \in BOOLEAN
  BY <1>1, <1>2, LiveKept, Zenon
<1>4. StageInv' /\ KeptInv' /\ ChainInv' /\ AdapterInv' /\ RecordInv'
  BY <1>1, StageNext, KeptNext, ChainNext, AdapterNext, RecordNext, Zenon
<1>5. FoundInv' /\ WalkInv' /\ HeadInv'
  <2>1. CASE ~Still'
    BY <2>1, Zenon DEF FoundInv, WalkInv, HeadInv
  <2>2. CASE Still' /\ \E id \in DOMAIN Requests, sender \in Who, draw \in Draws : Arrive(id, sender, draw)
    BY <1>1, <2>2, ArriveStill, Zenon
  <2>3. CASE Still' /\ ~\E id \in DOMAIN Requests, sender \in Who, draw \in Draws : Arrive(id, sender, draw)
    <3>1. Still /\ live' = live /\ prices' = prices /\ request' = request /\ words' = words
      BY <2>3, StillStep, Zenon
    <3> QED
      BY <1>1, <3>1, FoundNext, WalkNext, HeadNext, Zenon
  <2> QED
    BY <2>1, <2>2, <2>3, Zenon
<1> QED
  BY <1>3, <1>4, <1>5, Zenon DEF RequestInv

\* Every step keeps the invariant.
LEMMA NextPreserves == RequestInv /\ [Next]_vars => RequestInv'
<1> SUFFICES ASSUME RequestInv, [Next]_vars PROVE RequestInv'
  OBVIOUS
<1>1. CASE Next
  BY <1>1, StepIs, ReloadPreserves, RequestPreserves, Zenon
<1>2. CASE UNCHANGED vars
  <2>1. /\ live' = live /\ pubs' = pubs /\ reloads' = reloads
        /\ pc' = pc /\ request' = request /\ who' = who /\ words' = words /\ dec' = dec
        /\ cands' = cands /\ kept' = kept /\ chain' = chain /\ key' = key /\ called' = called
        /\ posted' = posted /\ degraded' = degraded /\ billed' = billed /\ outcome' = outcome
        /\ moved' = moved /\ prices' = prices
    BY <1>2, Zenon DEF vars, reloadVars, requestVars
  <2>2. /\ LiveInv /\ moved \in BOOLEAN /\ StageInv /\ KeptInv /\ ChainInv /\ AdapterInv
        /\ FoundInv /\ WalkInv /\ HeadInv /\ RecordInv
    BY Zenon DEF RequestInv
  <2>3. LiveInv'
    BY <2>1, <2>2, LiveKept, Zenon DEF reloadVars
  <2>4. StageInv' /\ ChainInv'
    BY <2>1, <2>2, Zenon DEF StageInv, ChainInv
  <2>5. HasCalled' = HasCalled /\ Supported' = Supported /\ Still' = Still
    BY <2>1, Zenon DEF HasCalled, Supported, Still
  <2>6. KeptInv' /\ AdapterInv'
    BY <2>1, <2>2, <2>5, Zenon DEF KeptInv, AdapterInv
  <2>7. /\ Offered' = Offered /\ Passed' = Passed /\ HardCapabilities' = HardCapabilities
        /\ PoolName' = PoolName /\ SamePools' = SamePools
    BY <2>1, Zenon DEF Offered, Passed, HardCapabilities, PoolName, LivePool, SamePools
  <2>8. PolicyFitsPools' => PolicyFitsPools
    BY <2>1, Zenon DEF PolicyFitsPools
  <2>9. FoundInv'
    BY <2>1, <2>2, <2>5, <2>7, <2>8, Zenon DEF FoundInv
  <2>10. WalkInv' /\ HeadInv'
    BY <2>1, <2>2, <2>5, <2>7, Zenon DEF WalkInv, HeadInv
  <2>11. DegradedAsDetected' /\ CacheIsPriced'
    BY <2>1, <2>2, Zenon DEF RecordInv, DegradedAsDetected, CacheIsPriced
  <2>12. RecordInv'
    BY <2>1, <2>2, <2>11, Zenon DEF RecordInv
  <2> QED
    BY <2>1, <2>2, <2>3, <2>4, <2>6, <2>9, <2>10, <2>12, Zenon DEF RequestInv
<1> QED
  BY <1>1, <1>2, Zenon

\* The invariant holds throughout.
THEOREM RequestInvHolds == Spec => []RequestInv
  BY InitEstablishes, NextPreserves, PTL DEF Spec

-----------------------------------------------------------------------------
(* What it says of the request path *)

\* Types of the request's state: every holder has a known content, what a publisher still
\* has to do is a suffix of its callback, and the key is one that a configuration resolved.
THEOREM RequestTypes == Spec => []TypeOK
<1>1. RequestInv => TypeOK
  <2> SUFFICES ASSUME RequestInv PROVE TypeOK
    OBVIOUS
  <2>1. LiveInv /\ StageInv /\ KeptInv /\ RecordInv /\ moved \in BOOLEAN
    BY Zenon DEF RequestInv
  <2>2. /\ live.selPools \in DOMAIN Body /\ live.selPricing \in DOMAIN Body
        /\ live.costPricing \in DOMAIN Body /\ live.policy \in DOMAIN Body
        /\ live.registry \in DOMAIN Body
    BY <2>1, LiveParts, ContentFacts, Zenon
  <2>3. live.config \in Configs /\ reloads \in 0..MaxReloads
    BY <2>1, LiveParts, Zenon DEF LiveInv
  <2>4. ASSUME NEW p \in Publishers
        PROVE  /\ pubs[p].cfg \in Configs
               /\ \/ pubs[p].todo = <<"selPricing">>
                  \/ \E i \in 1..8 : pubs[p].todo = SubSeq(HolderOrder, i, 7)
    <3>1. pubs[p] \in [cfg : Configs, todo : Todos]
      BY <2>1, Zenon DEF LiveInv
    <3>2. pubs[p].cfg \in Configs /\ pubs[p].todo \in Todos
      BY <3>1, Zenon
    <3> QED
      BY <3>2, Zenon DEF Todos
  <2>5. pc \in {"idle", "decide", "require", "lookup", "filter", "key", "lookup again",
                "filter again", "convert", "call", "stream", "done"}
    BY <2>1, Zenon DEF StageInv, Calling
  <2>6. request \in DOMAIN Requests \union {Absent}
    BY <2>1, Zenon DEF StageInv
  <2>7. /\ dec.action \in {"", "route", "allow"}
        /\ dec.required \subseteq {"cache_control", "extended_thinking", "vision"}
    <3>1. CASE dec = NoDecision
      <4>1. dec.action = "" /\ dec.required = {}
        BY <3>1, Zenon DEF NoDecision
      <4> QED
        BY <4>1, Zenon
    <3>2. CASE dec \in AnyDecision
      <4> DEFINE A == {"route", "allow"}
                 P == OrNone(AllPools)
                 T == {""}
                 G == {{}}
      <4>1. dec \in [action : A, pool : P, tier : T, regions : G, required : SUBSET Capabilities]
        BY <3>2, Zenon DEF AnyDecision
      <4> HIDE DEF A, P, T, G
      <4>2. dec.action \in A /\ dec.required \in SUBSET Capabilities
        BY <4>1, Zenon
      <4> QED
        BY <4>2, Zenon DEF A, Capabilities
    <3> QED
      BY <2>1, <3>1, <3>2, Zenon DEF StageInv
  <2>8. prices \subseteq DOMAIN Body
    BY <2>1, ContentFacts, Zenon DEF KeptInv
  <2>9. \A h \in {"selPools", "selPricing", "costPricing", "policy", "registry"} :
           live[h] \in DOMAIN Body
    BY <2>2, Zenon
  <2> QED
    BY <2>1, <2>3, <2>4, <2>5, <2>6, <2>7, <2>8, <2>9, Zenon DEF TypeOK, RecordInv
<1> QED
  BY <1>1, RequestInvHolds, PTL

\* The chain of Pipeline.Run offers every eligible endpoint of the pool exactly once,
\* whatever the weights and the draws (selector.go:149).
THEOREM ChainComplete == Spec => []ChainIsComplete
<1>1. RequestInv => ChainIsComplete
  <2> SUFFICES ASSUME RequestInv, pc = "key"
               PROVE  /\ EndpointsIn(chain) = EndpointsIn(kept)
                      /\ \A i, j \in DOMAIN chain : chain[i].endpoint = chain[j].endpoint => i = j
    BY Zenon DEF ChainIsComplete
  <2>1. EndpointsOf(chain) = EndpointsOf(kept) /\ Unique(chain) /\ chain \in Seq(AllMembers)
    BY Zenon DEF RequestInv, ChainInv, Recorded
  <2>2. kept \in Seq(Supported)
    BY Zenon DEF RequestInv, KeptInv
  <2>3. DOMAIN chain = 1..Len(chain) /\ DOMAIN kept = 1..Len(kept)
    BY <2>1, <2>2, ListDomain, Zenon
  <2> QED
    BY <2>1, <2>3, Zenon DEF EndpointsIn, EndpointsOf, Unique
<1> QED
  BY <1>1, RequestInvHolds, PTL

\* The member that is called supports what the body needs and the policy does not allow
\* to be dropped, on any mix of configurations that overlapping reloads have left
\* (selector.go:118, ingress_pipeline.go:113).
THEOREM CalledSupports == Spec => []RequirementsMet
<1>1. RequestInv => RequirementsMet
  <2> DEFINE hard == Hard(Requests[request], Body[live.config.files["policy"]].degradable)
  <2> SUFFICES ASSUME RequestInv, called # Absent
               PROVE  /\ \A cap \in dec.required : \E p \in prices : memberSupports(called, cap, Body[p])
                      /\ ~moved => \A cap \in hard : memberSupports(called, cap, Body[live.selPricing])
    BY Zenon DEF RequirementsMet
  <2>1. StageInv /\ KeptInv /\ FoundInv
    BY Zenon DEF RequestInv
  <2>2. pc \in Calling \union {"done"}
    BY <2>1, Zenon DEF StageInv
  <2>3. called \in Supporting(dec.required, prices)
    BY <2>1, Zenon DEF KeptInv, HasCalled, Supported
  <2>4. \A cap \in dec.required : \E p \in prices : memberSupports(called, cap, Body[p])
    BY <2>3, Zenon DEF Supporting
  <2>5. ASSUME ~moved, NEW cap \in hard
        PROVE  memberSupports(called, cap, Body[live.selPricing])
    <3>1. pc \notin {"idle", "decide", "require"}
      BY <2>2, Zenon DEF Calling
    <3>2. Still
      BY <2>5, <3>1, Zenon DEF Still
    <3>3. prices = {live.selPricing} /\ cap \in dec.required
      BY <2>1, <2>5, <3>1, <3>2, Zenon DEF FoundInv, HardCapabilities
    <3> QED
      BY <2>4, <3>3, Zenon
  <2> QED
    BY <2>4, <2>5, Zenon
<1> QED
  BY <1>1, RequestInvHolds, PTL

\* The two chains of a request during which no holder changes have the same head, and the
\* key sent is the one configured for it when the pipeline and the selector have the same
\* pools (ingress_pipeline.go:129, egress_pipeline.go:59).
THEOREM CallMatchesRecord == Spec => []CalledAsRecorded
<1>1. RequestInv => CalledAsRecorded
  <2> SUFFICES ASSUME RequestInv, called # Absent, ~moved
               PROVE  /\ called = chain[1]
                      /\ live.selPools = live.config.files["pools"] =>
                            key = live.config.keys[called.endpoint]
    BY Zenon DEF CalledAsRecorded
  <2>1. StageInv /\ HeadInv
    BY Zenon DEF RequestInv
  <2>2. pc # "idle"
    BY <2>1, Zenon DEF StageInv, Calling
  <2> QED
    BY <2>1, <2>2, Zenon DEF HeadInv, HasCalled, Still, SamePools
<1> QED
  BY <1>1, RequestInvHolds, PTL

\* A pool that a rule names is found unless a holder changed during the request or policy
\* and pools are of different configurations, and before the first reload so is an adapter
\* (loader.go:25, main.go:331: what was validated).
THEOREM FailuresAreExplained == Spec => []FailuresExplained
<1>1. RequestInv => FailuresExplained
  <2> SUFFICES ASSUME RequestInv PROVE FailuresExplained
    OBVIOUS
  <2>1. StageInv /\ FoundInv /\ AdapterInv /\ LiveInv
    BY Zenon DEF RequestInv
  <2>2. ASSUME outcome = "pool not found", ~moved, PolicyFitsPools PROVE dec.action = "allow"
    <3>1. pc # "idle"
      BY <2>1, <2>2, Zenon DEF StageInv
    <3> QED
      BY <2>1, <2>2, <3>1, Zenon DEF FoundInv, Still
  <2>3. ASSUME outcome = "no adapter" PROVE reloads > 0
    <3>1. reloads # 0 /\ reloads \in 0..MaxReloads
      BY <2>1, <2>3, Zenon DEF AdapterInv, LiveInv
    <3> QED
      BY <3>1, ReloadsAssumption
  <2> QED
    BY <2>2, <2>3, Zenon DEF FailuresExplained
<1> QED
  BY <1>1, RequestInvHolds, PTL

\* What is recorded as degraded is what the body had, null marks apart, and what an
\* Anthropic-shaped provider gets is what is not recorded (degraded.go,
\* capability_detect.go:92, anthropic.go:219).
THEOREM DegradationIsRecorded == Spec => []DegradedAsDetected
<1>1. RequestInv => DegradedAsDetected
  BY Zenon DEF RequestInv, RecordInv
<1> QED
  BY <1>1, RequestInvHolds, PTL

\* Every cost_event adds up, and a request that had to go to a model with cache prices is
\* billed by them when the selector and the calculator have the same table (cost.go,
\* pricing.go:49).
THEOREM CacheTokensArePriced == Spec => []CacheIsPriced
<1>1. RequestInv => CacheIsPriced
  BY Zenon DEF RequestInv, RecordInv
<1> QED
  BY <1>1, RequestInvHolds, PTL

=============================================================================
