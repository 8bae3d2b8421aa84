------------------------------ MODULE Routing ------------------------------
(***************************************************************************)
(* Selection of a pool member: the candidates of a pool, the constraint    *)
(* filter, the weighted shuffle, and the replay of a recorded selection.   *)
(*                                                                         *)
(* The generator (ChaCha8, seeded from trace, pool and attempt) is         *)
(* external: it is a periodic stream of words fixed by the seed, whose     *)
(* period the sequence words gives.                                        *)
(*                                                                         *)
(* A loop over a sequence is a recursive function of the number of         *)
(* elements it has been through.                                           *)
(***************************************************************************)
EXTENDS Integers, Sequences

\* A member with what is known of its endpoint.
MemberOf(m, ep) ==
    [endpoint |-> m.endpoint, model |-> m.model, weight |-> m.weight,
     wire |-> ep.wire, vendor |-> ep.vendor, tier |-> ep.tier,
     region |-> ep.region, streaming |-> ep.streaming]

\* An unregistered endpoint is skipped.
AddCandidate(found, m, endpoints) ==
    IF m.endpoint \in DOMAIN endpoints
    THEN Append(found, MemberOf(m, endpoints[m.endpoint])) ELSE found

\* The members of a pool whose endpoint is registered.
Candidates(endpoints, members) ==
    LET found[k \in 0..Len(members)] ==
            IF k = 0 THEN <<>> ELSE AddCandidate(found[k - 1], members[k], endpoints)
    IN  found[Len(members)]

trustTierRank(tier) ==
    CASE tier = "private" -> 3
      [] tier = "partner" -> 2
      [] tier = "vendor"  -> 1
      [] OTHER            -> 0

\* Streaming is the endpoint's; the rest is in the pricing row of (vendor, model).
memberSupports(m, cap, pricing) ==
    IF cap = "streaming" THEN m.streaming
    ELSE \E i \in DOMAIN pricing :
            /\ pricing[i].vendor = m.vendor /\ pricing[i].model = m.model
            /\ cap \in pricing[i].caps

SatisfiesAnyCapability(m, dec, pricing) ==
    /\ dec.tier # "" => trustTierRank(m.tier) >= trustTierRank(dec.tier)
    /\ dec.regions # {} => m.region \in dec.regions
    /\ dec.required # {} => \E cap \in dec.required : memberSupports(m, cap, pricing)

satisfiesConstraints(m, dec, pricing) ==
    /\ dec.tier # "" => trustTierRank(m.tier) >= trustTierRank(dec.tier)
    /\ dec.regions # {} => m.region \in dec.regions
    /\ \A cap \in dec.required : memberSupports(m, cap, pricing)

-----------------------------------------------------------------------------
\* A candidate as many times as it weighs.
AddWeighted(weighted, m) == weighted \o [j \in 1..m.weight |-> m]

Weighted(candidates) ==
    LET weighted[k \in 0..Len(candidates)] ==
            IF k = 0 THEN <<>> ELSE AddWeighted(weighted[k - 1], candidates[k])
    IN  weighted[Len(candidates)]

\* IntN(n) of the k-th draw.
IntN(words, k, n) == words[((k - 1) % Len(words)) + 1] % n

SwappedOneWay(s, i, j) == [s EXCEPT ![i] = s[j]]

Swapped(s, i, j) == [s EXCEPT ![i] = s[j], ![j] = s[i]]

\* Fisher-Yates from the back: draw k swaps position Len - k + 1 with one up to it.
SwapDrawn(s, k, words) ==
    LET i == Len(s) - k + 1 IN Swapped(s, i, IntN(words, k, i) + 1)

Shuffle(s, words) ==
    LET swapped[k \in 0..(Len(s) - 1)] ==
            IF k = 0 THEN s ELSE SwapDrawn(swapped[k - 1], k, words)
    IN  IF s = <<>> THEN s ELSE swapped[Len(s) - 1]

\* The first occurrence of each endpoint.
AddUnseen(chain, m) ==
    IF \E i \in DOMAIN chain : chain[i].endpoint = m.endpoint THEN chain ELSE Append(chain, m)

Dedupe(s) ==
    LET chain[k \in 0..Len(s)] == IF k = 0 THEN <<>> ELSE AddUnseen(chain[k - 1], s[k])
    IN  chain[Len(s)]

\* BuildChain, from the candidates that passed the filter.
Chain(eligible, words) == Dedupe(Shuffle(Weighted(eligible), words))

\* Replay of a routing_event: no filter.
Replay(endpoints, members, words) == Chain(Candidates(endpoints, members), words)

\* ValidatePoolAdapters, which main calls before it serves and no reload calls again.
ValidatePoolAdapters(pools, adapters) ==
    \A name \in DOMAIN pools.pools : \A i \in DOMAIN pools.pools[name].members :
        LET e == pools.pools[name].members[i].endpoint
        IN  e \in DOMAIN pools.endpoints /\ pools.endpoints[e].wire \in adapters

=============================================================================
