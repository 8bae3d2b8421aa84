--------------------------- MODULE PolicyEngine ---------------------------
(***************************************************************************)
(* The policy engine: rules sorted by priority, Decide over the rules that *)
(* match, Merge of their decisions, and what a request body requires of an *)
(* endpoint.  Rules are those of a policy file (GatewayConfig); a rule     *)
(* matches the requesters in its set "when", and its CEL expression is not *)
(* modelled further.                                                       *)
(***************************************************************************)
EXTENDS Integers, Sequences

\* A Decision: PrimaryAction, ModelPool and the constraint fields.  The modifiers, side
\* effects, redactions and shadow pool of the struct are never set by a rule.
NoDecision == [action |-> "", pool |-> "", tier |-> "", regions |-> {}, required |-> {}]

AllowDecision == [NoDecision EXCEPT !.action = "allow"]
RouteDecision(pool) == [NoDecision EXCEPT !.action = "route", !.pool = pool]

ToDecisionForgetsPool(a) == IF a.action = "route" THEN RouteDecision("") ELSE AllowDecision

\* ruleToDecision and actionToDecision.
ToDecision(a) == IF a.action = "route" THEN RouteDecision(a.pool) ELSE AllowDecision

actionRank == [block |-> 5, require_approval |-> 4, route |-> 3, allow |-> 2]
rank(a) == IF a \in DOMAIN actionRank THEN actionRank[a] ELSE 1

mergePrimary(a, b) == IF rank(a) >= rank(b) THEN a ELSE b

\* Merge: the stronger action, and the later of two pools.  NoDecision is Go's nil.
Merge(a, b) ==
    IF a = NoDecision THEN b
    ELSE IF b = NoDecision THEN a
    ELSE [action   |-> mergePrimary(a.action, b.action),
          pool     |-> IF b.pool # "" THEN b.pool ELSE a.pool,
          tier     |-> IF b.tier # "" THEN b.tier ELSE a.tier,
          regions  |-> a.regions \union b.regions,
          required |-> a.required \union b.required]

\* The orders in which SetPolicy or NewEngine may leave the rules: sort.Slice by
\* descending priority is not stable.
SortedRules(rules) ==
    {[i \in DOMAIN rules |-> rules[o[i]]] :
        o \in {p \in [DOMAIN rules -> DOMAIN rules] :
                  /\ \A i, j \in DOMAIN rules : p[i] = p[j] => i = j
                  /\ \A i, j \in DOMAIN rules :
                        i < j => rules[p[i]].priority >= rules[p[j]].priority}}

\* The decision so far and the next rule.
MergeMatching(d, rule, who) == IF who \in rule.when THEN Merge(d, ToDecision(rule)) ELSE d

\* Decide for requester who, with the rules in this order.
Decide(sorted, default, who) ==
    LET merged[k \in 0..Len(sorted)] ==
            IF k = 0 THEN NoDecision ELSE MergeMatching(merged[k - 1], sorted[k], who)
        final == merged[Len(sorted)]
    IN  IF final = NoDecision THEN ToDecision(default) ELSE final

-----------------------------------------------------------------------------
(* What a body asks for: system blocks, messages and an optional thinking   *)
(* field; a block is [type, id, rest, mark, inner].                         *)

\* A cache_control field counts whatever its value is, null included.
hasCacheControlInArray(blocks) == \E i \in DOMAIN blocks : blocks[i].mark # "no"
hasVisionInArray(blocks) == \E i \in DOMAIN blocks : blocks[i].type = "image"

DetectCapabilities(body) ==
    (IF \/ hasCacheControlInArray(body.system)
        \/ \E i \in DOMAIN body.messages : hasCacheControlInArray(body.messages[i].content)
     THEN {"cache_control"} ELSE {})
    \union (IF body.thinking \notin {"absent", "null"} THEN {"extended_thinking"} ELSE {})
    \union (IF \E i \in DOMAIN body.messages : hasVisionInArray(body.messages[i].content)
            THEN {"vision"} ELSE {})

\* Detected capabilities that the policy does not let the gateway drop.
FilterDegradable(detected, allowed) == detected \ allowed

=============================================================================
