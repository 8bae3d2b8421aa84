----------------------------- MODULE MCIngress -----------------------------
(***************************************************************************)
(* Ingress with two configurations that differ in pools, endpoints,        *)
(* policy, pricing and keys, the second of which brings in a wire without  *)
(* an adapter; requests with and without the features that endpoints may   *)
(* lack; a generator that can put either of two members first.             *)
(***************************************************************************)
EXTENDS Ingress, TLC

Endpoint(wire, vendor) ==
    [wire |-> wire, vendor |-> vendor, tier |-> "vendor", region |-> "us",
     streaming |-> TRUE, ref |-> ""]
Member(e, model, w) == [endpoint |-> e, model |-> model, weight |-> w]
Pool(members) == [members |-> members, timeout |-> 1, attempts |-> 1]
Price(vendor, model, cache, caps) ==
    [vendor |-> vendor, model |-> model, input |-> 3, output |-> 5, cacheRead |-> cache,
     cacheCreate |-> cache, currency |-> "USD", caps |-> caps]
Rule(priority, when, action, pool) ==
    [named |-> TRUE, compiles |-> TRUE, priority |-> priority, when |-> when,
     action |-> action, pool |-> pool]

All == {"cache_control", "extended_thinking", "vision"}

MCBody == [
    pools1 |-> [
        endpoints |-> [a |-> Endpoint("anthropic", "va"), c |-> Endpoint("anthropic_compat", "vc"),
                       o |-> Endpoint("openai", "vo")],
        pools |-> [standard |-> Pool(<<Member("a", "m1", 1), Member("c", "m2", 2)>>),
                   cheap |-> Pool(<<Member("o", "m3", 1)>>)]],
    pools2 |-> [
        endpoints |-> [a |-> Endpoint("anthropic", "va"), b |-> Endpoint("anthropic", "va"),
                       x |-> Endpoint("grpc", "vo")],
        pools |-> [large |-> Pool(<<Member("b", "m1", 1), Member("a", "m1", 1), Member("b", "m1", 1)>>),
                   cheap |-> Pool(<<Member("x", "m3", 1)>>)]],
    policy1 |-> [version |-> "1", default |-> [action |-> "allow", pool |-> ""],
                 degradable |-> {"cache_control"},
                 rules |-> <<Rule(1, {"dev"}, "route", "cheap"), Rule(2, {"ops"}, "allow", ""),
                             Rule(3, {"dev", "ops"}, "route", "standard")>>],
    policy2 |-> [version |-> "2", default |-> [action |-> "route", pool |-> "large"],
                 degradable |-> {},
                 rules |-> <<Rule(1, {"ops"}, "allow", "")>>],
    pricing1 |-> <<Price("va", "m1", 1, All), Price("vc", "m2", Nil, {"vision"}),
                  Price("vo", "m3", 0, {})>>,
    pricing2 |-> <<Price("vz", "m1", Nil, {}), Price("va", "m1", 1, {"cache_control"}),
                  Price("vo", "m3", Nil, {"vision"})>>,
    users |-> <<>>, teams |-> <<>>, repos |-> <<>>]

Files2(pools, policy, pricing) ==
    [pools |-> pools, policy |-> policy, pricing |-> pricing, users |-> "users",
     teams |-> "teams", repos |-> "repos"]

MCConfigs == {
    [files |-> Files2("pools1", "policy1", "pricing1"),
     keys |-> [a |-> "ka", b |-> Absent, c |-> "kc", o |-> "ko", x |-> Absent]],
    [files |-> Files2("pools2", "policy2", "pricing2"),
     keys |-> [a |-> "ka2", b |-> "kb", c |-> Absent, o |-> Absent, x |-> "kx"]]}

Block(type, id, mark) ==
    [type |-> type, id |-> id, rest |-> "", mark |-> mark, inner |-> <<>>]
Text(id) == Block("text", id, "no")
Thought == [Block("thinking", "h1", "no") EXCEPT !.rest = "signature"]
Result == [Block("tool_result", "call1", "no") EXCEPT
              !.inner = <<Block("text", "r1", "yes"), Block("image", "i1", "no")>>]

PlainBody ==
    [protocol |-> "anthropic_messages", parses |-> TRUE, model |-> "client", stream |-> TRUE,
     system |-> <<>>, messages |-> <<[role |-> "user", content |-> <<Text("t1")>>]>>,
     tools |-> <<>>, choice |-> "", thinking |-> "absent", rest |-> "stop"]

ImageMessages == <<[role |-> "user", content |-> <<Block("image", "i1", "no"), Text("t1")>>]>>

MCRequests == [
    other |-> [PlainBody EXCEPT !.protocol = "chat", !.thinking = "enabled",
                                !.system = <<Block("text", "s1", "null")>>],
    broken |-> [PlainBody EXCEPT !.parses = FALSE, !.thinking = "null"],
    cachedSystem |-> [PlainBody EXCEPT !.system = <<Text("s1"), Block("text", "s2", "yes")>>],
    tools |-> [PlainBody EXCEPT
        !.messages = <<[role |-> "user", content |-> <<Text("t1"), Block("document", "d1", "yes")>>],
                       [role |-> "assistant", content |-> <<Thought, Block("tool_use", "call1", "no")>>],
                       [role |-> "user", content |-> <<Result, Text("t3")>>]>>,
        !.tools = <<[name |-> "tool1", mark |-> "yes"]>>, !.choice = "tool"],
    imageThinking |-> [PlainBody EXCEPT !.messages = ImageMessages, !.thinking = "disabled"]]

MCUsages == {[input |-> 900, output |-> 700, cacheRead |-> 0, cacheCreate |-> 0],
             [input |-> 1, output |-> 500, cacheRead |-> 1999, cacheCreate |-> 600]}

MCDraws == {<<0, 0>>, <<2, 1>>}

\* Reloads are alike.
MCSymmetry == Permutations(Publishers)

=============================================================================
