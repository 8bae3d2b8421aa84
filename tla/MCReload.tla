----------------------------- MODULE MCReload -----------------------------
(***************************************************************************)
(* Reload on one or two edits of small files: two pools files, one naming  *)
(* a secret file, a policy that only the other satisfies, two               *)
(* team lists, and the emptied form of a file that is being rewritten.     *)
(***************************************************************************)
EXTENDS Reload

Endpoint(ref) ==
    [wire |-> "anthropic", vendor |-> "v", tier |-> "first_party", region |-> "us",
     streaming |-> TRUE, ref |-> ref]

Pool == [members |-> <<[endpoint |-> "a", model |-> "m", weight |-> 1]>>,
         timeout |-> 1, attempts |-> 1]

Price == [vendor |-> "v", model |-> "m", input |-> 3, output |-> 5, cacheRead |-> Nil,
          cacheCreate |-> Nil, currency |-> "USD", caps |-> {}]

Policy(pool) ==
    [version |-> "1", default |-> [action |-> "route", pool |-> pool],
     degradable |-> {}, rules |-> <<>>]

EmptyFunction == [x \in {} |-> x]

MCBody == [
    poolsA |-> [endpoints |-> [a |-> Endpoint("f")], pools |-> [standard |-> Pool]],
    poolsB |-> [endpoints |-> [a |-> Endpoint("")],
                pools |-> [standard |-> Pool, large |-> Pool]],
    poolsEmpty |-> [endpoints |-> EmptyFunction, pools |-> EmptyFunction],
    policyA |-> Policy("standard"),
    policyB |-> Policy("large"),
    policyBad |-> Unreadable,
    pricing |-> <<Price>>,
    users |-> <<[user |-> "u", role |-> "dev", team |-> "t"]>>,
    teamsA |-> <<[team |-> "t", cap |-> 5]>>,
    teamsB |-> <<[team |-> "t", cap |-> 7], [team |-> "s", cap |-> 2]>>,
    repos |-> <<>>]

MCContents == [
    pools |-> {"poolsA", "poolsB", "poolsEmpty"},
    policy |-> {"policyA", "policyB", "policyBad"},
    pricing |-> {"pricing"},
    users |-> {"users"},
    teams |-> {"teamsA", "teamsB"},
    repos |-> {"repos"}]

MCInitial == {
    [files |-> [pools |-> "poolsA", policy |-> "policyA", pricing |-> "pricing",
                users |-> "users", teams |-> "teamsA", repos |-> "repos"],
     secrets |-> [f |-> "k1"]]}

=============================================================================
