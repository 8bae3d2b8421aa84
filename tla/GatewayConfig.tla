--------------------------- MODULE GatewayConfig ---------------------------
(***************************************************************************)
(* The gateway's configuration files and what Loader.Load accepts.         *)
(*                                                                         *)
(* A file has a content, named by an identifier; Body gives the parsed     *)
(* form of a content, or Unreadable when the file is missing or is not     *)
(* YAML.  The empty string and the empty sequence are Go's zero values, so *)
(* an emptied file parses to them.  Nil is a nil pointer.                  *)
(*                                                                         *)
(*   pools    [endpoints, pools]: endpoint id -> [wire, vendor, tier,      *)
(*            region, streaming, ref], pool -> [members, timeout,          *)
(*            attempts], a member being [endpoint, model, weight]          *)
(*   policy   [version, default, degradable, rules]; a rule is [named,     *)
(*            priority, compiles, when, action, pool], where named says    *)
(*            that its id starts with P- and when is what it matches       *)
(*   pricing  sequence of [vendor, model, input, output, cacheRead,        *)
(*            cacheCreate, currency, caps]                                 *)
(*   users, teams, repos   sequences of [user, role, team], [team, cap]    *)
(*            and [repo]                                                   *)
(***************************************************************************)
EXTENDS Integers, Sequences

CONSTANTS Body, Unreadable, Nil

Files == {"pools", "policy", "pricing", "users", "teams", "repos"}

\* The order in which Load reads them.
ReadOrder == <<"pools", "policy", "pricing", "users", "teams", "repos">>

-----------------------------------------------------------------------------
(* Each file alone. *)

ValidMember(m, endpoints) ==
    /\ m.endpoint \in DOMAIN endpoints
    /\ m.weight > 0

ValidPools(c) ==
    /\ DOMAIN c.endpoints # {}
    /\ \A name \in DOMAIN c.pools :
          LET pool == c.pools[name]
          IN  /\ pool.members # <<>>
              /\ \A i \in DOMAIN pool.members : ValidMember(pool.members[i], c.endpoints)
              /\ pool.timeout > 0
              /\ pool.attempts > 0

\* validateP0Action and validateModelPoolRequired, for a rule or the default.
ValidAction(a) ==
    /\ a.action \in {"route", "allow"}
    /\ a.action = "route" => a.pool # ""

Degradable == {"cache_control", "extended_thinking"}

ValidPolicy(c) ==
    /\ c.version # ""
    /\ ValidAction(c.default)
    /\ c.degradable \subseteq Degradable
    /\ \A i \in DOMAIN c.rules :
          c.rules[i].named /\ ValidAction(c.rules[i]) /\ c.rules[i].compiles

ValidPrice(p) == p # Nil => p >= 0

ValidPricing(c) ==
    /\ c # <<>>
    /\ \A i \in DOMAIN c :
          LET m == c[i]
          IN  /\ m.vendor # "" /\ m.model # ""
              /\ m.input >= 0 /\ m.output >= 0
              /\ Len(m.currency) \in {0, 3}
              /\ "cache_control" \in m.caps => m.cacheRead # Nil /\ m.cacheCreate # Nil
              /\ ValidPrice(m.cacheRead) /\ ValidPrice(m.cacheCreate)
              /\ \A j \in DOMAIN c :
                    j < i => <<c[j].vendor, c[j].model>> # <<m.vendor, m.model>>

ValidIdentity(users, teams, repos) ==
    LET known == {teams[i].team : i \in DOMAIN teams}
    IN  /\ \A i \in DOMAIN users :
              /\ users[i].user # "" /\ users[i].role # ""
              /\ users[i].team \in known \union {""}
        /\ \A i \in DOMAIN repos : repos[i].repo # ""

-----------------------------------------------------------------------------
(* The files together. *)

ValidatePolicyAgainstPools(policy, pools) ==
    LET actions == {policy.default} \union {policy.rules[i] : i \in DOMAIN policy.rules}
    IN  \A a \in actions : a.action = "route" /\ a.pool # "" => a.pool \in DOMAIN pools.pools

\* Members that a registered endpoint has in any pool.
MembersOf(pools, endpoint) ==
    {m \in UNION {{pools.pools[n].members[i] : i \in DOMAIN pools.pools[n].members} :
                     n \in DOMAIN pools.pools} : m.endpoint = endpoint}

\* PricingConfig.Lookup finds a row.
Priced(pricing, vendor, model) ==
    \E i \in DOMAIN pricing : pricing[i].vendor = vendor /\ pricing[i].model = model

ValidateEndpointsAgainstPricing(pools, pricing) ==
    \A e \in DOMAIN pools.endpoints :
        MembersOf(pools, e) # {} =>
            \E m \in MembersOf(pools, e) : Priced(pricing, pools.endpoints[e].vendor, m.model)

-----------------------------------------------------------------------------
(* What Load finds out after reading each file: got maps the files read so  *)
(* far to their contents.                                                   *)

\* The checks that directly follow the read of file f.
AcceptsRead(f, got) ==
    /\ Body[got[f]] # Unreadable
    /\ f = "pools" => ValidPools(Body[got["pools"]])
    /\ f = "policy" => ValidPolicy(Body[got["policy"]])
    /\ f = "pricing" => ValidPricing(Body[got["pricing"]])
    /\ f = "repos" =>
          /\ ValidIdentity(Body[got["users"]], Body[got["teams"]], Body[got["repos"]])
          /\ ValidatePolicyAgainstPools(Body[got["policy"]], Body[got["pools"]])
          /\ ValidateEndpointsAgainstPricing(Body[got["pools"]], Body[got["pricing"]])

\* All six files, read as they are in got, are accepted.
Acceptable(got) ==
    /\ AcceptsRead("pools", got)
    /\ AcceptsRead("policy", got)
    /\ AcceptsRead("pricing", got)
    /\ AcceptsRead("users", got)
    /\ AcceptsRead("teams", got)
    /\ AcceptsRead("repos", got)

\* What the YAML decoder guarantees of the files it reads: the types of the structs.
Decoded(got) ==
    LET pools   == Body[got["pools"]].pools
        rules   == Body[got["policy"]].rules
        pricing == Body[got["pricing"]]
    IN  /\ \A f \in Files : got[f] \in DOMAIN Body
        /\ \A name \in DOMAIN pools :
              pools[name].members \in Seq([endpoint : STRING, model : STRING, weight : Int])
        /\ rules \in Seq({rules[i] : i \in DOMAIN rules})
        /\ pricing \in Seq([vendor : STRING, model : STRING, input : Int, output : Int,
                            cacheRead : Int \union {Nil}, cacheCreate : Int \union {Nil},
                            currency : STRING, caps : SUBSET STRING])

\* file:// paths that the endpoints of a pools file refer to; other references
\* (none, env://) do not change while the process runs.
fileRefPaths(pools, paths) ==
    {pools.endpoints[e].ref : e \in DOMAIN pools.endpoints} \intersect paths

=============================================================================
