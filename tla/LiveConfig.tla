---------------------------- MODULE LiveConfig ----------------------------
(***************************************************************************)
(* What the request path of the gateway runs on: seven holders, each with  *)
(* its own lock or atomic pointer, that a reload updates one after the     *)
(* other (the callback main registers).  A configuration is [files, keys]: *)
(* the content of each file and the resolved key of each endpoint.         *)
(***************************************************************************)
EXTENDS GatewayConfig

CONSTANTS
    Teams          \* team ids of all teams contents

VARIABLES
    live           \* holder -> what it holds

\* The holders, in the order in which the callback updates them.
HolderOrder == <<"selPricing", "selPools", "costPricing", "policy", "caps", "registry", "config">>
Holders == {HolderOrder[i] : i \in DOMAIN HolderOrder}

\* SetTeamCap for every team of the file: a team that is no longer listed keeps its cap.
SetTeamCaps(caps, teams) ==
    [t \in Teams |->
        LET rows == {i \in DOMAIN teams : teams[i].team = t}
        IN  IF rows = {} THEN caps[t]
            ELSE teams[CHOOSE i \in rows : \A j \in rows : j <= i].cap]

\* Holder h after it is given configuration cfg.
Updated(h, cfg) ==
    CASE h = "selPricing"  -> cfg.files["pricing"]
      [] h = "selPools"    -> cfg.files["pools"]
      [] h = "costPricing" -> cfg.files["pricing"]
      [] h = "policy"      -> cfg.files["policy"]
      [] h = "caps"        -> SetTeamCaps(live.caps, Body[cfg.files["teams"]])
      [] h = "registry"    -> cfg.files["teams"]
      [] h = "config"      -> cfg

\* What main builds from the configuration it read at start.  The registry is built
\* last, and nobody reads it before.
Wired(cfg) ==
    [selPricing |-> cfg.files["pricing"], selPools |-> cfg.files["pools"],
     costPricing |-> cfg.files["pricing"], policy |-> cfg.files["policy"],
     caps |-> SetTeamCaps([t \in Teams |-> Nil], Body[cfg.files["teams"]]),
     registry |-> cfg.files["teams"], config |-> cfg]

\* Every holder has its part of cfg.
Uniform(cfg) ==
    /\ live.config = cfg
    /\ live.selPricing = cfg.files["pricing"] /\ live.costPricing = cfg.files["pricing"]
    /\ live.selPools = cfg.files["pools"]
    /\ live.policy = cfg.files["policy"]
    /\ live.registry = cfg.files["teams"]
    /\ live.caps = SetTeamCaps(live.caps, Body[cfg.files["teams"]])

=============================================================================
