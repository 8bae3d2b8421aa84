----------------------------- MODULE Enrolment -----------------------------
(***************************************************************************)
(* How API keys come to exist and stop being accepted: the bootstrap of    *)
(* cmd/aicg-gw/main.go, POST /lp/exchange-setup, POST /admin/invites,      *)
(* POST /lp/exchange-invite, and the key store with its five-minute cache. *)
(*                                                                         *)
(* The gateway is one process over PostgreSQL.  A crash loses the process: *)
(* calls in flight, open transactions and the cache, never a committed     *)
(* row.  Every exchange call draws a fresh key before or while it runs, so *)
(* an element of Keys names both the call and the key it would issue.      *)
(***************************************************************************)
EXTENDS Integers

CONSTANTS Keys,          \* exchange calls, and the keys they draw
          Tokens,        \* setup tokens that may be minted
          Invites,       \* invites that may be created
          AdminInvites,  \* those with role platform_admin
          MaxBoots       \* bound: starts of the gateway process

\* No lock, no credential, no token.
None == "none"

ASSUME EnrolmentAssumption ==
    /\ None \notin Keys \union Tokens \union Invites
    /\ Tokens \intersect Invites = {}
    /\ AdminInvites \subseteq Invites
    /\ MaxBoots \in Nat

VARIABLES
    gw,       \* "down", "mint" (bootstrap decided to mint), "print" or "up"
    boots,    \* starts so far
    minted,   \* the token this start has inserted and not yet printed
    tokens,   \* setup_tokens: "none", "open" or "consumed"
    known,    \* credentials somebody outside the gateway has been given
    invites,  \* table invites: "none", "open" or "used"
    expired,  \* invites whose expires_at has passed
    lock,     \* the call whose transaction has updated the invite's row
    pc,       \* where an exchange call is
    via,      \* the credential it presents
    keyRow,   \* api_keys: "none", "live" or "deleted"
    look,     \* keys a running lookup has matched in the rows it selected
    cache     \* keys with an unexpired cache entry

processVars == <<gw, boots, minted>>
inviteVars == <<invites, expired, lock>>
callVars == <<pc, via, keyRow>>
cacheVars == <<look, cache>>
vars == <<processVars, tokens, known, inviteVars, callVars, cacheVars>>

Credentials == Tokens \union Invites

Init ==
    /\ gw = "down" /\ boots = 0 /\ minted = None
    /\ tokens = [t \in Tokens |-> "none"]
    /\ known = {}
    /\ invites = [v \in Invites |-> "none"]
    /\ expired = {}
    /\ lock = [v \in Invites |-> None]
    /\ pc = [k \in Keys |-> "idle"]
    /\ via = [k \in Keys |-> None]
    /\ keyRow = [k \in Keys |-> "none"]
    /\ look = {} /\ cache = {}

\* SELECT count(*) FROM api_keys WHERE deleted_at IS NULL.
HasAnyKey == \E k \in Keys : keyRow[k] = "live"

\* A count that takes consumed tokens for available ones.
HasTokenRow == \E t \in Tokens : tokens[t] # "none"

\* SELECT count(*) FROM setup_tokens WHERE consumed_at IS NULL.
HasAnyToken == \E t \in Tokens : tokens[t] = "open"

\* The statements that write; an INSERT is of a fresh value.
InsertToken(t) == tokens[t] = "none" /\ tokens' = [tokens EXCEPT ![t] = "open"]
UpdateToken(t) == tokens[t] = "open" /\ tokens' = [tokens EXCEPT ![t] = "consumed"]
InsertKey(k) == keyRow' = [keyRow EXCEPT ![k] = "live"]
InsertInvite(v) == invites[v] = "none" /\ invites' = [invites EXCEPT ![v] = "open"]

CallStep(k, from, to) ==
    /\ gw = "up"
    /\ pc[k] = from
    /\ pc' = [pc EXCEPT ![k] = to]

-----------------------------------------------------------------------------
(* The process. *)

\* A bootstrap whose banner is outside the branch that mints.
BootAlwaysShows ==
    /\ gw = "down" /\ boots < MaxBoots
    /\ boots' = boots + 1
    /\ \/ gw' = "mint"
       \/ (HasAnyKey \/ HasAnyToken) /\ gw' = "print"
    /\ UNCHANGED <<minted, tokens, known, inviteVars, callVars, cacheVars>>

\* main: mint unless a key or an available token is found.  Each count reads
\* as zero when its query fails.
Boot ==
    /\ gw = "down" /\ boots < MaxBoots
    /\ boots' = boots + 1
    /\ \/ gw' = "mint"
       \/ (HasAnyKey \/ HasAnyToken) /\ gw' = "up"
    /\ UNCHANGED <<minted, tokens, known, inviteVars, callVars, cacheVars>>

\* InsertToken of a fresh token; an error, after which the row may exist all
\* the same, ends the process.
Mint ==
    /\ gw = "mint"
    /\ \E t \in Tokens :
          \/ gw' = "print" /\ minted' = t /\ InsertToken(t)
          \/ /\ gw' = "down" /\ UNCHANGED minted
             /\ UNCHANGED tokens \/ InsertToken(t)
    /\ UNCHANGED <<boots, known, inviteVars, callVars, cacheVars>>

\* The token goes to stderr and, when it can be written, to the token file;
\* then the gateway serves.
ShowToken ==
    /\ gw = "print"
    /\ gw' = "up" /\ minted' = None
    /\ known' = known \union {minted}
    /\ UNCHANGED <<boots, tokens, inviteVars, callVars, cacheVars>>

\* The process dies.  PostgreSQL rolls back its open transactions.
Crash ==
    /\ gw # "down"
    /\ gw' = "down" /\ minted' = None
    /\ lock' = [v \in Invites |-> None]
    /\ pc' = [k \in Keys |-> IF pc[k] \in {"idle", "won"} THEN pc[k] ELSE "failed"]
    /\ look' = {} /\ cache' = {}
    /\ UNCHANGED <<boots, tokens, known, invites, expired, via, keyRow>>

-----------------------------------------------------------------------------
(* POST /lp/exchange-setup: two statements, no transaction. *)

\* An UPDATE without AND consumed_at IS NULL.
ConsumeTokenUnfenced(k) ==
    /\ \E t \in known \intersect Tokens :
          /\ via' = [via EXCEPT ![k] = t]
          /\ tokens' = [tokens EXCEPT ![t] = "consumed"]
    /\ CallStep(k, "idle", "store")
    /\ UNCHANGED <<processVars, known, inviteVars, keyRow, cacheVars>>

\* ConsumeToken: UPDATE ... WHERE consumed_at IS NULL.  Refused when it matches
\* no row; an error (the UPDATE may have run) is a 500.
ConsumeToken(k) ==
    /\ \E t \in known \intersect Tokens :
          /\ via' = [via EXCEPT ![k] = t]
          /\ \/ /\ UpdateToken(t)
                /\ CallStep(k, "idle", "store") \/ CallStep(k, "idle", "failed")
             \/ CallStep(k, "idle", "failed") /\ UNCHANGED tokens
    /\ UNCHANGED <<processVars, known, inviteVars, keyRow, cacheVars>>

\* A handler that answers without looking at StoreAPIKey's error.
StoreAPIKeyUnchecked(k) ==
    /\ CallStep(k, "store", "reply")
    /\ UNCHANGED keyRow \/ InsertKey(k)
    /\ UNCHANGED <<processVars, tokens, known, inviteVars, via, cacheVars>>

\* StoreAPIKey; an error, after which the row may exist, is a 500 and leaves
\* the token consumed.
StoreAPIKey(k) ==
    /\ \/ CallStep(k, "store", "reply") /\ InsertKey(k)
       \/ CallStep(k, "store", "failed") /\ (UNCHANGED keyRow \/ InsertKey(k))
    /\ UNCHANGED <<processVars, tokens, known, inviteVars, via, cacheVars>>

\* The 200 with the cleartext key, shared by both exchanges: it arrives, or the
\* client is no longer there to read it.
Reply(k) ==
    /\ CallStep(k, "reply", "won") \/ CallStep(k, "reply", "failed")
    /\ UNCHANGED <<processVars, tokens, known, inviteVars, via, keyRow, cacheVars>>

-----------------------------------------------------------------------------
(* Invites. *)

\* The middleware accepts a key somebody holds: from its cache, or because its
\* row is live.
Accepted(k) == pc[k] = "won" /\ (k \in cache \/ keyRow[k] = "live")

\* HandleAdminCreateInvite behind RequireRole(platform_admin): the INSERT, and
\* the token in the response, which is lost with it when an error is reported
\* or the response does not arrive.
CreateInvite(v) ==
    /\ gw = "up"
    /\ \E k \in Keys : Accepted(k) /\ via[k] \in Tokens \union AdminInvites
    /\ InsertInvite(v)
    /\ known' = known \union {v} \/ UNCHANGED known
    /\ UNCHANGED <<processVars, tokens, expired, lock, callVars, cacheVars>>

InviteExpires(v) ==
    /\ invites[v] # "none" /\ v \notin expired
    /\ expired' = expired \union {v}
    /\ UNCHANGED <<processVars, tokens, known, invites, lock, callVars, cacheVars>>

\* ConsumeAndIssueKey up to the UPDATE, which waits for another transaction's
\* row lock and then takes it if the invite is unused and unexpired.  No row,
\* or an error before or after it: rolled back.
ConsumeInvite(k) ==
    /\ \E v \in known \intersect Invites :
          /\ via' = [via EXCEPT ![k] = v]
          /\ lock[v] = None
          /\ \/ /\ invites[v] = "open" /\ v \notin expired
                /\ CallStep(k, "idle", "tx")
                /\ lock' = [lock EXCEPT ![v] = k]
             \/ CallStep(k, "idle", "failed") /\ UNCHANGED lock
    /\ UNCHANGED <<processVars, tokens, known, invites, expired, keyRow, cacheVars>>

\* A consume that is committed on its own, before the key is inserted.
IssueKeyNoTx(k) ==
    /\ lock' = [v \in Invites |-> IF lock[v] = k THEN None ELSE lock[v]]
    /\ invites' = [invites EXCEPT ![via[k]] = "used"]
    /\ \/ CallStep(k, "tx", "reply") /\ InsertKey(k)
       \/ CallStep(k, "tx", "failed") /\ UNCHANGED keyRow
    /\ UNCHANGED <<processVars, tokens, known, expired, via, cacheVars>>

\* The api_keys INSERT and tx.Commit: both writes become visible together, or
\* neither does; a Commit that reports an error may have committed.
IssueKey(k) ==
    /\ lock' = [v \in Invites |-> IF lock[v] = k THEN None ELSE lock[v]]
    /\ \/ /\ CallStep(k, "tx", "reply") \/ CallStep(k, "tx", "failed")
          /\ invites' = [invites EXCEPT ![via[k]] = "used"]
          /\ InsertKey(k)
       \/ CallStep(k, "tx", "failed") /\ UNCHANGED <<invites, keyRow>>
    /\ UNCHANGED <<processVars, tokens, known, expired, via, cacheVars>>

-----------------------------------------------------------------------------
(* The key store. *)

\* DeleteAPIKey: the row, not the cache.
DeleteAPIKey(k) ==
    /\ gw = "up"
    /\ keyRow[k] = "live"
    /\ keyRow' = [keyRow EXCEPT ![k] = "deleted"]
    /\ UNCHANGED <<processVars, tokens, known, inviteVars, pc, via, cacheVars>>

\* A SELECT without WHERE deleted_at IS NULL.
LookupSelectAll(k) ==
    /\ gw = "up" /\ pc[k] = "won"
    /\ k \notin cache
    /\ keyRow[k] # "none"
    /\ look' = look \union {k}
    /\ UNCHANGED <<processVars, tokens, known, inviteVars, callVars, cache>>

\* A request with key k that the cache cannot answer: the non-deleted rows are
\* selected and compared one by one, which takes bcrypt's time.
LookupSelect(k) ==
    /\ gw = "up" /\ pc[k] = "won"
    /\ k \notin cache
    /\ keyRow[k] = "live"
    /\ look' = look \union {k}
    /\ UNCHANGED <<processVars, tokens, known, inviteVars, callVars, cache>>

\* The match is cached for five minutes from now, whatever has happened to the
\* row since it was selected.
LookupStore(k) ==
    /\ k \in look
    /\ look' = look \ {k}
    /\ cache' = cache \union {k}
    /\ UNCHANGED <<processVars, tokens, known, inviteVars, callVars>>

\* time.Now() reaches entry.expires; reapLoop only frees such entries.
CacheExpires(k) ==
    /\ k \in cache
    /\ cache' = cache \ {k}
    /\ UNCHANGED <<processVars, tokens, known, inviteVars, callVars, look>>

Exchange(k) ==
    ConsumeToken(k) \/ StoreAPIKey(k) \/ ConsumeInvite(k) \/ IssueKey(k) \/ Reply(k)

Lookup(k) == LookupSelect(k) \/ LookupStore(k) \/ CacheExpires(k)

Next ==
    \/ Boot \/ Mint \/ ShowToken \/ Crash
    \/ \E v \in Invites : CreateInvite(v) \/ InviteExpires(v)
    \/ \E k \in Keys : Exchange(k) \/ Lookup(k) \/ DeleteAPIKey(k)

Spec == Init /\ [][Next]_vars

\* A lookup that has its match finishes, and five minutes pass.
FairSpec ==
    Spec /\ \A k \in Keys : WF_vars(LookupStore(k)) /\ WF_vars(CacheExpires(k))

-----------------------------------------------------------------------------
(* Properties. *)

\* Every variable keeps to its domain.
TypeOK ==
    /\ gw \in {"down", "mint", "print", "up"}
    /\ boots \in Nat
    /\ minted \in Tokens \union {None}
    /\ tokens \in [Tokens -> {"none", "open", "consumed"}]
    /\ known \subseteq Credentials
    /\ invites \in [Invites -> {"none", "open", "used"}]
    /\ expired \subseteq Invites
    /\ lock \in [Invites -> Keys \union {None}]
    /\ pc \in [Keys -> {"idle", "store", "tx", "reply", "won", "failed"}]
    /\ via \in [Keys -> Credentials \union {None}]
    /\ keyRow \in [Keys -> {"none", "live", "deleted"}]
    /\ look \subseteq Keys
    /\ cache \subseteq Keys

\* A setup token or an invite issues at most one key, however many calls
\* present it at once and whichever statements fail or report an error they
\* did not have (ConsumeToken's and ConsumeAndIssueKey's WHERE clauses).
IssuedOnce ==
    \A j, k \in Keys :
        keyRow[j] # "none" /\ keyRow[k] # "none" /\ via[j] = via[k] => j = k

\* An invite is used exactly when it has issued a key: no interleaving, failure
\* or crash burns it without a row in api_keys, or issues a key and leaves it
\* redeemable (ConsumeAndIssueKey's transaction).
InviteUsedMeansIssued ==
    \A v \in Invites :
        invites[v] = "used" <=> \E k \in Keys : via[k] = v /\ keyRow[k] # "none"

\* A client that was given a key has a key the gateway stored, whose credential
\* can no longer be exchanged (both handlers answer 200 after the last write).
GivenKeyIsStored ==
    \A k \in Keys : pc[k] \in {"reply", "won"} =>
        /\ keyRow[k] # "none"
        /\ via[k] \in Tokens => tokens[via[k]] = "consumed"
        /\ via[k] \in Invites => invites[via[k]] = "used"

\* A gateway that starts to serve has a live key or an available setup token:
\* a token that an earlier process burned without storing a key (500 from
\* StoreAPIKey, or a crash after ConsumeToken) is replaced at the next start.
BootLeavesAWayIn ==
    [][gw # "up" /\ gw' = "up" =>
          \/ \E k \in Keys : keyRow[k] = "live"
          \/ \E t \in Tokens : tokens[t] = "open"]_vars

\* A deleted key stops being accepted in the end: no lookup that selected its row before
\* the deletion, and no cache entry, keeps it alive (lookupWithBcrypt).
RevocationTakesEffect ==
    \A k \in Keys :
        [](keyRow[k] = "deleted" => <>[](k \notin look \union cache))

\* threat-model.md:171, on a stolen key: "admin can revoke instantly".
RevokedInstantly == \A k \in Keys : keyRow[k] = "deleted" => ~Accepted(k)

=============================================================================
