-------------------------- MODULE EnrolmentProofs --------------------------
(***************************************************************************)
(* The safety properties of Enrolment for every number of calls, tokens,   *)
(* invites and restarts.                                                   *)
(***************************************************************************)
EXTENDS Enrolment, TLAPS

\* A call that has consumed its credential and will, or did, issue a key.
Claims(k) == pc[k] \in {"store", "tx"} \/ keyRow[k] # "none"

\* What each place in an exchange call implies.
CallInv ==
    \A k \in Keys :
        /\ pc[k] = "idle" => keyRow[k] = "none"
        /\ pc[k] = "store" => via[k] \in Tokens /\ keyRow[k] = "none"
        /\ pc[k] = "tx" =>
              /\ via[k] \in Invites /\ lock[via[k]] = k
              /\ invites[via[k]] = "open" /\ keyRow[k] = "none"
        /\ pc[k] \in {"reply", "won"} => keyRow[k] # "none"

\* A claimed credential is spent, and has one claimant.
ClaimInv ==
    /\ \A k \in Keys : Claims(k) =>
          /\ via[k] \in Credentials
          /\ via[k] \in Tokens => tokens[via[k]] = "consumed"
    /\ \A j, k \in Keys : Claims(j) /\ Claims(k) /\ via[j] = via[k] => j = k

\* A row lock belongs to the transaction that took it.
LockInv ==
    \A v \in Invites : lock[v] # None => pc[lock[v]] = "tx" /\ via[lock[v]] = v

\* The token about to be printed is in the table.
MintInv == gw = "print" => minted \in Tokens /\ tokens[minted] = "open"

IndInv ==
    /\ TypeOK /\ CallInv /\ ClaimInv /\ LockInv /\ MintInv
    /\ InviteUsedMeansIssued

\* What is assumed of the constants is used throughout.
USE EnrolmentAssumption

-----------------------------------------------------------------------------
(* The inductive invariant. *)

\* Init establishes the invariant.
LEMMA InitIndInv == Init => IndInv
BY DEF Init, IndInv, TypeOK, CallInv, ClaimInv, Claims, LockInv, MintInv,
       InviteUsedMeansIssued, Credentials

\* Every action keeps the types.
LEMMA TypeStep ==
    ASSUME TypeOK, MintInv, Next
    PROVE  TypeOK'
<1>1. CASE Boot
  BY <1>1 DEF Boot, TypeOK, MintInv, Credentials, processVars, inviteVars,
      callVars, cacheVars
<1>2. CASE Mint
  BY <1>2 DEF Mint, InsertToken, TypeOK, MintInv, Credentials, processVars,
      inviteVars, callVars, cacheVars
<1>3. CASE ShowToken
  BY <1>3 DEF ShowToken, TypeOK, MintInv, Credentials, processVars,
      inviteVars, callVars, cacheVars
<1>4. CASE Crash
  BY <1>4 DEF Crash, TypeOK, MintInv, Credentials, processVars, inviteVars,
      callVars, cacheVars
<1>5. ASSUME NEW v \in Invites, CreateInvite(v) PROVE TypeOK'
  BY <1>5 DEF CreateInvite, InsertInvite, TypeOK, MintInv, Credentials,
      processVars, inviteVars, callVars, cacheVars
<1>6. ASSUME NEW v \in Invites, InviteExpires(v) PROVE TypeOK'
  BY <1>6 DEF InviteExpires, TypeOK, MintInv, Credentials, processVars,
      inviteVars, callVars, cacheVars
<1>7. ASSUME NEW k \in Keys, ConsumeToken(k) PROVE TypeOK'
  BY <1>7 DEF ConsumeToken, UpdateToken, CallStep, TypeOK, MintInv,
      Credentials, processVars, inviteVars, callVars, cacheVars
<1>8. ASSUME NEW k \in Keys, StoreAPIKey(k) PROVE TypeOK'
  BY <1>8 DEF StoreAPIKey, InsertKey, CallStep, TypeOK, MintInv, Credentials,
      processVars, inviteVars, callVars, cacheVars
<1>9. ASSUME NEW k \in Keys, ConsumeInvite(k) PROVE TypeOK'
  BY <1>9 DEF ConsumeInvite, CallStep, TypeOK, MintInv, Credentials,
      processVars, inviteVars, callVars, cacheVars
<1>10. ASSUME NEW k \in Keys, IssueKey(k) PROVE TypeOK'
  BY <1>10 DEF IssueKey, InsertKey, CallStep, TypeOK, MintInv, Credentials,
      processVars, inviteVars, callVars, cacheVars
<1>11. ASSUME NEW k \in Keys, Reply(k) PROVE TypeOK'
  BY <1>11 DEF Reply, CallStep, TypeOK, MintInv, Credentials, processVars,
      inviteVars, callVars, cacheVars
<1>12. ASSUME NEW k \in Keys, LookupSelect(k) PROVE TypeOK'
  BY <1>12 DEF LookupSelect, TypeOK, MintInv, Credentials, processVars,
      inviteVars, callVars, cacheVars
<1>13. ASSUME NEW k \in Keys, LookupStore(k) PROVE TypeOK'
  BY <1>13 DEF LookupStore, TypeOK, MintInv, Credentials, processVars,
      inviteVars, callVars, cacheVars
<1>14. ASSUME NEW k \in Keys, CacheExpires(k) PROVE TypeOK'
  BY <1>14 DEF CacheExpires, TypeOK, MintInv, Credentials, processVars,
      inviteVars, callVars, cacheVars
<1>15. ASSUME NEW k \in Keys, DeleteAPIKey(k) PROVE TypeOK'
  BY <1>15 DEF DeleteAPIKey, TypeOK, MintInv, Credentials, processVars,
      inviteVars, callVars, cacheVars
<1> QED
  BY <1>1, <1>2, <1>3, <1>4, <1>5, <1>6, <1>7, <1>8, <1>9, <1>10, <1>11,
       <1>12, <1>13, <1>14, <1>15 DEF Next, Exchange, Lookup

\* Every action keeps what the places of a call imply.
LEMMA CallStepInv ==
    ASSUME IndInv, Next
    PROVE  CallInv'
<1>1. CASE Crash
  BY <1>1 DEF Crash, IndInv, TypeOK, CallInv, LockInv, processVars,
      inviteVars, callVars, cacheVars
<1>2. ASSUME NEW v \in Invites, CreateInvite(v) PROVE CallInv'
  BY <1>2 DEF CreateInvite, InsertInvite, IndInv, TypeOK, CallInv, LockInv,
      processVars, inviteVars, callVars, cacheVars
<1>3. ASSUME NEW k \in Keys, ConsumeToken(k) PROVE CallInv'
  BY <1>3 DEF ConsumeToken, UpdateToken, CallStep, IndInv, TypeOK, CallInv,
      LockInv, processVars, inviteVars, callVars, cacheVars
<1>4. ASSUME NEW k \in Keys, StoreAPIKey(k) PROVE CallInv'
  BY <1>4 DEF StoreAPIKey, InsertKey, CallStep, IndInv, TypeOK, CallInv,
      LockInv, processVars, inviteVars, callVars, cacheVars
<1>5. ASSUME NEW k \in Keys, ConsumeInvite(k) PROVE CallInv'
  BY <1>5 DEF ConsumeInvite, CallStep, IndInv, TypeOK, CallInv, LockInv,
      processVars, inviteVars, callVars, cacheVars
<1>6. ASSUME NEW k \in Keys, IssueKey(k) PROVE CallInv'
  BY <1>6 DEF IssueKey, InsertKey, CallStep, IndInv, TypeOK, CallInv, LockInv,
      processVars, inviteVars, callVars, cacheVars
<1>7. ASSUME NEW k \in Keys, Reply(k) PROVE CallInv'
  BY <1>7 DEF Reply, CallStep, IndInv, TypeOK, CallInv, LockInv, processVars,
      inviteVars, callVars, cacheVars
<1>8. ASSUME NEW k \in Keys, DeleteAPIKey(k) PROVE CallInv'
  BY <1>8 DEF DeleteAPIKey, IndInv, TypeOK, CallInv, LockInv, processVars,
      inviteVars, callVars, cacheVars
<1>9. CASE UNCHANGED <<pc, via, keyRow, lock, invites>>
  BY <1>9 DEF IndInv, TypeOK, CallInv, LockInv
<1> QED
  BY <1>1, <1>2, <1>3, <1>4, <1>5, <1>6, <1>7, <1>8, <1>9 DEF Next, Exchange,
      Lookup, Boot, Mint, InsertToken, ShowToken, InviteExpires, LookupSelect,
      LookupStore, CacheExpires, CallStep, processVars, inviteVars, callVars,
      cacheVars

\* Every action keeps a credential's claimant unique.
LEMMA ClaimStep ==
    ASSUME IndInv, Next
    PROVE  ClaimInv'
<1>1. CASE Mint
  BY <1>1 DEF Mint, InsertToken, IndInv, TypeOK, CallInv, ClaimInv, Claims,
      Credentials, LockInv, InviteUsedMeansIssued, processVars, inviteVars,
      callVars, cacheVars
<1>2. CASE Crash
  BY <1>2 DEF Crash, IndInv, TypeOK, CallInv, ClaimInv, Claims, Credentials,
      LockInv, InviteUsedMeansIssued, processVars, inviteVars, callVars,
      cacheVars
<1>3. ASSUME NEW k \in Keys, ConsumeToken(k) PROVE ClaimInv'
  BY <1>3 DEF ConsumeToken, UpdateToken, CallStep, IndInv, TypeOK, CallInv,
      ClaimInv, Claims, Credentials, LockInv, InviteUsedMeansIssued,
      processVars, inviteVars, callVars, cacheVars
<1>4. ASSUME NEW k \in Keys, StoreAPIKey(k) PROVE ClaimInv'
  BY <1>4 DEF StoreAPIKey, InsertKey, CallStep, IndInv, TypeOK, CallInv,
      ClaimInv, Claims, Credentials, LockInv, InviteUsedMeansIssued,
      processVars, inviteVars, callVars, cacheVars
<1>5. ASSUME NEW k \in Keys, ConsumeInvite(k) PROVE ClaimInv'
  BY <1>5 DEF ConsumeInvite, CallStep, IndInv, TypeOK, CallInv, ClaimInv,
      Claims, Credentials, LockInv, InviteUsedMeansIssued, processVars,
      inviteVars, callVars, cacheVars
<1>6. ASSUME NEW k \in Keys, IssueKey(k) PROVE ClaimInv'
  BY <1>6 DEF IssueKey, InsertKey, CallStep, IndInv, TypeOK, CallInv,
      ClaimInv, Claims, Credentials, LockInv, InviteUsedMeansIssued,
      processVars, inviteVars, callVars, cacheVars
<1>7. ASSUME NEW k \in Keys, Reply(k) PROVE ClaimInv'
  BY <1>7 DEF Reply, CallStep, IndInv, TypeOK, CallInv, ClaimInv, Claims,
      Credentials, LockInv, InviteUsedMeansIssued, processVars, inviteVars,
      callVars, cacheVars
<1>8. ASSUME NEW k \in Keys, DeleteAPIKey(k) PROVE ClaimInv'
  BY <1>8 DEF DeleteAPIKey, IndInv, TypeOK, CallInv, ClaimInv, Claims,
      Credentials, LockInv, InviteUsedMeansIssued, processVars, inviteVars,
      callVars, cacheVars
<1>9. CASE UNCHANGED <<pc, via, keyRow, tokens>>
  BY <1>9 DEF IndInv, TypeOK, CallInv, ClaimInv, Claims, Credentials, LockInv,
      InviteUsedMeansIssued
<1> QED
  BY <1>1, <1>2, <1>3, <1>4, <1>5, <1>6, <1>7, <1>8, <1>9 DEF Next, Exchange,
      Lookup, Boot, ShowToken, CreateInvite, InsertInvite, InviteExpires,
      LookupSelect, LookupStore, CacheExpires, CallStep, processVars,
      inviteVars, callVars, cacheVars

\* Every action keeps the row locks with their transactions.
LEMMA LockStep ==
    ASSUME IndInv, Next
    PROVE  LockInv'
<1>1. CASE Crash
  BY <1>1 DEF Crash, IndInv, TypeOK, CallInv, LockInv, processVars,
      inviteVars, callVars, cacheVars
<1>2. ASSUME NEW k \in Keys, ConsumeToken(k) PROVE LockInv'
  BY <1>2 DEF ConsumeToken, UpdateToken, CallStep, IndInv, TypeOK, CallInv,
      LockInv, processVars, inviteVars, callVars, cacheVars
<1>3. ASSUME NEW k \in Keys, StoreAPIKey(k) PROVE LockInv'
  BY <1>3 DEF StoreAPIKey, InsertKey, CallStep, IndInv, TypeOK, CallInv,
      LockInv, processVars, inviteVars, callVars, cacheVars
<1>4. ASSUME NEW k \in Keys, ConsumeInvite(k) PROVE LockInv'
  BY <1>4 DEF ConsumeInvite, CallStep, IndInv, TypeOK, CallInv, LockInv,
      processVars, inviteVars, callVars, cacheVars
<1>5. ASSUME NEW k \in Keys, IssueKey(k) PROVE LockInv'
  BY <1>5 DEF IssueKey, InsertKey, CallStep, IndInv, TypeOK, CallInv, LockInv,
      processVars, inviteVars, callVars, cacheVars
<1>6. ASSUME NEW k \in Keys, Reply(k) PROVE LockInv'
  BY <1>6 DEF Reply, CallStep, IndInv, TypeOK, CallInv, LockInv, processVars,
      inviteVars, callVars, cacheVars
<1>7. CASE UNCHANGED <<pc, via, lock>>
  BY <1>7, SMTT(30) DEF IndInv, TypeOK, CallInv, LockInv
<1> QED
  BY <1>1, <1>2, <1>3, <1>4, <1>5, <1>6, <1>7 DEF Next, Exchange, Lookup,
      Boot, Mint, InsertToken, ShowToken, CreateInvite, InsertInvite,
      InviteExpires, LookupSelect, LookupStore, CacheExpires, DeleteAPIKey,
      CallStep, processVars, inviteVars, callVars, cacheVars

\* Every action keeps the token about to be printed in the table.
LEMMA MintStep ==
    ASSUME IndInv, Next
    PROVE  MintInv'
<1>1. CASE Boot
  BY <1>1 DEF Boot, IndInv, TypeOK, MintInv, processVars, inviteVars,
      callVars, cacheVars
<1>2. CASE Mint
  BY <1>2 DEF Mint, InsertToken, IndInv, TypeOK, MintInv, processVars,
      inviteVars, callVars, cacheVars
<1>3. CASE ShowToken
  BY <1>3 DEF ShowToken, IndInv, TypeOK, MintInv, processVars, inviteVars,
      callVars, cacheVars
<1>4. CASE Crash
  BY <1>4 DEF Crash, IndInv, TypeOK, MintInv, processVars, inviteVars,
      callVars, cacheVars
<1>5. ASSUME NEW k \in Keys, ConsumeToken(k) PROVE MintInv'
  BY <1>5 DEF ConsumeToken, UpdateToken, CallStep, IndInv, TypeOK, MintInv,
      processVars, inviteVars, callVars, cacheVars
<1>6. CASE UNCHANGED <<gw, minted, tokens>>
  BY <1>6, SMTT(30) DEF IndInv, TypeOK, MintInv
<1> QED
  BY <1>1, <1>2, <1>3, <1>4, <1>5, <1>6 DEF Next, Exchange, Lookup,
      CreateInvite, InsertInvite, InviteExpires, StoreAPIKey, InsertKey,
      ConsumeInvite, IssueKey, Reply, LookupSelect, LookupStore, CacheExpires,
      DeleteAPIKey, CallStep, processVars, inviteVars, callVars, cacheVars

\* Every action keeps an invite used exactly when it issued a key.
LEMMA InviteStep ==
    ASSUME IndInv, Next
    PROVE  InviteUsedMeansIssued'
<1>1. ASSUME NEW v \in Invites, CreateInvite(v) PROVE InviteUsedMeansIssued'
  BY <1>1 DEF CreateInvite, InsertInvite, IndInv, TypeOK, CallInv,
      InviteUsedMeansIssued, processVars, inviteVars, callVars, cacheVars
<1>2. ASSUME NEW k \in Keys, ConsumeToken(k) PROVE InviteUsedMeansIssued'
  BY <1>2 DEF ConsumeToken, UpdateToken, CallStep, IndInv, TypeOK, CallInv,
      InviteUsedMeansIssued, processVars, inviteVars, callVars, cacheVars
<1>3. ASSUME NEW k \in Keys, StoreAPIKey(k) PROVE InviteUsedMeansIssued'
  BY <1>3 DEF StoreAPIKey, InsertKey, CallStep, IndInv, TypeOK, CallInv,
      InviteUsedMeansIssued, processVars, inviteVars, callVars, cacheVars
<1>4. ASSUME NEW k \in Keys, ConsumeInvite(k) PROVE InviteUsedMeansIssued'
  BY <1>4 DEF ConsumeInvite, CallStep, IndInv, TypeOK, CallInv,
      InviteUsedMeansIssued, processVars, inviteVars, callVars, cacheVars
<1>5. ASSUME NEW k \in Keys, IssueKey(k) PROVE InviteUsedMeansIssued'
  BY <1>5 DEF IssueKey, InsertKey, CallStep, IndInv, TypeOK, CallInv,
      InviteUsedMeansIssued, processVars, inviteVars, callVars, cacheVars
<1>6. ASSUME NEW k \in Keys, DeleteAPIKey(k) PROVE InviteUsedMeansIssued'
  BY <1>6 DEF DeleteAPIKey, IndInv, TypeOK, CallInv, InviteUsedMeansIssued,
      processVars, inviteVars, callVars, cacheVars
<1>7. CASE UNCHANGED <<via, keyRow, invites>>
  BY <1>7 DEF IndInv, TypeOK, CallInv, InviteUsedMeansIssued
<1> QED
  BY <1>1, <1>2, <1>3, <1>4, <1>5, <1>6, <1>7 DEF Next, Exchange, Lookup,
      Boot, Mint, InsertToken, ShowToken, Crash, InviteExpires, Reply,
      LookupSelect, LookupStore, CacheExpires, CallStep, processVars,
      inviteVars, callVars, cacheVars

\* IndInv is an invariant.
LEMMA Invariance == Spec => []IndInv
<1>1. IndInv /\ [Next]_vars => IndInv'
  <2>1. CASE Next
    BY <2>1, TypeStep, CallStepInv, ClaimStep, LockStep, MintStep, InviteStep
        DEF IndInv
  <2>2. CASE UNCHANGED vars
    BY <2>2 DEF IndInv, TypeOK, CallInv, ClaimInv, Claims, LockInv, MintInv,
        InviteUsedMeansIssued, vars, processVars, inviteVars, callVars,
        cacheVars
  <2> QED
    BY <2>1, <2>2
<1> QED
  BY <1>1, InitIndInv, PTL DEF Spec

-----------------------------------------------------------------------------
(* The theorems. *)

\* Every variable of the enrolment keeps to its domain.
THEOREM TypeCorrect == Spec => []TypeOK
<1>1. IndInv => TypeOK
  BY DEF IndInv
<1> QED
  BY <1>1, Invariance, PTL

\* However many calls race, a setup token or an invite issues at most one key
\* (ConsumeToken, ConsumeAndIssueKey).
THEOREM KeysAreIssuedOnce == Spec => []IssuedOnce
<1>1. IndInv => IssuedOnce
  BY DEF IndInv, ClaimInv, Claims, IssuedOnce
<1> QED
  BY <1>1, Invariance, PTL

\* The transaction of ConsumeAndIssueKey never burns an invite without a key.
THEOREM InvitesAreNotBurned == Spec => []InviteUsedMeansIssued
<1>1. IndInv => InviteUsedMeansIssued
  BY DEF IndInv
<1> QED
  BY <1>1, Invariance, PTL

\* A key given to a client is stored and its credential is spent (the two
\* exchange handlers).
THEOREM GivenKeysAreStored == Spec => []GivenKeyIsStored
<1>1. IndInv => GivenKeyIsStored
  BY SMTT(30) DEF IndInv, TypeOK, CallInv, ClaimInv, Claims, InviteUsedMeansIssued,
      GivenKeyIsStored, Credentials
<1> QED
  BY <1>1, Invariance, PTL

\* A gateway that starts to serve has a live key or an open setup token (the
\* bootstrap of main, after any crash of an earlier process).
THEOREM BootstrapLeavesAWayIn == Spec => BootLeavesAWayIn
<1> DEFINE WayIn == \/ \E k \in Keys : keyRow[k] = "live"
                    \/ \E t \in Tokens : tokens[t] = "open"
<1>1. IndInv /\ [Next]_vars => [gw # "up" /\ gw' = "up" => WayIn]_vars
  <2> SUFFICES ASSUME IndInv, Next, gw # "up", gw' = "up"
               PROVE  WayIn
    OBVIOUS
  <2>1. CASE Boot
    BY <2>1 DEF Boot, HasAnyKey, HasAnyToken
  <2>2. CASE ShowToken
    BY <2>2 DEF ShowToken, IndInv, MintInv
  <2> QED
    BY <2>1, <2>2 DEF Next, Exchange, Lookup, Mint, InsertToken, Crash,
        CreateInvite, InsertInvite, InviteExpires, ConsumeToken, UpdateToken,
        StoreAPIKey, InsertKey, ConsumeInvite, IssueKey, Reply, LookupSelect,
        LookupStore, CacheExpires, DeleteAPIKey, CallStep, processVars
<1> QED
  BY <1>1, Invariance, PTL DEF Spec, BootLeavesAWayIn

=============================================================================
