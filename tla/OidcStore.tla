----------------------------- MODULE OidcStore -----------------------------
(***************************************************************************)
(* The token store of the OIDC provider: refresh tokens and grants as      *)
(* OidcModelAdapter keeps them in oidc_model, the lifetimes that           *)
(* buildOidcConfiguration and resolveRefreshTokenTtl give them, rotation,  *)
(* and the hourly OidcPurgeService.  A client stands for one chain of      *)
(* refresh tokens, that is, for one grant of one member.                   *)
(***************************************************************************)
EXTENDS Integers, Sequences, FiniteSets

CONSTANTS OPublic, OConfidential,   \* clients, by token_endpoint_auth_method
          OConfigured,              \* refresh_token_ttl_seconds; 0: not set
          ORefreshTtl, OGrantTtl, OInteractionTtl,
          ORequests,                \* refresh requests that may overlap
          OBatchSize, OMaxBatches,
          OMaxTime, OMaxTokens      \* bounds of the clock and of the table

OClients == OPublic \cup OConfidential

ASSUME OClientsAssumption == OPublic \cap OConfidential = {}
ASSUME ONumbersAssumption ==
  /\ OConfigured \in [OClients -> Nat]
  /\ {ORefreshTtl, OGrantTtl, OInteractionTtl, OBatchSize, OMaxBatches,
      OMaxTime, OMaxTokens} \subseteq Nat \ {0}

VARIABLES oNow,     \* the clock, which the database and every pod share
          oTok,     \* refresh tokens, in the order they were saved
          oGrant,   \* expires_at of each client's Grant row, 0 for none
          oInt,     \* expires_at of the clients' upstream interactions, 0 for none
          oActive,  \* whether the member is active
          oReq,     \* the token each refresh request has found
          oPurge    \* batches the running purge has done, or -1
oVars == <<oNow, oTok, oGrant, oInt, oActive, oReq, oPurge>>

\* A row of oidc_model: the expiry in its payload, whether expires_at was set
\* to it or left NULL, and the expiry of the first token of the chain.
OTokenRow == [client : OClients, exp : Nat, dated : BOOLEAN, consumed : BOOLEAN,
              live : BOOLEAN, limit : Nat]

OTypeOK ==
  /\ oNow \in 1 .. OMaxTime
  /\ oTok \in Seq(OTokenRow)
  /\ oGrant \in [OClients -> Nat] /\ oInt \in [OClients -> Nat]
  /\ oActive \in BOOLEAN
  /\ oReq \in [ORequests -> 0 .. OMaxTokens]
  /\ oPurge \in -1 .. OMaxBatches

OInit ==
  /\ oNow = 1
  /\ oTok = << >>
  /\ oGrant = [c \in OClients |-> 0] /\ oInt = [c \in OClients |-> 0]
  /\ oActive = TRUE
  /\ oReq = [r \in ORequests |-> 0]
  /\ oPurge = -1

-----------------------------------------------------------------------------
(* Lifetimes and look-ups.                                                  *)

\* resolveRefreshTokenTtl: the client's own window, or the server's...
OWindow(c) == IF OConfigured[c] > 0 THEN OConfigured[c] ELSE ORefreshTtl
\* MUTANT of OResolveRefreshTokenTtl: every rotation has the whole window.
OResolveRefreshTokenTtl_Sliding(c, remaining) == OWindow(c)

\* ... which a public client's rotated token only has as far as it remains.
OResolveRefreshTokenTtl(c, remaining) ==
  IF c \in OPublic /\ remaining < OWindow(c) THEN remaining ELSE OWindow(c)

\* toPayloadIfActive: a row is found until the instant it expires.
OFound(exp) == exp > oNow
OFind(i) == oTok[i].live /\ OFound(oTok[i].exp)

\* upsert of a new refresh token: a lifetime that is not positive has no date.
OSave(c, ttl, limit) ==
  Append(oTok, [client |-> c, exp |-> oNow + ttl, dated |-> ttl > 0,
                consumed |-> FALSE, live |-> TRUE, limit |-> limit])

-----------------------------------------------------------------------------
(* Logins and refreshes.                                                    *)

\* A login leaves an upstream interaction, a grant and a refresh token.
OLogin(c) ==
  LET ttl == OWindow(c)
  IN  /\ ~\E i \in DOMAIN oTok : oTok[i].client = c
      /\ oActive /\ Len(oTok) < OMaxTokens
      /\ oGrant' = [oGrant EXCEPT ![c] = oNow + OGrantTtl]
      /\ oInt' = [oInt EXCEPT ![c] = oNow + OInteractionTtl]
      /\ oTok' = OSave(c, ttl, oNow + ttl)
      /\ UNCHANGED <<oNow, oActive, oReq, oPurge>>

\* A refresh request finds its token, its grant and (findAccount) its member.
ORefreshFind(r, i) ==
  /\ oReq[r] = 0
  /\ OFind(i) /\ OFound(oGrant[oTok[i].client]) /\ oActive
  /\ oReq' = [oReq EXCEPT ![r] = i]
  /\ UNCHANGED <<oNow, oTok, oGrant, oInt, oActive, oPurge>>

\* revokeByGrantId, model by model.
ORevokeGrant(c) ==
  /\ oTok' = [i \in DOMAIN oTok |->
                IF oTok[i].client = c THEN [oTok[i] EXCEPT !.live = FALSE] ELSE oTok[i]]
  /\ oGrant' = [oGrant EXCEPT ![c] = 0]

\* It was consumed: the provider takes that for a replay and revokes the grant.
\* Otherwise consume() marks it and the next token of the chain is saved; the
\* request found it a moment ago, so another one may have consumed it since.
ORefreshRotate(r) ==
  LET i == oReq[r]
      t == oTok[i]
      remaining == t.exp - oNow
  IN  /\ i # 0 /\ Len(oTok) < OMaxTokens
      /\ oReq' = [oReq EXCEPT ![r] = 0]
      /\ IF ~t.live THEN UNCHANGED <<oTok, oGrant>>
         ELSE \/ t.consumed /\ ORevokeGrant(t.client)
              \/ /\ oTok' = [OSave(t.client, OResolveRefreshTokenTtl(t.client, remaining),
                               t.limit)
                               EXCEPT ![i].consumed = TRUE]
                 /\ UNCHANGED oGrant
      /\ UNCHANGED <<oNow, oInt, oActive, oPurge>>

OSuspendMember ==
  /\ oActive /\ oActive' = FALSE
  /\ UNCHANGED <<oNow, oTok, oGrant, oInt, oReq, oPurge>>

OTick == /\ oNow < OMaxTime /\ oNow' = oNow + 1
         /\ UNCHANGED <<oTok, oGrant, oInt, oActive, oReq, oPurge>>

-----------------------------------------------------------------------------
(* purgeExpiredModels: at most one run at a time ('exclusive' queue).       *)

\* The rows a batch may delete: expires_at < now().
OExpired(exp) == 0 < exp /\ exp < oNow
OExpiredTokens == {i \in DOMAIN oTok : oTok[i].live /\ oTok[i].dated /\ OExpired(oTok[i].exp)}
OExpiredOf(table) == {c \in OClients : OExpired(table[c])}

\* At most a batch of the rows, those that expired first.
OBatches(exp) ==
  LET rows == DOMAIN exp
  IN  {b \in SUBSET rows : /\ Cardinality(b) <= OBatchSize
                           /\ Cardinality(b) = OBatchSize \/ b = rows
                           /\ \A x \in b, y \in rows \ b : exp[x] <= exp[y]}

OPurgeStart ==
  /\ oPurge = -1
  /\ oPurge' = 0
  /\ UNCHANGED <<oNow, oTok, oGrant, oInt, oActive, oReq>>

OCleared(table, cs) == [c \in OClients |-> IF c \in cs THEN 0 ELSE table[c]]

\* purgeExpiredBatch: tokens and grants share oidc_model and its batch.
OModelBatches ==
  OBatches([x \in (OExpiredTokens \X {"token"}) \cup (OExpiredOf(oGrant) \X {"grant"}) |->
              IF x[2] = "token" THEN oTok[x[1]].exp ELSE oGrant[x[1]]])

ODeleteModels(b) ==
  /\ oTok' = [i \in DOMAIN oTok |-> IF <<i, "token">> \in b
                                   THEN [oTok[i] EXCEPT !.live = FALSE] ELSE oTok[i]]
  /\ oGrant' = OCleared(oGrant, {c \in OClients : <<c, "grant">> \in b})

\* purgeExpiredUpstreamInteractionsBatch.
OInteractionBatches == OBatches([c \in OExpiredOf(oInt) |-> oInt[c]])

\* MUTANT of OPurgeBatch: interactions are purged only in a turn that also
\* deleted model rows.
OPurgeBatch_ModelsFirst ==
  /\ oPurge >= 0
  /\ \E b \in OModelBatches, ib \in OInteractionBatches :
       /\ ODeleteModels(b)
       /\ oInt' = IF b = {} THEN oInt ELSE OCleared(oInt, ib)
       /\ oPurge' = IF b # {} /\ oPurge + 1 < OMaxBatches THEN oPurge + 1 ELSE -1
  /\ UNCHANGED <<oNow, oActive, oReq>>

\* One turn of the loop: the turn counts the rows of oidc_model only, and the
\* job stops when there were none.
OPurgeBatch ==
  /\ oPurge >= 0
  /\ \E b \in OModelBatches, ib \in OInteractionBatches :
       /\ ODeleteModels(b)
       /\ oInt' = OCleared(oInt, ib)
       /\ oPurge' = IF b # {} /\ oPurge + 1 < OMaxBatches THEN oPurge + 1 ELSE -1
  /\ UNCHANGED <<oNow, oActive, oReq>>

\* A statement of the turn fails and the job throws: what the turn had already
\* deleted of oidc_model stays deleted, and the next schedule tries again.
OPurgeFails ==
  /\ oPurge >= 0
  /\ oPurge' = -1
  /\ \E b \in OModelBatches \cup {{}} : ODeleteModels(b)
  /\ UNCHANGED <<oNow, oInt, oActive, oReq>>

ONext ==
  \/ \E c \in OClients : OLogin(c)
  \/ \E r \in ORequests : (\E i \in DOMAIN oTok : ORefreshFind(r, i)) \/ ORefreshRotate(r)
  \/ OSuspendMember \/ OTick \/ OPurgeStart \/ OPurgeBatch \/ OPurgeFails

\* The hourly schedule, and turns that do not fail every time.
OFairness == WF_oVars(OPurgeStart) /\ SF_oVars(OPurgeBatch)

OSpec == OInit /\ [][ONext]_oVars /\ OFairness

-----------------------------------------------------------------------------
(* Properties.                                                              *)

\* However often a public client rotates its refresh token, and with requests
\* that overlap, no token of the chain outlives the first one
\* (resolveRefreshTokenTtl caps it by the remaining lifetime).
OPublicChainCapped ==
  \A i \in DOMAIN oTok : oTok[i].client \in OPublic => oTok[i].exp <= oTok[i].limit

\* The purge never takes a row that find() would still have returned: the two
\* tests of expiry agree at the boundary (purgeExpiredBatch, toPayloadIfActive).
OPurgeInvisible ==
  [][OPurgeBatch => /\ \A i \in DOMAIN oTok : OFind(i) => oTok'[i].live
                    /\ \A c \in OClients : OFound(oGrant[c]) => oGrant'[c] = oGrant[c]]_oVars

\* Every row whose expires_at has passed goes in the end, upstream interactions too, though the loop
\* counts the rows of oidc_model only and stops after OMaxBatches batches.
OExpiredPurged ==
  /\ \A c \in OClients : OExpired(oInt[c]) ~> ~OExpired(oInt[c])
  /\ \A i \in 1 .. OMaxTokens : (i \in OExpiredTokens) ~> (i \notin OExpiredTokens)

\* A chain of refresh tokens is bounded by the lifetime of its first one.
OStoreSound == OTypeOK /\ OPublicChainCapped

\* The purge takes what has expired: nothing else, and all of it in the end.
OPurgeExact == OPurgeInvisible /\ OExpiredPurged
=============================================================================
