---------------------------- MODULE PlatformProofs ----------------------------
(***************************************************************************)
(* Proofs about the calls to the Traction agents, for every number of      *)
(* connectors and calls and every policy, about the token store, for every *)
(* set of clients, lifetimes, overlapping requests and batch sizes, and    *)
(* about the rate limits, for every number of requests in flight.          *)
(***************************************************************************)
EXTENDS TractionClient, OidcStore, RateLimit, FiniteSetTheorems, WellFoundedInduction, TLAPS

------------------------------------------------------------------------------
(* The circuit breaker of TractionHttpClient.                               *)

LEMMA TIdleType ==
  /\ TIdle.at = "idle"
  /\ TIdle \in [connector : TConnectors, retries : 0 .. TRetries,
                at : {"idle", "attempt", "request", "probe", "waiting"}]
<1>1. (CHOOSE c \in TConnectors : TRUE) \in TConnectors
  BY TAssumption
<1> QED
  BY <1>1, TAssumption DEF TIdle

(* When a call settles, the others keep their stage or leave the waiting    *)
(* line: no test of the circuit begins, and no test but its own ends.       *)
LEMMA TSettleKeepsProbe ==
  ASSUME TCircuitSound, NEW k \in TCalls, NEW r, NEW b, TSettle(k, r, b),
         tCall[k].at \in {"request", "probe"},
         r \in [connector : TConnectors, retries : 0 .. TRetries,
                at : {"idle", "attempt"}],
         b \in [state : {"closed", "open", "halfOpen"}, failures : 0 .. TThreshold - 1,
                cool : 0 .. TCooldown],
         tCall[k].at = "probe" => b.state # "halfOpen",
         tCall[k].at # "probe" => (b.state = "halfOpen" <=> tBreaker.state = "halfOpen")
  PROVE  /\ tBreaker' = b
         /\ tCall' \in [TCalls -> [connector : TConnectors, retries : 0 .. TRetries,
                             at : {"idle", "attempt", "request", "probe", "waiting"}]]
         /\ TOneProbe'
<1> USE DEF TCircuitSound, TTypeOK
<1>1. /\ tBreaker' = b
      /\ tCall' \in [TCalls -> [connector : TConnectors, retries : 0 .. TRetries,
                             at : {"idle", "attempt", "request", "probe", "waiting"}]]
  BY TIdleType DEF TSettle
<1>2. \A l \in TCalls : tCall'[l].at = "probe" <=> l # k /\ tCall[l].at = "probe"
  BY TIdleType DEF TSettle
<1>3. \A l \in TCalls : tCall'[l].at = "waiting" => tCall[l].at = "waiting" /\ tCall[k].at # "probe"
  BY TIdleType DEF TSettle
<1>4. TOneProbe'
  BY <1>1, <1>2, <1>3 DEF TOneProbe, TProbing
<1> QED
  BY <1>1, <1>4

LEMMA TCountedType ==
  ASSUME TTypeOK, tBreaker.state = "closed"
  PROVE  /\ TCounted(tBreaker) \in [state : {"closed", "open", "halfOpen"},
                                    failures : 0 .. TThreshold - 1, cool : 0 .. TCooldown]
         /\ TCounted(tBreaker).state # "halfOpen"
BY TAssumption DEF TTypeOK, TCounted, TOpen

(* The one circuit every tenant's connectors share is sound, whatever       *)
(* calls, late answers, failing endpoints and clock ticks interleave: half  *)
(* open exactly while one call, and no other, tests it, which is what any   *)
(* call that waits is waiting for (TractionHttpClient).                     *)
THEOREM CircuitSound == TSpec => []TCircuitSound
<1>1. TInit => TCircuitSound
  BY TIdleType, TAssumption DEF TInit, TCircuitSound, TTypeOK, TOneProbe, TProbing, TClosed
<1>2. TCircuitSound /\ [TNext]_tVars => TCircuitSound'
  <2> SUFFICES ASSUME TCircuitSound, [TNext]_tVars PROVE TCircuitSound'
    OBVIOUS
  <2> USE DEF TCircuitSound, TTypeOK
  <2>1. ASSUME NEW k \in TCalls, NEW c \in TConnectors, TGetToken(k, c) PROVE TCircuitSound'
    BY <2>1, TAssumption DEF TGetToken, TOneProbe, TProbing
  <2>2. ASSUME NEW k \in TCalls, TAttempt(k) PROVE TCircuitSound'
    BY <2>2, TIdleType DEF TAttempt, TOneProbe, TProbing
  <2>3. ASSUME NEW k \in TCalls, TSucceed(k) PROVE TCircuitSound'
    <3> DEFINE b == IF tCall[k].at = "probe" \/ tBreaker.state = "closed"
                    THEN TClosed ELSE tBreaker
    <3>1. /\ b \in [state : {"closed", "open", "halfOpen"}, failures : 0 .. TThreshold - 1,
                    cool : 0 .. TCooldown]
          /\ tCall[k].at = "probe" => b.state # "halfOpen"
          /\ tCall[k].at # "probe" => (b.state = "halfOpen" <=> tBreaker.state = "halfOpen")
      BY TAssumption DEF TClosed
    <3>2. TSettle(k, TIdle, b) /\ tCall[k].at \in {"request", "probe"} /\ tUp' = tUp
      BY <2>3 DEF TSucceed
    <3> HIDE DEF b
    <3>3. tToken' \in [TConnectors -> 0 .. TLife]
      BY <2>3, TAssumption DEF TSucceed, TReadExpiry
    <3> QED
      BY <3>1, <3>2, <3>3, TSettleKeepsProbe, TIdleType DEF TIdle
  <2>4. ASSUME NEW k \in TCalls, TFailRetryable(k) PROVE TCircuitSound'
    <3> DEFINE b == IF tCall[k].at = "probe" THEN TOpen
                    ELSE IF tBreaker.state = "closed" THEN TCounted(tBreaker) ELSE tBreaker
               r == IF tCall[k].retries < TRetries
                    THEN [tCall[k] EXCEPT !.at = "attempt", !.retries = @ + 1] ELSE TIdle
    <3>1. /\ b \in [state : {"closed", "open", "halfOpen"}, failures : 0 .. TThreshold - 1,
                    cool : 0 .. TCooldown]
          /\ tCall[k].at = "probe" => b.state # "halfOpen"
          /\ tCall[k].at # "probe" => (b.state = "halfOpen" <=> tBreaker.state = "halfOpen")
      BY TAssumption, TCountedType DEF TOpen
    <3>2. TSettle(k, r, b) /\ tCall[k].at \in {"request", "probe"} /\ tUp' = tUp /\ tToken' = tToken
      BY <2>4 DEF TFailRetryable
    <3>3. r \in [connector : TConnectors, retries : 0 .. TRetries, at : {"idle", "attempt"}]
      <4>1. tCall[k].retries < TRetries => tCall[k].retries + 1 \in 0 .. TRetries
        BY TAssumption
      <4> QED
        BY <4>1, TIdleType DEF TIdle
    <3> HIDE DEF b, r
    <3> QED
      BY <3>1, <3>2, <3>3, TSettleKeepsProbe
  <2>5. ASSUME NEW k \in TCalls, TFailOther(k) PROVE TCircuitSound'
    <3> DEFINE b == IF tCall[k].at = "probe" THEN TClosed ELSE tBreaker
    <3>1. /\ b \in [state : {"closed", "open", "halfOpen"}, failures : 0 .. TThreshold - 1,
                    cool : 0 .. TCooldown]
          /\ tCall[k].at = "probe" => b.state # "halfOpen"
          /\ tCall[k].at # "probe" => (b.state = "halfOpen" <=> tBreaker.state = "halfOpen")
      BY TAssumption DEF TClosed
    <3>2. TSettle(k, TIdle, b) /\ tCall[k].at \in {"request", "probe"} /\ tUp' = tUp /\ tToken' = tToken
      BY <2>5 DEF TFailOther
    <3> HIDE DEF b
    <3> QED
      BY <3>1, <3>2, TSettleKeepsProbe, TIdleType DEF TIdle
  <2>6. ASSUME NEW c \in TConnectors, TFlip(c) PROVE TCircuitSound'
    BY <2>6 DEF TFlip, TOneProbe, TProbing
  <2>7. CASE TTick
    <3>1. tBreaker' \in [state : {"closed", "open", "halfOpen"}, failures : 0 .. TThreshold - 1,
                         cool : 0 .. TCooldown] /\ tBreaker'.state = tBreaker.state
      BY <2>7, TAssumption DEF TTick, TLess
    <3>2. tToken' \in [TConnectors -> 0 .. TLife]
      BY <2>7, TAssumption DEF TTick, TLess
    <3> QED
      BY <2>7, <3>1, <3>2 DEF TTick, TOneProbe, TProbing
  <2>8. CASE UNCHANGED tVars
    BY <2>8 DEF tVars, TOneProbe, TProbing
  <2> QED
    BY <2>1, <2>2, <2>3, <2>4, <2>5, <2>6, <2>7, <2>8 DEF TNext, TStep
<1> QED
  BY <1>1, <1>2, PTL DEF TSpec

------------------------------------------------------------------------------
(* The chain of refresh tokens, and the purge of the token store.           *)

(* An update of the rows in place leaves a sequence of rows.                *)
LEMMA OUpdateType ==
  ASSUME NEW s \in Seq(OTokenRow), NEW t, DOMAIN t = DOMAIN s,
         t = [i \in DOMAIN s |-> t[i]], \A i \in DOMAIN s : t[i] \in OTokenRow
  PROVE  t \in Seq(OTokenRow)
<1>1. DOMAIN s = 1 .. Len(s) /\ Len(s) \in Nat
  OBVIOUS
<1>2. t \in [1 .. Len(s) -> OTokenRow]
  BY <1>1
<1> QED
  BY <1>1, <1>2 DEF Seq

(* A saved token is a new last row.                                         *)
LEMMA OAppendType ==
  ASSUME NEW s \in Seq(OTokenRow), NEW row \in OTokenRow
  PROVE  /\ Append(s, row) \in Seq(OTokenRow) /\ Len(Append(s, row)) = Len(s) + 1
         /\ \A j \in DOMAIN Append(s, row) :
              /\ Append(s, row)[j] = IF j = Len(s) + 1 THEN row ELSE s[j]
              /\ j # Len(s) + 1 => j \in DOMAIN s
         /\ DOMAIN s \subseteq DOMAIN Append(s, row)
OBVIOUS

(* What a client's rotated token is given never takes it beyond the token   *)
(* it replaces if the client is public, and its expiry is a natural number. *)
LEMMA OTtlCapped ==
  ASSUME NEW c \in OClients, NEW exp \in Nat, NEW now \in Nat
  PROVE  /\ OWindow(c) \in Nat
         /\ now + OResolveRefreshTokenTtl(c, exp - now) \in Nat
         /\ c \in OPublic => now + OResolveRefreshTokenTtl(c, exp - now) <= exp
BY ONumbersAssumption DEF OWindow, OResolveRefreshTokenTtl

(* The inductive invariant: a request also names a row of the table.        *)
OChainInv ==
  /\ OStoreSound
  /\ Len(oTok) <= OMaxTokens
  /\ \A r \in ORequests : oReq[r] <= Len(oTok)

(* The rows that expired at the batch's clock are the only ones it takes,   *)
(* and it takes them whole.                                                 *)
LEMMA ODeletedRows ==
  ASSUME OTypeOK, NEW b, ODeleteModels(b)
  PROVE  /\ oTok' \in Seq(OTokenRow) /\ Len(oTok') = Len(oTok)
         /\ \A i \in DOMAIN oTok : /\ oTok'[i].client = oTok[i].client
                                   /\ oTok'[i].exp = oTok[i].exp
                                   /\ oTok'[i].limit = oTok[i].limit
         /\ DOMAIN oTok' = DOMAIN oTok /\ oGrant' \in [OClients -> Nat]
<1>1. \A i \in DOMAIN oTok : oTok[i] \in OTokenRow
  BY DEF OTypeOK
<1>2. \A i \in DOMAIN oTok : /\ oTok'[i] \in OTokenRow
                             /\ oTok'[i].client = oTok[i].client
                             /\ oTok'[i].exp = oTok[i].exp
                             /\ oTok'[i].limit = oTok[i].limit
  BY <1>1 DEF ODeleteModels, OTokenRow
<1>3. DOMAIN oTok' = DOMAIN oTok /\ oTok' = [i \in DOMAIN oTok |-> oTok'[i]]
  BY DEF ODeleteModels
<1>4. oTok' \in Seq(OTokenRow)
  BY <1>2, <1>3, OUpdateType DEF OTypeOK
<1>5. Len(oTok') = Len(oTok)
  BY <1>3, <1>4 DEF OTypeOK
<1>6. oGrant' \in [OClients -> Nat]
  BY DEF ODeleteModels, OCleared, OTypeOK
<1> QED
  BY <1>2, <1>3, <1>4, <1>5, <1>6

(* A public client's chain of refresh tokens ends when its first token      *)
(* would have, with any number of overlapping refresh requests and whatever *)
(* the purge and revocations delete (resolveRefreshTokenTtl).               *)
THEOREM ChainsCapped == OSpec => []OStoreSound
<1>1. OInit => OChainInv
  BY ONumbersAssumption DEF OInit, OChainInv, OStoreSound, OTypeOK, OPublicChainCapped
<1>2. OChainInv /\ [ONext]_oVars => OChainInv'
  <2> SUFFICES ASSUME OChainInv, [ONext]_oVars PROVE OChainInv'
    OBVIOUS
  <2> USE DEF OChainInv, OStoreSound, OTypeOK, OPublicChainCapped
  <2>0. oNow \in Nat /\ oNow > 0 /\ OMaxTime \in Nat /\ OMaxTokens \in Nat
        /\ OMaxBatches \in Nat /\ OMaxBatches > 0
    BY ONumbersAssumption
  <2>1. ASSUME NEW c \in OClients, OLogin(c) PROVE OChainInv'
    <3> DEFINE row == [client |-> c, exp |-> oNow + OWindow(c), dated |-> OWindow(c) > 0,
                       consumed |-> FALSE, live |-> TRUE, limit |-> oNow + OWindow(c)]
    <3>1. OWindow(c) \in Nat /\ OGrantTtl \in Nat /\ OInteractionTtl \in Nat
      BY ONumbersAssumption DEF OWindow
    <3>2. row \in OTokenRow
      BY <2>0, <3>1 DEF OTokenRow
    <3>3. oTok' = Append(oTok, row) /\ Len(oTok) < OMaxTokens
      BY <2>1 DEF OLogin, OSave
    <3>4. row.exp <= row.limit
      BY <2>0, <3>1
    <3> HIDE DEF row
    <3>5. /\ oTok' \in Seq(OTokenRow) /\ Len(oTok') = Len(oTok) + 1
          /\ \A i \in DOMAIN oTok' : oTok'[i] = IF i = Len(oTok) + 1 THEN row ELSE oTok[i]
          /\ \A i \in DOMAIN oTok' : i # Len(oTok) + 1 => i \in DOMAIN oTok
      BY <3>2, <3>3, OAppendType
    <3>6. OPublicChainCapped'
      BY <3>4, <3>5
    <3>7. oGrant' \in [OClients -> Nat] /\ oInt' \in [OClients -> Nat]
      BY <2>0, <2>1, <3>1 DEF OLogin
    <3> QED
      BY <2>0, <2>1, <3>3, <3>5, <3>6, <3>7 DEF OLogin
  <2>2. ASSUME NEW r \in ORequests, NEW i \in DOMAIN oTok, ORefreshFind(r, i) PROVE OChainInv'
    BY <2>0, <2>2 DEF ORefreshFind
  <2>3. ASSUME NEW r \in ORequests, ORefreshRotate(r) PROVE OChainInv'
    <3> DEFINE i == oReq[r]
               t == oTok[i]
               ttl == OResolveRefreshTokenTtl(t.client, t.exp - oNow)
               row == [client |-> t.client, exp |-> oNow + ttl, dated |-> ttl > 0,
                       consumed |-> FALSE, live |-> TRUE, limit |-> t.limit]
    <3>1. i \in DOMAIN oTok /\ t \in OTokenRow /\ Len(oTok) < OMaxTokens
      BY <2>0, <2>3 DEF ORefreshRotate
    <3>2. \A j \in ORequests : oReq'[j] \in 0 .. OMaxTokens /\ oReq'[j] <= Len(oTok)
      BY <2>0, <2>3 DEF ORefreshRotate
    <3>3. UNCHANGED <<oNow, oInt, oActive, oPurge>> /\ oReq' \in [ORequests -> 0 .. OMaxTokens]
      BY <2>0, <2>3 DEF ORefreshRotate
    <3>4. CASE UNCHANGED <<oTok, oGrant>>
      BY <3>2, <3>3, <3>4
    <3>5. CASE ORevokeGrant(t.client)
      <4>1. \A j \in DOMAIN oTok : oTok[j] \in OTokenRow
        OBVIOUS
      <4>2. \A j \in DOMAIN oTok : /\ oTok'[j] \in OTokenRow
                                   /\ oTok'[j].client = oTok[j].client
                                   /\ oTok'[j].exp = oTok[j].exp
                                   /\ oTok'[j].limit = oTok[j].limit
        BY <3>5, <4>1 DEF ORevokeGrant, OTokenRow
      <4>3. DOMAIN oTok' = DOMAIN oTok /\ oTok' = [j \in DOMAIN oTok |-> oTok'[j]]
        BY <3>5 DEF ORevokeGrant
      <4>4. oTok' \in Seq(OTokenRow)
        BY <4>2, <4>3, OUpdateType
      <4>5. Len(oTok') = Len(oTok)
        BY <4>3, <4>4
      <4>6. oGrant' \in [OClients -> Nat]
        BY <3>1, <3>5 DEF ORevokeGrant, OTokenRow
      <4> QED
        BY <3>2, <3>3, <4>2, <4>3, <4>4, <4>5, <4>6
    <3>6. CASE oTok' = [Append(oTok, row) EXCEPT ![i].consumed = TRUE] /\ oGrant' = oGrant
      <4>1. t.client \in OClients /\ t.exp \in Nat /\ t.limit \in Nat
        BY <3>1 DEF OTokenRow
      <4>2. /\ oNow + ttl \in Nat
            /\ t.client \in OPublic => oNow + ttl <= t.exp
        BY <2>0, <4>1, OTtlCapped
      <4> HIDE DEF ttl
      <4>3. row \in OTokenRow
        BY <4>1, <4>2 DEF OTokenRow
      <4>4. row.client \in OPublic => row.exp <= row.limit
        BY <2>0, <3>1, <4>1, <4>2
      <4> HIDE DEF row
      <4> DEFINE s == Append(oTok, row)
      <4>5. /\ s \in Seq(OTokenRow) /\ Len(s) = Len(oTok) + 1
            /\ \A j \in DOMAIN s : s[j] = IF j = Len(oTok) + 1 THEN row ELSE oTok[j]
            /\ \A j \in DOMAIN s : j # Len(oTok) + 1 => j \in DOMAIN oTok
            /\ DOMAIN oTok \subseteq DOMAIN s
        BY <4>3, OAppendType
      <4>6. \A j \in DOMAIN s : s[j] \in OTokenRow /\ (s[j].client \in OPublic => s[j].exp <= s[j].limit)
        BY <4>3, <4>4, <4>5
      <4>7. i \in DOMAIN s
        BY <3>1, <4>5
      <4> HIDE DEF s
      <4>8. oTok' = [s EXCEPT ![i].consumed = TRUE]
        BY <3>6 DEF s
      <4>9. \A j \in DOMAIN s : /\ oTok'[j] \in OTokenRow
                                /\ oTok'[j].client = s[j].client
                                /\ oTok'[j].exp = s[j].exp
                                /\ oTok'[j].limit = s[j].limit
        BY <4>6, <4>7, <4>8 DEF OTokenRow
      <4>10. DOMAIN oTok' = DOMAIN s /\ oTok' = [j \in DOMAIN s |-> oTok'[j]]
        BY <4>8
      <4>11. oTok' \in Seq(OTokenRow)
        BY <4>5, <4>9, <4>10, OUpdateType
      <4>12. Len(oTok') = Len(oTok) + 1
        BY <4>5, <4>10, <4>11
      <4>13. OPublicChainCapped'
        BY <4>6, <4>9, <4>10
      <4>14. \A j \in ORequests : oReq'[j] <= Len(oTok')
        BY <3>2, <4>12
      <4>15. Len(oTok') <= OMaxTokens
        BY <2>0, <3>1, <4>12
      <4>16. OTypeOK'
        BY <3>3, <3>6, <4>11
      <4> QED
        BY <4>13, <4>14, <4>15, <4>16
    <3> QED
      BY <2>3, <3>4, <3>5, <3>6 DEF ORefreshRotate, OSave
  <2>4. CASE OSuspendMember \/ OTick \/ OPurgeStart
    <3>1. UNCHANGED <<oTok, oGrant, oInt, oReq>> /\ oActive' \in BOOLEAN
      BY <2>4 DEF OSuspendMember, OTick, OPurgeStart
    <3>2. oNow' \in 1 .. OMaxTime /\ oPurge' \in -1 .. OMaxBatches
      BY <2>0, <2>4 DEF OSuspendMember, OTick, OPurgeStart
    <3> QED
      BY <3>1, <3>2
  <2>5. CASE OPurgeBatch \/ OPurgeFails
    <3>1. PICK b : ODeleteModels(b)
      BY <2>5 DEF OPurgeBatch, OPurgeFails
    <3>2. UNCHANGED <<oNow, oActive, oReq>> /\ oInt' \in [OClients -> Nat]
      BY <2>5 DEF OPurgeBatch, OPurgeFails, OCleared
    <3>3. oPurge' \in -1 .. OMaxBatches
      BY <2>0, <2>5 DEF OPurgeBatch, OPurgeFails
    <3>4. /\ oTok' \in Seq(OTokenRow) /\ Len(oTok') = Len(oTok)
          /\ DOMAIN oTok' = DOMAIN oTok /\ oGrant' \in [OClients -> Nat]
          /\ OPublicChainCapped'
      BY <3>1, ODeletedRows
    <3> QED
      BY <3>2, <3>3, <3>4
  <2>6. CASE UNCHANGED oVars
    BY <2>6 DEF oVars
  <2> QED
    BY <2>1, <2>2, <2>3, <2>4, <2>5, <2>6 DEF ONext
<1>3. OChainInv => OStoreSound
  BY DEF OChainInv
<1> QED
  BY <1>1, <1>2, <1>3, PTL DEF OSpec

(* The purge takes no row a request could still find, at any clock and for  *)
(* any batch: the strict test of the DELETE and the test of the look-up     *)
(* leave no instant at which both hold (the safety half of OPurgeExact).    *)
THEOREM PurgeInvisible == OSpec => OPurgeInvisible
<1>1. OStoreSound /\ [ONext]_oVars /\ OPurgeBatch
      => /\ \A i \in DOMAIN oTok : OFind(i) => oTok'[i].live
         /\ \A c \in OClients : OFound(oGrant[c]) => oGrant'[c] = oGrant[c]
  <2> SUFFICES ASSUME OStoreSound, OPurgeBatch
      PROVE  /\ \A i \in DOMAIN oTok : OFind(i) => oTok'[i].live
             /\ \A c \in OClients : OFound(oGrant[c]) => oGrant'[c] = oGrant[c]
    OBVIOUS
  <2> DEFINE rows == (OExpiredTokens \X {"token"}) \cup (OExpiredOf(oGrant) \X {"grant"})
  <2>1. PICK b \in OModelBatches : ODeleteModels(b)
    BY DEF OPurgeBatch
  <2>2. b \subseteq rows
    BY DEF OModelBatches, OBatches
  <2>3. ASSUME NEW i \in DOMAIN oTok, OFind(i) PROVE oTok'[i].live
    <3>0. oTok[i] \in OTokenRow /\ oNow \in Int
      BY DEF OStoreSound, OTypeOK
    <3>1. ~OExpired(oTok[i].exp) /\ oTok[i].live
      BY <2>3, <3>0 DEF OFind, OFound, OExpired, OTokenRow
    <3>2. <<i, "token">> \notin b
      BY <2>2, <3>1 DEF OExpiredTokens
    <3> QED
      BY <2>1, <3>1, <3>2 DEF ODeleteModels
  <2>4. ASSUME NEW c \in OClients, OFound(oGrant[c]) PROVE oGrant'[c] = oGrant[c]
    <3>1. ~OExpired(oGrant[c])
      BY <2>4 DEF OFound, OExpired, OStoreSound, OTypeOK
    <3>2. <<c, "grant">> \notin b
      BY <2>2, <3>1 DEF OExpiredOf
    <3> QED
      BY <2>1, <3>2 DEF ODeleteModels, OCleared
  <2> QED
    BY <2>3, <2>4
<1> QED
  BY <1>1, ChainsCapped, PTL DEF OSpec, OPurgeInvisible

-------------------------------------------------------------------------------
(* The rate limits.                                                         *)

(* Induction over the ages up to n, for a set of them.                      *)
LEMMA RAgeInduction ==
  ASSUME NEW n \in Nat, NEW T \in SUBSET (0 .. n), 0 \in T, \A i \in T : i < n => i + 1 \in T
  PROVE  T = 0 .. n
<1> SUFFICES ASSUME T # 0 .. n PROVE FALSE
  OBVIOUS
<1> DEFINE R == OpToRel(<, Nat)
           U == (0 .. n) \ T
<1>1. IsWellFoundedOn(R, Nat)
  BY NatLessThanWellFounded
<1>2. \A x, y \in Nat : x < y => <<x, y>> \in R
  BY DEF OpToRel
<1>3. U \in SUBSET Nat /\ U # {}
  <2>1. U # {}
    BY Zenon
  <2> QED
    BY <2>1
<1> HIDE DEF R
<1>4. PICK m \in U : \A y \in U : ~ (<<y, m>> \in R)
  BY <1>1, <1>3, WFMin
<1>5. m \in 1 .. n /\ m - 1 \in 0 .. n /\ m - 1 < m
  BY <1>4
<1>6. m - 1 \notin U
  BY <1>2, <1>3, <1>4, <1>5
<1>7. m - 1 \in T /\ m - 1 < n
  BY <1>5, <1>6
<1>8. m - 1 + 1 \in T
  BY <1>7
<1>9. m - 1 + 1 = m
  BY <1>5
<1> QED
  BY <1>4, <1>8, <1>9

(* s is the sums of f up to each age.                                       *)
RCounts(f, n) == \A a \in 0 .. n : f[a] \in Nat
RRuns(s, f, n) == s[0] = f[0] /\ \A a \in 1 .. n : s[a] = s[a - 1] + f[a]
RSums(s, f, n) == s = [a \in 0 .. n |-> IF a = 0 THEN f[0] ELSE s[a - 1] + f[a]]

LEMMA RSumsExist ==
  ASSUME NEW n \in Nat, NEW f, \A a \in 0 .. n : f[a] \in Nat
  PROVE  \E s \in [0 .. n -> Nat] : RSums(s, f, n)
<1> DEFINE Good(i) == \E s \in [0 .. i -> Nat] : s[0] = f[0] /\ \A a \in 1 .. i : s[a] = s[a - 1] + f[a]
           T == {i \in 0 .. n : Good(i)}
<1>1. 0 \in T
  <2> DEFINE s0 == [a \in 0 .. 0 |-> f[0]]
  <2>1. s0 \in [0 .. 0 -> Nat] /\ s0[0] = f[0] /\ \A a \in 1 .. 0 : s0[a] = s0[a - 1] + f[a]
    OBVIOUS
  <2> HIDE DEF s0
  <2>2. Good(0)
    BY <2>1
  <2> QED
    BY <2>2
<1>2. ASSUME NEW i \in T, i < n PROVE i + 1 \in T
  <2>1. PICK s \in [0 .. i -> Nat] : s[0] = f[0] /\ \A a \in 1 .. i : s[a] = s[a - 1] + f[a]
    OBVIOUS
  <2> DEFINE z == [a \in 0 .. i + 1 |-> IF a = i + 1 THEN s[i] + f[i + 1] ELSE s[a]]
  <2>2. i \in Nat /\ f[i + 1] \in Nat /\ i + 1 \in 0 .. n
    BY <1>2
  <2>3. s[i] + f[i + 1] \in Nat
    BY <2>2
  <2>4. /\ z \in [0 .. i + 1 -> Nat] /\ z[i + 1] = s[i] + f[i + 1]
        /\ \A a \in 0 .. i : z[a] = s[a]
    BY <2>2, <2>3
  <2> HIDE DEF z
  <2>5. z[0] = f[0]
    BY <2>1, <2>2, <2>4
  <2>6. ASSUME NEW a \in 1 .. i + 1 PROVE z[a] = z[a - 1] + f[a]
    <3>1. CASE a = i + 1
      <4>1. a - 1 = i /\ i \in 0 .. i
        BY <2>2, <3>1
      <4> QED
        BY <2>4, <3>1, <4>1
    <3>2. CASE a # i + 1
      <4>1. a \in 1 .. i /\ a \in 0 .. i /\ a - 1 \in 0 .. i
        BY <2>2, <3>2
      <4> QED
        BY <2>1, <2>4, <4>1
    <3> QED
      BY <3>1, <3>2
  <2>7. Good(i + 1)
    BY <2>4, <2>5, <2>6
  <2> QED
    BY <2>2, <2>7
<1>3. n \in T
  <2> HIDE DEF Good
  <2>1. T \in SUBSET (0 .. n)
    OBVIOUS
  <2> HIDE DEF T
  <2>2. T = 0 .. n
    BY <1>1, <1>2, <2>1, RAgeInduction
  <2> QED
    BY <2>2
<1>4. PICK s \in [0 .. n -> Nat] : s[0] = f[0] /\ \A a \in 1 .. n : s[a] = s[a - 1] + f[a]
  BY <1>3
<1>5. \A a \in 0 .. n : s[a] = IF a = 0 THEN f[0] ELSE s[a - 1] + f[a]
  BY <1>4
<1>6. s = [a \in 0 .. n |-> s[a]]
  OBVIOUS
<1>7. RSums(s, f, n)
  BY <1>5, <1>6 DEF RSums
<1> QED
  BY <1>7

(* The sum that the model takes is one of those.                            *)
LEMMA RSumAgesIs ==
  \A n \in Nat : \A f : RCounts(f, n) => \E s \in [0 .. n -> Nat] : RSumAges(f, n) = s[n] /\ RRuns(s, f, n)
<1> SUFFICES ASSUME NEW n \in Nat, NEW f, \A a \in 0 .. n : f[a] \in Nat
             PROVE  \E s \in [0 .. n -> Nat] : RSumAges(f, n) = s[n] /\ RRuns(s, f, n)
  BY DEF RCounts
<1> DEFINE s == CHOOSE z : z = [a \in 0 .. n |-> IF a = 0 THEN f[0] ELSE z[a - 1] + f[a]]
<1>1. RSumAges(f, n) = s[n]
  BY DEF RSumAges
<1>2. s = [a \in 0 .. n |-> IF a = 0 THEN f[0] ELSE s[a - 1] + f[a]]
  BY RSumsExist DEF RSums
<1> HIDE DEF s
<1>3. s[0] = f[0] /\ \A a \in 1 .. n : s[a] = s[a - 1] + f[a]
  BY <1>2
<1>4. s \in [0 .. n -> Nat]
  <2> DEFINE T == {i \in 0 .. n : s[i] \in Nat}
  <2>1. 0 \in T
    BY <1>3
  <2>2. ASSUME NEW i \in T, i < n PROVE i + 1 \in T
    <3>1. i + 1 \in 1 .. n /\ i + 1 - 1 = i /\ f[i + 1] \in Nat
      BY <2>2
    <3>2. s[i + 1] = s[i] + f[i + 1]
      BY <1>3, <3>1
    <3> QED
      BY <3>1, <3>2
  <2>3. T \in SUBSET (0 .. n)
    OBVIOUS
  <2>4. T = 0 .. n
    <3> HIDE DEF T
    <3> QED
      BY <2>1, <2>2, <2>3, RAgeInduction
  <2>5. \A i \in 0 .. n : s[i] \in Nat
    BY <2>4
  <2>6. s = [a \in 0 .. n |-> s[a]]
    BY <1>2
  <2> QED
    BY <2>5, <2>6
<1>5. RRuns(s, f, n)
  BY <1>3 DEF RRuns
<1> QED
  BY <1>1, <1>4, <1>5

(* What the proofs use of the sums.                                         *)
LEMMA RSumCompare ==
  ASSUME NEW n \in Nat, NEW f, \A a \in 0 .. n : f[a] \in Nat, NEW g, \A a \in 0 .. n : g[a] \in Nat
  PROVE  /\ RSumAges(f, n) \in Nat
         /\ (\A a \in 0 .. n : f[a] <= g[a]) => RSumAges(f, n) <= RSumAges(g, n)
         /\ (g[0] = f[0] + 1 /\ \A a \in 1 .. n : g[a] = f[a]) => RSumAges(g, n) = RSumAges(f, n) + 1
         /\ (g[0] = 0 /\ \A a \in 1 .. n : g[a] = f[a - 1]) => RSumAges(g, n) <= RSumAges(f, n)
         /\ (\A a \in 0 .. n : f[a] = 0) => RSumAges(f, n) = 0
<1>1. PICK y \in [0 .. n -> Nat] : RSumAges(f, n) = y[n] /\ RRuns(y, f, n)
  <2>1. RCounts(f, n)
    BY DEF RCounts
  <2> QED
    BY <2>1, RSumAgesIs, Zenon
<1>2. PICK z \in [0 .. n -> Nat] : RSumAges(g, n) = z[n] /\ RRuns(z, g, n)
  <2>1. RCounts(g, n)
    BY DEF RCounts
  <2> QED
    BY <2>1, RSumAgesIs, Zenon
<1>0. y[0] = f[0] /\ z[0] = g[0]
  BY <1>1, <1>2 DEF RRuns
<1>3. 0 \in 0 .. n /\ n \in 0 .. n /\ f[0] \in Nat /\ g[0] \in Nat
  OBVIOUS
<1>4. ASSUME NEW i \in 0 .. n, i < n
      PROVE  /\ i + 1 \in 0 .. n /\ i + 1 \in 1 .. n /\ f[i + 1] \in Nat /\ g[i + 1] \in Nat /\ f[i] \in Nat
             /\ y[i] \in Nat /\ z[i] \in Nat /\ y[i + 1] = y[i] + f[i + 1] /\ z[i + 1] = z[i] + g[i + 1]
  <2>1. i + 1 \in 0 .. n /\ i + 1 \in 1 .. n /\ i + 1 - 1 = i
    BY <1>4
  <2>2. y[i + 1] = y[i + 1 - 1] + f[i + 1] /\ z[i + 1] = z[i + 1 - 1] + g[i + 1]
    BY <1>1, <1>2, <2>1 DEF RRuns
  <2> QED
    BY <2>1, <2>2
<1>5. ASSUME \A a \in 0 .. n : f[a] <= g[a] PROVE y[n] <= z[n]
  <2> DEFINE T == {i \in 0 .. n : y[i] <= z[i]}
  <2>1. 0 \in T
    BY <1>0, <1>3, <1>5
  <2>2. ASSUME NEW i \in T, i < n PROVE i + 1 \in T
    <3>1. f[i + 1] <= g[i + 1] /\ y[i] <= z[i]
      BY <1>4, <1>5, <2>2
    <3> QED
      BY <1>4, <2>2, <3>1
  <2>3. T \in SUBSET (0 .. n)
    OBVIOUS
  <2>4. T = 0 .. n
    <3> HIDE DEF T
    <3> QED
      BY <2>1, <2>2, <2>3, RAgeInduction
  <2> QED
    BY <1>3, <2>4
<1>6. ASSUME g[0] = f[0] + 1, \A a \in 1 .. n : g[a] = f[a] PROVE z[n] = y[n] + 1
  <2> DEFINE T == {i \in 0 .. n : z[i] = y[i] + 1}
  <2>1. 0 \in T
    BY <1>0, <1>3, <1>6
  <2>2. ASSUME NEW i \in T, i < n PROVE i + 1 \in T
    <3>1. g[i + 1] = f[i + 1] /\ z[i] = y[i] + 1
      BY <1>4, <1>6, <2>2
    <3>2. y[i] \in Nat /\ f[i + 1] \in Nat /\ i + 1 \in 0 .. n /\ y[i + 1] = y[i] + f[i + 1] /\ z[i + 1] = z[i] + g[i + 1]
      BY <1>4, <2>2
    <3>3. z[i + 1] = y[i + 1] + 1
      BY <3>1, <3>2
    <3> QED
      BY <3>2, <3>3
  <2>3. T \in SUBSET (0 .. n)
    OBVIOUS
  <2>4. T = 0 .. n
    <3> HIDE DEF T
    <3> QED
      BY <2>1, <2>2, <2>3, RAgeInduction
  <2> QED
    BY <1>3, <2>4
<1>7. ASSUME g[0] = 0, \A a \in 1 .. n : g[a] = f[a - 1] PROVE z[n] <= y[n]
  <2> DEFINE T == {i \in 0 .. n : z[i] + f[i] = y[i]}
  <2>1. 0 \in T
    BY <1>0, <1>3, <1>7
  <2>2. ASSUME NEW i \in T, i < n PROVE i + 1 \in T
    <3>1. g[i + 1] = f[i + 1 - 1] /\ i + 1 - 1 = i
      BY <1>4, <1>7, <2>2
    <3> QED
      BY <1>4, <2>2, <3>1
  <2>3. T \in SUBSET (0 .. n)
    OBVIOUS
  <2>4. T = 0 .. n
    <3> HIDE DEF T
    <3> QED
      BY <2>1, <2>2, <2>3, RAgeInduction
  <2>5. z[n] + f[n] = y[n] /\ f[n] \in Nat /\ z[n] \in Nat
    BY <1>3, <2>4
  <2> QED
    BY <2>5
<1>8. ASSUME \A a \in 0 .. n : f[a] = 0 PROVE y[n] = 0
  <2> DEFINE T == {i \in 0 .. n : y[i] = 0}
  <2>1. 0 \in T
    BY <1>0, <1>3, <1>8
  <2>2. ASSUME NEW i \in T, i < n PROVE i + 1 \in T
    <3>1. f[i + 1] = 0 /\ y[i] = 0
      BY <1>4, <1>8, <2>2
    <3> QED
      BY <1>4, <2>2, <3>1
  <2>3. T \in SUBSET (0 .. n)
    OBVIOUS
  <2>4. T = 0 .. n
    <3> HIDE DEF T
    <3> QED
      BY <2>1, <2>2, <2>3, RAgeInduction
  <2> QED
    BY <1>3, <2>4
<1>9. y[n] \in Nat
  BY <1>3
<1> QED
  BY <1>1, <1>2, <1>5, <1>6, <1>7, <1>8, <1>9

-------------------------------------------------------------------------------
(* The window.                                                              *)

RStageOf(k) == IF k = "ip" THEN "ip" ELSE "tier"

(* Requests that have counted a bucket and are to be let through, and those *)
(* that are to leave a row.                                                 *)
RPending(k) == {r \in RRequests : rReq[r].stage = RStageOf(k) /\ rReq[r].seen < RLimit[k]}
RWriting(k) == {r \in RRequests : rReq[r].stage = RStageOf(k) /\ rReq[r].seen <= RLimit[k]}

(* The inductive invariant: what the window let through and is about to let *)
(* through stays below the limit and the slots, and every request that was  *)
(* let through left its row.                                                *)
RBucketInv(k) ==
  /\ \A a \in RWindowAges : rAdmitted[k][a] <= rHits[k][a]
  /\ RSumAges(rAdmitted[k], RWindow) + Cardinality(RPending(k)) < RLimit[k] + Cardinality(RRequests)
  /\ RCountSince(k) + Cardinality(RWriting(k)) <= RLimit[k] + Cardinality(RRequests)

RInv == RTypeOK /\ \A k \in RBuckets : RBucketInv(k)

LEMMA RConstants ==
  /\ RWindow \in Nat /\ RWindowAges = 0 .. RWindow /\ RWindowAges \subseteq RAges
  /\ \A a \in RWindowAges : a <= RRetention
  /\ Cardinality(RRequests) \in Nat /\ IsFiniteSet(RRequests)
  /\ \A k \in RBuckets : RLimit[k] \in Nat /\ RLimit[k] > 0
  /\ ROldest \in RAges /\ ROldest \in Nat
BY RAssumption, FS_CardinalityType DEF RWindowAges, RAges, ROldest

(* The sums and sets of a state of the right type.                          *)
LEMMA RTyped ==
  ASSUME RTypeOK, NEW k \in RBuckets
  PROVE  /\ \A a \in 0 .. RWindow : rHits[k][a] \in Nat /\ rAdmitted[k][a] \in Nat
         /\ RSumAges(rAdmitted[k], RWindow) \in Nat /\ RCountSince(k) \in Nat
         /\ IsFiniteSet(RPending(k)) /\ Cardinality(RPending(k)) \in Nat
         /\ Cardinality(RPending(k)) <= Cardinality(RRequests)
         /\ IsFiniteSet(RWriting(k)) /\ Cardinality(RWriting(k)) \in Nat
         /\ Cardinality(RWriting(k)) <= Cardinality(RRequests)
<1>1. \A a \in 0 .. RWindow : rHits[k][a] \in Nat /\ rAdmitted[k][a] \in Nat
  BY RConstants DEF RTypeOK
<1>2. RSumAges(rAdmitted[k], RWindow) \in Nat /\ RSumAges(rHits[k], RWindow) \in Nat
  BY <1>1, RConstants, RSumCompare
<1>3. RPending(k) \in SUBSET RRequests /\ RWriting(k) \in SUBSET RRequests
  BY DEF RPending, RWriting
<1>4. /\ IsFiniteSet(RPending(k)) /\ Cardinality(RPending(k)) <= Cardinality(RRequests)
      /\ IsFiniteSet(RWriting(k)) /\ Cardinality(RWriting(k)) <= Cardinality(RRequests)
  BY <1>3, RConstants, FS_Subset
<1> QED
  BY <1>1, <1>2, <1>4, FS_CardinalityType DEF RCountSince

(* A bucket that a step does not touch: no row is added, none of its        *)
(* requests is new and the window's rows stay.                              *)
LEMMA RBucketKept ==
  ASSUME RTypeOK, RTypeOK', NEW k \in RBuckets, RBucketInv(k),
         RSumAges(rAdmitted'[k], RWindow) <= RSumAges(rAdmitted[k], RWindow),
         RSumAges(rHits'[k], RWindow) <= RSumAges(rHits[k], RWindow),
         \A a \in RWindowAges : rAdmitted'[k][a] <= rHits'[k][a],
         RPending(k)' \subseteq RPending(k), RWriting(k)' \subseteq RWriting(k)
  PROVE  RBucketInv(k)'
<1> DEFINE A  == RSumAges(rAdmitted[k], RWindow)
           A2 == RSumAges(rAdmitted'[k], RWindow)
           H  == RSumAges(rHits[k], RWindow)
           H2 == RSumAges(rHits'[k], RWindow)
           P  == Cardinality(RPending(k))
           P2 == Cardinality(RPending(k)')
           W  == Cardinality(RWriting(k))
           W2 == Cardinality(RWriting(k)')
           B  == RLimit[k] + Cardinality(RRequests)
<1>1. A \in Nat /\ H \in Nat /\ P \in Nat /\ W \in Nat /\ IsFiniteSet(RPending(k)) /\ IsFiniteSet(RWriting(k))
  BY RTyped DEF RCountSince
<1>2. \A a \in 0 .. RWindow : rHits'[k][a] \in Nat /\ rAdmitted'[k][a] \in Nat
  BY RConstants DEF RTypeOK
<1>3. A2 \in Nat /\ H2 \in Nat
  BY <1>2, RConstants, RSumCompare
<1>4. P2 <= P /\ W2 <= W /\ P2 \in Nat /\ W2 \in Nat
  BY <1>1, FS_Subset, FS_CardinalityType
<1>5. A + P < B /\ H + W <= B /\ B \in Nat
  BY RConstants DEF RBucketInv, RCountSince
<1>6. A2 <= A /\ H2 <= H
  OBVIOUS
<1> HIDE DEF A, A2, H, H2, P, P2, W, W2, B
<1>7. A2 + P2 < B /\ H2 + W2 <= B
  BY <1>1, <1>3, <1>4, <1>5, <1>6
<1> QED
  BY <1>7 DEF RBucketInv, RCountSince, A2, H2, P2, W2, B

(* A request that counts a bucket joins those about to pass only while the  *)
(* window has room.                                                         *)
LEMMA RCounted ==
  ASSUME RInv, RTypeOK', NEW k \in RBuckets, NEW r \in RRequests, NEW q, UNCHANGED <<rHits, rAdmitted>>,
         rReq[r].stage \notin {"ip", "tier"}, rReq' = [rReq EXCEPT ![r] = q],
         q.stage = RStageOf(k), q.seen = RCountSince(k)
  PROVE  RInv'
<1>1. RTypeOK /\ \A b \in RBuckets : RBucketInv(b)
  BY DEF RInv
<1>2. rReq'[r] = q /\ \A x \in RRequests \ {r} : rReq'[x] = rReq[x]
  BY <1>1 DEF RTypeOK
<1>3. ASSUME NEW b \in RBuckets PROVE RBucketInv(b)'
  <2>1. /\ RSumAges(rAdmitted[b], RWindow) \in Nat /\ RSumAges(rHits[b], RWindow) \in Nat
        /\ \A a \in 0 .. RWindow : rHits[b][a] \in Nat /\ rAdmitted[b][a] \in Nat
    BY <1>1, RTyped DEF RCountSince
  <2>2. \A a \in RWindowAges : rAdmitted'[b][a] <= rHits'[b][a]
    BY <1>1 DEF RBucketInv
  <2>3. RStageOf(b) \in {"ip", "tier"}
    BY DEF RStageOf
  <2>4. b # k => RPending(b)' \subseteq RPending(b) /\ RWriting(b)' \subseteq RWriting(b)
    <3>1. b # k => RStageOf(b) # RStageOf(k)
      BY DEF RStageOf, RBuckets
    <3> QED
      BY <1>2, <2>3, <3>1 DEF RPending, RWriting
  <2>5. b = k /\ ~(RCountSince(k) < RLimit[k]) => RPending(k)' \subseteq RPending(k)
    BY <1>2 DEF RPending
  <2>6. b = k /\ ~(RCountSince(k) <= RLimit[k]) => RWriting(k)' \subseteq RWriting(k)
    BY <1>2 DEF RWriting
  <2>7. CASE b # k
    <3>1. /\ RSumAges(rAdmitted'[b], RWindow) <= RSumAges(rAdmitted[b], RWindow)
          /\ RSumAges(rHits'[b], RWindow) <= RSumAges(rHits[b], RWindow)
      BY <2>1
    <3> QED
      BY <1>1, <2>2, <2>4, <2>7, <3>1, RBucketKept
  <2>8. CASE b = k
    <3> DEFINE A  == RSumAges(rAdmitted[k], RWindow)
               H  == RSumAges(rHits[k], RWindow)
               P  == Cardinality(RPending(k))
               P2 == Cardinality(RPending(k)')
               W  == Cardinality(RWriting(k))
               W2 == Cardinality(RWriting(k)')
               L  == RLimit[k]
               R  == Cardinality(RRequests)
    <3>1. A \in Nat /\ H \in Nat /\ P \in Nat /\ W \in Nat /\ IsFiniteSet(RPending(k)) /\ IsFiniteSet(RWriting(k))
      BY <1>1, RTyped DEF RCountSince
    <3>2. A <= H
      BY <1>1, <2>1, <2>8, RConstants, RSumCompare DEF RBucketInv
    <3>3. RPending(k)' \in SUBSET RRequests /\ RWriting(k)' \in SUBSET RRequests
      BY DEF RPending, RWriting
    <3>4. P2 \in Nat /\ W2 \in Nat /\ P2 <= R /\ W2 <= R /\ R \in Nat /\ L \in Nat
      BY <3>3, RConstants, FS_Subset, FS_CardinalityType
    <3>5. ~(H < L) => P2 <= P
      BY <2>5, <2>8, <3>1, FS_Subset DEF RCountSince
    <3>6. ~(H <= L) => W2 <= W
      BY <2>6, <2>8, <3>1, FS_Subset DEF RCountSince
    <3>7. A + P < L + R /\ H + W <= L + R
      BY <1>1 DEF RBucketInv, RCountSince
    <3> HIDE DEF A, H, P, P2, W, W2, L, R
    <3>8. A + P2 < L + R
      BY <3>1, <3>2, <3>4, <3>5, <3>7
    <3>9. H + W2 <= L + R
      BY <3>1, <3>4, <3>6, <3>7
    <3> QED
      BY <2>2, <2>8, <3>8, <3>9 DEF RBucketInv, RCountSince, A, H, P2, W2, L, R
  <2> QED
    BY <2>7, <2>8
<1> QED
  BY <1>3 DEF RInv

(* A request that records its hit leaves those about to pass.               *)
LEMMA RRecorded ==
  ASSUME RInv, RTypeOK', NEW k \in RBuckets, NEW r \in RRequests, NEW q,
         rReq[r].stage = RStageOf(k), RRecordHit(k, rReq[r].seen),
         rReq' = [rReq EXCEPT ![r] = q], q.stage \notin {"ip", "tier"}
  PROVE  RInv'
<1>1. RTypeOK /\ \A b \in RBuckets : RBucketInv(b)
  BY DEF RInv
<1>2. rReq'[r] = q /\ \A x \in RRequests \ {r} : rReq'[x] = rReq[x]
  BY <1>1 DEF RTypeOK
<1>3. rHits \in [RBuckets -> [RAges -> Nat]] /\ rAdmitted \in [RBuckets -> [RWindowAges -> Nat]] /\ rReq[r].seen \in Nat
  BY <1>1 DEF RTypeOK
<1>4. 0 \in RAges /\ 0 \in RWindowAges
  BY RConstants
<1>5. ASSUME NEW b \in RBuckets, b # k PROVE rHits'[b] = rHits[b] /\ rAdmitted'[b] = rAdmitted[b]
  BY <1>3, <1>5 DEF RRecordHit, RWithRow
<1>6. /\ rReq[r].seen > RLimit[k] => rHits'[k] = rHits[k]
      /\ rReq[r].seen <= RLimit[k] => rHits'[k] = [rHits[k] EXCEPT ![0] = rHits[k][0] + 1]
      /\ rReq[r].seen >= RLimit[k] => rAdmitted'[k] = rAdmitted[k]
      /\ rReq[r].seen < RLimit[k] => rAdmitted'[k] = [rAdmitted[k] EXCEPT ![0] = rAdmitted[k][0] + 1]
  <2>1. RLimit[k] \in Nat
    BY RConstants
  <2>2. (RAlreadyBlocked(k, rReq[r].seen) => rReq[r].seen > RLimit[k]) /\ (rReq[r].seen > RLimit[k] => RAlreadyBlocked(k, rReq[r].seen))
    BY DEF RAlreadyBlocked
  <2>3. (RIsBlocked(k, rReq[r].seen) => rReq[r].seen >= RLimit[k]) /\ (rReq[r].seen >= RLimit[k] => RIsBlocked(k, rReq[r].seen))
    BY <1>3, <2>1 DEF RIsBlocked, RTotalHits, RAlreadyBlocked
  <2>4. /\ RAlreadyBlocked(k, rReq[r].seen) => rHits' = rHits
        /\ ~RAlreadyBlocked(k, rReq[r].seen) => rHits' = [rHits EXCEPT ![k][0] = rHits[k][0] + 1]
        /\ RIsBlocked(k, rReq[r].seen) => rAdmitted' = rAdmitted
        /\ ~RIsBlocked(k, rReq[r].seen) => rAdmitted' = [rAdmitted EXCEPT ![k][0] = rAdmitted[k][0] + 1]
    BY DEF RRecordHit, RWithRow
  <2> QED
    BY <1>3, <1>4, <2>1, <2>2, <2>3, <2>4
<1>7. ASSUME NEW b \in RBuckets PROVE RBucketInv(b)'
  <2>1. /\ RSumAges(rAdmitted[b], RWindow) \in Nat /\ RSumAges(rHits[b], RWindow) \in Nat
        /\ \A a \in 0 .. RWindow : rHits[b][a] \in Nat /\ rAdmitted[b][a] \in Nat
    BY <1>1, RTyped DEF RCountSince
  <2>2. RStageOf(b) \in {"ip", "tier"}
    BY DEF RStageOf
  <2>3. RPending(b)' \subseteq RPending(b) \ {r} /\ RWriting(b)' \subseteq RWriting(b) \ {r}
    BY <1>2, <2>2 DEF RPending, RWriting
  <2>4. CASE b # k
    <3>1. /\ RSumAges(rAdmitted'[b], RWindow) <= RSumAges(rAdmitted[b], RWindow)
          /\ RSumAges(rHits'[b], RWindow) <= RSumAges(rHits[b], RWindow)
      BY <1>5, <2>1, <2>4
    <3>2. \A a \in RWindowAges : rAdmitted'[b][a] <= rHits'[b][a]
      BY <1>1, <1>5, <2>4 DEF RBucketInv
    <3> QED
      BY <1>1, <2>3, <3>1, <3>2, RBucketKept
  <2>5. CASE b = k
    <3> DEFINE A  == RSumAges(rAdmitted[k], RWindow)
               A2 == RSumAges(rAdmitted'[k], RWindow)
               H  == RSumAges(rHits[k], RWindow)
               H2 == RSumAges(rHits'[k], RWindow)
               P  == Cardinality(RPending(k))
               P2 == Cardinality(RPending(k)')
               W  == Cardinality(RWriting(k))
               W2 == Cardinality(RWriting(k)')
               L  == RLimit[k]
               R  == Cardinality(RRequests)
               n  == rReq[r].seen
    <3>1. A \in Nat /\ H \in Nat /\ P \in Nat /\ W \in Nat /\ IsFiniteSet(RPending(k)) /\ IsFiniteSet(RWriting(k))
      BY <1>1, RTyped DEF RCountSince
    <3>2. A + P < L + R /\ H + W <= L + R
      BY <1>1 DEF RBucketInv, RCountSince
    <3>3. L \in Nat /\ R \in Nat /\ n \in Nat
      BY <1>3, RConstants
    <3>4. P2 \in Nat /\ P2 <= P /\ (n < L => P2 <= P - 1)
      <4>1. IsFiniteSet(RPending(k) \ {r}) /\ (r \in RPending(k) => Cardinality(RPending(k) \ {r}) = P - 1)
        BY <3>1, FS_RemoveElement
      <4>2. RPending(k)' \subseteq RPending(k) \ {r} /\ RPending(k)' \subseteq RPending(k)
        BY <2>3, <2>5
      <4>3. P2 \in Nat /\ P2 <= Cardinality(RPending(k) \ {r}) /\ P2 <= P
        BY <3>1, <4>1, <4>2, FS_Subset, FS_CardinalityType
      <4>4. n < L => r \in RPending(k)
        BY DEF RPending
      <4> QED
        BY <3>1, <4>1, <4>3, <4>4
    <3>5. W2 \in Nat /\ W2 <= W /\ (n <= L => W2 <= W - 1)
      <4>1. IsFiniteSet(RWriting(k) \ {r}) /\ (r \in RWriting(k) => Cardinality(RWriting(k) \ {r}) = W - 1)
        BY <3>1, FS_RemoveElement
      <4>2. RWriting(k)' \subseteq RWriting(k) \ {r} /\ RWriting(k)' \subseteq RWriting(k)
        BY <2>3, <2>5
      <4>3. W2 \in Nat /\ W2 <= Cardinality(RWriting(k) \ {r}) /\ W2 <= W
        BY <3>1, <4>1, <4>2, FS_Subset, FS_CardinalityType
      <4>4. n <= L => r \in RWriting(k)
        BY DEF RWriting
      <4> QED
        BY <3>1, <4>1, <4>3, <4>4
    <3>6. RWindow \in Nat /\ RWindowAges = 0 .. RWindow /\ \A a \in 1 .. RWindow : a # 0 /\ a \in RWindowAges /\ a \in RAges
      BY RConstants
    <3>7. \A a \in 0 .. RWindow : rHits'[k][a] \in Nat /\ rAdmitted'[k][a] \in Nat
      BY <3>6, RConstants DEF RTypeOK
    <3>8. (n >= L => A2 = A) /\ (n < L => A2 = A + 1)
      <4>1. n >= L => A2 = A
        BY <1>6
      <4>2. ASSUME n < L PROVE A2 = A + 1
        <5>1. rAdmitted'[k][0] = rAdmitted[k][0] + 1 /\ \A a \in 1 .. RWindow : rAdmitted'[k][a] = rAdmitted[k][a]
          BY <1>3, <1>4, <1>6, <3>6, <4>2
        <5> QED
          BY <2>1, <2>5, <3>6, <3>7, <5>1, RSumCompare
      <4> QED
        BY <4>1, <4>2
    <3>9. (n > L => H2 = H) /\ (n <= L => H2 = H + 1)
      <4>1. n > L => H2 = H
        BY <1>6
      <4>2. ASSUME n <= L PROVE H2 = H + 1
        <5>1. rHits'[k][0] = rHits[k][0] + 1 /\ \A a \in 1 .. RWindow : rHits'[k][a] = rHits[k][a]
          BY <1>3, <1>4, <1>6, <3>6, <4>2
        <5> QED
          BY <2>1, <2>5, <3>6, <3>7, <5>1, RSumCompare
      <4> QED
        BY <4>1, <4>2
    <3>10. \A a \in RWindowAges : rAdmitted'[k][a] <= rHits'[k][a]
      <4>1. \A a \in RWindowAges : rAdmitted[k][a] <= rHits[k][a] /\ rAdmitted[k][a] \in Nat /\ rHits[k][a] \in Nat
        BY <1>1, <2>1, <2>5, <3>6 DEF RBucketInv
      <4>2. \A a \in RWindowAges : a # 0 => rAdmitted'[k][a] = rAdmitted[k][a] /\ rHits'[k][a] = rHits[k][a]
        <5>1. rHits'[k] = rHits[k] \/ rHits'[k] = [rHits[k] EXCEPT ![0] = rHits[k][0] + 1]
          BY <1>6, <3>3
        <5>2. rAdmitted'[k] = rAdmitted[k] \/ rAdmitted'[k] = [rAdmitted[k] EXCEPT ![0] = rAdmitted[k][0] + 1]
          BY <1>6, <3>3
        <5>3. rHits[k] \in [RAges -> Nat] /\ rAdmitted[k] \in [RWindowAges -> Nat] /\ RWindowAges \subseteq RAges
          BY <1>3, RConstants
        <5> QED
          BY <5>1, <5>2, <5>3
      <4>3. n < L => rAdmitted'[k][0] = rAdmitted[k][0] + 1 /\ rHits'[k][0] = rHits[k][0] + 1
        BY <1>3, <1>4, <1>6, <3>3
      <4>4. n >= L => rAdmitted'[k][0] = rAdmitted[k][0] /\ rHits'[k][0] \in {rHits[k][0], rHits[k][0] + 1}
        BY <1>3, <1>4, <1>6, <3>3
      <4>5. rAdmitted'[k][0] <= rHits'[k][0]
        BY <1>4, <3>3, <4>1, <4>3, <4>4
      <4> QED
        BY <4>1, <4>2, <4>5
    <3> HIDE DEF A, A2, H, H2, P, P2, W, W2, L, R, n
    <3>11. A2 + P2 < L + R
      BY <3>1, <3>2, <3>3, <3>4, <3>8
    <3>12. H2 + W2 <= L + R
      BY <3>1, <3>2, <3>3, <3>5, <3>9
    <3> QED
      BY <2>5, <3>10, <3>11, <3>12 DEF RBucketInv, RCountSince, A2, H2, P2, W2, L, R
  <2> QED
    BY <2>4, <2>5
<1> QED
  BY <1>7 DEF RInv

(* Time, the prune and the reset only take rows away.                       *)
LEMMA RFewerRows ==
  ASSUME RInv, RTypeOK', rReq' = rReq,
         \A k \in RBuckets : RSumAges(rAdmitted'[k], RWindow) <= RSumAges(rAdmitted[k], RWindow),
         \A k \in RBuckets : RSumAges(rHits'[k], RWindow) <= RSumAges(rHits[k], RWindow),
         \A k \in RBuckets : \A a \in RWindowAges : rAdmitted'[k][a] <= rHits'[k][a]
  PROVE  RInv'
<1>1. RTypeOK /\ \A b \in RBuckets : RBucketInv(b)
  BY DEF RInv
<1>2. ASSUME NEW k \in RBuckets PROVE RBucketInv(k)'
  <2>1. RPending(k)' \subseteq RPending(k) /\ RWriting(k)' \subseteq RWriting(k)
    BY DEF RPending, RWriting
  <2> QED
    BY <1>1, <2>1, RBucketKept
<1> QED
  BY <1>2 DEF RInv

LEMMA RInvInit == RInit => RInv
<1> SUFFICES ASSUME RInit PROVE RInv
  OBVIOUS
<1>1. /\ rHits = [k \in RBuckets |-> [a \in RAges |-> 0]] /\ rAdmitted = [k \in RBuckets |-> [a \in RWindowAges |-> 0]]
      /\ rReq = [r \in RRequests |-> RIdle]
  BY DEF RInit, RNoRows
<1>2. RTypeOK
  BY <1>1 DEF RTypeOK, RIdle, RCallers
<1>3. ASSUME NEW k \in RBuckets PROVE RBucketInv(k)
  <2>1. \A a \in 0 .. RWindow : rHits[k][a] = 0 /\ rAdmitted[k][a] = 0
    BY <1>1, RConstants
  <2>2. \A a \in 0 .. RWindow : rHits[k][a] \in Nat /\ rAdmitted[k][a] \in Nat
    BY <2>1
  <2>3. RSumAges(rHits[k], RWindow) = 0 /\ RSumAges(rAdmitted[k], RWindow) = 0
    BY <2>1, <2>2, RConstants, RSumCompare
  <2>4. RPending(k) = {} /\ RWriting(k) = {}
    <3>1. RStageOf(k) # "idle" /\ \A r \in RRequests : rReq[r].stage = "idle"
      BY <1>1 DEF RStageOf, RIdle
    <3> QED
      BY <3>1 DEF RPending, RWriting
  <2>5. Cardinality({}) = 0
    BY FS_EmptySet
  <2>6. /\ 0 + 0 < RLimit[k] + Cardinality(RRequests) /\ 0 + 0 <= RLimit[k] + Cardinality(RRequests)
    BY RConstants
  <2>7. \A a \in RWindowAges : rAdmitted[k][a] <= rHits[k][a]
    BY <2>1, RConstants
  <2> QED
    BY <2>3, <2>4, <2>5, <2>6, <2>7 DEF RBucketInv, RCountSince
<1> QED
  BY <1>2, <1>3 DEF RInv

LEMMA RInvStep == RInv /\ [RNext]_rVars => RInv'
<1> SUFFICES ASSUME RInv, [RNext]_rVars PROVE RInv'
  OBVIOUS
<1>1. /\ RTypeOK /\ rHits \in [RBuckets -> [RAges -> Nat]] /\ rAdmitted \in [RBuckets -> [RWindowAges -> Nat]]
      /\ \A b \in RBuckets : RBucketInv(b)
  BY DEF RInv, RTypeOK
<1> DEFINE Record == [stage : {"idle", "ip", "route", "tier"}, caller : RCallers, seen : Nat]
<1>2. rReq \in [RRequests -> Record] /\ RIdle \in Record /\ RIdle.stage = "idle"
  BY <1>1 DEF RTypeOK, RIdle, RCallers
<1>3. "ip" \in RBuckets /\ "tenant" \in RBuckets /\ RStageOf("ip") = "ip" /\ RStageOf("tenant") = "tier"
  BY DEF RBuckets, RStageOf
<1>4. \A k \in RBuckets : RCountSince(k) \in Nat
  BY <1>1, RTyped
<1>5. ASSUME NEW k \in RBuckets, NEW n, RRecordHit(k, n)
      PROVE  rHits' \in [RBuckets -> [RAges -> Nat]] /\ rAdmitted' \in [RBuckets -> [RWindowAges -> Nat]]
  <2>1. 0 \in RAges /\ 0 \in RWindowAges
    BY RConstants
  <2>2. rHits' = rHits \/ rHits' = [rHits EXCEPT ![k][0] = rHits[k][0] + 1]
    BY <1>5 DEF RRecordHit, RWithRow
  <2>3. rAdmitted' = rAdmitted \/ rAdmitted' = [rAdmitted EXCEPT ![k][0] = rAdmitted[k][0] + 1]
    BY <1>5 DEF RRecordHit, RWithRow
  <2>4. rHits' \in [RBuckets -> [RAges -> Nat]]
    <3> DEFINE h == [rHits[k] EXCEPT ![0] = rHits[k][0] + 1]
    <3>1. h \in [RAges -> Nat]
      BY <1>1, <2>1
    <3>2. rHits' = rHits \/ rHits' = [rHits EXCEPT ![k] = h]
      BY <2>2
    <3> HIDE DEF h
    <3> QED
      BY <1>1, <3>1, <3>2
  <2>5. rAdmitted' \in [RBuckets -> [RWindowAges -> Nat]]
    <3> DEFINE h == [rAdmitted[k] EXCEPT ![0] = rAdmitted[k][0] + 1]
    <3>1. h \in [RWindowAges -> Nat]
      BY <1>1, <2>1
    <3>2. rAdmitted' = rAdmitted \/ rAdmitted' = [rAdmitted EXCEPT ![k] = h]
      BY <2>3
    <3> HIDE DEF h
    <3> QED
      BY <1>1, <3>1, <3>2
  <2> QED
    BY <2>4, <2>5
<1>6. ASSUME NEW r \in RRequests, NEW c \in RCallers, RArrive(r, c) PROVE RInv'
  <2> DEFINE q == [stage |-> "ip", caller |-> c, seen |-> RCountSince("ip")]
  <2>1. rReq[r].stage = "idle" /\ rReq' = [rReq EXCEPT ![r] = q] /\ UNCHANGED <<rHits, rAdmitted>>
    BY <1>6 DEF RArrive
  <2>2. q \in Record /\ q.stage = "ip" /\ q.seen = RCountSince("ip")
    BY <1>3, <1>4
  <2> HIDE DEF q
  <2>3. RTypeOK'
    BY <1>1, <1>2, <2>1, <2>2 DEF RTypeOK
  <2> QED
    BY <1>3, <2>1, <2>2, <2>3, RCounted
<1>7. ASSUME NEW r \in RRequests, RTierCount(r) PROVE RInv'
  <2> DEFINE q == [rReq[r] EXCEPT !.stage = "tier", !.seen = RCountSince("tenant")]
  <2>1. rReq[r].stage = "route" /\ UNCHANGED <<rHits, rAdmitted>>
    BY <1>7 DEF RTierCount
  <2>2. rReq' = [rReq EXCEPT ![r] = q]
    BY <1>2, <1>7 DEF RTierCount
  <2>3. q \in Record /\ q.stage = "tier" /\ q.seen = RCountSince("tenant")
    BY <1>2, <1>3, <1>4
  <2> HIDE DEF q
  <2>4. RTypeOK'
    BY <1>1, <1>2, <2>1, <2>2, <2>3 DEF RTypeOK
  <2> QED
    BY <1>3, <2>1, <2>2, <2>3, <2>4, RCounted
<1>8. ASSUME NEW r \in RRequests, RIpRecord(r) PROVE RInv'
  <2>1. rReq[r].stage = "ip" /\ RRecordHit("ip", rReq[r].seen)
    BY <1>8 DEF RIpRecord
  <2>2. \E q \in {RIdle, [rReq[r] EXCEPT !.stage = "route"]} : rReq' = [rReq EXCEPT ![r] = q]
    BY <1>2, <1>8 DEF RIpRecord
  <2>3. PICK q \in {RIdle, [rReq[r] EXCEPT !.stage = "route"]} : rReq' = [rReq EXCEPT ![r] = q]
    BY <2>2
  <2>4. q \in Record /\ q.stage \in {"idle", "route"}
    BY <1>2, <2>3
  <2>5. RTypeOK'
    BY <1>2, <1>3, <1>5, <2>1, <2>3, <2>4 DEF RTypeOK
  <2> QED
    BY <1>3, <2>1, <2>3, <2>4, <2>5, RRecorded
<1>9. ASSUME NEW r \in RRequests, RTierRecord(r) PROVE RInv'
  <2>1. rReq[r].stage = "tier" /\ RRecordHit("tenant", rReq[r].seen) /\ rReq' = [rReq EXCEPT ![r] = RIdle]
    BY <1>9 DEF RTierRecord
  <2>2. RTypeOK'
    BY <1>2, <1>3, <1>5, <2>1 DEF RTypeOK
  <2> QED
    BY <1>2, <1>3, <2>1, <2>2, RRecorded
<1>10. \A k \in RBuckets : \A a \in 0 .. RWindow :
         /\ rHits[k][a] \in Nat /\ rAdmitted[k][a] \in Nat /\ rAdmitted[k][a] <= rHits[k][a]
         /\ a \in RAges /\ a \in RWindowAges /\ a <= RRetention /\ RWindow \in Nat
  BY <1>1, RConstants DEF RBucketInv
<1>11. RWindowAges = 0 .. RWindow /\ RWindow \in Nat /\ 0 \in RAges
  BY RConstants
<1>12. ASSUME RTypeOK', rReq' = rReq,
              \A k \in RBuckets : \A a \in 0 .. RWindow :
                rHits'[k][a] <= rHits[k][a] /\ rAdmitted'[k][a] <= rAdmitted[k][a] /\ rAdmitted'[k][a] <= rHits'[k][a]
       PROVE  RInv'
  <2>1. \A k \in RBuckets : \A a \in 0 .. RWindow : rHits'[k][a] \in Nat /\ rAdmitted'[k][a] \in Nat
    BY <1>10, <1>12 DEF RTypeOK
  <2>2. ASSUME NEW k \in RBuckets
        PROVE  /\ RSumAges(rAdmitted'[k], RWindow) <= RSumAges(rAdmitted[k], RWindow)
               /\ RSumAges(rHits'[k], RWindow) <= RSumAges(rHits[k], RWindow)
    <3>1. RSumAges(rAdmitted'[k], RWindow) <= RSumAges(rAdmitted[k], RWindow)
      BY <1>10, <1>11, <1>12, <2>1, RSumCompare
    <3>2. RSumAges(rHits'[k], RWindow) <= RSumAges(rHits[k], RWindow)
      BY <1>10, <1>11, <1>12, <2>1, RSumCompare
    <3> QED
      BY <3>1, <3>2
  <2>3. \A k \in RBuckets : \A a \in RWindowAges : rAdmitted'[k][a] <= rHits'[k][a]
    BY <1>11, <1>12
  <2> QED
    BY <1>12, <2>2, <2>3, RFewerRows
<1>13. CASE RReset
  <2>1. /\ rHits' = [rHits EXCEPT !["tenant"] = [a \in RAges |-> 0]] /\ rReq' = rReq
        /\ rAdmitted' = [rAdmitted EXCEPT !["tenant"] = [a \in RWindowAges |-> 0]]
    BY <1>13 DEF RReset
  <2>2. RTypeOK'
    BY <1>1, <2>1 DEF RTypeOK
  <2>3. ASSUME NEW k \in RBuckets, NEW a \in 0 .. RWindow
        PROVE  rHits'[k][a] <= rHits[k][a] /\ rAdmitted'[k][a] <= rAdmitted[k][a] /\ rAdmitted'[k][a] <= rHits'[k][a]
    <3>1. CASE k = "tenant"
      <4>1. rHits'[k][a] = 0 /\ rAdmitted'[k][a] = 0
        BY <1>1, <1>10, <2>1, <3>1
      <4> QED
        BY <1>10, <4>1
    <3>2. CASE k # "tenant"
      <4>1. rHits'[k] = rHits[k] /\ rAdmitted'[k] = rAdmitted[k]
        BY <1>1, <2>1, <3>2
      <4> QED
        BY <1>10, <4>1
    <3> QED
      BY <3>1, <3>2
  <2> QED
    BY <1>12, <2>1, <2>2, <2>3
<1>14. CASE RPrune
  <2>1. /\ rHits' = [k \in RBuckets |-> [a \in RAges |-> IF a > RRetention THEN 0 ELSE rHits[k][a]]]
        /\ UNCHANGED <<rAdmitted, rReq>>
    BY <1>14 DEF RPrune, RKeepRecent
  <2>2. RTypeOK'
    BY <1>1, <2>1 DEF RTypeOK
  <2>3. RRetention \in Nat
    BY RAssumption
  <2>4. \A k \in RBuckets : \A a \in 0 .. RWindow : rHits'[k][a] = rHits[k][a] /\ rAdmitted'[k][a] = rAdmitted[k][a]
    BY <1>10, <2>1, <2>3
  <2>5. \A k \in RBuckets : \A a \in 0 .. RWindow :
          rHits'[k][a] <= rHits[k][a] /\ rAdmitted'[k][a] <= rAdmitted[k][a] /\ rAdmitted'[k][a] <= rHits'[k][a]
    BY <1>10, <2>4
  <2>6. rReq' = rReq
    BY <2>1
  <2> QED
    BY <1>12, <2>2, <2>5, <2>6
<1>15. CASE RTick
  <2>1. /\ rHits' = [k \in RBuckets |-> [a \in RAges |-> IF a = 0 THEN 0 ELSE rHits[k][a - 1]]]
        /\ rAdmitted' = [k \in RBuckets |-> [a \in RWindowAges |-> IF a = 0 THEN 0 ELSE rAdmitted[k][a - 1]]]
        /\ rReq' = rReq
    <3>1. \A k \in RBuckets : DOMAIN rHits[k] = RAges /\ DOMAIN rAdmitted[k] = RWindowAges
      BY <1>1
    <3>2. rHits' = RAge(rHits) /\ rAdmitted' = RAge(rAdmitted) /\ rReq' = rReq
      BY <1>15 DEF RTick
    <3> QED
      BY <3>1, <3>2 DEF RAge
  <2>2. RTypeOK'
    <3>1. \A a \in RAges : a # 0 => a - 1 \in RAges
      BY RConstants DEF RAges
    <3>2. \A a \in RWindowAges : a # 0 => a - 1 \in RWindowAges
      BY <1>11
    <3>3. rHits' \in [RBuckets -> [RAges -> Nat]]
      BY <1>1, <2>1, <3>1
    <3>4. rAdmitted' \in [RBuckets -> [RWindowAges -> Nat]]
      BY <1>1, <2>1, <3>2
    <3> QED
      BY <1>2, <2>1, <3>3, <3>4 DEF RTypeOK
  <2>3. \A k \in RBuckets : /\ rHits'[k][0] = 0 /\ rAdmitted'[k][0] = 0
                            /\ \A a \in 1 .. RWindow : rHits'[k][a] = rHits[k][a - 1] /\ rAdmitted'[k][a] = rAdmitted[k][a - 1]
    <3>1. \A a \in 1 .. RWindow : a \in RAges /\ a \in RWindowAges /\ a # 0
      BY <1>11, RConstants
    <3> QED
      BY <1>11, <2>1, <3>1
  <2>4. \A k \in RBuckets : \A a \in 0 .. RWindow : rHits'[k][a] \in Nat /\ rAdmitted'[k][a] \in Nat
    BY <1>10, <2>2 DEF RTypeOK
  <2>5. ASSUME NEW k \in RBuckets
        PROVE  /\ RSumAges(rAdmitted'[k], RWindow) <= RSumAges(rAdmitted[k], RWindow)
               /\ RSumAges(rHits'[k], RWindow) <= RSumAges(rHits[k], RWindow)
    <3>1. RSumAges(rAdmitted'[k], RWindow) <= RSumAges(rAdmitted[k], RWindow)
      BY <1>10, <1>11, <2>3, <2>4, RSumCompare
    <3>2. RSumAges(rHits'[k], RWindow) <= RSumAges(rHits[k], RWindow)
      BY <1>10, <1>11, <2>3, <2>4, RSumCompare
    <3> QED
      BY <3>1, <3>2
  <2>6. ASSUME NEW k \in RBuckets, NEW a \in RWindowAges PROVE rAdmitted'[k][a] <= rHits'[k][a]
    <3>1. CASE a = 0
      BY <2>3, <3>1
    <3>2. CASE a # 0
      <4>1. a \in 1 .. RWindow /\ a - 1 \in 0 .. RWindow
        BY <1>11, <3>2
      <4> QED
        BY <1>10, <2>3, <4>1
    <3> QED
      BY <3>1, <3>2
  <2> QED
    BY <2>1, <2>2, <2>5, <2>6, RFewerRows
<1>16. CASE UNCHANGED rVars
  <2>1. rHits' = rHits /\ rAdmitted' = rAdmitted /\ rReq' = rReq
    BY <1>16 DEF rVars
  <2>2. RTypeOK'
    BY <1>1, <2>1 DEF RTypeOK
  <2>3. \A k \in RBuckets : \A a \in 0 .. RWindow :
          rHits'[k][a] <= rHits[k][a] /\ rAdmitted'[k][a] <= rAdmitted[k][a] /\ rAdmitted'[k][a] <= rHits'[k][a]
    BY <1>10, <2>1
  <2> QED
    BY <1>12, <2>1, <2>2, <2>3
<1> QED
  BY <1>6, <1>7, <1>8, <1>9, <1>13, <1>14, <1>15, <1>16 DEF RNext, RStep

(* For any number of request slots, any limits, window and retention: the   *)
(* requests that a window lets through stay below the limit and the slots,  *)
(* and so do the rows it keeps, however counts and inserts of increment,    *)
(* the prune, the reset and time interleave.                                *)
THEOREM WindowAlwaysBounded == RSpec => []RWindowBounded
<1>1. RInv => RWindowBounded
  <2> SUFFICES ASSUME RInv PROVE RWindowBounded
    OBVIOUS
  <2>1. RTypeOK
    BY DEF RInv
  <2>2. ASSUME NEW k \in RBuckets
        PROVE  /\ RSumAges(rAdmitted[k], RWindow) < RLimit[k] + Cardinality(RRequests)
               /\ RCountSince(k) <= RLimit[k] + Cardinality(RRequests)
    <3> DEFINE A == RSumAges(rAdmitted[k], RWindow)
               H == RCountSince(k)
               P == Cardinality(RPending(k))
               W == Cardinality(RWriting(k))
               L == RLimit[k] + Cardinality(RRequests)
    <3>1. A \in Nat /\ H \in Nat /\ P \in Nat /\ W \in Nat
      BY <2>1, RTyped
    <3>2. A + P < L /\ H + W <= L /\ L \in Nat
      BY RConstants DEF RInv, RBucketInv
    <3> HIDE DEF A, H, P, W, L
    <3>3. A < L /\ H <= L
      BY <3>1, <3>2
    <3> QED
      BY <3>3 DEF A, H, L
  <2> QED
    BY <2>1, <2>2 DEF RWindowBounded, RAdmittedBounded, RRowsBounded
<1> QED
  BY <1>1, RInvInit, RInvStep, PTL DEF RSpec
===============================================================================
