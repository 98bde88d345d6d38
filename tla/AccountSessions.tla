-------------------------- MODULE AccountSessions --------------------------
(***************************************************************************)
(* The rows of oidc_model that belong to an account, and everything that   *)
(* adds or removes them by account: logins under the concurrent-session    *)
(* limit (SessionLimitService), the tenant switch (AuthService), the       *)
(* administrator's force-logout (AdminSessionsService) and the provider's  *)
(* own saves through OidcModelAdapter.                                     *)
(*                                                                         *)
(* The accounts are the memberships of one person, who may switch between  *)
(* them.  A login's grant is named after its session and a switch's grant  *)
(* after the switch.  One client; each await ends a step.  enforce() is    *)
(* called where its comment says a login must call it: after the session   *)
(* was saved.  Nothing calls it yet.                                       *)
(***************************************************************************)
EXTENDS Integers, FiniteSets

CONSTANTS SAccounts, SSids, SSwitches, SNone,
          SLimit         \* OIDC_MAX_CONCURRENT_SESSIONS; 0 disables the limit

SGrants == SSids \cup SSwitches

ASSUME SConstantsAssumption == /\ SNone \notin SAccounts \cup SGrants
                               /\ SSids \cap SSwitches = {}
                               /\ SLimit \in Nat

VARIABLES sRow,      \* Session rows: account and authorized grant
          sOlder,    \* the order of created_at: pairs of live session rows, older first
          sGrant,    \* Grant rows: the account, or SNone when there is no row
          sOwner,    \* the account a grant was saved for, if it ever was
          sTok,      \* which tokens of each grant are live
          sLog,      \* where each login is
          sHeld,     \* session rows locked by its eviction statement
          sVictims,  \* the grants of the sessions its enforce() evicted
          sSkipped,  \* logins whose eviction statement skipped a locked row
          sSw,       \* where each switch is, and what it has read
          sCopy,     \* a session the provider loaded and will save again
          sMoved,    \* sessions rebound by a switch or saved again
          sRevoked   \* sessions a force-logout deleted

sVars == <<sRow, sOlder, sGrant, sOwner, sTok, sLog, sHeld, sVictims, sSkipped, sSw,
           sCopy, sMoved, sRevoked>>
sClaims == <<sHeld, sVictims, sSkipped>>
sStore == <<sRow, sOlder, sGrant, sTok>>

SNoRow == [acct |-> SNone, grant |-> SNone]
SSessionRow == [acct : SAccounts, grant : SGrants]
STokenKinds == {"access", "refresh"}
SLive(s) == sRow[s] # SNoRow
SLiveOf(a) == {s \in SSids : SLive(s) /\ sRow[s].acct = a}

SNoSwitch == [pc |-> "idle", from |-> SNone, to |-> SNone, prev |-> SNone, todo |-> {}]
SSwitchPCs == {"idle", "grant", "access", "refresh", "revoke.grant", "revoke.access",
               "revoke.refresh", "load", "save", "sweep", "done"}

STypeOK ==
  /\ sRow \in [SSids -> SSessionRow \cup {SNoRow}]
  /\ sOlder \subseteq SSids \X SSids
  /\ sGrant \in [SGrants -> SAccounts \cup {SNone}]
  /\ sOwner \in [SGrants -> SAccounts \cup {SNone}]
  /\ sTok \in [SGrants -> SUBSET STokenKinds]
  /\ sLog \in [SSids -> {"out", "claim", "commit", "clear", "in"}]
  /\ sHeld \in [SSids -> SUBSET SSids]
  /\ sVictims \in [SSids -> SUBSET SGrants]
  /\ sSkipped \subseteq SSids
  /\ \A w \in SSwitches : /\ sSw[w].pc \in SSwitchPCs
                          /\ {sSw[w].from, sSw[w].to} \subseteq SAccounts \cup {SNone}
                          /\ sSw[w].prev \in SGrants \cup {SNone}
                          /\ sSw[w].todo \subseteq SSids
  /\ sCopy \in [SSids -> SSessionRow \cup {SNoRow}]
  /\ sMoved \subseteq SSids /\ sRevoked \subseteq SSids

SInit ==
  /\ sRow = [s \in SSids |-> SNoRow]
  /\ sOlder = {}
  /\ sGrant = [g \in SGrants |-> SNone]
  /\ sOwner = [g \in SGrants |-> SNone]
  /\ sTok = [g \in SGrants |-> {}]
  /\ sLog = [s \in SSids |-> "out"]
  /\ sHeld = [s \in SSids |-> {}]
  /\ sVictims = [s \in SSids |-> {}]
  /\ sSkipped = {}
  /\ sSw = [w \in SSwitches |-> SNoSwitch]
  /\ sCopy = [s \in SSids |-> SNoRow]
  /\ sMoved = {} /\ sRevoked = {}

-----------------------------------------------------------------------------
(* Statements on the table.                                                 *)

\* Rows that an eviction statement under way has locked: any other statement
\* on them waits.
SLocked == UNION {sHeld[s] : s \in SSids}

\* Deleting session rows, and grants with their tokens.
SDelete(sids, grants) ==
  /\ sRow' = [s \in SSids |-> IF s \in sids THEN SNoRow ELSE sRow[s]]
  /\ sOlder' = {p \in sOlder : p[1] \notin sids /\ p[2] \notin sids}
  /\ sGrant' = [g \in SGrants |-> IF g \in grants THEN SNone ELSE sGrant[g]]
  /\ sTok' = [g \in SGrants |-> IF g \in grants THEN {} ELSE sTok[g]]

\* deleteAllForAccount: the account's rows of every model, and what hangs off
\* its grants.
SDeleteAllForAccount(a) ==
  /\ SLiveOf(a) \cap SLocked = {}
  /\ SDelete(SLiveOf(a), {g \in SGrants : sOwner[g] = a})

\* The rows the subquery of claimSurplusSessions sees: the account's sessions
\* but the new one; SKIP LOCKED passes over locked ones.
SCandidates(a, new) == (SLiveOf(a) \ {new}) \ SLocked

\* The candidates, newest first, after the first `keep` of them.
SSurplus(among) ==
  LET keep == IF SLimit > 0 THEN SLimit - 1 ELSE 0
  IN  {s \in among : Cardinality({t \in among : <<s, t>> \in sOlder}) >= keep}

\* save() or upsert of one session row: an update, or an insert if it is gone.
SWriteSession(s, row) ==
  /\ s \notin SLocked
  /\ sRow' = [sRow EXCEPT ![s] = row]
  /\ sOlder' = IF SLive(s) THEN sOlder
               ELSE sOlder \cup {<<t, s>> : t \in {t \in SSids : SLive(t)}}

-----------------------------------------------------------------------------
(* Login: the session, its grant and tokens, then SessionLimitService.enforce. *)

SLogin(s, a) ==
  /\ sLog[s] = "out"
  /\ SWriteSession(s, [acct |-> a, grant |-> s])
  /\ sGrant' = [sGrant EXCEPT ![s] = a]
  /\ sOwner' = [sOwner EXCEPT ![s] = a]
  /\ sTok' = [sTok EXCEPT ![s] = STokenKinds]
  /\ sLog' = [sLog EXCEPT ![s] = IF SLimit = 0 THEN "in" ELSE "claim"]
  /\ UNCHANGED <<sClaims, sSw, sCopy, sMoved, sRevoked>>

\* The DELETE of claimSurplusSessions: FOR UPDATE locks every candidate, those
\* that OFFSET passes over too...
SEnforceClaim(s) ==
  LET a == sOwner[s]
      skips == (SLiveOf(a) \ {s}) \cap SLocked # {}
  IN  /\ sLog[s] = "claim"
      /\ sHeld' = [sHeld EXCEPT ![s] = SCandidates(a, s)]
      /\ sSkipped' = IF skips THEN sSkipped \cup {s} ELSE sSkipped
      /\ sLog' = [sLog EXCEPT ![s] = "commit"]
      /\ UNCHANGED <<sStore, sOwner, sVictims, sSw, sCopy, sMoved, sRevoked>>

\* ... and removes the surplus; its commit releases the locks.
SEnforceCommit(s) ==
  LET gone == SSurplus(sHeld[s])
  IN  /\ sLog[s] = "commit"
      /\ SDelete(gone, {})
      /\ sHeld' = [sHeld EXCEPT ![s] = {}]
      /\ sVictims' = [sVictims EXCEPT ![s] = {sRow[t].grant : t \in gone}]
      /\ sLog' = [sLog EXCEPT ![s] = IF gone = {} THEN "in" ELSE "clear"]
      /\ UNCHANGED <<sOwner, sSkipped, sSw, sCopy, sMoved, sRevoked>>

\* deleteSessions: the grants the evicted rows named, and their tokens.
SEnforceClear(s) ==
  /\ sLog[s] = "clear"
  /\ SDelete({}, sVictims[s])
  /\ sLog' = [sLog EXCEPT ![s] = "in"]
  /\ UNCHANGED <<sOwner, sClaims, sSw, sCopy, sMoved, sRevoked>>

-----------------------------------------------------------------------------
(* POST /auth/switch-tenant.                                                *)

SSwitchTo(w, sw) == sSw' = [sSw EXCEPT ![w] = sw]
SSwitchAt(w, pc) == SSwitchTo(w, [sSw[w] EXCEPT !.pc = pc])
SSwitchRest == UNCHANGED <<sLog, sClaims, sCopy, sRevoked>>

\* The caller presents a token of grant g; its row tells the previous grant,
\* unless the token was revoked (the signature alone is still accepted).
SSwitchBegin(w, g, to) ==
  /\ sSw[w].pc = "idle" /\ sOwner[g] # SNone
  /\ SSwitchTo(w, [pc |-> "grant", from |-> sOwner[g], to |-> to,
                   prev |-> IF "access" \in sTok[g] THEN g ELSE SNone, todo |-> {}])
  /\ UNCHANGED <<sStore, sOwner, sMoved>> /\ SSwitchRest

\* issueTokensForMembership: save the grant, then each token.
SIssueGrant(w) ==
  /\ sSw[w].pc = "grant"
  /\ sGrant' = [sGrant EXCEPT ![w] = sSw[w].to]
  /\ sOwner' = [sOwner EXCEPT ![w] = sSw[w].to]
  /\ SSwitchAt(w, "access")
  /\ UNCHANGED <<sRow, sOlder, sTok, sMoved>> /\ SSwitchRest

SIssueToken(w, kind, next) ==
  /\ sSw[w].pc = kind
  /\ sTok' = [sTok EXCEPT ![w] = @ \cup {kind}]
  /\ SSwitchAt(w, next)
  /\ UNCHANGED <<sRow, sOlder, sGrant, sOwner, sMoved>> /\ SSwitchRest

\* revokeGrant of the previous grant, if there is another one.
SRevokeGrant(w) ==
  /\ sSw[w].pc = "revoke.grant"
  /\ IF sSw[w].prev = SNone THEN SSwitchAt(w, "load") /\ UNCHANGED sGrant
     ELSE /\ SSwitchAt(w, "revoke.access")
          /\ sGrant' = [sGrant EXCEPT ![sSw[w].prev] = SNone]
  /\ UNCHANGED <<sRow, sOlder, sTok, sOwner, sMoved>> /\ SSwitchRest

SRevokeTokens(w, kind, from, next) ==
  /\ sSw[w].pc = from
  /\ sTok' = [sTok EXCEPT ![sSw[w].prev] = @ \ {kind}]
  /\ SSwitchAt(w, next)
  /\ UNCHANGED <<sRow, sOlder, sGrant, sOwner, sMoved>> /\ SSwitchRest

\* rebindSessionsToAccount: find the sessions...
SRebindLoad(w) ==
  /\ sSw[w].pc = "load"
  /\ SSwitchTo(w, [sSw[w] EXCEPT !.pc = "save", !.todo = SLiveOf(sSw[w].from)])
  /\ UNCHANGED <<sStore, sOwner, sMoved>> /\ SSwitchRest

\* MUTANT of SRebound: the account is rewritten, the authorized grant is not.
SRebound_KeepGrant(w) ==
  [acct |-> sSw[w].to, grant |-> sRow[CHOOSE s \in sSw[w].todo : TRUE].grant]

SRebound(w) == [acct |-> sSw[w].to, grant |-> w]

\* ... and save each of them.
SRebindSave(w) ==
  /\ sSw[w].pc = "save"
  /\ IF sSw[w].todo = {}
     THEN SSwitchAt(w, "sweep") /\ UNCHANGED <<sRow, sOlder, sMoved>>
     ELSE \E s \in sSw[w].todo :
            /\ SWriteSession(s, SRebound(w))
            /\ sMoved' = sMoved \cup {s}
            /\ SSwitchTo(w, [sSw[w] EXCEPT !.todo = @ \ {s}])
  /\ UNCHANGED <<sGrant, sTok, sOwner>> /\ SSwitchRest

\* What the previous account still has is deleted; then the audit entry.
SSwitchSweep(w) ==
  /\ sSw[w].pc = "sweep"
  /\ IF sSw[w].from # sSw[w].to THEN SDeleteAllForAccount(sSw[w].from)
     ELSE UNCHANGED sStore
  /\ SSwitchAt(w, "done")
  /\ UNCHANGED <<sOwner, sMoved>> /\ SSwitchRest

SSwitchStep(w) ==
  \/ SIssueGrant(w)
  \/ SIssueToken(w, "access", "refresh")
  \/ SIssueToken(w, "refresh", "revoke.grant")
  \/ SRevokeGrant(w)
  \/ SRevokeTokens(w, "access", "revoke.access", "revoke.refresh")
  \/ SRevokeTokens(w, "refresh", "revoke.refresh", "load")
  \/ SRebindLoad(w) \/ SRebindSave(w) \/ SSwitchSweep(w)

-----------------------------------------------------------------------------
(* Force-logout, and the provider's own reads and writes.                   *)

\* revokeSessions: the deletes and the audit entry are one transaction.
SRevokeSessions(a) ==
  /\ SLiveOf(a) # {}
  /\ SDeleteAllForAccount(a)
  /\ sRevoked' = sRevoked \cup SLiveOf(a)
  /\ UNCHANGED <<sOwner, sLog, sClaims, sSw, sCopy, sMoved>>

\* A request of the browser loads its session, and upserts it at its end.
SProviderLoad(s) ==
  /\ SLive(s) /\ sLog[s] = "in" /\ sCopy[s] = SNoRow
  /\ sCopy' = [sCopy EXCEPT ![s] = sRow[s]]
  /\ UNCHANGED <<sStore, sOwner, sLog, sClaims, sSw, sMoved, sRevoked>>

SProviderSave(s) ==
  /\ sCopy[s] # SNoRow
  /\ SWriteSession(s, sCopy[s])
  /\ sCopy' = [sCopy EXCEPT ![s] = SNoRow]
  /\ sMoved' = IF sRow[s] = sCopy[s] THEN sMoved ELSE sMoved \cup {s}
  /\ UNCHANGED <<sGrant, sTok, sOwner, sLog, sClaims, sSw, sRevoked>>

\* destroy (logout) or purgeExpiredBatch of one session row.
SRemoveSession(s) ==
  /\ SLive(s) /\ s \notin SLocked
  /\ SDelete({s}, {})
  /\ UNCHANGED <<sOwner, sLog, sClaims, sSw, sCopy, sMoved, sRevoked>>

SNext ==
  \/ \E s \in SSids :
       \/ \E a \in SAccounts : SLogin(s, a)
       \/ SEnforceClaim(s) \/ SEnforceCommit(s) \/ SEnforceClear(s)
       \/ SProviderLoad(s) \/ SProviderSave(s) \/ SRemoveSession(s)
  \/ \E w \in SSwitches :
       \/ \E g \in SGrants, to \in SAccounts : SSwitchBegin(w, g, to)
       \/ SSwitchStep(w)
  \/ \E a \in SAccounts : SRevokeSessions(a)

SSpec == SInit /\ [][SNext]_sVars

-----------------------------------------------------------------------------
(* Properties.                                                              *)

\* Once no login of an account is still enforcing, the account has no more
\* sessions than the limit, and one more for each eviction statement that ran
\* into another one's locks and skipped rows it should have counted
\* (claimSurplusSessions); sessions that another account's switch or a stale
\* save brought are not subject to it.
SCapHolds ==
  SLimit > 0 => \A a \in SAccounts :
    (\A s \in SSids : sOwner[s] = a => sLog[s] \notin {"claim", "commit"}) =>
      Cardinality(SLiveOf(a) \ sMoved)
        <= SLimit + Cardinality({s \in sSkipped : sOwner[s] = a})

\* The limit itself, as the comment on claimSurplusSessions has it: two logins
\* landing together do not leave the account over the cap.
SCapExact ==
  SLimit > 0 => \A a \in SAccounts :
    (\A s \in SSids : sOwner[s] = a => sLog[s] \notin {"claim", "commit"}) =>
      Cardinality(SLiveOf(a) \ sMoved) <= SLimit

\* When a login has returned, no grant and no token of a session it evicted is
\* left (deleteSessions, after the rows are already gone).
SEvictedPowerless ==
  \A s \in SSids : sLog[s] = "in" =>
    \A g \in sVictims[s] : sGrant[g] = SNone /\ sTok[g] = {}

\* A session never pairs one account with another account's grant, whatever
\* switches, stale saves and logins interleave (rebindSessionsToAccount writes
\* both): a renewal would mint tokens of the wrong tenant.
SGrantOfAccount ==
  \A s \in SSids : SLive(s) => sOwner[sRow[s].grant] = sRow[s].acct

\* Sessions under the limit: no more than it allows, nothing left of the evicted
\* ones, and none with the grant of another account.
SSessionsSound == STypeOK /\ SCapHolds /\ SEvictedPowerless /\ SGrantOfAccount

\* A force-logout is undone by nothing but a copy of the session taken while it
\* was there: one the provider will save, or one a switch will rebind.
SBackOnlyByCopy ==
  [][\A s \in sRevoked : ~SLive(s) /\ SLive(s)' =>
       sCopy[s] # SNoRow \/ \E w \in SSwitches : s \in sSw[w].todo]_sVars

\* Force-logout drops all sessions of a user for good.
SForceLogoutFinal == \A s \in sRevoked : ~SLive(s)
=============================================================================
