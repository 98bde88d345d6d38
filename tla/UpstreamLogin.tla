--------------------------- MODULE UpstreamLogin ---------------------------
(***************************************************************************)
(* Federated login: oidc-provider's interactions sent to the upstream      *)
(* identity provider and back (OidcInteractionController), the rows that   *)
(* remember the way (oidc_upstream_interaction), the upstream session that *)
(* a callback stages and the `session.saved` listener later binds to an    *)
(* OIDC session (oidc_upstream_session), its logout and its purge.         *)
(*                                                                         *)
(* A uid is one interaction of one browser, and names the OIDC session     *)
(* that its login creates.  A state is the random value of one redirect:   *)
(* states are numbered in the order they are drawn.  Which member a        *)
(* subject is resolved to is the matter of module TenantUsers; here the    *)
(* identity provider chooses the member.  Each await ends a step.  Time is  *)
(* not counted: what a clock decides (an interaction or a token expired, or *)
(* was purged) may happen at any moment, and an expired row that only the   *)
(* purge can still see is the same as a deleted one.                        *)
(***************************************************************************)
EXTENDS Integers, Sequences, FiniteSets

CONSTANTS UUids, UUsers, UNone,
          UMaxStates,    \* bound: redirects to the identity provider
          UMaxSaves      \* bound: session.saved events per session

ASSUME UConstantsAssumption == /\ UNone \notin UUsers \cup UUids
                               /\ UMaxStates \in Nat \ {0}
                               /\ UMaxSaves \in Nat \ {0}

UStates == 1 .. UMaxStates

VARIABLES uRow,     \* oidc_upstream_interaction, by interaction_uid
          uUid,     \* the uid each drawn state was drawn for; UNone: not yet
          uWho,     \* the member its identity token speaks for, once issued
          uPc,      \* where the callback of each state is
          uCopy,    \* the interaction row it loaded and is about to save
          uSess,    \* oidc_upstream_session, in order of created_at
          uModel,   \* the account of each Session row of oidc_model
          uSaves,   \* session.saved events so far
          uFin,     \* the listener running for each session
          uOut,     \* the logout running for each session
          uEnded    \* tokens whose upstream session was ended

uVars == <<uRow, uUid, uWho, uPc, uCopy, uSess, uModel, uSaves, uFin, uOut, uEnded>>
uInteraction == <<uRow, uUid, uWho, uPc, uCopy>>

-----------------------------------------------------------------------------
(* Rows.                                                                    *)

\* An interaction row: state and PKCE data stand and fall together.
UInteractionRow == [state : UStates, user : UUsers \cup {UNone},
                    consumed : BOOLEAN]
UNoInteraction == [state |-> 0, user |-> UNone, consumed |-> FALSE]

\* An upstream session: pending while model = UNone.  The token is named by
\* the state of the redirect it came from.
USessionRow == [live : BOOLEAN, user : UUsers, token : UStates,
                model : UUids \cup {UNone}]

UPending(i) == uSess[i].live /\ uSess[i].model = UNone

\* findByState: the row that now carries the state, if there is one.
UFindByState(s) == {u \in UUids : uRow[u].state = s}

\* findLatestPendingByTenantUserId and findByOidcSessionUid, findByOidcModelId:
\* a row's session uid and model id are written together.
ULatest(is) == IF is = {} THEN 0 ELSE CHOOSE i \in is : \A j \in is : j <= i
\* MUTANT of UFindLatestPending: the newest pending row of anybody.
UFindLatestPending_Anyone(user) == ULatest({i \in DOMAIN uSess : UPending(i)})

UFindLatestPending(user) ==
  ULatest({i \in DOMAIN uSess : UPending(i) /\ uSess[i].user = user})
UFindByModel(u) == ULatest({i \in DOMAIN uSess : uSess[i].live /\ uSess[i].model = u})

UCallbackPCs == {"none", "away", "code", "claims", "staged", "set.save", "set",
                 "consume.save", "done", "failed"}
UNoFin == [pc |-> "idle", user |-> UNone, pend |-> 0, token |-> 0, old |-> 0]
UNoOut == [pc |-> "idle", row |-> 0, token |-> 0]
UFinStates == [pc : {"idle", "model", "pending", "existing", "delete"},
               user : UUsers \cup {UNone}, pend : Nat, token : Nat, old : Nat]

UTypeOK ==
  /\ uRow \in [UUids -> UInteractionRow \cup {UNoInteraction}]
  /\ uUid \in [UStates -> UUids \cup {UNone}]
  /\ uWho \in [UStates -> UUsers \cup {UNone}]
  /\ uPc \in [UStates -> UCallbackPCs]
  /\ uCopy \in [UStates -> UInteractionRow \cup {UNoInteraction}]
  /\ uSess \in Seq(USessionRow)
  /\ uModel \in [UUids -> UUsers \cup {UNone}]
  /\ uSaves \in [UUids -> 0 .. UMaxSaves]
  /\ uFin \in [UUids -> UFinStates]
  /\ uOut \in [UUids -> [pc : {"idle", "ending", "deleting"}, row : Nat, token : Nat]]
  /\ uEnded \subseteq UStates

UInit ==
  /\ uRow = [u \in UUids |-> UNoInteraction]
  /\ uUid = [s \in UStates |-> UNone]
  /\ uWho = [s \in UStates |-> UNone]
  /\ uPc = [s \in UStates |-> "none"]
  /\ uCopy = [s \in UStates |-> UNoInteraction]
  /\ uSess = << >>
  /\ uModel = [u \in UUids |-> UNone]
  /\ uSaves = [u \in UUids |-> 0]
  /\ uFin = [u \in UUids |-> UNoFin]
  /\ uOut = [u \in UUids |-> UNoOut]
  /\ uEnded = {}

-----------------------------------------------------------------------------
(* GET /interaction/:uid.                                                   *)

\* oidc-provider keeps an interaction until it was finished, once.
UOpen(u) == uSaves[u] = 0

\* upsertByInteractionUid: a fresh row, or the uid's row made fresh again.
UFreshRow(u, s) == [state |-> s, user |-> UNone, consumed |-> FALSE]

\* The login prompt of an interaction that was not answered yet: draw a state,
\* store it and redirect.  With an account in the session it throws instead.
UStartUpstreamLogin(u) ==
  /\ UOpen(u) /\ ~uRow[u].consumed
  /\ \E s \in UStates :
       /\ uUid[s] = UNone /\ \A t \in 1 .. s - 1 : uUid[t] # UNone
       /\ uUid' = [uUid EXCEPT ![s] = u]
       /\ uPc' = [uPc EXCEPT ![s] = "away"]
       /\ uRow' = [uRow EXCEPT ![u] = UFreshRow(u, s)]
  /\ UNCHANGED <<uWho, uCopy, uSess, uModel, uSaves, uFin, uOut, uEnded>>

\* The identity provider authenticates someone and sends the browser back.
UUpstreamAuthenticates(s) ==
  /\ uPc[s] = "away"
  /\ uWho' \in {[uWho EXCEPT ![s] = user] : user \in UUsers}
  /\ uPc' = [uPc EXCEPT ![s] = "code"]
  /\ UNCHANGED <<uRow, uUid, uCopy, uSess, uModel, uSaves, uFin, uOut, uEnded>>

\* The login prompt of an answered interaction: save the grant for the member
\* of the row and finish; the provider saves the session with that account.
UFinishInteraction(u) ==
  /\ UOpen(u) /\ uRow[u].consumed
  /\ uModel' = [uModel EXCEPT ![u] = uRow[u].user]
  /\ uSaves' = [uSaves EXCEPT ![u] = @ + 1]
  /\ uFin' = [uFin EXCEPT ![u] = [UNoFin EXCEPT !.pc = "model", !.user = uRow[u].user]]
  /\ UNCHANGED <<uInteraction, uSess, uOut, uEnded>>

-----------------------------------------------------------------------------
(* GET /callback?code&state, one per redirect: the code can be redeemed     *)
(* once, so a repeated request fails at the exchange and changes nothing.   *)

UCallbackFails(s) ==
  /\ uPc' = [uPc EXCEPT ![s] = "failed"]
  /\ UNCHANGED <<uRow, uUid, uWho, uCopy, uSess, uModel, uSaves, uFin, uOut, uEnded>>

\* handleUpstreamCallback: validateInteraction, then redeem the code, which may fail.
UHandleUpstreamCallback(s) ==
  /\ uPc[s] = "code"
  /\ \/ /\ UFindByState(s) # {}
        /\ uPc' = [uPc EXCEPT ![s] = "claims"]
        /\ UNCHANGED <<uRow, uUid, uWho, uCopy, uSess, uModel, uSaves, uFin, uOut, uEnded>>
     \/ UCallbackFails(s)

\* stagePendingUpstreamSession: an insert with neither model nor session uid.
UStagePending(s) ==
  /\ uPc[s] = "claims"
  /\ uSess' = Append(uSess, [live |-> TRUE, user |-> uWho[s], token |-> s,
                             model |-> UNone])
  /\ uPc' = [uPc EXCEPT ![s] = "staged"]
  /\ UNCHANGED <<uRow, uUid, uWho, uCopy, uModel, uSaves, uFin, uOut, uEnded>>

\* setTenantUserIdForInteraction and consumeInteraction: validate and load...
ULoad(s, from, to, copies) ==
  /\ uPc[s] = from
  /\ \/ /\ \E copy \in copies : uCopy' = [uCopy EXCEPT ![s] = copy]
        /\ uPc' = [uPc EXCEPT ![s] = to]
        /\ UNCHANGED <<uRow, uUid, uWho, uSess, uModel, uSaves, uFin, uOut, uEnded>>
     \/ UCallbackFails(s)

USetTenantUserId(s) ==
  ULoad(s, "staged", "set.save", {[uRow[u] EXCEPT !.user = uWho[s]] : u \in UFindByState(s)})
UConsumeInteraction(s) ==
  ULoad(s, "set", "consume.save", {[uRow[u] EXCEPT !.consumed = TRUE] : u \in UFindByState(s)})

\* ... and save(): every column that differs from the row is written, so the
\* row becomes the copy, whatever a new redirect wrote meanwhile; and a row
\* purged meanwhile is inserted again.
USaveInteraction(s, from, to) ==
  /\ uPc[s] = from
  /\ uRow' = [uRow EXCEPT ![uUid[s]] = uCopy[s]]
  /\ uPc' = [uPc EXCEPT ![s] = to]
  /\ uCopy' = [uCopy EXCEPT ![s] = UNoInteraction]
  /\ UNCHANGED <<uUid, uWho, uSess, uModel, uSaves, uFin, uOut, uEnded>>

UCallbackStep(s) ==
  \/ UHandleUpstreamCallback(s)
  \/ UStagePending(s)
  \/ USetTenantUserId(s)
  \/ USaveInteraction(s, "set.save", "set")
  \/ UConsumeInteraction(s)
  \/ USaveInteraction(s, "consume.save", "done")

-----------------------------------------------------------------------------
(* session.saved: fire-and-forget, after the request that saved the session. *)

\* Any later save of a live session fires the listener again.
USessionSaved(u) ==
  /\ uModel[u] # UNone /\ uSaves[u] < UMaxSaves /\ uFin[u].pc = "idle"
  /\ uSaves' = [uSaves EXCEPT ![u] = @ + 1]
  /\ uFin' = [uFin EXCEPT ![u] = [UNoFin EXCEPT !.pc = "model", !.user = uModel[u]]]
  /\ UNCHANGED <<uInteraction, uSess, uModel, uOut, uEnded>>

UFinTo(u, fin) == uFin' = [uFin EXCEPT ![u] = fin]

\* finalizePendingUpstreamSession: is there still a Session row of that uid?
UFinModel(u) ==
  /\ uFin[u].pc = "model"
  /\ UFinTo(u, IF uModel[u] = UNone THEN UNoFin
               ELSE [uFin[u] EXCEPT !.pc = "pending"])
  /\ UNCHANGED <<uInteraction, uSess, uModel, uSaves, uOut, uEnded>>

\* finalizeUpstreamSessionForOidcSession: the member's newest pending row...
UFinPending(u) ==
  LET i == UFindLatestPending(uFin[u].user)
  IN  /\ uFin[u].pc = "pending"
      /\ UFinTo(u, IF i = 0 THEN UNoFin
                   ELSE [uFin[u] EXCEPT !.pc = "existing", !.pend = i,
                                        !.token = uSess[i].token,
                                        !.old = UFindByModel(u)])
      /\ UNCHANGED <<uInteraction, uSess, uModel, uSaves, uOut, uEnded>>

\* ... is copied into the row the session already has, and then deleted; or is
\* bound to the session.  The foreign key refuses a model that is gone, and
\* the listener only logs the error; save() inserts a row that was deleted.
UFinUpdate(u) ==
  LET f == uFin[u]
      row == [live |-> TRUE, user |-> f.user, token |-> f.token, model |-> u]
      refused == uModel[u] = UNone
  IN  /\ f.pc = "existing"
      /\ uSess' = IF refused THEN uSess
                  ELSE [uSess EXCEPT ![IF f.old # 0 THEN f.old ELSE f.pend] = row]
      /\ UFinTo(u, IF refused \/ f.old = 0 THEN UNoFin ELSE [f EXCEPT !.pc = "delete"])
      /\ UNCHANGED <<uInteraction, uModel, uSaves, uOut, uEnded>>

UFinDelete(u) ==
  /\ uFin[u].pc = "delete"
  /\ uSess' = [uSess EXCEPT ![uFin[u].pend].live = FALSE]
  /\ UFinTo(u, UNoFin)
  /\ UNCHANGED <<uInteraction, uModel, uSaves, uOut, uEnded>>

UFinStep(u) == UFinModel(u) \/ UFinPending(u) \/ UFinUpdate(u) \/ UFinDelete(u)

-----------------------------------------------------------------------------
(* Logout and expiry.                                                       *)

UOutTo(u, out) == uOut' = [uOut EXCEPT ![u] = out]

\* Deleting a Session row takes its upstream session with it (ON DELETE CASCADE).
UDeleteModel(u) ==
  /\ uModel' = [uModel EXCEPT ![u] = UNone]
  /\ uSess' = [i \in DOMAIN uSess |->
                 IF uSess[i].model = u THEN [uSess[i] EXCEPT !.live = FALSE] ELSE uSess[i]]

\* OidcModelAdapter.destroy, or the purge of an expired session: look for the
\* upstream session; without one the Session row is deleted at once.
ULogoutBegin(u) ==
  /\ uOut[u].pc = "idle" /\ uModel[u] # UNone
  /\ IF UFindByModel(u) = 0
     THEN UDeleteModel(u) /\ UNCHANGED uOut
     ELSE /\ UOutTo(u, [pc |-> "ending", row |-> UFindByModel(u),
                         token |-> uSess[UFindByModel(u)].token])
          /\ UNCHANGED <<uSess, uModel>>
  /\ UNCHANGED <<uInteraction, uSaves, uFin, uEnded>>

\* The identity provider ends the session of the token that was read and the
\* row is deleted by its id...
ULogoutEnded(u) ==
  /\ uOut[u].pc = "ending"
  /\ uEnded' = uEnded \cup {uOut[u].token}
  /\ uSess' = [uSess EXCEPT ![uOut[u].row].live = FALSE]
  /\ UOutTo(u, [uOut[u] EXCEPT !.pc = "deleting"])
  /\ UNCHANGED <<uInteraction, uModel, uSaves, uFin>>

\* ... then the Session row.
ULogoutDelete(u) ==
  /\ uOut[u].pc = "deleting"
  /\ UDeleteModel(u)
  /\ UOutTo(u, UNoOut)
  /\ UNCHANGED <<uInteraction, uSaves, uFin, uEnded>>

\* The end-session request fails: destroy throws and the session stays, or the
\* purge of an expired session goes on and deletes it all the same.
ULogoutFails(u) ==
  /\ uOut[u].pc = "ending"
  /\ UDeleteModel(u) \/ UNCHANGED <<uSess, uModel>>
  /\ UOutTo(u, UNoOut)
  /\ UNCHANGED <<uInteraction, uSaves, uFin, uEnded>>

\* purgeExpiredUpstreamInteractionsBatch and cleanupExpiredInteractions, after
\* the fifteen minutes of a row.
UPurgeInteraction(u) ==
  /\ uRow[u] # UNoInteraction
  /\ uRow' = [uRow EXCEPT ![u] = UNoInteraction]
  /\ UNCHANGED <<uUid, uWho, uPc, uCopy, uSess, uModel, uSaves, uFin, uOut, uEnded>>

\* MUTANT of UPurgePending: the batch selects rows that are bound to a session.
UPurgePending_Bound ==
  /\ \E i \in DOMAIN uSess :
       /\ uSess[i].live /\ ~UPending(i)
       /\ uSess' = [uSess EXCEPT ![i].live = FALSE]
  /\ UNCHANGED <<uInteraction, uModel, uSaves, uFin, uOut, uEnded>>

\* deleteExpiredPendingBatch, after the lifetime of the token: oldest first.
UPurgePending ==
  /\ \E i \in DOMAIN uSess :
       /\ UPending(i) /\ \A j \in 1 .. i - 1 : ~UPending(j)
       /\ uSess' = [uSess EXCEPT ![i].live = FALSE]
  /\ UNCHANGED <<uInteraction, uModel, uSaves, uFin, uOut, uEnded>>

UNext ==
  \/ \E u \in UUids :
       \/ UStartUpstreamLogin(u) \/ UFinishInteraction(u) \/ USessionSaved(u)
       \/ UFinStep(u)
       \/ ULogoutBegin(u) \/ ULogoutEnded(u) \/ ULogoutDelete(u) \/ ULogoutFails(u)
       \/ UPurgeInteraction(u)
  \/ \E s \in UStates : UUpstreamAuthenticates(s) \/ UCallbackStep(s)
  \/ UPurgePending

USpec == UInit /\ [][UNext]_uVars

\* Tokens expire and the hourly purge runs; a listener runs to its end.
UFairness == /\ WF_uVars(UPurgePending)
             /\ \A u \in UUids : WF_uVars(UFinStep(u))

-----------------------------------------------------------------------------
(* Properties.                                                              *)

\* An interaction that is marked consumed names the member who authenticated
\* for the very redirect whose state the row carries, however callbacks and new
\* redirects of the same interaction interleave (upsertByInteractionUid resets
\* the member; setTenantUserIdForInteraction and consumeInteraction save copies).
UConsumedByOwnLogin ==
  \A u \in UUids : uRow[u].consumed =>
    /\ uUid[uRow[u].state] = u
    /\ uRow[u].user = uWho[uRow[u].state]

\* A session exists only for a member who authenticated upstream in that
\* browser's own interaction (the consumedAt test of interaction()).
USessionAuthenticated ==
  \A u \in UUids : uModel[u] # UNone =>
    \E s \in UStates : /\ uUid[s] = u /\ uWho[s] = uModel[u]
                       /\ uPc[s] \in {"consume.save", "done"}

\* An upstream session bound to an OIDC session holds a token of the same
\* member, so that logging out never ends another member's upstream session
\* (findLatestPendingByTenantUserId under concurrent listeners).
UTokenOfSameMember ==
  \A i \in DOMAIN uSess : uSess[i].live =>
    /\ uWho[uSess[i].token] = uSess[i].user
    /\ uSess[i].model # UNone => uModel[uSess[i].model] = uSess[i].user

\* A login is of one member throughout: the interaction, the session and the
\* upstream token it leaves behind all belong to whoever authenticated.
UOneMember ==
  UTypeOK /\ UConsumedByOwnLogin /\ USessionAuthenticated /\ UTokenOfSameMember

\* A staged upstream session does not stay pending for ever: a listener binds
\* it or, once expired, the purge deletes it (deleteExpiredPendingBatch).
UPendingDrained ==
  \A i \in 1 .. UMaxStates :
    (i \in DOMAIN uSess /\ UPending(i)) ~> (i \in DOMAIN uSess /\ ~UPending(i))

=============================================================================
