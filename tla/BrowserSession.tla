---------------------------- MODULE BrowserSession ----------------------------
(***************************************************************************)
(* One browser tab of the web interface: the API client with its shared    *)
(* refresh flight, the OIDC auth client with its serialized token          *)
(* operations, tenant switches and sign-out, against the provider.         *)
(*                                                                         *)
(* A generation is one pair of access and refresh token.  The tab's user   *)
(* holds one; the provider keeps the live one of the tab's grant.          *)
(***************************************************************************)
EXTENDS Integers, Sequences

CONSTANTS
    WTenants,    \* tenants the person is a member of
    WQueries,    \* requests the pages have in flight, at most
    WMaxGen,     \* bound on the generations minted
    WFaults      \* whether answers of the provider may be lost

ASSUME WAssumption == WMaxGen \in Nat /\ WFaults \in BOOLEAN

VARIABLES
    wGen,       \* generations minted: gen -> tenant
    wProvider,  \* live: the live generation, 0 if none; chain: its consumed ones
    wExpired,   \* generations whose access token has expired
    wUser,      \* currentUser, as in sessionStorage
    wOps,       \* tokenOps: serialized operations, the first one running
    wFlight,    \* refreshInFlight
    wReq,       \* requests through apiClient, the switch among them
    wLogout,
    wGoal,      \* tenant of the last completed sign-in or switch
    wLost       \* what may end the session: a fault, another tab, a sign-out

wVars == <<wGen, wProvider, wExpired, wUser, wOps, wFlight, wReq, wLogout, wGoal, wLost>>

WNone == [gen |-> 0, refresh |-> 0, tenant |-> "none"]
WRequests == WQueries \cup {"switch"}

WIdleReq == [at |-> "idle", gen |-> 0, retried |-> FALSE, tenant |-> "none"]
WIdleFlight == [at |-> "none", gen |-> 0, got |-> 0]

WInit ==
    /\ wGen = <<>> /\ wProvider = [live |-> 0, chain |-> {}] /\ wExpired = {}
    /\ wUser = WNone /\ wOps = <<>> /\ wFlight = WIdleFlight
    /\ wReq = [r \in WRequests |-> WIdleReq] /\ wLogout = "no"
    /\ wGoal = "none" /\ wLost = FALSE

------------------------------------------------------------------------------
(* The provider *)

WMint(tenant) == wGen' = Append(wGen, tenant)
WMinted == Len(wGen) + 1

\* The bound: what asks for new generations stops at WMaxGen of them.
WMore == Len(wGen) < WMaxGen

WUserOf(gen) == [gen |-> gen, refresh |-> gen, tenant |-> wGen[gen]]

\* A refresh token that was consumed already ends the whole grant.
WSpend(gen) ==
    IF gen = wProvider.live /\ gen # 0
    THEN WMint(wGen[gen]) /\ wProvider' = [live |-> WMinted, chain |-> wProvider.chain \cup {gen}]
    ELSE /\ wProvider' = IF gen \in wProvider.chain THEN [live |-> 0, chain |-> {}] ELSE wProvider
         /\ UNCHANGED wGen

\* An access token runs out.  It lives far longer than a round trip, so one just
\* obtained outlasts the retries it was obtained for.
WExpire ==
    /\ wFlight.at # "token" /\ \A r \in WRequests : ~wReq[r].retried
    /\ WMore /\ wUser # WNone /\ wUser.gen \notin wExpired
    /\ wExpired' = wExpired \cup {wUser.gen}
    /\ UNCHANGED <<wGen, wProvider, wUser, wOps, wFlight, wReq, wLogout, wGoal, wLost>>

\* Another tab of the same browser switches: this tab's grant is revoked.
WOtherTab ==
    /\ WFaults /\ wProvider.live # 0
    /\ wProvider' = [live |-> 0, chain |-> {}] /\ wLost' = TRUE
    /\ UNCHANGED <<wGen, wExpired, wUser, wOps, wFlight, wReq, wLogout, wGoal>>

------------------------------------------------------------------------------
(* Requests: the interceptors of apiClient *)

WBusy(r) == wReq[r].at # "idle"

\* The request interceptor attaches the access token of the moment.
WSend(r, tenant) ==
    /\ ~WBusy(r) /\ wUser # WNone
    /\ wReq' = [wReq EXCEPT ![r] = [WIdleReq EXCEPT !.at = "sent", !.gen = wUser.gen, !.tenant = tenant]]
    /\ UNCHANGED <<wGen, wProvider, wExpired, wUser, wOps, wFlight, wLogout, wGoal, wLost>>

\* The tenant switcher offers the other tenants, one switch at a time.
WSwitchTo(tenant) == WMore /\ tenant # wUser.tenant /\ WSend("switch", tenant)

\* The API takes the request, or answers 401.  switchTenant ends the old grant
\* and mints tokens for the new tenant.
WServe(r) ==
    LET q  == wReq[r]
        ok == q.gen # 0 /\ q.gen \notin wExpired
    IN  /\ q.at = "sent"
        /\ IF ok /\ r = "switch"
           THEN /\ WMint(q.tenant) /\ wProvider' = [live |-> WMinted, chain |-> {}]
                /\ wReq' = [wReq EXCEPT ![r].at = "answered", ![r].gen = WMinted]
           ELSE /\ wReq' = [wReq EXCEPT ![r].at = IF ok THEN "answered" ELSE "denied"]
                /\ UNCHANGED <<wGen, wProvider>>
        /\ UNCHANGED <<wExpired, wUser, wOps, wFlight, wLogout, wGoal, wLost>>

\* The switch is refused: not a member there, or the tenant is not active.
WRefuse ==
    /\ wReq["switch"].at = "sent" /\ wReq["switch"].gen \notin wExpired \cup {0}
    /\ wReq' = [wReq EXCEPT !["switch"] = WIdleReq]
    /\ UNCHANGED <<wGen, wProvider, wExpired, wUser, wOps, wFlight, wLogout, wGoal, wLost>>

\* A query's answer is used; the switch queues the storing of its tokens.
WAnswered(r) ==
    /\ wReq[r].at = "answered"
    /\ IF r = "switch"
       THEN /\ wOps' = Append(wOps, "store")
            /\ wReq' = [wReq EXCEPT ![r].at = "storing"]
       ELSE wReq' = [wReq EXCEPT ![r] = WIdleReq] /\ UNCHANGED wOps
    /\ UNCHANGED <<wGen, wProvider, wExpired, wUser, wFlight, wLogout, wGoal, wLost>>

\* The first 401 joins the refresh flight or starts it; a second one, after the
\* retry, is an authentication failure: clearSession.
WDenied(r) ==
    /\ wReq[r].at = "denied"
    /\ IF wReq[r].retried
       THEN /\ wReq' = [wReq EXCEPT ![r] = WIdleReq] /\ wUser' = WNone
            /\ UNCHANGED <<wOps, wFlight>>
       ELSE /\ wReq' = [wReq EXCEPT ![r].at = "waiting"]
            /\ IF wFlight.at = "none"
               THEN wFlight' = [WIdleFlight EXCEPT !.at = "queued"] /\ wOps' = Append(wOps, "renew")
               ELSE UNCHANGED <<wOps, wFlight>>
            /\ UNCHANGED wUser
    /\ UNCHANGED <<wGen, wProvider, wExpired, wLogout, wGoal, wLost>>

------------------------------------------------------------------------------
(* The refresh flight *)

WRunning(op) == wOps # <<>> /\ Head(wOps) = op

\* signinSilent begins with the refresh token in the store.
WRenewPost ==
    /\ WRunning("renew") /\ wFlight.at = "queued"
    /\ wFlight' = [wFlight EXCEPT !.at = "posted", !.gen = wUser.refresh]
    /\ UNCHANGED <<wGen, wProvider, wExpired, wUser, wOps, wReq, wLogout, wGoal, wLost>>

WRenewServe ==
    /\ wFlight.at = "posted" /\ WSpend(wFlight.gen)
    /\ wFlight' = [wFlight EXCEPT !.at = "answered",
                     !.got = IF wFlight.gen = wProvider.live /\ wFlight.gen # 0 THEN WMinted ELSE 0]
    /\ UNCHANGED <<wExpired, wUser, wOps, wReq, wLogout, wGoal, wLost>>

\* The answer is lost on the way.
WRenewLost ==
    /\ WFaults /\ wFlight.at = "answered" /\ wFlight.got # 0
    /\ wFlight' = [wFlight EXCEPT !.got = 0] /\ wLost' = TRUE
    /\ UNCHANGED <<wGen, wProvider, wExpired, wUser, wOps, wReq, wLogout, wGoal>>

\* The serialized section ends: the new user is stored, or there is no token and
\* a pending store phase is awaited.
WRenewDone ==
    /\ wFlight.at = "answered" /\ WRunning("renew")
    /\ wOps' = Tail(wOps)
    /\ IF wFlight.got # 0
       THEN wUser' = WUserOf(wFlight.got) /\ wFlight' = [wFlight EXCEPT !.at = "token"]
       ELSE /\ wFlight' = [wFlight EXCEPT
                             !.at = IF wReq["switch"].at = "storing" THEN "awaiting" ELSE "failed"]
            /\ UNCHANGED wUser
    /\ UNCHANGED <<wGen, wProvider, wExpired, wReq, wLogout, wGoal, wLost>>

\* MUTANT of WStore: the tokens of the switch are stored at once, also while a
\* renewal runs.
WStore_AtOnce ==
    LET gen == wReq["switch"].gen
    IN  /\ \E i \in DOMAIN wOps : wOps[i] = "store"
        /\ wOps' = SelectSeq(wOps, LAMBDA op : op # "store")
        /\ wUser' = WUserOf(gen) /\ wGoal' = wGen[gen]
        /\ wReq' = [wReq EXCEPT !["switch"] = WIdleReq]
        /\ wFlight' = IF wFlight.at = "awaiting" THEN [wFlight EXCEPT !.at = "token"] ELSE wFlight
        /\ UNCHANGED <<wGen, wProvider, wExpired, wLogout, wLost>>

\* The store phase of the switch: the tokens of the new tenant replace the user.
WStore ==
    LET gen == wReq["switch"].gen
    IN  /\ WRunning("store")
        /\ wOps' = Tail(wOps) /\ wUser' = WUserOf(gen) /\ wGoal' = wGen[gen]
        /\ wReq' = [wReq EXCEPT !["switch"] = WIdleReq]
        /\ wFlight' = IF wFlight.at = "awaiting" THEN [wFlight EXCEPT !.at = "token"] ELSE wFlight
        /\ UNCHANGED <<wGen, wProvider, wExpired, wLogout, wLost>>

\* MUTANT of WFlightEnds: a renewal that failed does not reject those who wait.
WFlightEnds_NoReject ==
    /\ wFlight.at \in {"token", "failed"}
    /\ wFlight' = WIdleFlight
    /\ wReq' = [r \in WRequests |->
                  IF wReq[r].at # "waiting" \/ wFlight.at = "failed" THEN wReq[r]
                  ELSE [wReq[r] EXCEPT !.at = "sent", !.gen = wUser.gen, !.retried = TRUE]]
    /\ wUser' = IF wFlight.at = "failed" THEN WNone ELSE wUser
    /\ UNCHANGED <<wGen, wProvider, wExpired, wOps, wLogout, wGoal, wLost>>

\* The flight ends: every waiting request is sent once more, or rejected after
\* one onAuthFailure.
WFlightEnds ==
    /\ wFlight.at \in {"token", "failed"}
    /\ wFlight' = WIdleFlight
    /\ wReq' = [r \in WRequests |->
                  IF wReq[r].at # "waiting" THEN wReq[r]
                  ELSE IF wFlight.at = "failed" THEN WIdleReq
                  ELSE [wReq[r] EXCEPT !.at = "sent", !.gen = wUser.gen, !.retried = TRUE]]
    /\ wUser' = IF wFlight.at = "failed" THEN WNone ELSE wUser
    /\ UNCHANGED <<wGen, wProvider, wExpired, wOps, wLogout, wGoal, wLost>>

------------------------------------------------------------------------------
(* Sign-in and sign-out *)

\* login and completeLogin: a page of its own, nothing else is in flight.
WLogin(tenant) ==
    /\ WMore /\ wUser = WNone /\ wLogout = "no" /\ wOps = <<>> /\ wFlight = WIdleFlight
    /\ \A r \in WRequests : ~WBusy(r)
    /\ WMint(tenant) /\ wProvider' = [live |-> WMinted, chain |-> {}]
    /\ wUser' = [gen |-> WMinted, refresh |-> WMinted, tenant |-> tenant]
    /\ wGoal' = tenant /\ wLost' = FALSE
    /\ UNCHANGED <<wExpired, wOps, wFlight, wReq, wLogout>>

\* logout: revokeTokens of the stored user ends its grant; failures are logged.
WLogoutRevoke(arrives) ==
    /\ wLogout = "no" /\ wUser # WNone
    /\ wLogout' = "leaving" /\ wLost' = TRUE
    /\ arrives \/ WFaults
    /\ IF arrives
       THEN /\ wProvider' = IF wUser.refresh \in wProvider.chain \cup {wProvider.live}
                            THEN [live |-> 0, chain |-> {}] ELSE wProvider
            /\ wUser' = [wUser EXCEPT !.refresh = 0]
       ELSE UNCHANGED <<wProvider, wUser>>
    /\ UNCHANGED <<wGen, wExpired, wOps, wFlight, wReq, wGoal>>

\* signoutRedirect clears the user and leaves the page, and with it everything
\* in flight; or it fails, and the page lives on.
WLogoutLeave(fails) ==
    /\ wLogout = "leaving" /\ wLogout' = "no" /\ wUser' = WNone
    /\ fails => WFaults
    /\ IF fails THEN UNCHANGED <<wOps, wFlight, wReq>>
       ELSE wOps' = <<>> /\ wFlight' = WIdleFlight /\ wReq' = [r \in WRequests |-> WIdleReq]
    /\ UNCHANGED <<wGen, wProvider, wExpired, wGoal, wLost>>

WRequestStep(r) == WServe(r) \/ WAnswered(r) \/ WDenied(r)
WTokenStep == WRenewPost \/ WRenewServe \/ WRenewDone \/ WStore \/ WFlightEnds

WNext ==
    \/ \E r \in WRequests : WRequestStep(r)
    \/ WTokenStep
    \/ WExpire \/ WOtherTab \/ WRenewLost \/ WRefuse
    \/ \E r \in WQueries : WSend(r, "none")
    \/ \E t \in WTenants : WSwitchTo(t) \/ WLogin(t)
    \/ \E ok \in BOOLEAN : WLogoutRevoke(ok) \/ WLogoutLeave(~ok)

WSpec == WInit /\ [][WNext]_wVars

\* The event loop runs what is ready, and requests are answered.
WFairness ==
    /\ WF_wVars(WRequestStep("switch")) /\ WF_wVars(WTokenStep)
    /\ \A r \in WQueries : WF_wVars(WRequestStep(r))

------------------------------------------------------------------------------
(* Properties *)

WQuiet ==
    /\ wOps = <<>> /\ wFlight = WIdleFlight /\ wLogout = "no"
    /\ \A r \in WRequests : ~WBusy(r)

\* Users, operations and requests have their shapes, and the queue holds at most
\* one renewal and one store.
WTypeOK ==
    /\ wUser = WNone \/ wUser.gen \in 1 .. Len(wGen)
    /\ wProvider.live \in 0 .. Len(wGen)
    /\ Len(wOps) <= 2 /\ \A i, j \in DOMAIN wOps : wOps[i] = wOps[j] => i = j
    /\ \A r \in WRequests : wReq[r].at \in {"idle", "sent", "answered", "denied", "waiting", "storing"}

\* Once a switch has stored the new tenant's tokens, no renewal that was still
\* on its way brings the old tenant's user back.
WTenantKept == (wUser # WNone /\ ~wLost) => wUser.tenant = wGoal

\* At rest, a signed-in tab holds the live refresh token of its grant, unless a
\* fault, another tab or a sign-out ended that.
WTokenLive == (WQuiet /\ wUser # WNone /\ ~wLost) => wUser.refresh = wProvider.live

\* Whoever waits, for the shared flight or in the serialized queue, waits for
\* something that can go on: never for a renewal nobody started, nor for one that
\* waits for the switch which waits for it ("which must not wait on a switch that
\* is itself waiting on this request", switchTenant).
WNobodyStuck ==
    (\E r \in WRequests : wReq[r].at \in {"waiting", "storing"}) =>
        \/ WRunning("store")
        \/ WRunning("renew") /\ wFlight.at \in {"queued", "posted", "answered"}
        \/ wFlight.at \in {"token", "failed"}

\* A signed-in tab shows the tenant it was switched to and can renew its tokens,
\* and no request of it is stuck.
WTabSound == WTypeOK /\ WTenantKept /\ WTokenLive /\ WNobodyStuck

\* A switch that was asked for ends, though its own request may meet an expired
\* access token and wait for the renewal that runs in the same queue.
WSwitchEnds == WBusy("switch") ~> ~WBusy("switch")

\* Neither a renewal nor a switch signs the person out by itself.
WStaysSignedIn == (wGoal # "none" /\ ~wLost) => wUser # WNone
===============================================================================
