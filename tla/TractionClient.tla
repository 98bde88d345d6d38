---------------------------- MODULE TractionClient ----------------------------
(***************************************************************************)
(* Calls to the tenants' Traction agents from one pod: the token cache of  *)
(* TractionTokenManager and the policy of TractionHttpClient, a retry      *)
(* around one circuit breaker that every connector of every tenant shares. *)
(* The breaker itself (cockatiel) and the agents are external.             *)
(*                                                                         *)
(* Time is counted in relative units: what is left of a token's life and   *)
(* of the breaker's cooldown.                                              *)
(***************************************************************************)
EXTENDS Integers, FiniteSets

CONSTANTS
    TConnectors, TCalls,
    TRetries,    \* RETRY_MAX_ATTEMPTS
    TThreshold,  \* CIRCUIT_BREAKER_CONSECUTIVE_FAILURES
    TCooldown,   \* CIRCUIT_BREAKER_HALF_OPEN_AFTER_MS
    TLife,       \* lifetime of a token Traction issues
    TMargin      \* EXPIRY_SAFETY_MARGIN_MS

ASSUME TAssumption ==
    /\ {TRetries, TThreshold, TCooldown, TLife, TMargin} \subseteq Nat
    /\ TThreshold > 0 /\ TCooldown > 0 /\ TConnectors # {}

VARIABLES
    tUp,       \* connector -> its endpoint answers
    tToken,    \* connector -> what is left of its cached token's life
    tBreaker,  \* [state, failures, cool]
    tCall      \* call slot -> [connector, at, retries]

tVars == <<tUp, tToken, tBreaker, tCall>>

TClosed == [state |-> "closed", failures |-> 0, cool |-> 0]
TOpen   == [state |-> "open", failures |-> 0, cool |-> TCooldown]
TIdle   == [connector |-> CHOOSE c \in TConnectors : TRUE, at |-> "idle", retries |-> 0]

TInit ==
    /\ tUp = [c \in TConnectors |-> TRUE]
    /\ tToken = [c \in TConnectors |-> 0]
    /\ tBreaker = TClosed
    /\ tCall = [k \in TCalls |-> TIdle]

\* Some call is testing the half-open circuit.
TProbing == \E k \in TCalls : tCall[k].at = "probe"

\* getToken: a cached token is used while it lives longer than the margin.
TCached(c) == tToken[c] > TMargin

\* A call asks for its connector's token; without a usable one it requests one.
TGetToken(k, c) ==
    /\ tCall[k].at = "idle"
    /\ ~TCached(c)
    /\ tCall' = [tCall EXCEPT ![k] = [connector |-> c, at |-> "attempt", retries |-> 0]]
    /\ UNCHANGED <<tUp, tToken, tBreaker>>

\* An attempt passes the breaker: closed lets it through, open refuses it
\* (an error the retry does not handle), and once the cooldown is over one
\* call tests the endpoint while the others wait.
TAttempt(k) ==
    /\ tCall[k].at = "attempt"
    /\ \/ /\ tBreaker.state = "closed"
          /\ tCall' = [tCall EXCEPT ![k].at = "request"]
          /\ UNCHANGED tBreaker
       \/ /\ tBreaker.state = "open" /\ tBreaker.cool > 0
          /\ tCall' = [tCall EXCEPT ![k] = TIdle]
          /\ UNCHANGED tBreaker
       \/ /\ tBreaker.state = "open" /\ tBreaker.cool = 0
          /\ tCall' = [tCall EXCEPT ![k].at = "probe"]
          /\ tBreaker' = [tBreaker EXCEPT !.state = "halfOpen"]
       \/ /\ tBreaker.state = "halfOpen"
          /\ tCall' = [tCall EXCEPT ![k].at = "waiting"]
          /\ UNCHANGED tBreaker
    /\ UNCHANGED <<tUp, tToken>>

\* Call k goes on as r.  The end of a test releases the calls that wait for
\* it: into a closed circuit, or refused by an open one.
TSettle(k, r, b) ==
    /\ tBreaker' = b
    /\ tCall' = [l \in TCalls |->
         IF l = k THEN r
         ELSE IF tCall[l].at # "waiting" \/ tCall[k].at # "probe" THEN tCall[l]
         ELSE IF b.state = "closed" THEN [tCall[l] EXCEPT !.at = "request"] ELSE TIdle]

\* readExpiry: a token without a usable exp claim has expired already.
TReadExpiry == {TLife, 0}

\* MUTANT of TSucceed: any answer closes the circuit.
TSucceed_ClosesLate(k) ==
    LET c == tCall[k].connector
    IN  /\ tCall[k].at \in {"request", "probe"} /\ tUp[c]
        /\ \E life \in TReadExpiry : tToken' = [tToken EXCEPT ![c] = life]
        /\ TSettle(k, TIdle, TClosed)
        /\ UNCHANGED tUp

\* The endpoint answers with a token, which is cached under the connector.
TSucceed(k) ==
    LET c == tCall[k].connector
    IN  /\ tCall[k].at \in {"request", "probe"} /\ tUp[c]
        /\ \E life \in TReadExpiry : tToken' = [tToken EXCEPT ![c] = life]
        /\ TSettle(k, TIdle, IF tCall[k].at = "probe" \/ tBreaker.state = "closed"
                             THEN TClosed ELSE tBreaker)
        /\ UNCHANGED tUp

\* The failures the breaker counts: the last one of a row opens it.
TCounted(b) == IF b.failures + 1 >= TThreshold THEN TOpen ELSE [b EXCEPT !.failures = @ + 1]

\* MUTANT of TFailRetryable: the attempts are not counted.
TFailRetryable_Forever(k) ==
    LET call == tCall[k]
    IN  /\ call.at \in {"request", "probe"} /\ ~tUp[call.connector]
        /\ TSettle(k, [call EXCEPT !.at = "attempt"],
                   IF call.at = "probe" THEN TOpen
                   ELSE IF tBreaker.state = "closed" THEN TCounted(tBreaker) ELSE tBreaker)
        /\ UNCHANGED <<tUp, tToken>>

\* isRetryableError: no response, 429 or 5xx.  The breaker counts it and the
\* call backs off and tries again while it has retries left.
TFailRetryable(k) ==
    LET call == tCall[k]
    IN  /\ call.at \in {"request", "probe"} /\ ~tUp[call.connector]
        /\ TSettle(k, IF call.retries < TRetries
                      THEN [call EXCEPT !.at = "attempt", !.retries = @ + 1] ELSE TIdle,
                   IF call.at = "probe" THEN TOpen
                   ELSE IF tBreaker.state = "closed" THEN TCounted(tBreaker) ELSE tBreaker)
        /\ UNCHANGED <<tUp, tToken>>

\* Any other answer (a 4xx) ends the call; a probe that gets one closes the
\* circuit, for the endpoint answered.
TFailOther(k) ==
    /\ tCall[k].at \in {"request", "probe"} /\ tUp[tCall[k].connector]
    /\ TSettle(k, TIdle, IF tCall[k].at = "probe" THEN TClosed ELSE tBreaker)
    /\ UNCHANGED <<tUp, tToken>>

\* An endpoint goes down or comes back.
TFlip(c) ==
    /\ tUp' = [tUp EXCEPT ![c] = ~@]
    /\ UNCHANGED <<tToken, tBreaker, tCall>>

TLess(n) == IF n = 0 THEN 0 ELSE n - 1

TTick ==
    /\ tToken' = [c \in TConnectors |-> TLess(tToken[c])]
    /\ tBreaker' = [tBreaker EXCEPT !.cool = TLess(@)]
    /\ <<tToken', tBreaker'>> # <<tToken, tBreaker>>
    /\ UNCHANGED <<tUp, tCall>>

TStep(k) == TAttempt(k) \/ TSucceed(k) \/ TFailRetryable(k) \/ TFailOther(k)

TNext ==
    \/ \E k \in TCalls : TStep(k) \/ \E c \in TConnectors : TGetToken(k, c)
    \/ \E c \in TConnectors : TFlip(c)
    \/ TTick

\* A request is answered or times out, a backoff ends, and time passes.
TFairness == /\ \A k \in TCalls : WF_tVars(TStep(k))
             /\ WF_tVars(TTick)

TSpec == TInit /\ [][TNext]_tVars /\ TFairness

------------------------------------------------------------------------------
(* Properties *)

\* The breaker is in one of its states and a call at one of its stages.
TTypeOK ==
    /\ tUp \in [TConnectors -> BOOLEAN]
    /\ tToken \in [TConnectors -> 0 .. TLife]
    /\ tBreaker \in [state : {"closed", "open", "halfOpen"}, failures : 0 .. TThreshold - 1,
                     cool : 0 .. TCooldown]
    /\ tCall \in [TCalls -> [connector : TConnectors, retries : 0 .. TRetries,
                             at : {"idle", "attempt", "request", "probe", "waiting"}]]

\* A half-open circuit has exactly one call testing it, also when calls that
\* began before it opened are still out: late answers neither close it nor
\* start a second test, the one test is never lost, and no call is left waiting
\* for a test that is over (the shared policy of TractionHttpClient).
TOneProbe ==
    /\ tBreaker.state = "halfOpen" <=> TProbing
    /\ \A k, l \in TCalls : tCall[k].at = "probe" /\ tCall[l].at = "probe" => k = l
    /\ (\E k \in TCalls : tCall[k].at = "waiting") => TProbing

\* The circuit is always in one state, with one test while it is half open.
TCircuitSound == TTypeOK /\ TOneProbe

\* Every call ends: with a token, with its retries used up, or refused by the
\* open circuit, however endpoints go up and down meanwhile.
TCallEnds == \A k \in TCalls : tCall[k].at # "idle" ~> tCall[k].at = "idle"

\* The circuit does not stay open for good: once every endpoint stays up, and
\* calls keep being made, it closes.
TRecovers ==
    (/\ <>[](\A c \in TConnectors : tUp[c])
     /\ []<><<\E k \in TCalls, c \in TConnectors : TGetToken(k, c)>>_tVars)
    => []<>(tBreaker.state = "closed")

\* Calls end and the circuit closes again.
TCallsRecover == TCallEnds /\ TRecovers
===============================================================================
