----------------------------- MODULE KeyRotation -----------------------------
(***************************************************************************)
(* Signing keys over a fleet of pods: OidcKeysService (the JWKS file, read *)
(* once when a pod starts), the tokens oidc-provider signs with its first  *)
(* key, the key document each pod serves at /oidc/jwks, and the cache of   *)
(* that document in front of every token validation (JwksCacheService and  *)
(* JwtValidationService).                                                  *)
(*                                                                         *)
(* A key document is fetched through the load balancer, so any pod may     *)
(* serve it, also one that has not restarted yet.  A fetch is two steps:   *)
(* a pod serves its document, and later (within the fetch timeout) the     *)
(* response is stored with the time of its arrival.  The environment is    *)
(* the operator who changes the Secret and restarts the pods one by one.   *)
(***************************************************************************)
EXTENDS Integers, Sequences, SequencesExt, FiniteSets

CONSTANTS
    JPods, JRequests,
    JTokenTtl,     \* lifetime of a signed token
    JCacheTtl,     \* JWT_JWKS_CACHE_TTL_SECONDS
    JFetchTimeout, \* JWT_JWKS_FETCH_TIMEOUT_MS
    JMaxTime,      \* bound on the clock
    JMaxTokens     \* bound on the live tokens of the model

ASSUME JAssumption ==
    /\ IsFiniteSet(JPods) /\ JPods # {} /\ IsFiniteSet(JRequests)
    /\ {JTokenTtl, JCacheTtl, JFetchTimeout, JMaxTime, JMaxTokens} \subseteq Nat

JKids == {"old", "new"}

VARIABLES
    jNow,
    jSecret,   \* the JWKS file: kids in order, the first one signs
    jPlan,     \* [kind, pass]: which rotation, and the passes done
    jRolledAt, \* when the last rollout of the plan finished, -1 while it runs
    jMem,      \* pod -> the keys it loaded
    jCache,    \* pod -> the cached key document and when it was stored
    jTokens,   \* tokens in the hands of clients
    jReq,      \* validation slot -> the request it runs or its last verdict
    jServed    \* kid -> last time some pod had it loaded

jVars == <<jNow, jSecret, jPlan, jRolledAt, jMem, jCache, jTokens, jReq, jServed>>

JNoToken == [kid |-> "old", exp |-> 0]
JFree    == [stage |-> "free", pod |-> CHOOSE p \in JPods : TRUE, token |-> JNoToken,
             began |-> 0, attempt |-> 0, doc |-> {}]
JEmpty   == [keys |-> {}, at |-> 0, set |-> FALSE]

JInit ==
    /\ jNow = 0
    /\ jSecret = <<"old">>
    /\ jPlan = [kind |-> "none", pass |-> 0]
    /\ jRolledAt = 0
    /\ jMem = [p \in JPods |-> <<"old">>]
    /\ jCache = [p \in JPods |-> JEmpty]
    /\ jTokens = {}
    /\ jReq = [r \in JRequests |-> JFree]
    /\ jServed = [k \in JKids |-> IF k = "old" THEN 0 ELSE -1]

------------------------------------------------------------------------------
(* The operator *)

\* generate-oidc-keys.mjs --append: newest first, refusing a kid it knows.
JAppend(keys) == <<"new">> \o keys

\* The Secret after the next pass: the two-deploy rollout publishes the key
\* last and then moves it first; --append does both at once; an emergency
\* replaces the file.  The last pass of the first two drops the old key.
JNextSecret(kind, pass) ==
    CASE kind = "twoDeploys" /\ pass = 1 -> <<"old", "new">>
      [] kind = "twoDeploys" /\ pass = 2 -> <<"new", "old">>
      [] kind = "append" /\ pass = 1     -> JAppend(jSecret)
      [] OTHER                           -> <<"new">>
JPasses == [twoDeploys |-> 3, append |-> 2, emergency |-> 1]

\* A pass starts when the previous rollout is complete; the old key is
\* retired once the last token it signed has expired.
JUpdateSecret(kind) ==
    /\ jPlan.kind \in {"none", kind}
    /\ jPlan.pass < JPasses[kind]
    /\ jRolledAt # -1
    /\ (kind # "emergency" /\ jPlan.pass = JPasses[kind] - 1) => jNow >= jRolledAt + JTokenTtl
    /\ jSecret' = JNextSecret(kind, jPlan.pass + 1)
    /\ jPlan' = [kind |-> kind, pass |-> jPlan.pass + 1]
    /\ jRolledAt' = -1
    /\ UNCHANGED <<jNow, jMem, jCache, jTokens, jReq, jServed>>

------------------------------------------------------------------------------
(* The pods *)

\* A pod restarts: ensureLoaded reads the file into memory (a file without
\* keys refuses to start), its cache is gone and so are the requests it ran.
JLoadKeys(p) ==
    /\ jMem[p] # jSecret /\ jSecret # <<>>
    /\ jMem' = [jMem EXCEPT ![p] = jSecret]
    /\ jCache' = [jCache EXCEPT ![p] = JEmpty]
    /\ jReq' = [r \in JRequests |-> IF jReq[r].pod = p THEN JFree ELSE jReq[r]]
    /\ jRolledAt' = IF \A q \in JPods \ {p} : jMem[q] = jSecret THEN jNow ELSE jRolledAt
    /\ jServed' = [k \in JKids |-> IF \E q \in JPods : k \in ToSet(jMem'[q]) THEN jNow ELSE jServed[k]]
    /\ UNCHANGED <<jNow, jSecret, jPlan, jTokens>>

JSigner(p) == Head(jMem[p])

\* oidc-provider signs an access token with its first key.
JIssue(p) ==
    /\ jTokens' = jTokens \cup {[kid |-> JSigner(p), exp |-> jNow + JTokenTtl]}
    /\ jTokens' # jTokens /\ Cardinality(jTokens) < JMaxTokens
    /\ UNCHANGED <<jNow, jSecret, jPlan, jRolledAt, jMem, jCache, jReq, jServed>>

JWaits(r) == jReq[r].stage \in {"fetching", "served"}

\* MUTANT of JFresh: a document that was cached stays fresh.
JFresh_Always(c) == c.set

\* isExpired and getCachedKey.
JFresh(c)          == c.set /\ jNow - c.at < JCacheTtl
JCachedKey(c, kid) == JFresh(c) /\ kid \in c.keys

\* With the key found, the expiry claim decides.
JVerdict(req) == [req EXCEPT !.stage = IF req.token.exp > jNow THEN "accepted" ELSE "expired"]

JFetching(req, attempt) ==
    [req EXCEPT !.stage = "fetching", !.began = jNow, !.attempt = attempt, !.doc = {}]

\* validateAuthorizationHeader up to its first wait: a cached key decides,
\* anything else fetches the document.
JValidate(r, p, t) ==
    /\ ~JWaits(r)
    /\ LET req == [JFree EXCEPT !.pod = p, !.token = t, !.began = jNow]
       IN  jReq' = [jReq EXCEPT ![r] = IF JCachedKey(jCache[p], t.kid)
                                       THEN JVerdict(req) ELSE JFetching(req, 1)]
    /\ UNCHANGED <<jNow, jSecret, jPlan, jRolledAt, jMem, jCache, jTokens, jServed>>

\* Some pod answers GET /oidc/jwks with every key it loaded.
JServe(r, p) ==
    /\ jReq[r].stage = "fetching"
    /\ jReq' = [jReq EXCEPT ![r].stage = "served", ![r].doc = ToSet(jMem[p])]
    /\ UNCHANGED <<jNow, jSecret, jPlan, jRolledAt, jMem, jCache, jTokens, jServed>>

\* The document that arrives replaces the cached one.
JRefreshed(req) == [keys |-> req.doc, at |-> jNow, set |-> TRUE]

\* refresh() ends and the key is looked up.  After the refresh of a retry
\* resolveKey runs again, so a missing key is fetched once more.
JStore(r) ==
    LET req == jReq[r]
        new == JRefreshed(req)
    IN  /\ req.stage = "served"
        /\ jCache' = [jCache EXCEPT ![req.pod] = new]
        /\ jReq' = [jReq EXCEPT ![r] =
                      IF JCachedKey(new, req.token.kid) THEN JVerdict(req)
                      ELSE IF req.attempt = 2 THEN JFetching(req, 3)
                      ELSE [req EXCEPT !.stage = "unknownKey"]]
        /\ UNCHANGED <<jNow, jSecret, jPlan, jRolledAt, jMem, jTokens, jServed>>

\* The fetch fails or times out: resolveKeyWithRefresh retries once.
JFetchFails(r) ==
    LET req == jReq[r]
    IN  /\ JWaits(r)
        /\ jReq' = [jReq EXCEPT ![r] = IF req.attempt = 1 THEN JFetching(req, 2)
                                       ELSE [req EXCEPT !.stage = "failed"]]
        /\ UNCHANGED <<jNow, jSecret, jPlan, jRolledAt, jMem, jCache, jTokens, jServed>>

\* A fetch does not outlive its timeout.  Expired tokens and the verdicts of
\* the past are forgotten.
JTick ==
    /\ jNow < JMaxTime
    /\ \A r \in JRequests : JWaits(r) => jNow < jReq[r].began + JFetchTimeout
    /\ jNow' = jNow + 1
    /\ jServed' = [k \in JKids |-> IF \E p \in JPods : k \in ToSet(jMem[p]) THEN jNow + 1 ELSE jServed[k]]
    /\ jTokens' = {t \in jTokens : t.exp > jNow + 1}
    /\ jReq' = [r \in JRequests |-> IF JWaits(r) THEN jReq[r] ELSE JFree]
    /\ UNCHANGED <<jSecret, jPlan, jRolledAt, jMem, jCache>>

JNext ==
    \/ \E kind \in DOMAIN JPasses : JUpdateSecret(kind)
    \/ \E p \in JPods : JLoadKeys(p) \/ JIssue(p)
    \/ \E r \in JRequests, p \in JPods :
         JServe(r, p) \/ \E t \in jTokens : JValidate(r, p, t)
    \/ \E r \in JRequests : JStore(r) \/ JFetchFails(r)
    \/ JTick

JSpec == JInit /\ [][JNext]_jVars

------------------------------------------------------------------------------
(* Properties *)

\* Keys are lists of kids and a request is at one of its stages.
JTypeOK ==
    /\ jNow \in 0 .. JMaxTime /\ jRolledAt \in -1 .. JMaxTime
    /\ jSecret \in Seq(JKids) /\ jMem \in [JPods -> Seq(JKids)]
    /\ jCache \in [JPods -> [keys : SUBSET JKids, at : 0 .. JMaxTime, set : BOOLEAN]]
    /\ jTokens \subseteq [kid : JKids, exp : 0 .. JMaxTime + JTokenTtl]
    /\ jReq \in [JRequests ->
         [stage : {"free", "fetching", "served", "accepted", "expired", "unknownKey", "failed"},
          pod : JPods, token : [kid : JKids, exp : 0 .. JMaxTime + JTokenTtl],
          began : 0 .. JMaxTime, attempt : 0 .. 3, doc : SUBSET JKids]]
    /\ jServed \in [JKids -> -1 .. JMaxTime]

\* A planned rotation interrupts nobody: whatever pods served the key document
\* and however late it arrived, no request with a live token is refused for
\* an unknown key.  The one gap is the single-pass --append, for a token of
\* the new key whose request began before the rollout was complete.
JNoGap ==
    \A r \in JRequests :
        (jReq[r].stage = "unknownKey" /\ jReq[r].token.exp > jNow) =>
            \/ jPlan.kind = "emergency"
            \/ /\ jPlan.kind = "append" /\ jReq[r].token.kid = "new"
               /\ jRolledAt = -1 \/ jReq[r].began <= jRolledAt

\* A key nobody publishes any more stops being accepted: a request is accepted
\* only by a key that some pod had loaded less than the cache's lifetime plus
\* a fetch's timeout before the key was looked up.
JStalenessBounded ==
    \A r \in JRequests :
        jReq[r].stage = "accepted" =>
            jNow - jServed[jReq[r].token.kid] < JCacheTtl + JFetchTimeout

\* A rotation refuses nobody it should not, and a withdrawn key does not live on.
JRotationSound == JTypeOK /\ JNoGap /\ JStalenessBounded

\* After an emergency rotation is rolled out, no token of the old key is
\* accepted (the runbook's "immediately invalidated").
JEmergencyImmediate ==
    [][ \A r \in JRequests :
          (jPlan.kind = "emergency" /\ jRolledAt # -1 /\ jReq'[r] # jReq[r]
             /\ jReq'[r].stage = "accepted") => jReq'[r].token.kid = "new" ]_jVars
===============================================================================
