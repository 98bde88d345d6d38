------------------------------ MODULE RateLimit ------------------------------
(***************************************************************************)
(* The request pipeline of a tenant-scoped route and its sliding-window    *)
(* counters: the global RateLimitGuard (bucket "ip"), JwtGuard, ScopeGuard *)
(* and TenantGuard, and the TenantTierRateLimitGuard (bucket "tenant"),    *)
(* with the prune worker and the platform administrator's reset.           *)
(* RateLimitStorageService.increment counts the hits of a window and       *)
(* inserts one in two statements, so requests in flight at once, on one    *)
(* pod or on several, interleave between them.                             *)
(*                                                                         *)
(* The table rate_limit_hits is kept by age: rHits[k][a] is the number of  *)
(* rows of bucket k that are a time units old.  One route, one caller      *)
(* address and one tenant; a caller is a class of request (RCallers).      *)
(***************************************************************************)
EXTENDS Integers, FiniteSets

CONSTANTS
    RRequests,   \* concurrent request slots, over every pod
    RLimit,      \* bucket -> requests per window (flat rate, tenant tier)
    RWindow,     \* RATE_LIMIT_WINDOW_MS in time units
    RRetention   \* RATE_LIMIT_HIT_RETENTION_MINUTES in time units

RBuckets == {"ip", "tenant"}

ASSUME RAssumption ==
    /\ IsFiniteSet(RRequests) /\ RRequests # {}
    /\ RLimit \in [RBuckets -> Nat \ {0}]
    /\ RWindow \in Nat /\ RRetention \in Nat /\ RWindow <= RRetention

VARIABLES
    rHits,      \* rows of a bucket, by age
    rAdmitted,  \* requests of the window that were let through, by age
    rReq        \* slot -> the request it runs

rVars == <<rHits, rAdmitted, rReq>>

\* The cutoff is strict: a row is pruned once it is older than the retention.
ROldest == RRetention + 1
RAges   == 0 .. ROldest

\* A caller: no valid token, a token of another tenant, a token of the tenant
\* without or with the route's scope, or a platform administrator.
RCallers == {"anonymous", "foreign", "unscoped", "member", "admin"}

RIdle == [stage |-> "idle", caller |-> "anonymous", seen |-> 0]

RJwtGuard(c)    == c # "anonymous"
RScopeGuard(c)  == c \notin {"anonymous", "unscoped"}
RTenantGuard(c) == c \in {"unscoped", "member", "admin"}
RRouteGuards(c) == RJwtGuard(c) /\ RScopeGuard(c) /\ RTenantGuard(c)

\* The rows that are at most n time units old.
RSumAges(f, n) ==
    LET sum[a \in 0 .. n] == IF a = 0 THEN f[0] ELSE sum[a - 1] + f[a]
    IN  sum[n]

\* countSince(tracker, routeKey, now - ttl): hit_at >= since.
RCountSince(k) == RSumAges(rHits[k], RWindow)

\* The verdict of increment() after its count saw n rows.
RAlreadyBlocked(k, n) == n > RLimit[k]
\* MUTANT of RTotalHits: the request itself is not counted.
RTotalHits_Before(k, n) == n

RTotalHits(k, n)      == IF RAlreadyBlocked(k, n) THEN n ELSE n + 1
RIsBlocked(k, n)      == RTotalHits(k, n) > RLimit[k]

RNoRows(ages) == [k \in RBuckets |-> [a \in ages |-> 0]]
RWindowAges == 0 .. RWindow
RInit ==
    /\ rHits = RNoRows(RAges)
    /\ rAdmitted = RNoRows(RWindowAges)
    /\ rReq = [r \in RRequests |-> RIdle]

\* A row of bucket k stamped now.
RWithRow(rows, k) == [rows EXCEPT ![k][0] = @ + 1]

\* recordHit, skipped once the count is over the limit.
RRecordHit(k, n) ==
    /\ rHits' = IF RAlreadyBlocked(k, n) THEN rHits ELSE RWithRow(rHits, k)
    /\ rAdmitted' = IF RIsBlocked(k, n) THEN rAdmitted ELSE RWithRow(rAdmitted, k)

\* The global guard counts the caller's address before any authentication.
RArrive(r, c) ==
    /\ rReq[r].stage = "idle"
    /\ rReq' = [rReq EXCEPT ![r] = [stage |-> "ip", caller |-> c, seen |-> RCountSince("ip")]]
    /\ UNCHANGED <<rHits, rAdmitted>>

\* It records the hit and answers 429, or lets the route's guards run.
RIpRecord(r) ==
    /\ rReq[r].stage = "ip"
    /\ RRecordHit("ip", rReq[r].seen)
    /\ rReq' = [rReq EXCEPT ![r] =
                  IF RIsBlocked("ip", @.seen) \/ ~RRouteGuards(@.caller)
                  THEN RIdle ELSE [@ EXCEPT !.stage = "route"]]

\* TenantTierRateLimitGuard resolves the tier, then counts the tenant.
RTierCount(r) ==
    /\ rReq[r].stage = "route"
    /\ rReq' = [rReq EXCEPT ![r].stage = "tier", ![r].seen = RCountSince("tenant")]
    /\ UNCHANGED <<rHits, rAdmitted>>

RTierRecord(r) ==
    /\ rReq[r].stage = "tier"
    /\ RRecordHit("tenant", rReq[r].seen)
    /\ rReq' = [rReq EXCEPT ![r] = RIdle]

\* AdminRateLimitService.reset: every row of the tenant, with its audit
\* entry, in one transaction.
RReset ==
    /\ RSumAges(rHits["tenant"], ROldest) > 0
    /\ rHits' = [rHits EXCEPT !["tenant"] = [a \in RAges |-> 0]]
    /\ rAdmitted' = [rAdmitted EXCEPT !["tenant"] = [a \in RWindowAges |-> 0]]
    /\ UNCHANGED rReq

\* RateLimitPruneWorker.handle.
RKeepRecent(rows) == [k \in RBuckets |-> [a \in RAges |-> IF a > RRetention THEN 0 ELSE rows[k][a]]]
RPrune ==
    /\ rHits' = RKeepRecent(rHits)
    /\ UNCHANGED <<rAdmitted, rReq>>

\* Time passes.  The model's table is cut at ROldest: the prune runs before
\* a row would grow older than that.
RAge(rows) == [k \in RBuckets |->
                 [a \in DOMAIN rows[k] |-> IF a = 0 THEN 0 ELSE rows[k][a - 1]]]
RTick ==
    /\ \A k \in RBuckets : rHits[k][ROldest] = 0
    /\ rHits' = RAge(rHits)
    /\ rAdmitted' = RAge(rAdmitted)
    /\ UNCHANGED rReq

RStep(r) == RIpRecord(r) \/ RTierCount(r) \/ RTierRecord(r)

RNext ==
    \/ \E r \in RRequests : RStep(r) \/ \E c \in RCallers : RArrive(r, c)
    \/ RReset
    \/ RPrune
    \/ RTick

RSpec == RInit /\ [][RNext]_rVars

------------------------------------------------------------------------------
(* Properties *)

\* Rows are counted by age and a request is at one of its four stages.
RTypeOK ==
    /\ rHits \in [RBuckets -> [RAges -> Nat]]
    /\ rAdmitted \in [RBuckets -> [RWindowAges -> Nat]]
    /\ rReq \in [RRequests -> [stage : {"idle", "ip", "route", "tier"},
                               caller : RCallers, seen : Nat]]

\* Counting and inserting are two statements, so requests in flight together
\* may pass on the same count; but however they interleave with each other,
\* with the prune and with time, a window never lets through more than the
\* limit plus one request for each further slot (increment).
RAdmittedBounded ==
    \A k \in RBuckets :
        RSumAges(rAdmitted[k], RWindow) < RLimit[k] + Cardinality(RRequests)

\* A flood does not grow the table: once a caller is over its limit its
\* requests leave no row, so a window holds at most the limit plus one row for
\* each slot (the write skipped in increment).
RRowsBounded ==
    \A k \in RBuckets : RCountSince(k) <= RLimit[k] + Cardinality(RRequests)

\* A window is bounded, in the requests it lets through and in the rows it keeps.
RWindowBounded == RTypeOK /\ RAdmittedBounded /\ RRowsBounded
===============================================================================
