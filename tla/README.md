# Formal model of the digital trust common service

This directory is a TLA+ development for `apps/digital-trust-common-service`, the libraries
under `libs/` and the sign-in logic of `apps/ui`. TLC checks small instances of the models, TLAPS
proves the safety properties for every instance. `PROJECT.json` is the machine-readable index:
components, runs, mutants, the map from definitions to source lines, findings, hazards and theorems.
Paths below are relative to `apps/digital-trust-common-service/src` unless they begin with `libs/` or `apps/`.

## 1. The system

The service is a NestJS application over PostgreSQL (through TypeORM) and pg-boss. Tenants issue,
accept and revoke credentials through external agents; users log in through an upstream identity
provider and get tokens from an embedded oidc-provider. Several pods run at once. Two facts decide
what is hard here:

- **Every `await` is an interleaving point.** What a handler read before it may be stale after it.
  Only a few handlers use transactions, and only role-scope writes and the seed take a lock.
- **`Repository.save(entity)` is two statements**: a SELECT of the row, then an UPDATE of the columns
  in which the *entity* differs from what was selected (an INSERT when nothing was selected). An entity
  that was read earlier therefore writes old values back over a newer row, but only in some columns.

### Inventory

| Component | State | Operations | Interacts with | Hard part | What makes it correct |
|---|---|---|---|---|---|
| Operations (`operation/`) | `operation` rows: state, created, viewed, expires | create, transition, poll, `markViewed`, TTL rules, hourly purge | credential actions, tenant config, pg-boss schedule | polls, late saves and the purge interleave | a poll's answer holds until the expiry it names; outcomes final; expired rows go |
| Credential actions, revocation (`credential/`) | the operation of the request | accept, reject, revoke | agents, operations | agent errors, pod death half-way | the operation ends in the outcome of the call |
| Tenant lifecycle, status cascade (`tenant/`) | tenant row, pg-boss jobs | update, updateConfig, updateStatus; revoke/restore clients, deactivate connectors, abandon connections | clients, connectors, connections | two requests on one row; at-least-once, retry order, `Promise.all` leftovers | transition table, retention anchor, resources end as the last status says |
| OAuth clients (`oauth-client/`) | scopes, roles, grant types, secret, revocation | create, update, rotate, revoke | cascade, provider | stale saves over a revocation, a rotation or the other half of a pair | nobody gets a privilege no one granted; the shown secret works |
| Connector credentials, encryption (`connector-credential/`, `common/crypto`) | endpoint, ciphertext and key version | create, update, delete, lazy re-encryption | agents, adapter registry, key files | pods with different keys; re-encryption racing a PATCH | readable, checked, never lost |
| Adapter registry (`adapter-registry/`) | none | resolve | connectors, tenant default | default and rows read separately | the declared precedence |
| Traction client (`traction/`) | token cache, one shared breaker and retry policy | getToken, request | agents | late answers, half-open probe | calls end; the circuit recovers |
| Credential definitions (`credential-definition/`) | rows, one active per name and format | create, update, deactivate | validators, profiles | look-then-insert, stale saves | uniqueness; no return but by a stale save |
| Format validators (`libs/credential-ports`) | none | validateSchema, validateAttributes | definitions | duplicates, unreadable schemas | verdict = the rules over the whole offer |
| Role to scope mapping (`role-scope/`) | defaults, overrides, audit entry | replace, reset | logins' grants, sessions, audit log | writers to different roles; logins racing with narrowing | hierarchy, exact audit trail, narrowing reaches grants |
| Tenant users, membership guard (`tenant-user/`) | members: role, status, identity, e-mail | invite, update, delete, claim, create | login callback | count-then-write, claim races | an owner remains; no member is taken over |
| Federated login, upstream federation (`libs/oidc`, `upstream-oidc/`) | interactions (state, nonce, member), upstream sessions | redirect, callback, consume, stage, finalise, logout, purge | provider, members | two logins of one user; saves of stale copies | a login is bound to its own redirect; logout ends the own upstream session |
| Sessions, limit, tenant switch (`libs/oidc`, `admin/`, `auth/`) | sessions, grants, tokens per account | login, enforce, rebind, force-logout | provider saves | SKIP LOCKED claims of two logins; stale provider saves | the cap; evicted means powerless; session and grant agree |
| OIDC store and purge (`libs/oidc`) | refresh tokens, grants, interactions with expiry | upsert, consume, revoke, purge | provider library | rotation overlapping; purge at the boundary | chains capped; purge invisible and complete |
| Signing keys, token validation (`libs/oidc`, `libs/auth`) | key file per pod, cached key document | load, sign, serve, fetch, validate | operator's rotation | mixed fleet, late document | no gap in a planned rotation; bounded staleness |
| Rate limiting (`rate-limit/`) | hits per bucket | count, insert, prune, reset | every request | count-then-insert | bounded excess, bounded table |
| Audit log (`audit-log/`) | queued entries, partitions | enqueue, write, maintain, list | every change | redelivery, crash, partition gap | acknowledged means written; listing complete |
| Keyset listings | cursor | findPage | clients of the API | rows come and go; cursor cut to the millisecond | every row once |
| Pod start-up, shutdown, health (`libs/pg-boss`, `shutdown/`, `health/`) | start promise, queues, participants, flag | start with retries, ensure, stop, probes | every worker | failing steps in every place | a ready pod can queue work; shutdown ends |
| Seed and bootstrap (`seed/`, `bootstrap/`) | rows of a development environment; the first client | upserts, claim refresh, print secret | pods that start together | crash half-way, sign-in meanwhile | each row once, claims kept, a stored secret was shown |
| Browser session (`apps/ui/src/lib`) | one tab's user, shared refresh, token queue | request, renew, switch, sign out | provider | a switch waiting for the queue it is in | tenant kept, token live, switch ends |

## 2. Modules and how they correspond to the code

Every `await` that can interleave ends an action; a handler's local variables are kept per request in
functions indexed by it, its position is a program counter. Pod death and database errors are actions enabled at
every such position. Names of variables and actions carry their module's letter where modules are composed.

| Module | Models | State and actions |
|---|---|---|
| `Operation` | `OperationService`, `OperationRepository`, `operation-ttl.util`, `OperationPurgeService`, the credential actions | requests run `CreateBegin` ... `SaveWrite`; polls `ViewRead`, `ViewTenant`, `ViewStamp`, `ViewReread`; `PurgeStart`, `PurgeBatch`, `PurgeError`; `Tick`; `UpdateConfig`. `Markers` are callers of `markViewed`, of which the repository has none |
| `OperationContract` | what a client of the API may rely on | one status and one view flag per operation |
| `OperationRefinement` | the mapping from table and request to the contract | `StatusOf`, `ImplementsContract` |
| `TenantLifecycle` | `updateStatus`, `update`, `updateConfig`, the status queue with retries, dead letter and slots, the worker's cascade, requests on clients, connectors, connections | a row is reduced to what the cascade and revocation rules tell apart; `JobFail` leaves the statements `Promise.all` does not wait for (`stray`) |
| `OAuthClients` | `createClient`, `update`, `rotateSecret` and their checks, the CHECK of the table | `KCreate`; `KUpdateRead`/`KRotateRead`, `KLoad`, `KWrite`; history: who granted what, which copies were overtaken |
| `RoleScope` | `writeMapping` step by step (lock, read, validate, sweep, audit, COMMIT, second sweep, rollback); logins that resolve scopes and save a grant | `Write*`, `Login*` |
| `TenantUsers` | member administration with guard and last-owner rule; the callback's search, claim or creation | one program counter per request and per callback |
| `UpstreamLogin` | `OidcInteractionController`, `OidcUpstreamService`, the `session.saved` listener, logout, purge | interaction rows, provider interactions, upstream sessions; listeners run concurrently with further logins |
| `AccountSessions` | `SessionLimitService`, `OidcAccountSessionRepository`, `AdminSessionsService`, the switch in `AuthService`, the adapter's saves | rows with the order of their creation (`sOlder`), grants and tokens; the eviction statement takes row locks (`SEnforceClaim`), skips locked rows and deletes (`SEnforceCommit`); `SSwitchStep`; stale copies of the provider |
| `OidcStore` | `OidcModelAdapter`, lifetimes of the provider configuration, `OidcPurgeService` | chains of refresh tokens with expiry, overlapping refreshes, batches |
| `KeyRotation` | `OidcKeysService`, `JwksCacheService`, `JwtValidationService`, the operator's runbook steps | key file, keys per pod, document in flight, cache, requests |
| `RateLimit` | both guards in the pipeline, `increment`, prune, reset | rows by age, requests in flight |
| `Connectors` | `ConnectorCredentialService`, `EncryptionService`, `AdapterRegistry.resolve` | jobs on pods with different key files, one statement a step |
| `TractionClient` | `TractionTokenManager`, `TractionHttpClient` | calls, cached tokens, the shared breaker and its cooldown |
| `CredentialDefinitions` | service, repository, partial unique index, registry | requests of separate statements |
| `Formats` | the three validators and the mDL one that throws | one turn of the loop per step, against the rule over the whole offer |
| `ListPages` | `findPage`, both `findPageForTenant`, the cursor's conversion | clock in microseconds, rows inserted and removed between pages |
| `PodLifecycle` | `PgBossService`, `JobsService`, `ShutdownService`, `HealthService` | a pod from start to end |
| `AuditPipeline` | `AuditLogService`, `DomainAuditService`, the interceptor, both workers; extends `PodLifecycle` | entries, jobs on pods, partitions, months |
| `Seeding` | `DevSeedService`, its data and repository, `BootstrapService`, `run-bootstrap` | upserts under the advisory lock, crashes, operator's changes, sign-ins |
| `BrowserSession` | `oidc-auth`, `client`, `active-tenant` of the web interface | generations of tokens, shared flight, serialized queue |
| `OperationProofs`, `RoleScopeProofs`, `TenantLifecycleProofs`, `TenantUsersProofs` | the theorems about the module of that name | |
| `ResourceProofs` | the theorems about `CredentialDefinitions`, `OAuthClients`, `Connectors`, `Formats`, `ListPages` | |
| `LoginProofs` | those about `UpstreamLogin`, `BrowserSession`, `AccountSessions` | |
| `PlatformProofs` | those about `TractionClient`, `OidcStore`, `RateLimit` | |
| `FleetProofs` | those about `Seeding`, `KeyRotation`, `PodLifecycle`, `AuditPipeline` | |

`MCOperation`, `MCRoleScope`, `MCTenantLifecycle`, `MCTenantUsers` instantiate one module each. `MCResources`, `MCAccess` and
`MCPlatform` put several components in one state; a behaviour runs one of them (`part`), because no two of them write the
same row. Components that do interact are composed inside a module: audit log and pods, login and members, sessions, grants and
provider saves, pipeline guards, connectors, keys and registry.

Definitions preceded by a comment `MUTANT of X` are faulty variants of `X`, used only to show that the
properties can fail: TLC finds each property violated when the variant replaces the original.

### Abstractions
One tenant at a time (no module relates two tenants, except where a switch does). Payloads, names and messages are left
out; a secret is an identity, a ciphertext the pair of plain value and key version. A TTL is a small integer; whatever
does not parse to a positive duration is a number <= 0. Soft deletion and restoring of a tenant are left out. The clock of
database and pods is one. The oidc-provider, pg-boss, TypeORM and cockatiel libraries are external: the modules contain
what the code uses of them.

### The contract
`OperationContract` says what a client may rely on: an operation is absent, then pending, perhaps processing, has one
outcome, is shown as viewed only once it has an outcome and, once gone, stays gone. One case is not what the table's name
suggests: a pending operation may lapse (the purge takes it while its request still runs), and the request's `save()`, which
selects no row, INSERTs it again with its outcome. The contract names that (`Lapse`, `Return`); nothing else brings an operation back.
`OperationRefinement` reads the status from the row and, when there is no row, from where its request is. TLC checks
`ImplementsContract` on the instance of `operation_polls`; `ContractImplemented` proves it for every instance.

## 3. Runs

| Run | Instance | Shows |
|---|---|---|
| `operation_polls` | 1 request, 2 polls, 2 configurations, clock to 6, batches of 1 | `PromiseKept`, `RetentionSound` (`ExpiryMatchesState`, `InFlightRetained`), `ViewStampedOnce`, `TerminalStable`, `ImplementsContract` under every interleaving with the purge and with changes of the overrides |
| `operation_purge` | 2 requests, batches of 1, failing batches | `ExpiredPurged`: an expired row is eventually removed or re-dated |
| `tenant_cascade` | 1 administrator, 2 status changes, 2 slots, 1 retry, 1 row of each kind | `Converged`, `StatusRecorded` (`RetentionAnchored`, `NewestJobNamesStatus`), and `JobsSettle` |
| `tenant_editors` | a platform admin's requests against the cascade | `RevokedForCauseFinal` with one such request at a time |
| `role_scope_writes` | 2 writers, 2 writes, 2 scopes, 1 login | `HierarchyHolds`, `AuditTrailExact`, `NarrowingReachesGrants`, `WritesEnd` |
| `tenant_users` | 1 administrative request at a time, 2 logins of different identities, 3 ids | `MembershipSound` (`OwnerRemains`), `NeverTakenOver` |
| `tenant_users_guard` | 1 login, the caller's own token | **violated** `ManagersPassGuard` |
| `resources` | clients: 2 requests on one client; connectors: 2 pods, 2 jobs, 2 connectors, 3 requests; definitions: 2 requests, 2 rows; formats: offers of up to 3; pages: 3 rows; audit: 2 pods, 3 months | see below |
| `access` | upstream: 2 interactions, 2 members; sessions: 3 logins, 1 switch, limit 2; browser: 4 generations; limits: 2 requests; keys: 2 pods, clock to 3; seed and bootstrap: 2 pods, 2 runs, 2 crashes | see below |
| `platform` | upstream, store (2 chains, 3 tokens), Traction (2 connectors, 2 calls), audit (1 pod), browser | see below |
| `connector_update_lost` | 1 connector, 2 jobs | **violated** `CUpdateKept` |
| `audit_page_skip` | 3 entries, 2 of one millisecond | **violated** `PComplete` |

### What the three composed runs show

The invariant of a component is a conjunction of its type invariant and the named parts below.

`resources`
- `KClientsSound`: a client has a scope its tenant's managers do not hold, or a platform role, only if a platform admin once asked for it
  (`KPrivilegesGranted`), however requests interleave. As long as no request saved a copy another one had overtaken, roles go with
  the client_credentials grant alone (`KRolesOnlyForMachines`) and the secret shown last is the one that works
  (`KShownSecretWorks`). The condition is exact: section 4.
- `CStoredSound`: a ciphertext was made under the key its row names and holds a submitted secret (`CDecryptable`); a stored endpoint was checked
  (`CEndpointChecked`). `CResolvedUsable`: an operation runs against the default, or the only active connector, never an inactive one.
- `DTableSound`: two active definitions never share name and format (`DUniqueActive`). `DReturnsOnlyBySave`: a deactivated one comes back only by an update that had read it before.
- `FValidatorsAgree`: the one-pass loop agrees with the rule over the whole
  offer (`FVerdict`); what was accepted at creation can be read at issuance (`FAcceptedReadable`).
- `PListingExact`: an ascending listing is complete (`PAscComplete`); a descending one never repeats a row (`PDescOnce`), but skips some (`audit_page_skip`).
- `AEntriesKept`: an acknowledged job has its entry in the table, and an entry is dead-lettered only with its retries used (`AEntryWritten`); partitions
  reach as far ahead as the last complete run promised (`APartitionAhead`); a pod that says it is ready can queue work (`LServingComplete`); no job waits on a pod whose workers are gone (`AJobsOwned`).

`access`
- `UOneMember`: a login, a session and an upstream token belong to one member, whatever callbacks, redirects and listeners
  interleave (`UConsumedByOwnLogin`, `USessionAuthenticated`, `UTokenOfSameMember`).
- `SSessionsSound`: the limit, with one more session for each eviction that skipped another one's locked rows (`SCapHolds`); `SEvictedPowerless`; `SGrantOfAccount`.
- `WTabSound`: `WTenantKept`, `WTokenLive`; a request that waits has something under way to wait for (`WNobodyStuck`).
- `RWindowBounded`: a window lets through at most the limit plus one request per further slot (`RAdmittedBounded`) and keeps at most the limit plus
  one row per slot (`RRowsBounded`).
- `JRotationSound`: a planned rotation refuses nobody (`JNoGap`); a withdrawn key is accepted no longer than cache lifetime plus fetch timeout (`JStalenessBounded`).
- `BEnvironmentSound`: `BSeededOnce`, `BSecretShown`; and `BClaimKept`.

`platform`
- what must come about: `UPendingDrained`, `OPurgeExact`, `TCallsRecover` (`TCallEnds`, `TRecovers`), `AQueueDrains` (`AQueuedSettles`, `LShutdownEnds`), `WSwitchEnds`.
  `OPurgeExact` also says that the purge takes nothing `find()` would still return;
- `OStoreSound`: no token of a public client's chain outlives the first (`OPublicChainCapped`); `TCircuitSound`: a half-open circuit has exactly one call testing it,
  and calls wait only while one does (`TOneProbe`).

### Bounds and why they suffice
- `MaxTime = 6` with TTLs of 1 to 4 units: every kind of expiry passes before the clock stops, also that of an
  operation still in flight (`pendingStale = 1`), and a second view can fall after the first one's expiry.
  `BatchSize = 1, MaxBatches = 2` with two operations reaches both limits of the purge loop; the same holds for `OBatchSize`, `OMaxBatches`.
- `MaxChanges = 2` gives deactivate/reactivate and suspend/deactivate. One row of each kind suffices for the bulk updates, which
  treat rows independently. `Slots = 2` lets jobs overlap, `RetryLimit = 1` reaches both the retry and the dead letter.
- `MaxWrites = 2` with two writers makes the conflict of two roles possible; two scopes allow sets that are not comparable.
- Two requests, jobs or logins at once are the least that interleave; each handler takes a snapshot once, so a third adds no new kind of staleness,
  except for the session limit, which needs three logins. With three, the sessions instance leaves out stale saves and the force-logout and lets all three be of one account
  (`MCSessionLoad`); with two, everything happens. Logins come in the order of their numbers (`MCLoginOrder`): sessions are interchangeable.
  In the same way the first redirect is of a fixed interaction and member (`MCRedirectOrder`) and the first endpoint checked is a fixed one (`MCEndpointOrder`).
- `SLimit = 2` is reached and exceeded by three logins. `RLimit = 1` with two slots reaches the limit and the excess. `JMaxTime = 3` lets a document
  age past its cache lifetime of 1 and a token of lifetime 3 expire. `WMaxGen = 4` gives sign-in, renewal, switch and another renewal.
- `PMicros = 2`, `PMaxTime = 4`: two milliseconds with two microseconds each, so rows of one millisecond are told apart by the table and not by the cursor.
- `AMaxMonth = 2` with one month ahead lets the clock overtake the partitions. `platform` sets it to 0 and one pod: its questions do not depend on months.
- `FMaxOffer = 3` over two names has a duplicate beside a missing name.
- Ids are never reused. Symmetry is used for polls, user ids, pods, jobs and connectors, in runs without liveness.

`CHECK_DEADLOCK FALSE` appears where the bounds on requests, changes, writes, ids or the clock let the system come to rest, and in
the composed runs, whose components each come to rest at their bounds.

### Fairness
- Purges of operations and of the token store: pg-boss's cron schedule starts an idle purge again (weak fairness of the start); a batch statement
  may fail, but not every time (strong fairness of the batch). Nothing is assumed of requests or polls. The purge of pending upstream sessions is
  one statement of the same job (weak fairness); a listener that was started continues.
- Status jobs: a running pod polls its queue and a handler that was started continues (weak fairness). Failing is never forced, and always allowed.
- Role writes: PostgreSQL grants a waiting advisory lock in turn (strong fairness of `WriteLock`), and a request with a live connection continues.
- Audit jobs: a queued job is fetched if workers come up again and again (strong fairness of `AFetch`, which a pod's shutdown disables);
  a started handler continues; a shutdown's next participant is called (`ShutdownService` catches failures and goes on).
- Agent calls: a call's next attempt is made and time passes; answers may be failures for ever. `TRecovers` assumes, in its own
  statement, that endpoints stay up and calls keep coming.
- Browser: the promise chain runs on and every request gets an answer or an error, as `fetch` does. Nothing makes the user act.

## 4. Disagreements between code and documentation

Shown by a run, and quoted in `PROJECT.json`:
1. `tenant_users_guard`: the guard compares the token's `sub`, the member's id, with `external_user_id`, the
   upstream identity; an owner's own token does not find the owner's row.
2. `connector_update_lost`: a read that re-encrypts (`lazyRotateKeyIfNeeded`) overlaps a PATCH and writes the old secret over the new one after the
   PATCH was answered.
3. `audit_page_skip`: the cursor of the audit log is cut to the millisecond and the next page asks for rows before it, so entries of that
   millisecond are never returned.

Found by checking the same modules with other constants; each line gives what to change:

- `TenantLifecycle`, `RetentionAnchored` with `Admins = {a1, a2}`, `Editors = {}`, `Clients = {c1}`, `MaxChanges = 2`, `Slots = 1`, `RetryLimit = 0`: two overlapping
  status changes leave `deactivated_at` set on a tenant that is not deactivated (`tenant.service.ts:371`, against the comment at 339-341).
- `TenantLifecycle`, `DeactivatedMeansRevoked` with `Admins = {a1}`, `MaxChanges = 3`, `Slots = 1`, `RetryLimit = 1`: the worker acts on its payload only; a reactivation's
  job that was retried restores the clients after a later deactivation (`tenant-status-change.worker.ts:52`, against 19-20 "Deactivating a tenant revokes its OAuth clients").
- `TenantLifecycle`, `AckedRevocationHolds` with `Admins = {a1}`, `Editors = PlatformEditors = {e1}`, `MaxChanges = 2`, `Slots = 1`, `RetryLimit = 0`: `revokeClient` acknowledges a client the
  deactivation tagged without recording the revocation; reactivation makes it live again (`oauth-client.service.ts:169`).
- `TenantLifecycle`, `RevokedForCauseFinal` with `Admins = {}`, `Editors = {e1, e2}`, `MaxChanges = 0`: `rotateSecret` and `update` write `revoked_at = NULL` over a
  revocation made after their read (`oauth-client.service.ts:163, 187`).
- `TenantUsers`, `OwnerRemains` with `Users = {u1, u2}`, `Requests = {q1, q2}`, `Callbacks = {}`, `Subjects = {s1}`: counting owners and removing one are separate statements;
  two requests remove the last two (`tenant-user.service.ts:259, 310`, against 316 "Cannot remove the tenant's last owner.").
- `OAuthClients` without the condition on overtaken copies: two overlapping updates, one sending roles and one sending grant types, each pass the check on their own copy and
  together store a pair the check forbids (`oauth-client.service.ts:124-129` "Pairing is always checked on the resulting state"); a stale update
  brings back the secret a rotation replaced; and a manager's rename can clear or restore a platform role granted meanwhile.
- `AccountSessions`, `SCapExact` with three sessions, `SLimit = 2` and `SSwitches = {}`: two logins that enforce at once skip each other's locked rows and leave the account
  over the cap (against the comment in `libs/oidc/src/oidc-account-session.repository.ts:271-282`). `SForceLogoutFinal`: a save by the provider of a copy it had loaded before
  a force-logout brings the session row back, and so may a tenant switch that had listed it to rebind; nothing else does (`LogoutUndoneOnlyByCopy`, section 5).
- `KeyRotation`, `JEmergencyImmediate`: after an emergency rotation was rolled out, tokens of the withdrawn key are accepted until the caches have run out; the
  runbook says "immediately invalidated".
- `BrowserSession`, `WStaysSignedIn` with `WFaults = FALSE`, `WMaxGen = 3`: between the provider's revocation of the old grant and the arrival of the switch's answer, a request
  of the old tenant meets an expired token; its renewal fails before there is a switch to wait for, and the person is signed out
  (the comments `oidc-auth.ts:249-251` and `active-tenant.ts:79-80` of the web interface mean to prevent this). After a failed redirect of a sign-out, a renewal or switch still under way stores its tokens.

Seen while modelling, reachable in the models:
- `markViewed` of an operation in flight between `transitionState`'s read and save: the save clears the stamp. Nothing calls `markViewed` yet.
- A login that read its role's scopes before a narrowing and saves its grant after both sweeps keeps the removed scope.
- A member's `update` that was read before the member's first login undoes the link the login made. Two invitations that differ in the case of the address make every
  login of that person fail on the uniqueness of the identity.
- A resource created by a request that passed the status guard just before a deactivation survives the cascade.
- A concurrent update can bring a deactivated definition back, and two concurrent deletions both write an audit entry (`credential-definition.service.ts:201-207`). The comment at 97-102
  says an mDL definition is "accepted as-is", but its validator throws; `sd-jwt` and `w3c-vc` definitions are not checked at creation.
- The rows of a rate-limit window are not the admitted requests: the request that meets the limit is refused and leaves a row.
- The circuit breaker is one for all tenants' agents (`traction-http-client.service.ts:47-49`). A token is cached by connector id and survives a PATCH of the credentials.
- A pod with an older key file cannot read rows a newer pod has re-encrypted.
- The shutdown flag is reset when the participants are done: readiness answers 200 again until the server closes. `startWithRetry` makes one attempt more than its log says.
- The seed resets roles, clears `revoked_at` but not `revoked_reason`, reactivates connectors and restores the tenant's status at every start; a soft-deleted seed tenant makes every start fail.

Hazards without a property, beside those `PROJECT.json` lists:
- The sweep of a narrowing finds accounts by their present role, so a member whose role changed since keeps a grant of the former one (`libs/oidc/src/oidc-account-session.repository.ts:243`).
- Two callbacks of one new identity both create the member; the second login fails on the unique constraint (`libs/oidc/src/oidc-interaction.controller.ts:423`).
- A pod dies, or the queue refuses, between a commit and the queueing of its audit entry: the entry is lost, which the services call best effort (`audit-log/domain-audit.service.ts:26`).
- The promise of the first key load is cached, a rejected one too (`libs/oidc/src/oidc-keys.service.ts:47`); the start-up hook awaits it, so such a pod does not start.

## 5. What is proved

Every invariant a passing run checks is a theorem, and so is every action property that
is not about liveness; the refinement of the contract is one too. A theorem holds for any sets of requests, pods,
members, rows, configurations and so on, and for any bounds, under the named `ASSUME`s of the modules (types of the constants,
disjoint sets, a positive default for every TTL, seeded defaults that respect the hierarchy). The theorems are about the
specifications the runs check: a module that is composed in a run has a specification of its own for this (`TSpec`,
`OSpec`, `RSpec`, `DSpec`, `KSpec`, `CSpec`, `FSpec`, `PSpec`, `USpec`, `WSpec`, `SSpec`, `BSpec`, `JSpec`, `ASpec`), with the `Init` and `Next` the composed run uses.

| Theorem | States | Inductive invariant |
|---|---|---|
| **`OperationProofs`** `TypeCorrect` | `[]TypeOK` | `TypeInv` |
| `PollsKeepTheirPromise` | `[]PromiseKept` | `ViewInv` |
| `OutcomesAreFinal` | `TerminalStable` | `ViewInv` |
| `PollsStampOnce` | `ViewStampedOnce`, if `Markers = {}` | `UnfinishedUnviewed` |
| `RetentionHolds` | `[]RetentionSound`, if `Markers = {}` | `KeepInv` |
| `ContractImplemented` | `ImplementsContract`, if `Markers = {}` | `KeepInv` |
| **`RoleScopeProofs`** `TypeCorrect` | `[]TypeOK` | itself |
| `HierarchyAlwaysHolds`, `AuditAlwaysExact` | `[]HierarchyHolds`, `[]AuditTrailExact` | `MappingInv` |
| `NarrowingReaches` | `[]NarrowingReachesGrants`, if no pod dies between COMMIT and second sweep | `NarrowInv` |
| `LockNeverOrphaned` | `[]LockInUse`, the safety half of `WritesEnd` | itself with `TypeOK` |
| **`TenantLifecycleProofs`** `TypeCorrect` | `[]TypeOK` | `TypeInv` |
| `StatusAlwaysRecorded` | `[]StatusRecorded`, if `OneAdmin` | `StatusInv` |
| `CascadeAlwaysConverges` | `[]Converged`, if `OneAdmin` and `Editors = {}` | `CascadeInv` |
| `RevocationFinal` | `RevokedForCauseFinal`, if `OneEditor` | `RevokeInv` |
| **`TenantUsersProofs`** `TypeCorrect` | `[]TypeOK` | `TypeInv` |
| `OwnerAlwaysRemains` | `[]MembershipSound`, if `OneRequest` | `MemberInv` |
| `MembersNeverTakenOver` | `NeverTakenOver`, if `OneRequest` | `MemberInv` |
| **`ResourceProofs`** `DefinitionsUnique`, `DefinitionsReturnBySave` | `[]DTableSound`, `DReturnsOnlyBySave` | `DInv` |
| `ClientsAlwaysSound` | `[]KClientsSound` | `KInv` |
| `ConnectorsAlwaysUsable`, `ResolutionAlwaysUsable` | `[]CStoredSound`, `[]CResolvedUsable` | `CInv` |
| `ValidatorsAlwaysAgree` | `[]FValidatorsAgree` | `FInv` |
| `ListingsAlwaysExact` | `[]PListingExact` | `PInv` |
| **`LoginProofs`** `LoginOfOneMember` | `[]UOneMember` | `UInv` |
| `TabAlwaysSound` | `[]WTabSound` | `WInv` and `WWaiting` |
| `SessionsAlwaysSound` | `[]SSessionsSound` | `SInv` |
| `LogoutUndoneOnlyByCopy` | `SBackOnlyByCopy` | `SInv` and `SRevokedKnown` |
| **`PlatformProofs`** `CircuitSound` | `[]TCircuitSound` | itself |
| `ChainsCapped` | `[]OStoreSound` | `OChainInv` |
| `PurgeInvisible` | `OPurgeInvisible`, the safety half of `OPurgeExact` | `OStoreSound` |
| `WindowAlwaysBounded` | `[]RWindowBounded` | `RInv` |
| **`FleetProofs`** `EnvironmentAlwaysSound`, `ClaimsAlwaysKept` | `[]BEnvironmentSound`, `BClaimKept` | `BEnvInv` |
| `RotationAlwaysSound` | `[]JRotationSound`, if `JCacheTtl # 0` | `JInv` |
| `EntriesAlwaysKept` | `[]AEntriesKept` | `AInv` and `AJobsOwned` |

### The hypotheses of some theorems
They are not conveniences of the proofs: each marks where the code itself stops keeping the property.
- `OneAdmin`, `OneEditor`, `OneRequest`: no two requests of that kind overlap on the tenant, the resource or its members. The code takes no lock there, and section 4
  gives the instances on which two overlapping ones break `RetentionAnchored`, `RevokedForCauseFinal` and `OwnerRemains`. Everything else stays unrestricted: jobs, retries,
  stray statements and logins of any number run beside them.
- `Editors = {}`: a resource created by a request that passed the status guard before a deactivation survives the cascade (section 4).
- `Markers = {}`: the repository has no caller of `markViewed`; with one, a request's save can clear its stamp (section 4).
- `~PodsMayDie`: a pod that dies between COMMIT and second sweep leaves the grants of logins that ran in between.
- `JCacheTtl # 0`: a cache lifetime of zero, which the code would take, makes every cached key expired at once, so that no token is accepted at all.

### Arguments
- **`TypeInv`** of `Operation` adds that a handler past its read holds a real row: without it `save()` could store half a row. In `TenantLifecycle` it adds that an
  editor carries a value of its row's kind, in `TenantUsers` that a request is about an id that was handed out.
- **`ViewInv`**. `PromiseKept` alone is not inductive: a poll between its read and its stamp must know that
  what it holds is still the row. `OutcomeFinal` says a terminal row belongs to a finished request, so no save
  can touch it. `LoadedCurrent` says a poll past its read holds the row's state and creation time as long as the row exists,
  `RereadViewed` that a poll that lost the race finds a stamped row, and `AnsweredDone` that an answered
  terminal operation's request is finished. The purge is harmless because it deletes only rows whose expiry, the one promised, has passed.
- **`KeepInv`** = `TypeInv`, `ViewInv`, `LifeInv`, `ExpiryInv`. `LifeInv`: while a request is under way its row, if any, is pending and unviewed and its copies say the
  same (`RowInFlight`, `CarriedInFlight`); `UnfinishedUnviewed` is a part of it. `ExpiryInv`: an expiry, stored or about to be stored by a request or a poll, is one that the TTL rules
  give under some configuration, for the configuration may change after it was read; `PendingLater` (an expiry from a later creation is later) covers a clock that moves between reading it and saving.
  `ContractImplemented` is a step simulation from it: a save maps to the outcome or to `Return`, a batch of the purge to any number of lapses and ends, every other step to a view or a stutter.
- **`MappingInv`** = `LockInv` (a writer in its transaction holds the lock) and `SnapshotInv` (what it read is still in
  force; what it validated is what its COMMIT leaves) with the two properties. The lock is why the snapshots stay true.
- **`NarrowInv`** = `LoginInv` (a login about to save asks for what its role allows, or its role is in the window between
  COMMIT and second sweep, or a sweep it has not seen has passed) and `GrantInv` (the same for saved grants).
- **`StatusInv`** adds that an administrator past the read holds the tenant's present status (`AdminFresh`) and that the jobs form a chain, each starting from the status before (`JobChain`).
  **`CascadeInv`** adds that what a job is done with was executed for good (`JobsCarriedOut`) and that, as long as no client update of an older job ran after one of a newer, the clients are as the
  newest executed update left them (`ClientsFollow`). The chain is what ties that update to the tenant's status: a job without a client update changes nothing the clients depend on.
  **`RevokeInv`** says the client an editor past its read holds is still not revoked for cause (`EditFresh`): nobody but an editor revokes for cause.
- **`MemberInv`**: a request that has passed the last-owner rule still has another owner to rely on (`RequestFresh`). Logins can add owners and link them, never remove one.
- **`DInv`**: the entity a request read agrees with the row in format and check, which no update changes; the unique index does the rest.
- **`KInv`**: the privileges in a copy were granted or are asked for by the platform admin who sends them, its pair of roles and grants was checked, and, unless the request was overtaken, the rest of it is the row (`KHolds`).
- **`CInv`**: a row and a copy of it are well formed by themselves (`CWell`): cipher and key version are written together. An endpoint about to be stored was tested (`CTested`).
- **`FInv`**: after each turn the issues found are those of the attributes so far. It is an invariant of the loop, so the length of the offer does not matter.
- **`PInv`**: `PAscAhead`, a row that was there from the start was returned by an ascending listing or lies beyond its cursor, although that is cut to the millisecond; `PDescBehind`, nothing a descending one
  returned lies beyond its cursor. A page's size decides `has_more`, so that a short page has taken everything ahead is a fact about cardinalities.
- **`UInv`**, in two halves: the interaction side (a state is drawn once; row, copy and callback of one state name one member) and the session side (a session, a staged token and
  a listener under way name the member of a login that was consumed). Steps of one side leave the other (`UInteractionKept`, `USessionKept`).
- **`WInv`**: the shapes of user, shared flight, requests and provider; the queue holds the renewal under way and the store of an answered switch, each at most once (`WQueueSound`); and, unless something ended the
  session, the tab and its renewal are of the tenant of the last switch (`WTenantHeld`) and the live refresh token is with the switch that was served, else with the renewal that was answered, else with the user (`WLiveHeld`).
  **`WWaiting`** ties the waits of the tab to what ends them, which gives `WNobodyStuck`.
- **`SInv`** = `SBindInv`, `STableInv` and, when there is a limit, `SCapInv` of every account. `SBindInv`: a stored or loaded session row names a grant that was issued for the row's account, which nothing takes back
  (`SBound`, `SGrowth`), and what a login evicted stays without grant and tokens, because no step saves for an issued grant again (`SVictimsSound`). `STableInv`: creation orders the live rows (`SOrdered`) and a row is
  locked by one eviction at a time, of its own account (`SLocksSound`). `SCapInv` counts. A session is *settled* once its login has committed its eviction or has skipped a row, and the settled ones are at most the limit
  plus the skips. That is not inductive: a commit settles one session more. So an eviction under way leaves room for it (`SRoom`): every settled session it does not hold is paid for by a skip, or it found none to hold and its own still
  fits. Two evictions under way see each other (`SAware`): the later one holds the earlier one's row, or is counted as having skipped. What an eviction keeps of the rows it holds is below the limit because the number of newer rows tells the
  kept ones apart (`SSurplusBound`, an injection into `0 .. SLimit - 2`). Steps that are not a login's own leave locked rows and bring no session under a cap (`SQuiet`), one lemma for all of them.
- **`OChainInv`** adds that a request names a token of the table: its limit is that of the chain. **`TCircuitSound`** is inductive as it stands.
- **`RInv`** counts, per bucket, the requests between their count and their insert: admitted + `RPending` < limit + slots, rows + `RWriting` <= limit + slots, and every admitted request has left its row.
  A request that joins `RPending` counted fewer rows than the limit, so the sum is below the limit plus the others; an insert moves one unit from the second term to the first.
- **`BEnvInv`** = `BSeedInv` (the lock has one holder; what the holder found is still true; every step behind a pod has left its row) and `BBootInv` (a stored secret was shown, lost by a crash, or is held by the run that will print it).
- **`JInv`**: the roll-out is in one of its passes (`JRollout`), the old key's tokens have run out when the key is retired (`JTokenSound`), a document on its way was published after its request began and lacks the key of a live token only in the gap of
  `--append` (`JReqSound`), and a cached document arrived within a fetch's timeout of its publication (`JCacheSound`).
- **`AInv`** = `LPodsSound` (a pod's flags agree with where it is in its start or its shutdown), `AEntriesSound` (the record of a job agrees with its rows and its retries) and `APartsSound` (a maintenance run has created the
  months before the one it is at). **`AJobsOwned`** is inductive over it: only the first participant of a shutdown and a crash take a pod's workers from it (`LWorkKept`), and both give its jobs back.

Facts about sums and minima that would need induction over data are proved by a least counterexample in the natural numbers (`WFMin` of the library): `RAgeInduction`, from which the sum over the
ages of a window exists, grows with its terms and shifts with the clock.

## 6. What is only model-checked
- Liveness is beyond the prover: `ExpiredPurged`, `JobsSettle`, `WritesEnd`, `UPendingDrained`, `OPurgeExact`, `TCallsRecover`, `AQueueDrains`, `WSwitchEnds`. What is proved are
  safety halves: nothing visible is purged (`PurgeInvisible`), and whoever waits has somebody at work to wait for, a lock's holder (`LockNeverOrphaned`), a circuit's test (`TOneProbe`), a renewal or switch
  (`WNobodyStuck`), a pod with workers (`AJobsOwned`). That these come to their end under fairness is TLC's part.
- The violated properties have counterexamples only.
- The composition of parts in one run is not a subject of the theorems: no two parts share a variable.

No module uses `ENABLED` or `RECURSIVE`. The installed provers cannot apply an induction theorem that has an operator as its parameter; the one recursive function a theorem is about (`RSumAges`) is
handled as described above.

## 7. Plan

The safety properties are all proved; liveness stays with TLC. A composition still worth stating is a member's change of role (`TenantUsers`) against the sweep of a narrowing (`RoleScope`).

## 8. Not modelled
- Web pages and components, generated API types: rendering of answers.
- Health details, logging, telemetry, API documentation: output without state, except for the probes in `PodLifecycle`.
- Migrations run once before a release; the tables, constraints, indexes and seed rows they create appear in the modules that rely on them.
- Reading and validating the configuration happens once at start and is left to its unit tests.
- Issuance and verification profiles have no service; only the seed writes their tables (`Seeding`).
- `enforce()` of the session limit has no caller yet; `AccountSessions` calls it where its comment says a login must.
- The adapter ports other than the token and HTTP client of Traction are stubs that throw. In the registry the platform administrator's override and the choice of a
  format, and in the connectivity check the text of its answer, are functions of one request.
- The export of the audit log is one query over the same rows. The queues no code sends to or consumes are left out.
- The oidc-provider, TypeORM, pg-boss and cockatiel libraries are external: the models contain what the code uses of them.
