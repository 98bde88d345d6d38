--------------------------- MODULE TenantLifecycle ---------------------------
(***************************************************************************)
(* One tenant's lifecycle: TenantService.updateStatus writes the status    *)
(* and enqueues a tenant.status-change job in one transaction, pg-boss     *)
(* delivers the job at least once, and TenantStatusChangeWorker cascades   *)
(* it to the tenant's OAuth clients, connector credentials and connections *)
(* while administrators and tenant users go on changing all of these.      *)
(*                                                                         *)
(* A resource row is one value: what the cascade and the revocation rules  *)
(* tell apart.  A client is "live" (revoked_at IS NULL), "tagged" (revoked *)
(* with revoked_reason TENANT_DEACTIVATION) or "revoked" (for cause, no    *)
(* reason); a connector credential is "live" (active) or "off"; a          *)
(* connection is "live", "completed" or "abandoned".                       *)
(***************************************************************************)
EXTENDS Integers, FiniteSets

CONSTANTS Admins,       \* concurrent updateStatus / update requests
          Editors,      \* concurrent client, connector or connection requests
          PlatformEditors,  \* those of them made by a platform admin
          Clients, Connectors, Connections,
          MaxChanges,   \* bound: status changes, hence jobs, in a behaviour
          Slots,        \* jobs active at once (localConcurrency x pods)
          RetryLimit,   \* QUEUE_DEFINITIONS.retryLimit
          None          \* no row

Resources == Clients \cup Connectors \cup Connections

ASSUME DisjointAssumption == /\ Clients \cap Connectors = {}
                             /\ Clients \cap Connections = {}
                             /\ Connectors \cap Connections = {}
ASSUME NumbersAssumption == /\ MaxChanges \in Nat /\ RetryLimit \in Nat
                            /\ Slots \in Nat \ {0}

Statuses == {"active", "suspended", "deactivated", "pending_approval", "rejected"}

\* ALLOWED_STATUS_TRANSITIONS.
AllowedTargets(status) ==
  CASE status = "active" -> {"suspended", "deactivated"}
    [] status = "suspended" -> {"active", "deactivated"}
    [] status = "deactivated" -> {"active"}
    [] OTHER -> {}

Values(x) == CASE x \in Clients -> {"live", "tagged", "revoked"}
               [] x \in Connectors -> {"live", "off"}
               [] OTHER -> {"live", "completed", "abandoned"}
AllValues == {"live", "tagged", "revoked", "off", "completed", "abandoned"}

ASSUME NoneAssumption == None \notin AllValues

JobIds == 1..MaxChanges
Effects == {"clients", "connectors", "connections"}

VARIABLES
  tenant,     \* its row: status, and whether deactivated_at is set
  apc, acopy, asnap, aprev,  \* each admin request: where it is, the entity it
              \* changes, the row save() loaded, the status it read
  jobs,       \* tenant.status-change jobs: state, payload, effects left, tries
  sent,       \* how many there are
  stray,      \* statements of failed attempts that are still to be executed
  res,        \* the resource rows
  epc, eres, ecopy, esnap,   \* each editor request, likewise
  acked,      \* history: clients whose for-cause revocation was acknowledged
  applied, reordered  \* history: the newest job whose client update was
              \* applied, and whether an older one was applied after it

adminVars == <<apc, acopy, asnap, aprev>>
editVars == <<epc, eres, ecopy, esnap>>
jobVars == <<jobs, sent, stray, applied, reordered>>
vars == <<tenant, apc, acopy, asnap, aprev, jobs, sent, stray, res,
          epc, eres, ecopy, esnap, acked, applied, reordered>>

TenantRow == [status : Statuses, deactivatedAt : BOOLEAN]
NoTenant == [status |-> "rejected", deactivatedAt |-> FALSE]
NoJob == [st |-> "none", prev |-> "active", status |-> "active",
          todo |-> {}, tries |-> 0]

TypeOK ==
  /\ tenant \in TenantRow
  /\ apc \in [Admins -> {"idle", "load.status", "load.update",
                         "write.status", "write.update"}]
  /\ acopy \in [Admins -> TenantRow] /\ asnap \in [Admins -> TenantRow]
  /\ aprev \in [Admins -> Statuses]
  /\ jobs \in [JobIds -> [st : {"none", "created", "active", "completed", "failed"},
                          prev : Statuses, status : Statuses,
                          todo : SUBSET Effects, tries : 0..RetryLimit]]
  /\ sent \in 0..MaxChanges /\ stray \subseteq JobIds \X Effects
  /\ res \in [Resources -> AllValues \cup {None}]
  /\ \A x \in Resources : res[x] \in Values(x) \cup {None}
  /\ epc \in [Editors -> {"idle", "insert", "load", "write", "revoke"}]
  /\ eres \in [Editors -> Resources]
  /\ ecopy \in [Editors -> AllValues] /\ esnap \in [Editors -> AllValues \cup {None}]
  /\ acked \subseteq Clients
  /\ applied \in 0..MaxChanges /\ reordered \in BOOLEAN

\* An active tenant whose resources may or may not exist yet.
Init ==
  /\ tenant = [status |-> "active", deactivatedAt |-> FALSE]
  /\ apc = [a \in Admins |-> "idle"]
  /\ acopy = [a \in Admins |-> NoTenant] /\ asnap = [a \in Admins |-> NoTenant]
  /\ aprev = [a \in Admins |-> "rejected"]
  /\ jobs = [j \in JobIds |-> NoJob] /\ sent = 0 /\ stray = {}
  /\ res \in [Resources -> {"live", None}]
  /\ epc = [e \in Editors |-> "idle"]
  /\ eres \in [Editors -> Resources]
  /\ ecopy = [e \in Editors |-> "live"] /\ esnap = [e \in Editors |-> "live"]
  /\ acked = {} /\ applied = 0 /\ reordered = FALSE

-----------------------------------------------------------------------------
(* TypeORM save(): SELECT the row, then UPDATE the columns in which the     *)
(* entity differs from what was selected.                                   *)
MergeTenant(db, snap, entity) ==
  [status |-> IF entity.status # snap.status THEN entity.status ELSE db.status,
   deactivatedAt |-> IF entity.deactivatedAt # snap.deactivatedAt
                     THEN entity.deactivatedAt ELSE db.deactivatedAt]

(* Administrators.                                                          *)

\* updateStatus: read the tenant, check the transition table, change the entity.
StatusRead(a, target) ==
  /\ apc[a] = "idle" /\ sent < MaxChanges
  /\ target \in AllowedTargets(tenant.status)
  /\ acopy' = [acopy EXCEPT ![a] = [status |-> target,
                                    deactivatedAt |-> target = "deactivated"]]
  /\ aprev' = [aprev EXCEPT ![a] = tenant.status]
  /\ apc' = [apc EXCEPT ![a] = "load.status"]
  /\ UNCHANGED <<tenant, asnap, jobVars, res, editVars, acked>>

\* update and updateConfig: the whole entity is read, changed elsewhere and saved.
UpdateRead(a) ==
  /\ apc[a] = "idle"
  /\ acopy' = [acopy EXCEPT ![a] = tenant]
  /\ apc' = [apc EXCEPT ![a] = "load.update"]
  /\ UNCHANGED <<tenant, asnap, aprev, jobVars, res, editVars, acked>>

TenantLoad(a) ==
  /\ apc[a] \in {"load.status", "load.update"}
  /\ asnap' = [asnap EXCEPT ![a] = tenant]
  /\ apc' = [apc EXCEPT ![a] = IF apc[a] = "load.status" THEN "write.status"
                                                        ELSE "write.update"]
  /\ UNCHANGED <<tenant, acopy, aprev, jobVars, res, editVars, acked>>

AdminDone(a) ==
  /\ apc' = [apc EXCEPT ![a] = "idle"]
  /\ acopy' = [acopy EXCEPT ![a] = NoTenant]
  /\ asnap' = [asnap EXCEPT ![a] = NoTenant]
  /\ aprev' = [aprev EXCEPT ![a] = "rejected"]

\* MUTANT of StatusCommit: a resumption needs no cascade, so it sends no job.
StatusCommit_NoJob(a) ==
  /\ apc[a] = "write.status" /\ sent < MaxChanges
  /\ tenant' = MergeTenant(tenant, asnap[a], acopy[a])
  /\ IF aprev[a] = "suspended" /\ acopy[a].status = "active"
     THEN UNCHANGED <<sent, jobs>>
     ELSE /\ sent' = sent + 1
          /\ jobs' = [jobs EXCEPT ![sent + 1] =
               [NoJob EXCEPT !.st = "created", !.prev = aprev[a],
                             !.status = acopy[a].status]]
  /\ AdminDone(a)
  /\ UNCHANGED <<stray, res, editVars, acked, applied, reordered>>

\* The transaction commits: the row and the job appear together.
StatusCommit(a) ==
  /\ apc[a] = "write.status" /\ sent < MaxChanges
  /\ tenant' = MergeTenant(tenant, asnap[a], acopy[a])
  /\ sent' = sent + 1
  /\ jobs' = [jobs EXCEPT ![sent + 1] =
       [NoJob EXCEPT !.st = "created", !.prev = aprev[a], !.status = acopy[a].status]]
  /\ AdminDone(a)
  /\ UNCHANGED <<stray, res, editVars, acked, applied, reordered>>

UpdateWrite(a) ==
  /\ apc[a] = "write.update"
  /\ tenant' = MergeTenant(tenant, asnap[a], acopy[a])
  /\ AdminDone(a)
  /\ UNCHANGED <<jobVars, res, editVars, acked>>

\* The enqueue or the save fails: the transaction rolls back.
AdminAbort(a) ==
  /\ apc[a] # "idle"
  /\ AdminDone(a)
  /\ UNCHANGED <<tenant, jobVars, res, editVars, acked>>

-----------------------------------------------------------------------------
(* The worker.                                                              *)

IsRestore(job) == job.prev = "deactivated" /\ job.status = "active"

\* MUTANT of EffectsOf: a deactivation of a suspended tenant skips the cascade.
EffectsOf_NotFromSuspended(job) ==
  CASE job.status = "deactivated" /\ job.prev = "active" -> Effects
    [] IsRestore(job) -> {"clients"}
    [] OTHER -> {}

\* What handle() has to do for a payload; it never looks at the tenant row.
EffectsOf(job) == CASE job.status = "deactivated" -> Effects
                    [] IsRestore(job) -> {"clients"}
                    [] OTHER -> {}

\* pg-boss fetches jobs in the order they were created, except that a retried
\* one becomes due when its backoff ends, before or after younger jobs.
JobStart(j) ==
  /\ jobs[j].st = "created"
  /\ jobs[j].tries = 0 =>
       \A k \in 1..(j - 1) : jobs[k].st = "created" => jobs[k].tries > 0
  /\ Cardinality({k \in JobIds : jobs[k].st = "active"}) < Slots
  /\ jobs' = [jobs EXCEPT ![j].st = "active", ![j].todo = EffectsOf(jobs[j])]
  /\ UNCHANGED <<tenant, adminVars, sent, stray, res, editVars, acked, applied, reordered>>

\* The bulk UPDATEs of the cascade, each one statement.
RevokeAll(r) == [x \in Resources |->
  IF x \in Clients /\ r[x] = "live" THEN "tagged" ELSE r[x]]
DeactivateAll(r) == [x \in Resources |->
  IF x \in Connectors /\ r[x] = "live" THEN "off" ELSE r[x]]
AbandonAll(r) == [x \in Resources |->
  IF x \in Connections /\ r[x] = "live" THEN "abandoned" ELSE r[x]]

\* MUTANT of RestoreAll: the WHERE clause lost its revoked_reason condition.
RestoreAll_AnyReason(r) == [x \in Resources |->
  IF x \in Clients /\ r[x] \in {"tagged", "revoked"} THEN "live" ELSE r[x]]

RestoreAll(r) == [x \in Resources |->
  IF x \in Clients /\ r[x] = "tagged" THEN "live" ELSE r[x]]

\* One statement of job j is executed.
Apply(j, f) ==
  /\ res' = CASE f = "connectors" -> DeactivateAll(res)
              [] f = "connections" -> AbandonAll(res)
              [] f = "clients" /\ IsRestore(jobs[j]) -> RestoreAll(res)
              [] OTHER -> RevokeAll(res)
  /\ applied' = IF f = "clients" /\ j > applied THEN j ELSE applied
  /\ reordered' = (reordered \/ (f = "clients" /\ j < applied))
  /\ UNCHANGED <<tenant, adminVars, sent, editVars, acked>>

\* Promise.all: the three statements finish in any order.
JobEffect(j, f) ==
  /\ jobs[j].st = "active" /\ f \in jobs[j].todo
  /\ jobs' = [jobs EXCEPT ![j].todo = @ \ {f}]
  /\ Apply(j, f)
  /\ UNCHANGED stray

\* Promise.all rejects at the first error and waits for no other statement: one
\* that was sent may be executed after the job has failed, or been retried.
StrayEffect(j, f) ==
  /\ <<j, f>> \in stray
  /\ stray' = stray \ {<<j, f>>}
  /\ Apply(j, f)
  /\ UNCHANGED jobs

JobComplete(j) ==
  /\ jobs[j].st = "active" /\ jobs[j].todo = {}
  /\ jobs' = [jobs EXCEPT ![j].st = "completed"]
  /\ UNCHANGED <<tenant, adminVars, sent, stray, res, editVars, acked, applied, reordered>>

\* MUTANT of JobFail: the retry is a fresh job, so its tries start again.
JobFail_Resend(j, late) ==
  /\ jobs[j].st = "active" /\ late = {}
  /\ jobs' = [jobs EXCEPT ![j].st = "created", ![j].todo = {}]
  /\ UNCHANGED <<tenant, adminVars, sent, stray, res, editVars, acked, applied, reordered>>

\* A statement throws, or the pod dies before pg-boss hears of the result: the
\* whole job is tried again later, or goes to the dead-letter queue.
JobFail(j, late) ==
  /\ jobs[j].st = "active" /\ late \subseteq jobs[j].todo
  /\ jobs' = [jobs EXCEPT ![j] =
       IF jobs[j].tries < RetryLimit
       THEN [jobs[j] EXCEPT !.st = "created", !.todo = {}, !.tries = @ + 1]
       ELSE [jobs[j] EXCEPT !.st = "failed", !.todo = {}]]
  /\ stray' = stray \cup ({j} \X late)
  /\ UNCHANGED <<tenant, adminVars, sent, res, editVars, acked, applied, reordered>>

-----------------------------------------------------------------------------
(* Requests on the resources.                                               *)

\* TenantStatusGuard, run before the handler's own reads.
PassesGuard(e) == e \in PlatformEditors \/ tenant.status = "active"

EditDone(e) ==
  /\ epc' = [epc EXCEPT ![e] = "idle"]
  /\ ecopy' = [ecopy EXCEPT ![e] = "live"]
  /\ esnap' = [esnap EXCEPT ![e] = "live"]

\* createClient, and the create of a connector credential or a connection: once
\* past the guard the secret is hashed, the connector probed or duplicates looked
\* for, and only then is the row inserted.
CreateBegin(e, x) ==
  /\ epc[e] = "idle" /\ PassesGuard(e) /\ res[x] = None
  /\ \A d \in Editors : epc[d] = "idle" \/ eres[d] # x
  /\ epc' = [epc EXCEPT ![e] = "insert"]
  /\ eres' = [eres EXCEPT ![e] = x]
  /\ UNCHANGED <<tenant, adminVars, jobVars, res, ecopy, esnap, acked>>

CreateInsert(e) ==
  /\ epc[e] = "insert"
  /\ res' = [res EXCEPT ![eres[e]] = "live"]
  /\ EditDone(e)
  /\ UNCHANGED <<tenant, adminVars, jobVars, eres, acked>>

\* update and rotateSecret of a client (404 unless it is live): the row is read
\* and its revocation columns go along unchanged; update of a connection may
\* also set its state to anything.
EditRead(e, x, value) ==
  /\ epc[e] = "idle" /\ PassesGuard(e) /\ res[x] # None
  /\ \/ x \in Clients /\ res[x] = "live" /\ value = "live"
     \/ x \in Connections
  /\ eres' = [eres EXCEPT ![e] = x]
  /\ ecopy' = [ecopy EXCEPT ![e] = value]
  /\ epc' = [epc EXCEPT ![e] = "load"]
  /\ UNCHANGED <<tenant, adminVars, jobVars, res, esnap, acked>>

EditLoad(e) ==
  /\ epc[e] = "load"
  /\ esnap' = [esnap EXCEPT ![e] = res[eres[e]]]
  /\ epc' = [epc EXCEPT ![e] = "write"]
  /\ UNCHANGED <<tenant, adminVars, jobVars, res, eres, ecopy, acked>>

\* save(): an INSERT if no row was loaded; the UPDATE of a deleted row does nothing.
EditWrite(e) ==
  /\ epc[e] = "write"
  /\ LET x == eres[e]
     IN  res' = IF esnap[e] = None \/ (ecopy[e] # esnap[e] /\ res[x] # None)
                THEN [res EXCEPT ![x] = ecopy[e]] ELSE res
  /\ EditDone(e)
  /\ UNCHANGED <<tenant, adminVars, jobVars, eres, acked>>

\* delete of a connector credential or a connection, by id.
Delete(e, x) ==
  /\ epc[e] = "idle" /\ PassesGuard(e) /\ res[x] # None /\ x \notin Clients
  /\ res' = [res EXCEPT ![x] = None]
  /\ UNCHANGED <<tenant, adminVars, jobVars, editVars, acked>>

\* revokeClient: an already revoked client is acknowledged as it is ...
RevokeRead(e, c) ==
  /\ epc[e] = "idle" /\ PassesGuard(e) /\ res[c] # None
  /\ eres' = [eres EXCEPT ![e] = c]
  /\ epc' = [epc EXCEPT ![e] = IF res[c] = "live" THEN "revoke" ELSE "idle"]
  /\ acked' = IF res[c] = "live" THEN acked ELSE acked \cup {c}
  /\ UNCHANGED <<tenant, adminVars, jobVars, res, ecopy, esnap>>

\* ... and a live one is updated by id, whatever it has become since.
RevokeWrite(e) ==
  /\ epc[e] = "revoke"
  /\ res' = [res EXCEPT ![eres[e]] = "revoked"]
  /\ acked' = acked \cup {eres[e]}
  /\ EditDone(e)
  /\ UNCHANGED <<tenant, adminVars, jobVars, eres>>

-----------------------------------------------------------------------------
AdminStep(a) ==
  \/ \E s \in Statuses : StatusRead(a, s)
  \/ UpdateRead(a) \/ TenantLoad(a) \/ StatusCommit(a) \/ UpdateWrite(a) \/ AdminAbort(a)

WorkerStep(j) ==
  \/ JobStart(j) \/ (\E f \in Effects : JobEffect(j, f)) \/ JobComplete(j)

EditorStep(e) ==
  \/ \E x \in Resources : CreateBegin(e, x) \/ Delete(e, x)
  \/ \E x \in Resources : \E v \in Values(x) : EditRead(e, x, v)
  \/ \E c \in Clients : RevokeRead(e, c)
  \/ CreateInsert(e) \/ EditLoad(e) \/ EditWrite(e) \/ RevokeWrite(e)

Next ==
  \/ \E a \in Admins : AdminStep(a)
  \/ \E j \in JobIds : WorkerStep(j) \/ (\E late \in SUBSET Effects : JobFail(j, late))
                       \/ (\E f \in Effects : StrayEffect(j, f))
  \/ \E e \in Editors : EditorStep(e)

Spec == Init /\ [][Next]_vars

\* The workers poll their queue for as long as a pod is up.
FairSpec == Spec /\ \A j \in JobIds : WF_vars(WorkerStep(j))

-----------------------------------------------------------------------------
(* Properties.                                                              *)

Settled == \A j \in JobIds : jobs[j].st \in {"none", "completed"}

Agree ==
  /\ tenant.status = "deactivated" => \A x \in Resources : res[x] # "live"
  /\ tenant.status # "deactivated" => \A c \in Clients : res[c] # "tagged"

\* The cascade converges: once every job has completed, and if the workers
\* applied the client updates in the order of the status changes, a deactivated
\* tenant has nothing live and any other tenant has no client still revoked for
\* the deactivation, however often jobs failed half-way (TenantStatusChangeWorker).
Converged == Settled /\ ~reordered => Agree

\* Once every job has completed, a deactivated tenant has no live client:
\* "Deactivating a tenant revokes its OAuth clients" (worker's comment).
DeactivatedMeansRevoked ==
  Settled /\ tenant.status = "deactivated" => \A c \in Clients : res[c] # "live"

\* deactivated_at is set exactly while the tenant is deactivated ("set when
\* moving into DEACTIVATED [...] and cleared for any other target status").
RetentionAnchored == tenant.deactivatedAt <=> tenant.status = "deactivated"

\* No job of a status change is lost or invented: the transaction that changes
\* the status is the one that sends its job, so the newest job names the status.
NewestJobNamesStatus ==
  IF sent = 0 THEN tenant.status = "active" ELSE jobs[sent].status = tenant.status

\* A status change is recorded as one: the status, its retention anchor and its
\* newest job agree (updateStatus, one transaction).
StatusRecorded == TypeOK /\ RetentionAnchored /\ NewestJobNamesStatus

\* A client revoked for cause is never live again, neither through the restore
\* of a reactivation nor through a retried job (restoreAllForTenant).
RevokedForCauseFinal ==
  [][\A c \in Clients : res[c] = "revoked" => res'[c] = "revoked"]_vars

\* A client whose revocation was acknowledged to the caller is never live again
\* ("otherwise a for-cause revocation after deactivation would still carry the
\* TENANT_DEACTIVATION tag and get resurrected by restoreAllForTenant").
AckedRevocationHolds == \A c \in acked : res[c] # "live"

\* Every status change is eventually carried out or dead-lettered, in spite of
\* failing attempts (retryLimit, deadLetter).
JobsSettle ==
  \A j \in JobIds : (jobs[j].st = "created") ~> (jobs[j].st \in {"completed", "failed"})
=============================================================================
