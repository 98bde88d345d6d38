------------------------- MODULE TenantLifecycleProofs -------------------------
(***************************************************************************)
(* Proofs about TenantLifecycle, for every number of status changes, jobs, *)
(* retries, slots and resource rows.  Where a theorem assumes one request  *)
(* at a time, two requests with stale copies do break the property.        *)
(***************************************************************************)
EXTENDS TenantLifecycle, TLAPS

USE DEF Effects

(* updateStatus and update requests, or resource requests, do not overlap.  *)
OneAdmin == \A a, b \in Admins : a = b
OneEditor == \A d, e \in Editors : d = e

Job == [st : {"none", "created", "active", "completed", "failed"},
        prev : Statuses, status : Statuses,
        todo : SUBSET Effects, tries : 0..RetryLimit]

(* An editor carries a value of the kind of row it edits.                   *)
EditsFit ==
  \A e \in Editors :
    /\ ecopy[e] \in Values(eres[e])
    /\ epc[e] \in {"idle", "insert", "revoke"} => ecopy[e] = "live"
    /\ epc[e] = "revoke" => eres[e] \in Clients

TypeInv == TypeOK /\ EditsFit

LEMMA ValuesFit ==
  ASSUME NEW x \in Resources
  PROVE  /\ Values(x) \subseteq AllValues /\ "live" \in Values(x)
         /\ x \in Clients => "tagged" \in Values(x) /\ "revoked" \in Values(x)
         /\ x \in Connectors => "off" \in Values(x)
         /\ x \in Connections => "abandoned" \in Values(x)
BY DisjointAssumption DEF Values, AllValues, Resources

LEMMA MergeType ==
  ASSUME NEW db \in TenantRow, NEW snap \in TenantRow, NEW entity \in TenantRow
  PROVE  MergeTenant(db, snap, entity) \in TenantRow
BY DEF MergeTenant, TenantRow

(* The updates of a job leave a job.                                        *)
LEMMA JobUpdates ==
  ASSUME NEW job \in Job, NEW todo \in SUBSET Effects,
         NEW st \in {"none", "created", "active", "completed", "failed"},
         NEW tries \in 0..RetryLimit
  PROVE  /\ [job EXCEPT !.st = st] \in Job
         /\ [job EXCEPT !.st = st, !.todo = todo] \in Job
         /\ [job EXCEPT !.st = st, !.todo = todo, !.tries = tries] \in Job
BY DEF Job

(* One statement of the cascade leaves rows of their kinds, and deletes and *)
(* inserts none.                                                            *)
LEMMA ApplyType ==
  ASSUME TypeOK, NEW j \in JobIds, NEW f \in Effects, Apply(j, f)
  PROVE  /\ res' \in [Resources -> AllValues \cup {None}]
         /\ \A x \in Resources : res'[x] \in Values(x) \cup {None}
         /\ applied' \in 0..MaxChanges /\ reordered' \in BOOLEAN
         /\ UNCHANGED <<tenant, adminVars, sent, editVars, acked>>
<1> USE DEF TypeOK
<1>1. \A x \in Resources : res[x] \in AllValues \cup {None} /\ res[x] \in Values(x) \cup {None}
  OBVIOUS
<1>2. \A x \in Resources : res'[x] \in AllValues \cup {None} /\ res'[x] \in Values(x) \cup {None}
  BY <1>1, ValuesFit DEF Apply, DeactivateAll, AbandonAll, RestoreAll, RevokeAll
<1>3. res' = [x \in Resources |-> res'[x]]
  BY DEF Apply, DeactivateAll, AbandonAll, RestoreAll, RevokeAll
<1>4. applied' \in 0..MaxChanges /\ reordered' \in BOOLEAN
  BY NumbersAssumption DEF Apply, JobIds
<1>5. UNCHANGED <<tenant, adminVars, sent, editVars, acked>>
  BY DEF Apply
<1> QED
  BY <1>2, <1>3, <1>4, <1>5

LEMMA TypeInvInit == Init => TypeInv
<1> SUFFICES ASSUME Init PROVE TypeInv
  OBVIOUS
<1>1. NoJob \in Job /\ NoTenant \in TenantRow
  BY NumbersAssumption DEF NoJob, Job, NoTenant, TenantRow, Statuses
<1>2. \A x \in Resources : res[x] \in Values(x) \cup {None} /\ res[x] \in AllValues \cup {None}
  BY ValuesFit DEF Init
<1>3. jobs \in [JobIds -> Job] /\ sent \in 0..MaxChanges /\ applied \in 0..MaxChanges
  BY <1>1, NumbersAssumption DEF Init
<1>4. tenant \in TenantRow /\ "rejected" \in Statuses
  BY DEF Init, TenantRow, Statuses
<1>5. EditsFit
  BY ValuesFit DEF Init, EditsFit
<1> QED
  BY <1>1, <1>2, <1>3, <1>4, <1>5 DEF Init, TypeInv, TypeOK, Job, AllValues

LEMMA TypeInvAdmin ==
  ASSUME TypeInv, NEW a \in Admins, AdminStep(a)
  PROVE  TypeInv'
<1> USE DEF TypeInv, TypeOK, EditsFit
<1>0. NoTenant \in TenantRow /\ "rejected" \in Statuses
  BY DEF NoTenant, TenantRow, Statuses
<1>1. ASSUME NEW s \in Statuses, StatusRead(a, s) PROVE TypeInv'
  <2>1. [status |-> s, deactivatedAt |-> s = "deactivated"] \in TenantRow
        /\ tenant.status \in Statuses
    BY DEF TenantRow
  <2> QED
    BY <1>1, <2>1 DEF StatusRead, jobVars, editVars
<1>2. CASE UpdateRead(a) \/ TenantLoad(a)
  BY <1>2 DEF UpdateRead, TenantLoad, jobVars, editVars
<1>3. CASE StatusCommit(a)
  <2>1. tenant' \in TenantRow
    BY <1>3, MergeType DEF StatusCommit
  <2>2. acopy[a].status \in Statuses
    BY DEF TenantRow
  <2>3. sent' \in 0..MaxChanges /\ sent + 1 \in JobIds
    BY <1>3, NumbersAssumption DEF StatusCommit, JobIds
  <2>4. [NoJob EXCEPT !.st = "created", !.prev = aprev[a], !.status = acopy[a].status] \in Job
    <3>1. aprev[a] \in Statuses /\ 0 \in 0..RetryLimit /\ "active" \in Statuses
      BY NumbersAssumption DEF Statuses
    <3> QED
      BY <2>2, <3>1 DEF NoJob, Job
  <2>5. jobs' \in [JobIds -> Job]
    BY <1>3, <2>3, <2>4 DEF StatusCommit, Job
  <2>6. /\ apc' \in [Admins -> {"idle", "load.status", "load.update",
                         "write.status", "write.update"}]
        /\ acopy' \in [Admins -> TenantRow] /\ asnap' \in [Admins -> TenantRow]
        /\ aprev' \in [Admins -> Statuses]
    BY <1>0, <1>3 DEF StatusCommit, AdminDone
  <2> QED
    BY <1>3, <2>1, <2>3, <2>5, <2>6 DEF StatusCommit, editVars, Job
<1>4. CASE UpdateWrite(a)
  <2>1. tenant' \in TenantRow
    BY <1>4, MergeType DEF UpdateWrite
  <2> QED
    BY <1>0, <1>4, <2>1 DEF UpdateWrite, AdminDone, jobVars, editVars
<1>5. CASE AdminAbort(a)
  BY <1>0, <1>5 DEF AdminAbort, AdminDone, jobVars, editVars
<1> QED
  BY <1>1, <1>2, <1>3, <1>4, <1>5 DEF AdminStep

LEMMA TypeInvWorker ==
  ASSUME TypeInv, NEW j \in JobIds,
         \/ WorkerStep(j) \/ (\E late \in SUBSET Effects : JobFail(j, late))
         \/ (\E f \in Effects : StrayEffect(j, f))
  PROVE  TypeInv'
<1> USE DEF TypeInv, TypeOK, EditsFit
<1>0. jobs \in [JobIds -> Job]
  BY DEF Job
<1>1. CASE JobStart(j)
  <2>1. EffectsOf(jobs[j]) \in SUBSET Effects
    BY DEF EffectsOf
  <2>2. jobs' \in [JobIds -> Job]
    <3>1. [jobs[j] EXCEPT !.st = "active", !.todo = EffectsOf(jobs[j])] \in Job
      BY <1>0, <2>1, JobUpdates
    <3>2. jobs' = [jobs EXCEPT ![j] = [jobs[j] EXCEPT !.st = "active", !.todo = EffectsOf(jobs[j])]]
      BY <1>0, <1>1 DEF JobStart
    <3> QED
      BY <1>0, <3>1, <3>2
  <2> QED
    BY <1>1, <2>2 DEF JobStart, adminVars, editVars, Job
<1>2. ASSUME NEW f \in Effects, JobEffect(j, f) PROVE TypeInv'
  <2>1. jobs' \in [JobIds -> Job]
    BY <1>0, <1>2 DEF JobEffect, Job
  <2> QED
    BY <1>2, <2>1, ApplyType DEF JobEffect, adminVars, editVars, Job
<1>3. CASE JobComplete(j)
  <2>1. jobs' \in [JobIds -> Job]
    <3>1. [jobs[j] EXCEPT !.st = "completed"] \in Job
      BY <1>0, JobUpdates
    <3> QED
      BY <1>0, <1>3, <3>1 DEF JobComplete
  <2> QED
    BY <1>3, <2>1 DEF JobComplete, adminVars, editVars, Job
<1>4. ASSUME NEW late \in SUBSET Effects, JobFail(j, late) PROVE TypeInv'
  <2>1. jobs[j] \in Job
    BY <1>0
  <2>2. jobs[j].tries < RetryLimit => jobs[j].tries + 1 \in 0..RetryLimit
    BY <2>1, NumbersAssumption DEF Job
  <2>3. (IF jobs[j].tries < RetryLimit
         THEN [jobs[j] EXCEPT !.st = "created", !.todo = {}, !.tries = @ + 1]
         ELSE [jobs[j] EXCEPT !.st = "failed", !.todo = {}]) \in Job
    BY <2>1, <2>2 DEF Job
  <2>4. jobs' \in [JobIds -> Job]
    <3>1. jobs' = [jobs EXCEPT ![j] =
            IF jobs[j].tries < RetryLimit
            THEN [jobs[j] EXCEPT !.st = "created", !.todo = {}, !.tries = @ + 1]
            ELSE [jobs[j] EXCEPT !.st = "failed", !.todo = {}]]
      BY <1>4 DEF JobFail
    <3> QED
      BY <1>0, <2>3, <3>1, Zenon
  <2>5. stray' \subseteq JobIds \X Effects
    BY <1>4 DEF JobFail
  <2> QED
    BY <1>4, <2>4, <2>5 DEF JobFail, adminVars, editVars, Job
<1>5. ASSUME NEW f \in Effects, StrayEffect(j, f) PROVE TypeInv'
  BY <1>5, ApplyType DEF StrayEffect, adminVars, editVars
<1> QED
  BY <1>1, <1>2, <1>3, <1>4, <1>5 DEF WorkerStep

LEMMA TypeInvEditor ==
  ASSUME TypeInv, NEW e \in Editors, EditorStep(e)
  PROVE  TypeInv'
<1> USE DEF TypeInv, TypeOK, EditsFit
<1>0. \A x \in Resources : "live" \in Values(x) /\ Values(x) \subseteq AllValues
  BY ValuesFit
<1>1. ASSUME NEW x \in Resources, CreateBegin(e, x) \/ Delete(e, x) PROVE TypeInv'
  <2>1. CASE CreateBegin(e, x)
    <3>1. ecopy' \in [Editors -> AllValues] /\ epc' \in [Editors -> {"idle", "insert", "load", "write", "revoke"}]
          /\ eres' \in [Editors -> Resources]
      BY <2>1 DEF CreateBegin
    <3>2. EditsFit'
      BY <1>0, <2>1 DEF CreateBegin
    <3> QED
      BY <2>1, <3>1, <3>2 DEF CreateBegin, adminVars, jobVars
  <2>2. CASE Delete(e, x)
    BY <2>2 DEF Delete, adminVars, jobVars, editVars
  <2> QED
    BY <1>1, <2>1, <2>2
<1>2. ASSUME NEW x \in Resources, NEW v \in Values(x), EditRead(e, x, v) PROVE TypeInv'
  BY <1>0, <1>2 DEF EditRead, adminVars, jobVars
<1>3. ASSUME NEW c \in Clients, RevokeRead(e, c) PROVE TypeInv'
  BY <1>0, <1>3 DEF RevokeRead, adminVars, jobVars, Resources
<1>4. CASE CreateInsert(e)
  BY <1>0, <1>4 DEF CreateInsert, EditDone, adminVars, jobVars, AllValues
<1>5. CASE EditLoad(e)
  BY <1>5 DEF EditLoad, adminVars, jobVars
<1>6. CASE EditWrite(e)
  BY <1>0, <1>6 DEF EditWrite, EditDone, adminVars, jobVars, AllValues
<1>7. CASE RevokeWrite(e)
  BY <1>0, <1>7, ValuesFit DEF RevokeWrite, EditDone, adminVars, jobVars, AllValues
<1> QED
  BY <1>1, <1>2, <1>3, <1>4, <1>5, <1>6, <1>7 DEF EditorStep

LEMMA TypeInvNext == TypeInv /\ [Next]_vars => TypeInv'
<1> SUFFICES ASSUME TypeInv, [Next]_vars PROVE TypeInv'
  OBVIOUS
<1>1. CASE UNCHANGED vars
  BY <1>1 DEF vars, TypeInv, TypeOK, EditsFit
<1> QED
  BY <1>1, TypeInvAdmin, TypeInvWorker, TypeInvEditor DEF Next

-------------------------------------------------------------------------------
(* The status, its retention anchor and its newest job.                     *)

(* One request's copies are the row: nobody else writes between its steps.  *)
AdminFresh ==
  \A a \in Admins :
    /\ apc[a] \in {"load.status", "write.status"} =>
         /\ aprev[a] = tenant.status
         /\ acopy[a].status \in AllowedTargets(tenant.status)
         /\ acopy[a].deactivatedAt <=> acopy[a].status = "deactivated"
    /\ apc[a] \in {"load.update", "write.update"} => acopy[a] = tenant
    /\ apc[a] \in {"write.status", "write.update"} => asnap[a] = tenant

(* The jobs are the tenant's history: each one starts where the one before  *)
(* it ended, by an allowed transition.                                      *)
JobChain ==
  \A j \in JobIds :
    /\ jobs[j].st = "none" <=> j > sent
    /\ j <= sent => jobs[j].status \in AllowedTargets(jobs[j].prev)
    /\ j < sent => jobs[j + 1].prev = jobs[j].status

StatusInv == TypeInv /\ RetentionAnchored /\ NewestJobNamesStatus /\ AdminFresh /\ JobChain

(* The worker reads and changes jobs and rows, never the tenant, and leaves *)
(* what a job is about.                                                     *)
LEMMA WorkerKeeps ==
  ASSUME TypeInv, NEW j \in JobIds,
         \/ WorkerStep(j) \/ (\E late \in SUBSET Effects : JobFail(j, late))
         \/ (\E f \in Effects : StrayEffect(j, f))
  PROVE  /\ UNCHANGED <<tenant, adminVars, sent, editVars, acked>>
         /\ \A k \in JobIds : /\ jobs'[k].status = jobs[k].status
                              /\ jobs'[k].prev = jobs[k].prev
                              /\ jobs'[k].st = "none" <=> jobs[k].st = "none"
<1>1. UNCHANGED <<tenant, adminVars, sent, editVars, acked>>
  BY DEF WorkerStep, JobStart, JobEffect, StrayEffect, Apply, JobComplete, JobFail
<1> SUFFICES \A k \in JobIds : /\ jobs'[k].status = jobs[k].status
                               /\ jobs'[k].prev = jobs[k].prev
                               /\ jobs'[k].st = "none" <=> jobs[k].st = "none"
  BY <1>1
<1> USE DEF TypeInv, TypeOK
<1>2. CASE JobStart(j)
  BY <1>1, <1>2 DEF JobStart
<1>3. ASSUME NEW f \in Effects, JobEffect(j, f) \/ StrayEffect(j, f)
      PROVE  \A k \in JobIds : /\ jobs'[k].status = jobs[k].status
                               /\ jobs'[k].prev = jobs[k].prev
                               /\ jobs'[k].st = "none" <=> jobs[k].st = "none"
  BY <1>3 DEF JobEffect, StrayEffect
<1>4. CASE JobComplete(j)
  BY <1>1, <1>4 DEF JobComplete
<1>5. ASSUME NEW late \in SUBSET Effects, JobFail(j, late)
      PROVE  \A k \in JobIds : /\ jobs'[k].status = jobs[k].status
                               /\ jobs'[k].prev = jobs[k].prev
                               /\ jobs'[k].st = "none" <=> jobs[k].st = "none"
  BY <1>5 DEF JobFail
<1> QED
  BY <1>2, <1>3, <1>4, <1>5 DEF WorkerStep

LEMMA EditorKeeps ==
  ASSUME NEW e \in Editors, EditorStep(e)
  PROVE  UNCHANGED <<tenant, apc, acopy, asnap, aprev, jobs, sent, stray, applied, reordered>>
BY DEF EditorStep, CreateBegin, Delete, EditRead, RevokeRead, CreateInsert, EditLoad, EditWrite,
   RevokeWrite, adminVars, jobVars

LEMMA StatusInvInit == Init => StatusInv
<1> SUFFICES ASSUME Init PROVE StatusInv
  OBVIOUS
<1>1. TypeInv
  BY TypeInvInit
<1>2. RetentionAnchored /\ NewestJobNamesStatus /\ AdminFresh /\ JobChain
  BY NumbersAssumption DEF Init, RetentionAnchored, NewestJobNamesStatus, AdminFresh, JobChain,
     NoJob, JobIds
<1> QED
  BY <1>1, <1>2 DEF StatusInv

(* A step that leaves the tenant, its administrator and the payloads of the *)
(* jobs alone leaves what is recorded of the status.                        *)
LEMMA StatusKept ==
  ASSUME StatusInv, TypeInv', UNCHANGED <<tenant, apc, acopy, asnap, aprev, sent>>,
         \A k \in JobIds : /\ jobs'[k].status = jobs[k].status
                           /\ jobs'[k].prev = jobs[k].prev
                           /\ jobs'[k].st = "none" <=> jobs[k].st = "none"
  PROVE  StatusInv'
<1>1. sent \in 0..MaxChanges /\ MaxChanges \in Nat
  BY NumbersAssumption DEF StatusInv, TypeInv, TypeOK
<1>2. NewestJobNamesStatus'
  BY <1>1 DEF StatusInv, NewestJobNamesStatus, JobIds
<1>3. JobChain'
  BY <1>1 DEF StatusInv, JobChain, JobIds
<1>4. RetentionAnchored' /\ AdminFresh'
  BY DEF StatusInv, RetentionAnchored, AdminFresh
<1> QED
  BY <1>2, <1>3, <1>4 DEF StatusInv

(* A committed status change extends the history by one job.                *)
LEMMA StatusCommitted ==
  ASSUME OneAdmin, StatusInv, NEW a \in Admins, StatusCommit(a), TypeInv'
  PROVE  StatusInv'
<1> USE DEF StatusInv
<1>1. /\ sent \in 0..MaxChanges /\ MaxChanges \in Nat /\ sent < MaxChanges
      /\ sent + 1 \in JobIds /\ sent' = sent + 1
  BY NumbersAssumption DEF StatusCommit, TypeInv, TypeOK, JobIds
<1>2. /\ aprev[a] = tenant.status /\ asnap[a] = tenant /\ acopy[a] \in TenantRow /\ tenant \in TenantRow
      /\ acopy[a].status \in AllowedTargets(tenant.status)
      /\ acopy[a].deactivatedAt <=> acopy[a].status = "deactivated"
  BY DEF AdminFresh, StatusCommit, TypeInv, TypeOK
<1>3. tenant' = acopy[a]
  BY <1>2 DEF StatusCommit, MergeTenant, TenantRow
<1>4. /\ \A k \in JobIds : k # sent + 1 => jobs'[k] = jobs[k]
      /\ jobs'[sent + 1].st = "created" /\ jobs'[sent + 1].prev = tenant.status
      /\ jobs'[sent + 1].status = acopy[a].status
  BY <1>1, <1>2 DEF StatusCommit, NoJob, TypeInv, TypeOK
<1>5. RetentionAnchored' /\ NewestJobNamesStatus'
  BY <1>1, <1>2, <1>3, <1>4 DEF RetentionAnchored, NewestJobNamesStatus
<1>6. AdminFresh'
  BY DEF AdminFresh, StatusCommit, AdminDone, OneAdmin, TypeInv, TypeOK
<1>7. ASSUME NEW j \in JobIds
      PROVE  /\ jobs'[j].st = "none" <=> j > sent + 1
             /\ j <= sent + 1 => jobs'[j].status \in AllowedTargets(jobs'[j].prev)
             /\ j < sent + 1 => jobs'[j + 1].prev = jobs'[j].status
  <2>1. CASE j = sent + 1
    BY <1>1, <1>2, <1>4, <2>1
  <2>2. CASE j = sent
    <3>1. jobs[j].status = tenant.status
      BY <1>1, <2>2 DEF NewestJobNamesStatus, JobIds
    <3> QED
      BY <1>1, <1>4, <2>2, <3>1 DEF JobChain
  <2>3. CASE j # sent /\ j # sent + 1
    <3>1. j + 1 \in JobIds \/ j > sent + 1
      BY <1>1, <2>3 DEF JobIds
    <3> QED
      BY <1>1, <1>4, <2>3, <3>1 DEF JobChain, JobIds
  <2> QED
    BY <2>1, <2>2, <2>3
<1>8. JobChain'
  BY <1>1, <1>7 DEF JobChain
<1> QED
  BY <1>5, <1>6, <1>8

LEMMA StatusInvAdmin ==
  ASSUME OneAdmin, StatusInv, NEW a \in Admins, AdminStep(a)
  PROVE  StatusInv'
<1>1. TypeInv'
  BY TypeInvAdmin DEF StatusInv
<1> USE DEF StatusInv
<1>2. CASE StatusCommit(a)
  BY <1>1, <1>2, StatusCommitted
<1>3. CASE ~StatusCommit(a)
  <2>1. UNCHANGED <<jobs, sent>>
    BY <1>3 DEF AdminStep, StatusRead, UpdateRead, TenantLoad, UpdateWrite, AdminAbort, jobVars
  <2>2. tenant' = tenant
    <3>1. CASE UpdateWrite(a)
      BY <3>1 DEF AdminFresh, UpdateWrite, MergeTenant, TypeInv, TypeOK, TenantRow
    <3> QED
      BY <1>3, <3>1 DEF AdminStep, StatusRead, UpdateRead, TenantLoad, AdminAbort
  <2>3. AdminFresh'
    <3>1. ASSUME NEW s \in Statuses, StatusRead(a, s) PROVE AdminFresh'
      BY <3>1 DEF AdminFresh, OneAdmin, StatusRead, TypeInv, TypeOK
    <3>2. CASE UpdateRead(a) \/ TenantLoad(a)
      BY <3>2 DEF AdminFresh, OneAdmin, UpdateRead, TenantLoad, TypeInv, TypeOK
    <3>3. CASE UpdateWrite(a) \/ AdminAbort(a)
      BY <3>3 DEF AdminFresh, OneAdmin, UpdateWrite, AdminAbort, AdminDone, TypeInv, TypeOK
    <3> QED
      BY <1>3, <3>1, <3>2, <3>3 DEF AdminStep
  <2>4. RetentionAnchored' /\ NewestJobNamesStatus' /\ JobChain'
    BY <2>1, <2>2 DEF RetentionAnchored, NewestJobNamesStatus, JobChain
  <2> QED
    BY <1>1, <2>3, <2>4
<1> QED
  BY <1>2, <1>3

LEMMA StatusInvNext == OneAdmin /\ StatusInv /\ [Next]_vars => StatusInv'
<1> SUFFICES ASSUME OneAdmin, StatusInv, [Next]_vars PROVE StatusInv'
  OBVIOUS
<1>1. TypeInv'
  BY TypeInvNext DEF StatusInv
<1>2. ASSUME NEW j \in JobIds,
             \/ WorkerStep(j) \/ (\E late \in SUBSET Effects : JobFail(j, late))
             \/ (\E f \in Effects : StrayEffect(j, f))
      PROVE  StatusInv'
  BY <1>1, <1>2, WorkerKeeps, StatusKept DEF StatusInv, adminVars
<1>3. ASSUME NEW e \in Editors, EditorStep(e) PROVE StatusInv'
  BY <1>1, <1>3, EditorKeeps, StatusKept
<1>4. CASE UNCHANGED vars
  BY <1>1, <1>4, StatusKept DEF vars
<1> QED
  BY <1>2, <1>3, <1>4, StatusInvAdmin DEF Next

(* Every variable keeps its type, with any number of overlapping requests,  *)
(* jobs, retries and stray statements.                                      *)
THEOREM TypeCorrect == Spec => []TypeOK
<1>1. TypeInv => TypeOK
  BY DEF TypeInv
<1> QED
  BY <1>1, TypeInvInit, TypeInvNext, PTL DEF Spec

(* As long as administrators' requests do not overlap, the status, the      *)
(* retention anchor and the newest job of updateStatus' transaction agree,  *)
(* whatever workers and resource requests do meanwhile.                     *)
THEOREM StatusAlwaysRecorded ==
  ASSUME OneAdmin
  PROVE  Spec => []StatusRecorded
<1>1. StatusInv => StatusRecorded
  BY DEF StatusInv, StatusRecorded, TypeInv
<1> QED
  BY <1>1, StatusInvInit, StatusInvNext, PTL DEF Spec

-------------------------------------------------------------------------------
(* The cascade.                                                             *)

(* What an executed statement of job j leaves behind for good.              *)
Carried(j, f) ==
  CASE f = "clients" -> applied >= j
    [] f = "connectors" -> \A x \in Connectors : res[x] # "live"
    [] OTHER -> \A x \in Connections : res[x] # "live"

(* A job under way carries out statements of its own, and those it is done  *)
(* with have been executed.                                                 *)
JobsCarriedOut ==
  /\ \A j \in JobIds :
       /\ jobs[j].st = "active" =>
            /\ jobs[j].todo \subseteq EffectsOf(jobs[j])
            /\ \A f \in EffectsOf(jobs[j]) \ jobs[j].todo : Carried(j, f)
       /\ jobs[j].st = "completed" => \A f \in EffectsOf(jobs[j]) : Carried(j, f)
  /\ \A s \in stray : s[1] <= sent /\ s[2] \in EffectsOf(jobs[s[1]])

(* The clients are as the newest executed update left them.                 *)
ClientsFollow ==
  /\ applied > 0 => applied <= sent /\ "clients" \in EffectsOf(jobs[applied])
  /\ ~reordered =>
       IF applied > 0 /\ jobs[applied].status = "deactivated"
       THEN \A c \in Clients : res[c] # "live"
       ELSE \A c \in Clients : res[c] # "tagged"

CascadeInv == StatusInv /\ JobsCarriedOut /\ ClientsFollow

LEMMA CascadeInvInit == Init => CascadeInv
<1> SUFFICES ASSUME Init PROVE CascadeInv
  OBVIOUS
<1>1. JobsCarriedOut
  BY DEF Init, JobsCarriedOut, NoJob
<1>2. ClientsFollow
  BY NoneAssumption DEF Init, ClientsFollow, Resources, AllValues
<1> QED
  BY <1>1, <1>2, StatusInvInit DEF CascadeInv

(* What the effects of a job are follows from its payload.                  *)
LEMMA EffectsFacts ==
  ASSUME NEW job, NEW other, other.status = job.status, other.prev = job.prev
  PROVE  /\ EffectsOf(other) = EffectsOf(job) /\ IsRestore(other) <=> IsRestore(job)
         /\ "clients" \in EffectsOf(job) => IsRestore(job) \/ job.status = "deactivated"
         /\ job.status = "deactivated" => EffectsOf(job) = Effects /\ ~IsRestore(job)
         /\ IsRestore(job) => "clients" \in EffectsOf(job) /\ job.status = "active"
BY DEF EffectsOf, IsRestore

(* A statement is carried out when it is executed, and stays so.            *)
LEMMA ApplyCarries ==
  ASSUME TypeOK, NEW j \in JobIds, NEW f \in Effects, Apply(j, f), f \in EffectsOf(jobs[j])
  PROVE  /\ Carried(j, f)'
         /\ \A k \in JobIds, g \in Effects : Carried(k, g) => Carried(k, g)'
         /\ applied' >= applied
<1>1. applied \in Nat /\ j \in Nat
  BY NumbersAssumption DEF TypeOK, JobIds
<1>2. applied' >= applied /\ (f = "clients" => applied' >= j)
  BY <1>1 DEF Apply
<1>3. \A x \in Connectors \cup Connections : res[x] # "live" => res'[x] # "live"
  BY DisjointAssumption DEF Apply, DeactivateAll, AbandonAll, RestoreAll, RevokeAll, Resources
<1>4. f = "connectors" => \A x \in Connectors : res'[x] # "live"
  BY DEF Apply, DeactivateAll, Resources
<1>5. f = "connections" => \A x \in Connections : res'[x] # "live"
  BY DEF Apply, AbandonAll, Resources
<1>6. applied' \in Nat
  BY <1>1 DEF Apply
<1>7. Carried(j, f)'
  BY <1>2, <1>4, <1>5 DEF Carried
<1>8. ASSUME NEW k \in JobIds, NEW g \in Effects, Carried(k, g) PROVE Carried(k, g)'
  <2>1. k \in Nat
    BY NumbersAssumption DEF JobIds
  <2>2. CASE g = "clients"
    BY <1>1, <1>2, <1>6, <1>8, <2>1, <2>2 DEF Carried
  <2>3. CASE g \in {"connectors", "connections"}
    BY <1>3, <1>8, <2>3 DEF Carried
  <2> QED
    BY <2>2, <2>3
<1> QED
  BY <1>2, <1>7, <1>8

(* The clients are as the newest update left them, for an update of a job   *)
(* that is not older makes them so and an older one is a reordering.        *)
LEMMA ApplyFollows ==
  ASSUME CascadeInv, NEW j \in JobIds, NEW f \in Effects, Apply(j, f),
         f \in EffectsOf(jobs[j]), j <= sent,
         \A k \in JobIds : jobs'[k].status = jobs[k].status /\ jobs'[k].prev = jobs[k].prev
  PROVE  ClientsFollow'
<1>1. TypeOK /\ applied \in Nat /\ j \in Nat /\ j > 0 /\ sent \in 0..MaxChanges /\ sent' = sent
      /\ MaxChanges \in Nat
  BY NumbersAssumption DEF CascadeInv, StatusInv, TypeInv, TypeOK, JobIds, Apply
<1>2. applied > 0 => applied \in JobIds
  BY <1>1 DEF TypeOK, JobIds
<1>3. CASE f = "clients" /\ j >= applied
  <2>0. ~(j < applied) /\ (j > applied \/ j = applied)
    BY <1>1, <1>3
  <2>1. applied' = j /\ (reordered' => reordered)
    BY <1>3, <2>0, Zenon DEF Apply
  <2>2. "clients" \in EffectsOf(jobs'[j])
    BY <1>3, EffectsFacts
  <2>3. CASE IsRestore(jobs[j])
    <3>1. res' = RestoreAll(res) /\ jobs'[j].status # "deactivated"
      BY <1>3, <2>3 DEF Apply, IsRestore
    <3>2. \A c \in Clients : res'[c] # "tagged"
      BY <3>1 DEF RestoreAll, Resources
    <3> QED
      BY <1>1, <2>1, <2>2, <3>1, <3>2 DEF ClientsFollow
  <2>4. CASE ~IsRestore(jobs[j])
    <3>1. res' = RevokeAll(res) /\ jobs'[j].status = "deactivated"
      BY <1>3, <2>4, EffectsFacts DEF Apply
    <3>2. \A c \in Clients : res'[c] # "live"
      BY <3>1 DEF RevokeAll, Resources
    <3> QED
      BY <1>1, <2>1, <2>2, <3>1, <3>2 DEF ClientsFollow
  <2> QED
    BY <2>3, <2>4
<1>4. CASE f = "clients" /\ j < applied
  <2>1. applied' = applied /\ reordered'
    <3>1. ~(j > applied)
      BY <1>1, <1>4
    <3> QED
      BY <1>4, <3>1, Zenon DEF Apply
  <2> QED
    BY <1>1, <1>2, <2>1, EffectsFacts DEF ClientsFollow, CascadeInv
<1>5. CASE f # "clients"
  <2>1. applied' = applied /\ reordered' = reordered
    BY <1>5 DEF Apply, CascadeInv, StatusInv, TypeInv, TypeOK
  <2>2. \A c \in Clients : res'[c] = res[c]
    BY <1>5, DisjointAssumption DEF Apply, DeactivateAll, AbandonAll, Resources
  <2> QED
    BY <1>1, <1>2, <2>1, <2>2, EffectsFacts DEF ClientsFollow, CascadeInv
<1> QED
  BY <1>1, <1>3, <1>4, <1>5

(* A step that executes no statement leaves the clients as they followed.   *)
LEMMA FollowKept ==
  ASSUME CascadeInv, UNCHANGED <<res, applied, reordered>>, sent' >= sent, sent' \in Nat,
         \A k \in JobIds : k <= sent => /\ jobs'[k].status = jobs[k].status
                                        /\ jobs'[k].prev = jobs[k].prev
  PROVE  ClientsFollow'
<1>1. applied \in 0..MaxChanges /\ sent \in 0..MaxChanges /\ MaxChanges \in Nat
  BY NumbersAssumption DEF CascadeInv, StatusInv, TypeInv, TypeOK
<1>2. applied > 0 => /\ applied \in JobIds /\ applied <= sent
                     /\ jobs'[applied].status = jobs[applied].status
                     /\ EffectsOf(jobs'[applied]) = EffectsOf(jobs[applied])
  <2> SUFFICES ASSUME applied > 0
               PROVE  /\ applied \in JobIds /\ applied <= sent
                      /\ jobs'[applied].status = jobs[applied].status
                      /\ EffectsOf(jobs'[applied]) = EffectsOf(jobs[applied])
    OBVIOUS
  <2>1. applied \in JobIds /\ applied <= sent
    BY <1>1 DEF CascadeInv, ClientsFollow, JobIds
  <2>2. jobs'[applied].status = jobs[applied].status /\ jobs'[applied].prev = jobs[applied].prev
    BY <2>1
  <2> QED
    BY <2>1, <2>2 DEF EffectsOf, IsRestore
<1> QED
  BY <1>1, <1>2 DEF CascadeInv, ClientsFollow

LEMMA CascadeInvWorker ==
  ASSUME OneAdmin, CascadeInv, NEW j \in JobIds,
         \/ WorkerStep(j) \/ (\E late \in SUBSET Effects : JobFail(j, late))
         \/ (\E f \in Effects : StrayEffect(j, f))
  PROVE  JobsCarriedOut' /\ ClientsFollow'
<1>1. /\ UNCHANGED sent /\ sent \in Nat /\ TypeOK
      /\ \A k \in JobIds : /\ jobs'[k].status = jobs[k].status
                           /\ jobs'[k].prev = jobs[k].prev
                           /\ EffectsOf(jobs'[k]) = EffectsOf(jobs[k])
                           /\ EffectsOf(jobs[k]) \subseteq Effects
  BY NumbersAssumption, WorkerKeeps, EffectsFacts DEF CascadeInv, StatusInv, TypeInv, TypeOK, EffectsOf
<1>2. stray \subseteq JobIds \X Effects
  BY <1>1 DEF TypeOK
<1>3. CASE JobStart(j)
  <2>1. UNCHANGED <<res, applied, reordered, stray>>
    BY <1>3 DEF JobStart
  <2>2. \A k \in JobIds, g \in Effects : Carried(k, g) => Carried(k, g)'
    BY <2>1 DEF Carried
  <2>3. /\ jobs'[j].st = "active" /\ jobs'[j].todo = EffectsOf(jobs[j])
        /\ \A k \in JobIds : k # j => jobs'[k] = jobs[k]
    BY <1>1, <1>3 DEF JobStart, TypeOK
  <2>4. JobsCarriedOut'
    BY <1>1, <1>2, <2>1, <2>2, <2>3 DEF CascadeInv, JobsCarriedOut
  <2> QED
    BY <1>1, <2>1, <2>4, FollowKept
<1>4. CASE JobComplete(j)
  <2>1. UNCHANGED <<res, applied, reordered, stray>>
    BY <1>4 DEF JobComplete
  <2>2. \A k \in JobIds, g \in Effects : Carried(k, g) => Carried(k, g)'
    BY <2>1 DEF Carried
  <2>3. /\ jobs'[j].st = "completed" /\ jobs[j].st = "active" /\ jobs[j].todo = {}
        /\ \A k \in JobIds : k # j => jobs'[k] = jobs[k]
    BY <1>1, <1>4 DEF JobComplete, TypeOK
  <2>4. JobsCarriedOut'
    BY <1>1, <1>2, <2>1, <2>2, <2>3 DEF CascadeInv, JobsCarriedOut
  <2> QED
    BY <1>1, <2>1, <2>4, FollowKept
<1>5. ASSUME NEW late \in SUBSET Effects, JobFail(j, late) PROVE JobsCarriedOut' /\ ClientsFollow'
  <2>1. UNCHANGED <<res, applied, reordered>> /\ stray' = stray \cup ({j} \X late)
    BY <1>5 DEF JobFail
  <2>2. \A k \in JobIds, g \in Effects : Carried(k, g) => Carried(k, g)'
    BY <2>1 DEF Carried
  <2>3. /\ jobs'[j].st \in {"created", "failed"} /\ late \subseteq EffectsOf(jobs[j])
        /\ \A k \in JobIds : k # j => jobs'[k] = jobs[k]
    BY <1>1, <1>5 DEF JobFail, TypeOK, CascadeInv, JobsCarriedOut
  <2>4. \A s \in stray' : s[1] <= sent' /\ s[2] \in EffectsOf(jobs'[s[1]])
    <3>1. j <= sent
      BY <1>1, <1>5, NumbersAssumption DEF JobFail, CascadeInv, StatusInv, JobChain, JobIds
    <3> QED
      BY <1>1, <1>2, <2>1, <2>3, <3>1 DEF CascadeInv, JobsCarriedOut
  <2>5. JobsCarriedOut'
    BY <1>1, <2>2, <2>3, <2>4 DEF CascadeInv, JobsCarriedOut
  <2> QED
    BY <1>1, <2>1, <2>5, FollowKept
<1>6. ASSUME NEW f \in Effects, JobEffect(j, f) PROVE JobsCarriedOut' /\ ClientsFollow'
  <2>1. /\ Apply(j, f) /\ f \in EffectsOf(jobs[j]) /\ j <= sent
        /\ stray' = stray /\ jobs'[j].st = jobs[j].st /\ jobs'[j].todo = jobs[j].todo \ {f}
        /\ \A k \in JobIds : k # j => jobs'[k] = jobs[k]
    BY <1>1, <1>6, NumbersAssumption
       DEF JobEffect, TypeOK, CascadeInv, JobsCarriedOut, StatusInv, JobChain, JobIds
  <2>2. Carried(j, f)' /\ \A k \in JobIds, g \in Effects : Carried(k, g) => Carried(k, g)'
    BY <1>1, <2>1, ApplyCarries
  <2>3. ClientsFollow'
    BY <1>1, <2>1, ApplyFollows
  <2>4. JobsCarriedOut'
    <3>1. ASSUME NEW k \in JobIds
          PROVE  /\ jobs'[k].st = "active" =>
                      /\ jobs'[k].todo \subseteq EffectsOf(jobs'[k])
                      /\ \A g \in EffectsOf(jobs'[k]) \ jobs'[k].todo : Carried(k, g)'
                 /\ jobs'[k].st = "completed" => \A g \in EffectsOf(jobs'[k]) : Carried(k, g)'
      <4>1. CASE k = j
        <5>1. /\ jobs[j].st = "active" /\ jobs[j].todo \subseteq EffectsOf(jobs[j])
              /\ \A g \in EffectsOf(jobs[j]) \ jobs[j].todo : Carried(j, g)
          BY <1>6 DEF CascadeInv, JobsCarriedOut, JobEffect
        <5>2. \A g \in EffectsOf(jobs[j]) \ (jobs[j].todo \ {f}) : Carried(j, g)'
          BY <1>1, <2>2, <5>1
        <5> QED
          BY <1>1, <2>1, <4>1, <5>1, <5>2
      <4>2. CASE k # j
        BY <1>1, <2>1, <2>2, <4>2 DEF CascadeInv, JobsCarriedOut
      <4> QED
        BY <4>1, <4>2
    <3>2. \A s \in stray' : s[1] <= sent' /\ s[2] \in EffectsOf(jobs'[s[1]])
      BY <1>1, <1>2, <2>1 DEF CascadeInv, JobsCarriedOut
    <3> QED
      BY <3>1, <3>2 DEF JobsCarriedOut
  <2> QED
    BY <2>3, <2>4
<1>7. ASSUME NEW f \in Effects, StrayEffect(j, f) PROVE JobsCarriedOut' /\ ClientsFollow'
  <2>1. /\ Apply(j, f) /\ f \in EffectsOf(jobs[j])
        /\ stray' \subseteq stray /\ jobs' = jobs
    BY <1>7 DEF StrayEffect, CascadeInv, JobsCarriedOut
  <2>2. j <= sent
    BY <1>7 DEF StrayEffect, CascadeInv, JobsCarriedOut
  <2>3. \A k \in JobIds, g \in Effects : Carried(k, g) => Carried(k, g)'
    BY <1>1, <2>1, ApplyCarries
  <2>4. ClientsFollow'
    BY <1>1, <2>1, <2>2, ApplyFollows
  <2>5. JobsCarriedOut'
    BY <1>1, <1>2, <2>1, <2>3 DEF CascadeInv, JobsCarriedOut
  <2> QED
    BY <2>4, <2>5
<1> QED
  BY <1>3, <1>4, <1>5, <1>6, <1>7 DEF WorkerStep

(* With the history and what was carried out, a settled cascade agrees with *)
(* the tenant: the last job that touches clients is the one that counts.    *)
LEMMA CascadeConverges ==
  ASSUME CascadeInv
  PROVE  Converged
<1> SUFFICES ASSUME Settled, ~reordered PROVE Agree
  BY DEF Converged
<1>1. sent \in 0..MaxChanges /\ applied \in 0..MaxChanges /\ MaxChanges \in Nat
  BY NumbersAssumption DEF CascadeInv, StatusInv, TypeInv, TypeOK
<1>2. \A j \in JobIds : j <= sent => \A f \in EffectsOf(jobs[j]) : Carried(j, f)
  BY <1>1 DEF CascadeInv, JobsCarriedOut, StatusInv, JobChain, Settled, JobIds
<1>3. sent > 0 => sent \in JobIds /\ jobs[sent].status = tenant.status
  BY <1>1 DEF CascadeInv, StatusInv, NewestJobNamesStatus, JobIds
<1>4. applied <= sent
  BY <1>1 DEF CascadeInv, ClientsFollow
<1>5. CASE tenant.status = "deactivated"
  <2>1. sent > 0
    BY <1>1, <1>5 DEF CascadeInv, StatusInv, NewestJobNamesStatus
  <2>2. EffectsOf(jobs[sent]) = Effects
    BY <1>3, <1>5, <2>1, EffectsFacts
  <2>3. /\ applied = sent
        /\ \A x \in Connectors \cup Connections : res[x] # "live"
    BY <1>1, <1>2, <1>3, <1>4, <2>1, <2>2 DEF Carried
  <2>4. \A c \in Clients : res[c] # "live"
    BY <1>3, <1>5, <2>1, <2>3 DEF CascadeInv, ClientsFollow
  <2> QED
    BY <1>5, <2>3, <2>4 DEF Agree, Resources
<1>6. CASE tenant.status # "deactivated"
  <2>1. ~(applied > 0 /\ jobs[applied].status = "deactivated")
    <3> SUFFICES ASSUME applied > 0, jobs[applied].status = "deactivated" PROVE FALSE
      OBVIOUS
    <3>1. applied < sent /\ applied \in JobIds /\ applied + 1 \in JobIds /\ applied + 1 <= sent
      BY <1>1, <1>3, <1>4, <1>6 DEF JobIds
    <3>2. /\ jobs[applied + 1].prev = "deactivated"
          /\ jobs[applied + 1].status \in AllowedTargets("deactivated")
      BY <3>1 DEF CascadeInv, StatusInv, JobChain
    <3>3. "clients" \in EffectsOf(jobs[applied + 1])
      BY <3>2 DEF AllowedTargets, IsRestore, EffectsOf
    <3>4. applied >= applied + 1
      BY <1>2, <3>1, <3>3 DEF Carried
    <3> QED
      BY <1>1, <3>4
  <2> QED
    BY <1>6, <2>1 DEF CascadeInv, ClientsFollow, Agree
<1> QED
  BY <1>5, <1>6

LEMMA CascadeInvNext ==
  OneAdmin /\ Editors = {} /\ CascadeInv /\ [Next]_vars => CascadeInv'
<1> SUFFICES ASSUME OneAdmin, Editors = {}, CascadeInv, [Next]_vars PROVE CascadeInv'
  OBVIOUS
<1>1. StatusInv'
  BY StatusInvNext DEF CascadeInv
<1>2. ASSUME NEW j \in JobIds,
             \/ WorkerStep(j) \/ (\E late \in SUBSET Effects : JobFail(j, late))
             \/ (\E f \in Effects : StrayEffect(j, f))
      PROVE  CascadeInv'
  BY <1>1, <1>2, CascadeInvWorker DEF CascadeInv
<1>3. ASSUME NEW a \in Admins, AdminStep(a) PROVE CascadeInv'
  <2>1. /\ UNCHANGED <<res, stray, applied, reordered>>
        /\ sent \in 0..MaxChanges /\ MaxChanges \in Nat /\ TypeOK
    BY <1>3, NumbersAssumption DEF AdminStep, StatusRead, UpdateRead, TenantLoad, StatusCommit,
       UpdateWrite, AdminAbort, jobVars, CascadeInv, StatusInv, TypeInv, TypeOK
  <2>2. /\ sent' \in Nat /\ sent' >= sent
        /\ \A k \in JobIds : \/ jobs'[k] = jobs[k]
                             \/ k > sent /\ jobs'[k].st = "created"
    <3>1. CASE StatusCommit(a)
      BY <2>1, <3>1 DEF StatusCommit, NoJob, TypeOK, JobIds
    <3>2. CASE ~StatusCommit(a)
      BY <1>3, <2>1, <3>2 DEF AdminStep, StatusRead, UpdateRead, TenantLoad, UpdateWrite,
         AdminAbort, jobVars
    <3> QED
      BY <3>1, <3>2
  <2>3. \A k \in JobIds : k <= sent => jobs'[k] = jobs[k]
    BY <2>1, <2>2 DEF JobIds
  <2>4. ClientsFollow'
    BY <2>1, <2>2, <2>3, FollowKept
  <2>5. \A k \in JobIds, g \in Effects : Carried(k, g) => Carried(k, g)'
    BY <2>1 DEF Carried
  <2>6. \A k \in JobIds : EffectsOf(jobs[k]) \subseteq Effects
    BY DEF EffectsOf
  <2>7. \A s \in stray : s[1] \in JobIds /\ s[1] <= sent'
    BY <2>1, <2>2 DEF TypeOK, CascadeInv, JobsCarriedOut, JobIds
  <2>8. JobsCarriedOut'
    BY <2>1, <2>2, <2>3, <2>5, <2>6, <2>7 DEF CascadeInv, JobsCarriedOut
  <2> QED
    BY <1>1, <2>4, <2>8 DEF CascadeInv
<1>4. CASE UNCHANGED vars
  BY <1>1, <1>4 DEF vars, CascadeInv, JobsCarriedOut, ClientsFollow, Carried
<1> QED
  BY <1>2, <1>3, <1>4 DEF Next

(* The cascade converges for any number of status changes by one            *)
(* administrator at a time, any number of retries and of statements left    *)
(* over from failed attempts, and any resources no request edits meanwhile. *)
THEOREM CascadeAlwaysConverges ==
  ASSUME OneAdmin, Editors = {}
  PROVE  Spec => []Converged
<1> QED
  BY CascadeInvInit, CascadeInvNext, CascadeConverges, PTL DEF Spec

-------------------------------------------------------------------------------
(* Revocations for cause.                                                   *)

(* The one request that is past its read holds a client that is not revoked *)
(* for cause, and one that inserts holds no row.                            *)
EditFresh ==
  \A e \in Editors :
    /\ epc[e] \in {"load", "write"} /\ eres[e] \in Clients => res[eres[e]] \notin {"revoked", None}
    /\ epc[e] = "insert" => res[eres[e]] = None

RevokeInv == TypeInv /\ EditFresh

(* A statement of the cascade moves a client between live and tagged only.  *)
LEMMA ApplySpares ==
  ASSUME TypeOK, NEW j \in JobIds, NEW f \in Effects, Apply(j, f), NEW x \in Resources
  PROVE  /\ res[x] = None <=> res'[x] = None
         /\ res[x] = "revoked" <=> res'[x] = "revoked"
BY NoneAssumption DEF TypeOK, Apply, DeactivateAll, AbandonAll, RestoreAll, RevokeAll, AllValues

(* The cascade, the administrators and stuttering steps take no row away,   *)
(* add none, and revoke none for cause.                                     *)
LEMMA CascadeSpares ==
  ASSUME TypeInv, [Next]_vars, \A e \in Editors : ~EditorStep(e)
  PROVE  /\ UNCHANGED editVars
         /\ \A x \in Resources : /\ res[x] = None <=> res'[x] = None
                                 /\ res[x] = "revoked" <=> res'[x] = "revoked"
<1>1. ASSUME NEW a \in Admins, AdminStep(a) PROVE UNCHANGED <<editVars, res>>
  BY <1>1 DEF AdminStep, StatusRead, UpdateRead, TenantLoad, StatusCommit, UpdateWrite, AdminAbort
<1>2. ASSUME NEW j \in JobIds,
             JobStart(j) \/ JobComplete(j) \/ (\E late \in SUBSET Effects : JobFail(j, late))
      PROVE  UNCHANGED <<editVars, res>>
  BY <1>2 DEF JobStart, JobComplete, JobFail
<1>3. ASSUME NEW j \in JobIds, NEW f \in Effects, JobEffect(j, f) \/ StrayEffect(j, f)
      PROVE  /\ UNCHANGED editVars
             /\ \A x \in Resources : /\ res[x] = None <=> res'[x] = None
                                     /\ res[x] = "revoked" <=> res'[x] = "revoked"
  <2>1. Apply(j, f)
    BY <1>3 DEF JobEffect, StrayEffect
  <2>2. UNCHANGED editVars
    BY <2>1 DEF Apply
  <2> QED
    BY <2>1, <2>2, ApplySpares DEF TypeInv
<1>4. CASE UNCHANGED vars
  BY <1>4 DEF vars, editVars
<1> QED
  BY <1>1, <1>2, <1>3, <1>4 DEF Next, WorkerStep

LEMMA RevokeInvNext ==
  ASSUME OneEditor, RevokeInv, [Next]_vars
  PROVE  /\ RevokeInv'
         /\ \A c \in Clients : res[c] = "revoked" => res'[c] = "revoked"
<1>1. TypeInv'
  BY TypeInvNext DEF RevokeInv
<1>2. None # "revoked" /\ None # "live"
  BY NoneAssumption DEF AllValues
<1>3. CASE \A e \in Editors : ~EditorStep(e)
  <2>1. UNCHANGED <<epc, eres>> /\ \A e \in Editors : eres[e] \in Resources
    BY <1>3, CascadeSpares DEF RevokeInv, editVars, TypeInv, TypeOK
  <2>2. EditFresh'
    BY <1>3, <2>1, CascadeSpares DEF RevokeInv, EditFresh
  <2> QED
    BY <1>1, <1>3, <2>2, CascadeSpares DEF RevokeInv, Resources
<1>4. ASSUME NEW e \in Editors, EditorStep(e)
      PROVE  EditFresh' /\ \A c \in Clients : res[c] = "revoked" => res'[c] = "revoked"
  <2> USE DEF RevokeInv, TypeInv, TypeOK, EditFresh, OneEditor
  <2>1. ASSUME NEW x \in Resources, CreateBegin(e, x) \/ Delete(e, x)
        PROVE  EditFresh' /\ \A c \in Clients : res[c] = "revoked" => res'[c] = "revoked"
    <3>1. CASE CreateBegin(e, x)
      BY <3>1 DEF CreateBegin
    <3>2. CASE Delete(e, x)
      <4>1. \A d \in Editors : epc'[d] = "idle"
        BY <3>2 DEF Delete, editVars
      <4>2. \A c \in Clients : res'[c] = res[c]
        BY <3>2 DEF Delete, Resources
      <4> QED
        BY <4>1, <4>2
    <3> QED
      BY <2>1, <3>1, <3>2
  <2>2. ASSUME NEW x \in Resources, NEW v \in Values(x), EditRead(e, x, v)
        PROVE  EditFresh' /\ \A c \in Clients : res[c] = "revoked" => res'[c] = "revoked"
    BY <1>2, <2>2, DisjointAssumption DEF EditRead
  <2>3. ASSUME NEW c \in Clients, RevokeRead(e, c)
        PROVE  EditFresh' /\ \A d \in Clients : res[d] = "revoked" => res'[d] = "revoked"
    BY <2>3 DEF RevokeRead
  <2>4. CASE CreateInsert(e)
    BY <1>2, <2>4 DEF CreateInsert, EditDone
  <2>5. CASE EditLoad(e)
    BY <2>5 DEF EditLoad
  <2>6. CASE EditWrite(e)
    BY <2>6 DEF EditWrite, EditDone
  <2>7. CASE RevokeWrite(e)
    BY <2>7 DEF RevokeWrite, EditDone
  <2> QED
    BY <1>4, <2>1, <2>2, <2>3, <2>4, <2>5, <2>6, <2>7 DEF EditorStep
<1> QED
  BY <1>1, <1>3, <1>4 DEF RevokeInv

(* As long as requests on the resources do not overlap, a client revoked    *)
(* for cause stays revoked, through any number of deactivations, restores,  *)
(* retries and administrators' requests (restoreAllForTenant).              *)
THEOREM RevocationFinal ==
  ASSUME OneEditor
  PROVE  Spec => RevokedForCauseFinal
<1>1. Init => RevokeInv
  BY TypeInvInit DEF Init, RevokeInv, EditFresh
<1> QED
  BY <1>1, RevokeInvNext, PTL DEF Spec, RevokedForCauseFinal
===============================================================================
