------------------------------ MODULE Operation ------------------------------
(***************************************************************************)
(* The asynchronous-operation table of the service and everything that     *)
(* touches it: OperationService and OperationRepository, the TTL rules of  *)
(* operation-ttl.util, the hourly OperationPurgeService, and the callers:  *)
(*   - Requests: one accept / reject / revoke HTTP request each.  It       *)
(*     creates its own operation, calls the agent and then transitions     *)
(*     that operation (CredentialActionService, CredentialRevokeService);  *)
(*     the operation is named after the request that creates it;           *)
(*   - Pollers: clients of GET /tenants/:id/operations/:id (getForTenant); *)
(*   - Markers: the webhook and state-update workers that markViewed is    *)
(*     written for.  The repository has no such worker yet, so TLC runs    *)
(*     with none; the theorems say which results survive any number.       *)
(* Each await of the code ends a step, so what a handler read before it is *)
(* carried, possibly stale, in the handler's own variables.                *)
(***************************************************************************)
EXTENDS Integers, FiniteSets

CONSTANTS Requests,     \* requests, and the ids of the operations they create
          Pollers, Markers,
          Configs,      \* the values tenant.config.operation_ttl may take
          Defaults,     \* DEFAULT_OPERATION_TTL_MS, in units of the model's clock
          CreatedTtl,   \* DEFAULT_CREATED_TTL_MS
          BatchSize, MaxBatches,
          MaxTime       \* bound of the model's clock

Viewers == Pollers \cup Markers
TtlKeys == {"completedViewed", "completedUnviewed", "failedViewed",
            "failedUnviewed", "pendingStale"}

ASSUME ViewersAssumption == Pollers \cap Markers = {}
ASSUME ConfigsAssumption == Configs # {} /\ Configs \subseteq [TtlKeys -> Int]
ASSUME DefaultsAssumption == Defaults \in [TtlKeys -> Nat \ {0}]
ASSUME NumbersAssumption == /\ CreatedTtl \in Nat \ {0}
                            /\ BatchSize \in Nat \ {0}
                            /\ MaxBatches \in Nat \ {0}
                            /\ MaxTime \in Nat \ {0}

-----------------------------------------------------------------------------
(* Time-to-live rules (operation-ttl.util.ts).  A raw override is an        *)
(* integer number of time units; anything that does not parse to a          *)
(* positive duration, a missing key included, is a number <= 0.             *)

States == {"pending", "processing", "completed", "failed"}
Unviewed == 0            \* viewed_at IS NULL; the clock starts at 1

NoDuration == 0
ParseDurationMs(value) == IF value > 0 THEN value ELSE NoDuration

ResolveOperationTtl(overrides) ==
  [k \in TtlKeys |-> IF ParseDurationMs(overrides[k]) # NoDuration
                     THEN ParseDurationMs(overrides[k]) ELSE Defaults[k]]

IsTerminal(state) == state \in {"completed", "failed"}

ComputeExpiresAt(state, createdAt, viewedAt, overrides) ==
  LET ttl == ResolveOperationTtl(overrides)
  IN  CASE state = "pending" -> createdAt + ttl["pendingStale"]
        [] state = "completed" -> IF viewedAt # Unviewed
                                  THEN viewedAt + ttl["completedViewed"]
                                  ELSE createdAt + ttl["completedUnviewed"]
        [] state = "failed" -> IF viewedAt # Unviewed
                               THEN viewedAt + ttl["failedViewed"]
                               ELSE createdAt + ttl["failedUnviewed"]
        [] OTHER -> createdAt + CreatedTtl

-----------------------------------------------------------------------------
VARIABLES now,      \* wall clock, of the database and of every pod
          config,   \* the tenant's raw operation_ttl overrides
          row,      \* the operation table
          rpc,      \* where each request is
          rt,       \* the `now` of its createOperation; later its expiresAt
          rtarget,  \* the state its transitionState was asked for
          rcopy,    \* the entity it loaded and is changing
          rsnap,    \* the row TypeORM's save() loaded to diff against
          vpc,      \* where each viewer (poll or markViewed call) is
          vop,      \* the operation it asks for
          vcopy,    \* the entity it loaded
          resp,     \* the last operation body returned to it
          purge     \* batches the running purge job has done, or -1 if none

clock == <<now, config>>
reqVars == <<rpc, rt, rtarget, rcopy, rsnap>>
viewVars == <<vpc, vop, vcopy, resp>>
vars == <<now, config, row, rpc, rt, rtarget, rcopy, rsnap,
          vpc, vop, vcopy, resp, purge>>

Row == [state : States, createdAt : Nat, viewedAt : Nat, expiresAt : Int]
NoRow == [state |-> "none", createdAt |-> 0, viewedAt |-> 0, expiresAt |-> 0]
MaybeRow == Row \cup {NoRow}
Idle == -1

Exists(o) == row[o] # NoRow

RequestPCs == {"idle", "create.tenant", "create.save", "adapter",
               "transition.read", "transition.tenant", "transition.load",
               "transition.write", "done"}
ViewerPCs == {"idle", "tenant", "stamp", "reread"}

TypeOK ==
  /\ now \in Nat
  /\ config \in Configs
  /\ row \in [Requests -> MaybeRow]
  /\ rpc \in [Requests -> RequestPCs]
  /\ rt \in [Requests -> Int]
  /\ rtarget \in [Requests -> States]
  /\ rcopy \in [Requests -> MaybeRow]
  /\ rsnap \in [Requests -> MaybeRow]
  /\ vpc \in [Viewers -> ViewerPCs]
  /\ vop \in [Viewers -> Requests]
  /\ vcopy \in [Viewers -> MaybeRow]
  /\ resp \in [Viewers -> MaybeRow]
  /\ purge \in Int

Init ==
  /\ now = 1
  /\ config \in Configs
  /\ row = [o \in Requests |-> NoRow]
  /\ rpc = [r \in Requests |-> "idle"]
  /\ rt = [r \in Requests |-> 0]
  /\ rtarget = [r \in Requests |-> "pending"]
  /\ rcopy = [r \in Requests |-> NoRow]
  /\ rsnap = [r \in Requests |-> NoRow]
  /\ vpc = [v \in Viewers |-> "idle"]
  /\ vop \in [Viewers -> Requests]
  /\ vcopy = [v \in Viewers |-> NoRow]
  /\ resp = [v \in Viewers |-> NoRow]
  /\ purge = Idle

-----------------------------------------------------------------------------
(* A request: createOperation, the agent call, transitionState.             *)

\* createOperation reads the clock, then awaits the tenant.
CreateBegin(r) ==
  /\ rpc[r] = "idle"
  /\ rt' = [rt EXCEPT ![r] = now]
  /\ rpc' = [rpc EXCEPT ![r] = "create.tenant"]
  /\ UNCHANGED <<clock, row, rtarget, rcopy, rsnap, viewVars, purge>>

\* The tenant is there: the pending expiry is computed from the earlier clock.
CreateTenant(r) ==
  /\ rpc[r] = "create.tenant"
  /\ rt' = [rt EXCEPT ![r] = ComputeExpiresAt("pending", rt[r], Unviewed, config)]
  /\ rpc' = [rpc EXCEPT ![r] = "create.save"]
  /\ UNCHANGED <<clock, row, rtarget, rcopy, rsnap, viewVars, purge>>

\* save() of an entity without an id is an INSERT; the database sets created_at.
CreateSave(r) ==
  /\ rpc[r] = "create.save"
  /\ row' = [row EXCEPT ![r] = [state |-> "pending", createdAt |-> now,
                                viewedAt |-> Unviewed, expiresAt |-> rt[r]]]
  /\ rpc' = [rpc EXCEPT ![r] = "adapter"]
  /\ UNCHANGED <<clock, rt, rtarget, rcopy, rsnap, viewVars, purge>>

\* The agent answers: Done, reject and revoke give completed, an accept that is
\* still running gives processing, an AdapterError gives failed.
AdapterReturn(r, target) ==
  /\ rpc[r] = "adapter"
  /\ target \in {"processing", "completed", "failed"}
  /\ rtarget' = [rtarget EXCEPT ![r] = target]
  /\ rpc' = [rpc EXCEPT ![r] = "transition.read"]
  /\ UNCHANGED <<clock, row, rt, rcopy, rsnap, viewVars, purge>>

\* transitionState loads the operation; a missing one ends the request with 404.
TransitionRead(r) ==
  /\ rpc[r] = "transition.read"
  /\ rcopy' = [rcopy EXCEPT ![r] = row[r]]
  /\ rpc' = [rpc EXCEPT ![r] = IF Exists(r) THEN "transition.tenant" ELSE "done"]
  /\ UNCHANGED <<clock, row, rt, rtarget, rsnap, viewVars, purge>>

\* The loaded entity gets the new state and the expiry that goes with it and
\* with the viewedAt of the loaded entity.
TransitionTenant(r) ==
  /\ rpc[r] = "transition.tenant"
  /\ rcopy' = [rcopy EXCEPT ![r] =
       [state |-> rtarget[r], createdAt |-> rcopy[r].createdAt,
        viewedAt |-> rcopy[r].viewedAt,
        expiresAt |-> ComputeExpiresAt(rtarget[r], rcopy[r].createdAt,
                                       rcopy[r].viewedAt, config)]]
  /\ rpc' = [rpc EXCEPT ![r] = "transition.load"]
  /\ UNCHANGED <<clock, row, rt, rtarget, rsnap, viewVars, purge>>

\* TypeORM's save() first SELECTs the current row of the entity ...
SaveLoad(r) ==
  /\ rpc[r] = "transition.load"
  /\ rsnap' = [rsnap EXCEPT ![r] = row[r]]
  /\ rpc' = [rpc EXCEPT ![r] = "transition.write"]
  /\ UNCHANGED <<clock, row, rt, rtarget, rcopy, viewVars, purge>>

\* ... then INSERTs the entity if there was none, and otherwise UPDATEs the
\* columns in which entity and loaded row differ; the UPDATE of a row deleted
\* in between changes nothing and raises nothing.
Merge(db, snap, entity) ==
  [state     |-> IF entity.state # snap.state THEN entity.state ELSE db.state,
   createdAt |-> db.createdAt,
   viewedAt  |-> IF entity.viewedAt # snap.viewedAt THEN entity.viewedAt
                                                   ELSE db.viewedAt,
   expiresAt |-> IF entity.expiresAt # snap.expiresAt THEN entity.expiresAt
                                                     ELSE db.expiresAt]

\* MUTANT of SaveWrite: an error after the save is caught as a failed agent
\* call, so the stored operation is transitioned a second time.
SaveWrite_CatchAll(r) ==
  /\ rpc[r] = "transition.write"
  /\ row' = [row EXCEPT ![r] = rcopy[r]]
  /\ rpc' = [rpc EXCEPT ![r] = "transition.read"]
  /\ rtarget' = [rtarget EXCEPT ![r] = "failed"]
  /\ UNCHANGED <<clock, rt, rcopy, rsnap, viewVars, purge>>

SaveWrite(r) ==
  /\ rpc[r] = "transition.write"
  /\ row' = [row EXCEPT ![r] =
       IF rsnap[r] = NoRow THEN rcopy[r]
       ELSE IF Exists(r) THEN Merge(row[r], rsnap[r], rcopy[r])
       ELSE NoRow]
  /\ rpc' = [rpc EXCEPT ![r] = "done"]
  /\ rcopy' = [rcopy EXCEPT ![r] = NoRow]
  /\ rsnap' = [rsnap EXCEPT ![r] = NoRow]
  /\ UNCHANGED <<clock, rt, rtarget, viewVars, purge>>

\* The request ends early: an error that is not an AdapterError is rethrown
\* with the operation left as it is, a database call throws, or the pod dies.
Abort(r) ==
  /\ rpc[r] \notin {"idle", "done"}
  /\ rpc' = [rpc EXCEPT ![r] = "done"]
  /\ rcopy' = [rcopy EXCEPT ![r] = NoRow]
  /\ rsnap' = [rsnap EXCEPT ![r] = NoRow]
  /\ UNCHANGED <<clock, row, rt, rtarget, viewVars, purge>>

-----------------------------------------------------------------------------
(* getForTenant and markViewed.                                             *)

\* Read the row: 404 if there is none; return it as it is if it was viewed
\* before or, for a poll, if it is still in flight; else go and stamp it.
ViewRead(v, o) ==
  /\ vpc[v] = "idle"
  /\ vop' = [vop EXCEPT ![v] = o]
  /\ LET return == \/ ~Exists(o)
                   \/ row[o].viewedAt # Unviewed
                   \/ v \in Pollers /\ ~IsTerminal(row[o].state)
     IN  /\ resp' = [resp EXCEPT ![v] = IF return THEN row[o] ELSE NoRow]
         /\ vcopy' = [vcopy EXCEPT ![v] = IF return THEN NoRow ELSE row[o]]
         /\ vpc' = [vpc EXCEPT ![v] = IF return THEN "idle" ELSE "tenant"]
  /\ UNCHANGED <<clock, row, reqVars, purge>>

\* applyViewed: the tenant is there, viewedAt is now, and the expiry is the one
\* of the state the operation had when it was loaded.
ViewTenant(v) ==
  /\ vpc[v] = "tenant"
  /\ vcopy' = [vcopy EXCEPT ![v] =
       [state |-> vcopy[v].state, createdAt |-> vcopy[v].createdAt,
        viewedAt |-> now,
        expiresAt |-> ComputeExpiresAt(vcopy[v].state, vcopy[v].createdAt, now, config)]]
  /\ vpc' = [vpc EXCEPT ![v] = "stamp"]
  /\ UNCHANGED <<clock, row, reqVars, vop, resp, purge>>

\* MUTANT of MarkFirstView: the WHERE clause lost its viewed_at IS NULL.
MarkFirstView_AnyRow(o, viewedAt, expiresAt) ==
  IF Exists(o)
  THEN [row EXCEPT ![o].viewedAt = viewedAt, ![o].expiresAt = expiresAt]
  ELSE row

\* MUTANT of MarkFirstView: an upsert instead of an UPDATE.
MarkFirstView_Upsert(o, viewedAt, expiresAt) ==
  IF row[o].viewedAt = Unviewed
  THEN [row EXCEPT ![o].viewedAt = viewedAt, ![o].expiresAt = expiresAt]
  ELSE row

\* markFirstView: UPDATE ... WHERE id = $1 AND viewed_at IS NULL.
MarkFirstView(o, viewedAt, expiresAt) ==
  IF Exists(o) /\ row[o].viewedAt = Unviewed
  THEN [row EXCEPT ![o].viewedAt = viewedAt, ![o].expiresAt = expiresAt]
  ELSE row

\* A stamped row is returned from the loaded copy with the stored values;
\* when no row was updated the row is read again.
ViewStamp(v) ==
  /\ vpc[v] = "stamp"
  /\ row' = MarkFirstView(vop[v], vcopy[v].viewedAt, vcopy[v].expiresAt)
  /\ LET stored == Exists(vop[v]) /\ row[vop[v]].viewedAt = Unviewed
     IN  /\ resp' = [resp EXCEPT ![v] = IF stored THEN vcopy[v] ELSE NoRow]
         /\ vpc' = [vpc EXCEPT ![v] = IF stored THEN "idle" ELSE "reread"]
  /\ vcopy' = [vcopy EXCEPT ![v] = NoRow]
  /\ UNCHANGED <<clock, reqVars, vop, purge>>

ViewReread(v) ==
  /\ vpc[v] = "reread"
  /\ resp' = [resp EXCEPT ![v] = row[vop[v]]]
  /\ vpc' = [vpc EXCEPT ![v] = "idle"]
  /\ UNCHANGED <<clock, row, reqVars, vop, vcopy, purge>>

-----------------------------------------------------------------------------
(* The purge job, one at a time in the cluster (exclusive queue).           *)

\* MUTANT of Expired: expires_at <= now().
Expired_Inclusive == {o \in Requests : Exists(o) /\ row[o].expiresAt <= now}

Expired == {o \in Requests : Exists(o) /\ row[o].expiresAt < now}

PurgeStart ==
  /\ purge = Idle
  /\ purge' = 0
  /\ UNCHANGED <<clock, row, reqVars, viewVars>>

\* MUTANT of PurgeBatch: the limit is one short, so it can reach 0.
PurgeBatch_ShortLimit ==
  /\ purge # Idle
  /\ \E batch \in SUBSET Expired :
       /\ Cardinality(batch) = IF Cardinality(Expired) < BatchSize - 1
                               THEN Cardinality(Expired) ELSE BatchSize - 1
       /\ row' = [o \in Requests |-> IF o \in batch THEN NoRow ELSE row[o]]
       /\ purge' = IF batch # {} /\ purge + 1 < MaxBatches THEN purge + 1 ELSE Idle
  /\ UNCHANGED <<clock, reqVars, viewVars>>

\* One DELETE ... ORDER BY expires_at LIMIT BatchSize; the run goes on while a
\* batch removed something and the cap on batches is not reached.
PurgeBatch ==
  /\ purge # Idle
  /\ \E batch \in SUBSET Expired :
       /\ Cardinality(batch) = IF Cardinality(Expired) < BatchSize
                               THEN Cardinality(Expired) ELSE BatchSize
       /\ \A o \in batch, q \in Expired \ batch : row[o].expiresAt <= row[q].expiresAt
       /\ row' = [o \in Requests |-> IF o \in batch THEN NoRow ELSE row[o]]
       /\ purge' = IF batch # {} /\ purge + 1 < MaxBatches THEN purge + 1 ELSE Idle
  /\ UNCHANGED <<clock, reqVars, viewVars>>

\* A batch statement throws: the error is logged and rethrown, the job fails.
PurgeError ==
  /\ purge # Idle
  /\ purge' = Idle
  /\ UNCHANGED <<clock, row, reqVars, viewVars>>

-----------------------------------------------------------------------------
Tick ==
  /\ now < MaxTime
  /\ now' = now + 1
  /\ UNCHANGED <<config, row, reqVars, viewVars, purge>>

\* TenantService.update, PATCH /tenants/:id, replaces the tenant's config, and so
\* the overrides, while handlers are under way.
UpdateConfig(c) ==
  /\ c # config
  /\ config' = c
  /\ UNCHANGED <<now, row, reqVars, viewVars, purge>>

RequestStep(r) ==
  \/ CreateBegin(r) \/ CreateTenant(r) \/ CreateSave(r)
  \/ \E s \in States : AdapterReturn(r, s)
  \/ TransitionRead(r) \/ TransitionTenant(r) \/ SaveLoad(r) \/ SaveWrite(r)
  \/ Abort(r)

ViewerStep(v) ==
  \/ \E o \in Requests : ViewRead(v, o)
  \/ ViewTenant(v) \/ ViewStamp(v) \/ ViewReread(v)

Next ==
  \/ \E r \in Requests : RequestStep(r)
  \/ \E v \in Viewers : ViewerStep(v)
  \/ PurgeStart \/ PurgeBatch \/ PurgeError
  \/ Tick
  \/ \E c \in Configs : UpdateConfig(c)

Spec == Init /\ [][Next]_vars

\* The purge queue is scheduled hourly, so an idle purge starts again; a batch
\* statement may fail, but not for ever.
Fairness == WF_vars(PurgeStart) /\ SF_vars(PurgeBatch)
FairSpec == Spec /\ Fairness

-----------------------------------------------------------------------------
(* Properties.                                                              *)

\* What a client was told stays true: a poll that returns a terminal operation
\* returns it with a view stamp, and until the expiry in that answer has passed
\* the stored operation is the one that was returned, whatever other polls,
\* a late save() or the purge do meanwhile (getForTenant, markFirstView).
PromiseKept ==
  \A v \in Pollers : IsTerminal(resp[v].state) =>
     /\ resp[v].viewedAt # Unviewed
     /\ now <= resp[v].expiresAt => row[vop[v]] = resp[v]

\* The expiry of every stored operation is the one the TTL rules give for the
\* state and the view stamp stored next to it, under some configuration of the
\* tenant; a pending one may have been given up to its creation's latency less.
\* (transitionState and applyViewed compute it from what they read earlier.)
ExpiryMatchesState ==
  \A o \in Requests : Exists(o) =>
     \E c \in Configs :
        LET e == ComputeExpiresAt(row[o].state, row[o].createdAt, row[o].viewedAt, c)
        IN  IF row[o].state = "pending" THEN row[o].expiresAt <= e
                                        ELSE row[o].expiresAt = e

\* An operation in flight is not purged under its request before the pending
\* expiry it was created with has passed (createOperation, purgeExpiredBatch).
InFlightRetained ==
  \A r \in Requests :
     rpc[r] \in {"adapter", "transition.read", "transition.tenant",
                "transition.load", "transition.write"} /\ now <= rt[r]
     => Exists(r)

\* The first view is stamped once: no step moves or clears the view stamp of a
\* stored operation ("Stamps the first view and its recomputed expiry, once").
ViewStampedOnce ==
  [][\A o \in Requests : Exists(o) /\ Exists(o)' /\ row[o].viewedAt # Unviewed
        => row'[o].viewedAt = row[o].viewedAt]_vars

\* A terminal outcome is final: no step gives a stored completed or failed
\* operation another state (transitionState has no guard of its own).
TerminalStable ==
  [][\A o \in Requests : Exists(o) /\ Exists(o)' /\ IsTerminal(row[o].state)
        => row'[o].state = row[o].state]_vars

\* How long a row is kept is right: its expiry fits what is stored, and no row is
\* purged under its request before that.
RetentionSound == ExpiryMatchesState /\ InFlightRetained

\* The purge keeps up in spite of its batch limits and failing runs: an expired
\* operation is eventually removed, or gets an expiry that has not passed
\* (purgeExpiredOperations).
ExpiredPurged ==
  \A o \in Requests : (o \in Expired) ~> (o \notin Expired)
=============================================================================
