------------------------------ MODULE RoleScope ------------------------------
(***************************************************************************)
(* One tenant's role -> scope mapping and the logins that depend on it:    *)
(* RoleScopeService.writeMapping (read, validate, write and revoke in one  *)
(* transaction under the tenant's advisory lock, and a second sweep after  *)
(* COMMIT), racing with the two places that resolve a role's scopes and    *)
(* then save an oidc-provider Grant: OidcInteractionController's           *)
(* createAndSaveGrant and AuthService's issueTokensForMembership.          *)
(*                                                                         *)
(* A scope is a model value, a mapping entry a set of scopes.  The owner's *)
(* superuser scope stands for all of them (expandEffectiveScopes).         *)
(***************************************************************************)
EXTENDS Integers, Sequences

CONSTANTS Writers,        \* concurrent PATCH / DELETE .../roles/:role/scopes
          Logins,         \* logins and tenant switches; also their grants' ids
          TenantScopes,   \* ALL_TENANT_SCOPES
          Super,          \* TENANT_SUPERUSER_SCOPE
          Defaults,       \* the seeded role_scope table
          RoleOf,         \* the role of the account each login is for
          ActorScopes,    \* the scopes in each writer's token
          PlatformAdmins, \* the writers with the platform-admin role
          MaxWrites,      \* bound: mapping writes in a behaviour
          PodsMayDie,     \* may a pod die between COMMIT and the second sweep?
          NoLock

ROLE_HIERARCHY == <<"owner", "admin", "member", "readonly">>
IMMUTABLE_ROLE == "owner"
Roles == {"owner", "admin", "member", "readonly"}
KnownScopes == TenantScopes \cup {Super}

ExpandEffectiveScopes(scopes) ==
  IF Super \in scopes THEN scopes \cup TenantScopes ELSE scopes

\* assertHierarchy: each role's expanded scopes are among its parent's.
HierarchyOK(mapping) ==
  \A i \in 2..4 : ExpandEffectiveScopes(mapping[ROLE_HIERARCHY[i]])
                    \subseteq ExpandEffectiveScopes(mapping[ROLE_HIERARCHY[i - 1]])

ASSUME DefaultsAssumption == /\ Defaults \in [Roles -> SUBSET KnownScopes]
                             /\ HierarchyOK(Defaults)
ASSUME NoLockAssumption == NoLock \notin Writers
ASSUME RoleOfAssumption == RoleOf \in [Logins -> Roles]
ASSUME ActorAssumption == ActorScopes \in [Writers -> SUBSET KnownScopes]
ASSUME BoundsAssumption == MaxWrites \in Nat /\ PodsMayDie \in BOOLEAN

\* A tenant_role_scope row, or its absence; a saved Grant, or none.
Rows == [kind : {"none", "row"}, scopes : SUBSET KnownScopes]
Absent == [kind |-> "none", scopes |-> {}]
Present(scopes) == [kind |-> "row", scopes |-> scopes]

VARIABLES
  override,   \* tenant_role_scope: committed rows, Absent where there is none
  lock,       \* holder of the advisory lock
  wpc, wrole, \* each writer: where it is, the role it writes
  wnew,       \* the row its transaction leaves: Absent for a reset
  wprev,      \* the entry it read before: its scopes and its source
  wdead,      \* grants its transaction deleted, not yet committed
  writes,     \* writes started
  lpc, lscopes, lsweeps,  \* each login: where it is, the scopes it asks for and
              \* was allowed, how many sweeps of its role it had seen then
  grants,     \* the scopes of each saved Grant
  audit,      \* latest audit_log entry per role: the scopes and source it names
  sweeps,     \* history: second sweeps finished, per role
  overtaken   \* history: grants saved after a sweep their login had not seen

writerVars == <<wpc, wrole, wnew, wprev, wdead, writes>>
loginVars == <<lpc, lscopes, lsweeps, overtaken>>
vars == <<override, lock, wpc, wrole, wnew, wprev, wdead, writes,
          lpc, lscopes, lsweeps, grants, audit, sweeps, overtaken>>

Entry == [scopes : SUBSET KnownScopes, source : {"default", "override"}]

\* findScopesForRole and getTenantRoleMapping: an override row wins even when
\* it is empty; only its absence inherits the default.
Resolve(row, role) == IF row.kind = "none" THEN Defaults[role] ELSE row.scopes
EntryOf(row, role) == [scopes |-> Resolve(row, role),
                       source |-> IF row.kind = "none" THEN "default" ELSE "override"]
Mapping(rows) == [r \in Roles |-> Resolve(rows[r], r)]

TxPCs == {"before", "check", "sweep.tx", "commit"}

TypeOK ==
  /\ override \in [Roles -> Rows]
  /\ lock \in Writers \cup {NoLock}
  /\ wpc \in [Writers -> {"idle", "lock", "late"} \cup TxPCs]
  /\ wrole \in [Writers -> Roles]
  /\ wnew \in [Writers -> Rows]
  /\ wprev \in [Writers -> Entry]
  /\ wdead \in [Writers -> SUBSET Logins]
  /\ writes \in Nat
  /\ lpc \in [Logins -> {"idle", "save", "done"}]
  /\ lscopes \in [Logins -> SUBSET KnownScopes]
  /\ lsweeps \in [Logins -> Nat]
  /\ grants \in [Logins -> Rows]
  /\ audit \in [Roles -> Entry]
  /\ sweeps \in [Roles -> Nat]
  /\ overtaken \in [Logins -> BOOLEAN]

NoEntry == [scopes |-> {}, source |-> "default"]

Init ==
  /\ override = [r \in Roles |-> Absent]
  /\ lock = NoLock
  /\ wpc = [w \in Writers |-> "idle"] /\ wrole = [w \in Writers |-> "owner"]
  /\ wnew = [w \in Writers |-> Absent] /\ wprev = [w \in Writers |-> NoEntry]
  /\ wdead = [w \in Writers |-> {}] /\ writes = 0
  /\ lpc = [l \in Logins |-> "idle"] /\ lscopes = [l \in Logins |-> {}]
  /\ lsweeps = [l \in Logins |-> 0]
  /\ grants = [l \in Logins |-> Absent]
  /\ audit = [r \in Roles |-> EntryOf(Absent, r)]
  /\ sweeps = [r \in Roles |-> 0] /\ overtaken = [l \in Logins |-> FALSE]

-----------------------------------------------------------------------------
(* replaceRoleScopes and resetRoleScopes.                                   *)

\* Before the transaction: ScopeGuard, assertRoleMutable, assertScopesAssignable.
WriteBegin(w, role, new) ==
  /\ wpc[w] = "idle" /\ writes < MaxWrites
  /\ w \in PlatformAdmins \/ Super \in ActorScopes[w]
  /\ role # IMMUTABLE_ROLE
  /\ Super \notin new.scopes
  /\ wpc' = [wpc EXCEPT ![w] = "lock"]
  /\ wrole' = [wrole EXCEPT ![w] = role]
  /\ wnew' = [wnew EXCEPT ![w] = new]
  /\ writes' = writes + 1
  /\ UNCHANGED <<override, lock, wprev, wdead, loginVars, grants, audit, sweeps>>

\* MUTANT of WriteLock: the writes are not serialised.
WriteLock_NoWait(w) ==
  /\ wpc[w] = "lock"
  /\ lock' = w
  /\ wpc' = [wpc EXCEPT ![w] = "before"]
  /\ UNCHANGED <<override, wrole, wnew, wprev, wdead, writes, loginVars,
                 grants, audit, sweeps>>

\* lockTenantForRoleScopeWrite: wait for the lock, hold it until the end.
WriteLock(w) ==
  /\ wpc[w] = "lock" /\ lock = NoLock
  /\ lock' = w
  /\ wpc' = [wpc EXCEPT ![w] = "before"]
  /\ UNCHANGED <<override, wrole, wnew, wprev, wdead, writes, loginVars,
                 grants, audit, sweeps>>

\* MUTANT of WriteBefore: the raw row is kept instead of the resolved entry.
WriteBefore_RawRow(w) ==
  /\ wpc[w] = "before"
  /\ wprev' = [wprev EXCEPT ![w] = override[wrole[w]]]
  /\ wpc' = [wpc EXCEPT ![w] = "check"]
  /\ UNCHANGED <<override, lock, wrole, wnew, wdead, writes, loginVars,
                 grants, audit, sweeps>>

\* The entry in force, read inside the lock.
WriteBefore(w) ==
  /\ wpc[w] = "before"
  /\ wprev' = [wprev EXCEPT ![w] = EntryOf(override[wrole[w]], wrole[w])]
  /\ wpc' = [wpc EXCEPT ![w] = "check"]
  /\ UNCHANGED <<override, lock, wrole, wnew, wdead, writes, loginVars,
                 grants, audit, sweeps>>

\* assertNoEscalation, on the scopes that result.
MayGrant(w, scopes) ==
  w \in PlatformAdmins \/ scopes \subseteq ExpandEffectiveScopes(ActorScopes[w])

RemovedScopes(previous, next) ==
  ExpandEffectiveScopes(previous) \ ExpandEffectiveScopes(next)

NewScopes(w) == Resolve(wnew[w], wrole[w])
Narrows(w) == RemovedScopes(wprev[w].scopes, NewScopes(w)) # {}

\* The rows the transaction sees once it has applied its own write.
After(w) == [override EXCEPT ![wrole[w]] = wnew[w]]

Release(w) == lock' = IF lock = w THEN NoLock ELSE lock

\* The row is written, the whole mapping read again and validated.
WriteCheck(w) ==
  /\ wpc[w] = "check"
  /\ MayGrant(w, NewScopes(w)) /\ HierarchyOK(Mapping(After(w)))
  /\ wpc' = [wpc EXCEPT ![w] = IF Narrows(w) THEN "sweep.tx" ELSE "commit"]
  /\ UNCHANGED <<override, lock, wrole, wnew, wprev, wdead, writes, loginVars,
                 grants, audit, sweeps>>

\* MUTANT of WriteReject: a session-level lock, which ROLLBACK does not release.
WriteReject_KeepLock(w) ==
  /\ wpc[w] = "check"
  /\ ~ (MayGrant(w, NewScopes(w)) /\ HierarchyOK(Mapping(After(w))))
  /\ wpc' = [wpc EXCEPT ![w] = "idle"]
  /\ UNCHANGED <<override, lock, wrole, wnew, wprev, wdead, writes, loginVars,
                 grants, audit, sweeps>>

\* scope_escalation or hierarchy_violation: 400 and ROLLBACK.
WriteReject(w) ==
  /\ wpc[w] = "check"
  /\ ~ (MayGrant(w, NewScopes(w)) /\ HierarchyOK(Mapping(After(w))))
  /\ wpc' = [wpc EXCEPT ![w] = "idle"]
  /\ Release(w)
  /\ UNCHANGED <<override, wrole, wnew, wprev, wdead, writes, loginVars,
                 grants, audit, sweeps>>

\* The grants revokeAffectedSessions finds: those of accounts with the role.
GrantsOfRole(role) == {l \in Logins : grants[l] # Absent /\ RoleOf[l] = role}

WriteSweepTx(w) ==
  /\ wpc[w] = "sweep.tx"
  /\ wdead' = [wdead EXCEPT ![w] = GrantsOfRole(wrole[w])]
  /\ wpc' = [wpc EXCEPT ![w] = "commit"]
  /\ UNCHANGED <<override, lock, wrole, wnew, wprev, writes, loginVars,
                 grants, audit, sweeps>>

\* MUTANT of Changed: pinning a role to its default is taken for a no-op.
Changed_ScopesOnly(w) == wprev[w].scopes # NewScopes(w)

\* Whether the write changed anything, in scopes or in source.
Changed(w) == wprev[w] # EntryOf(wnew[w], wrole[w])

\* COMMIT: the row, the deletes and the audit entry appear, the lock is free.
WriteCommit(w) ==
  /\ wpc[w] = "commit"
  /\ override' = After(w)
  /\ grants' = [l \in Logins |-> IF l \in wdead[w] THEN Absent ELSE grants[l]]
  /\ audit' = IF Changed(w)
              THEN [audit EXCEPT ![wrole[w]] = EntryOf(wnew[w], wrole[w])] ELSE audit
  /\ wdead' = [wdead EXCEPT ![w] = {}]
  /\ wpc' = [wpc EXCEPT ![w] = IF Narrows(w) THEN "late" ELSE "idle"]
  /\ Release(w)
  /\ UNCHANGED <<wrole, wnew, wprev, writes, loginVars, sweeps>>

\* MUTANT of WriteLate: the second sweep is left out.
WriteLate_Skip(w) ==
  /\ wpc[w] = "late"
  /\ sweeps' = [sweeps EXCEPT ![wrole[w]] = @ + 1]
  /\ wpc' = [wpc EXCEPT ![w] = "idle"]
  /\ UNCHANGED <<override, lock, wrole, wnew, wprev, wdead, writes, loginVars,
                 grants, audit>>

\* The sweep after COMMIT, in a transaction of its own.
WriteLate(w) ==
  /\ wpc[w] = "late"
  /\ grants' = [l \in Logins |-> IF l \in GrantsOfRole(wrole[w]) THEN Absent
                                                               ELSE grants[l]]
  /\ sweeps' = [sweeps EXCEPT ![wrole[w]] = @ + 1]
  /\ wpc' = [wpc EXCEPT ![w] = "idle"]
  /\ UNCHANGED <<override, lock, wrole, wnew, wprev, wdead, writes, loginVars, audit>>

\* A statement fails or the pod dies: ROLLBACK, or no second sweep.
WriteAbort(w) ==
  /\ wpc[w] \in {"lock"} \cup TxPCs \/ (PodsMayDie /\ wpc[w] = "late")
  /\ wpc' = [wpc EXCEPT ![w] = "idle"]
  /\ wdead' = [wdead EXCEPT ![w] = {}]
  /\ Release(w)
  /\ UNCHANGED <<override, wrole, wnew, wprev, writes, loginVars, grants, audit, sweeps>>

-----------------------------------------------------------------------------
(* A login or a tenant switch.                                              *)

\* The role's scopes are read; a request for any other scope is refused.
LoginScopes(l, ask) ==
  /\ lpc[l] = "idle"
  /\ ask \subseteq Resolve(override[RoleOf[l]], RoleOf[l])
  /\ lscopes' = [lscopes EXCEPT ![l] = ask]
  /\ lsweeps' = [lsweeps EXCEPT ![l] = sweeps[RoleOf[l]]]
  /\ lpc' = [lpc EXCEPT ![l] = "save"]
  /\ UNCHANGED <<override, lock, writerVars, grants, audit, sweeps, overtaken>>

\* grant.save(), through the provider's own connection.
LoginSave(l) ==
  /\ lpc[l] = "save"
  /\ grants' = [grants EXCEPT ![l] = Present(lscopes[l])]
  /\ overtaken' = [overtaken EXCEPT ![l] = lsweeps[l] # sweeps[RoleOf[l]]]
  /\ lpc' = [lpc EXCEPT ![l] = "done"]
  /\ UNCHANGED <<override, lock, writerVars, lscopes, lsweeps, audit, sweeps>>

-----------------------------------------------------------------------------
WriterStep(w) ==
  \/ \E role \in Roles : \E new \in {Absent} \cup {Present(s) : s \in SUBSET KnownScopes} :
        WriteBegin(w, role, new)
  \/ WriteLock(w) \/ WriteBefore(w) \/ WriteCheck(w) \/ WriteReject(w)
  \/ WriteSweepTx(w) \/ WriteCommit(w) \/ WriteLate(w) \/ WriteAbort(w)

LoginStep(l) ==
  \/ \E ask \in SUBSET KnownScopes : LoginScopes(l, ask)
  \/ LoginSave(l)

Next == \/ \E w \in Writers : WriterStep(w)
        \/ \E l \in Logins : LoginStep(l)

Spec == Init /\ [][Next]_vars

\* A request whose connection is alive goes on; the lock is granted in turn.
FairSpec == Spec /\ \A w \in Writers :
  /\ SF_vars(WriteLock(w))
  /\ WF_vars(WriteBefore(w) \/ WriteCheck(w) \/ WriteReject(w) \/ WriteSweepTx(w)
             \/ WriteCommit(w) \/ WriteLate(w))

-----------------------------------------------------------------------------
(* Properties.                                                              *)

\* No role ever holds a scope the role above it lacks, in the committed mapping,
\* whatever writes to different roles interleave (assertHierarchy under
\* lockTenantForRoleScopeWrite).
HierarchyHolds == HierarchyOK(Mapping(override))

\* The latest audit entry of a role names the scopes and the source in force:
\* no committed change of the mapping goes unaudited and no rejected one is
\* audited (writeMapping's `changed`, and its write inside the transaction).
AuditTrailExact == \A r \in Roles : audit[r] = EntryOf(override[r], r)

Exceeds(l) ==
  /\ grants[l] # Absent
  /\ ~ (grants[l].scopes \subseteq
        ExpandEffectiveScopes(Resolve(override[RoleOf[l]], RoleOf[l])))

\* A grant that holds more than its role now allows is about to be removed by the
\* second sweep, or was saved by a login that a whole narrowing overtook between
\* its read and its save, the one window writeMapping's comment leaves open.
NarrowingReachesGrants ==
  \A l \in Logins : Exceeds(l) =>
     overtaken[l] \/ \E w \in Writers : wpc[w] = "late" /\ wrole[w] = RoleOf[l]

\* Every write that was started ends: nobody waits for the lock for ever.
WritesEnd == \A w \in Writers : (wpc[w] # "idle") ~> (wpc[w] = "idle")
=============================================================================
