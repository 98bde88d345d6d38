--------------------------- MODULE RoleScopeProofs ---------------------------
(***************************************************************************)
(* Proofs about RoleScope, for any number of concurrent writers and logins *)
(* and any scopes and defaults: the committed mapping keeps the hierarchy, *)
(* the audit trail is exact, a narrowing reaches every grant but those of  *)
(* a login it overtakes, and the lock is never left behind.                *)
(***************************************************************************)
EXTENDS RoleScope, TLAPS

-----------------------------------------------------------------------------
(* Facts about the operators.                                               *)

\* Resolving a row gives a set of known scopes.
LEMMA ResolveType ==
  ASSUME NEW row \in Rows, NEW role \in Roles
  PROVE  Resolve(row, role) \in SUBSET KnownScopes
BY DefaultsAssumption DEF Resolve, Rows

\* The entry of a row is an audit entry.
LEMMA EntryType ==
  ASSUME NEW row \in Rows, NEW role \in Roles
  PROVE  EntryOf(row, role) \in Entry
BY ResolveType DEF EntryOf, Entry

\* A row of the model is one of Rows.
LEMMA RowType == /\ Absent \in Rows
                 /\ \A s \in SUBSET KnownScopes : Present(s) \in Rows
BY DEF Absent, Present, Rows

-----------------------------------------------------------------------------
(* Type correctness.                                                        *)

\* The initial state has the types of TypeOK.
LEMMA TypeInit == Init => TypeOK
<1> SUFFICES ASSUME Init PROVE TypeOK
  OBVIOUS
<1>1. NoEntry \in Entry
  BY DEF NoEntry, Entry
<1>2. \A r \in Roles : EntryOf(Absent, r) \in Entry
  BY EntryType, RowType
<1>3. "owner" \in Roles
  BY DEF Roles
<1> QED
  BY <1>1, <1>2, <1>3, RowType DEF Init, TypeOK

\* Every step keeps the types of TypeOK.
LEMMA TypeStep == TypeOK /\ [Next]_vars => TypeOK'
<1> SUFFICES ASSUME TypeOK, [Next]_vars PROVE TypeOK'
  OBVIOUS
<1> USE DEF TypeOK, TxPCs
<1>1. ASSUME NEW w \in Writers, NEW role \in Roles,
             NEW new \in {Absent} \cup {Present(s) : s \in SUBSET KnownScopes},
             WriteBegin(w, role, new)
      PROVE  TypeOK'
  <2>1. new \in Rows
    BY RowType
  <2> QED
    BY <1>1, <2>1 DEF WriteBegin, loginVars
<1>2. ASSUME NEW w \in Writers, WriteLock(w) PROVE TypeOK'
  BY <1>2 DEF WriteLock, loginVars
<1>3. ASSUME NEW w \in Writers, WriteBefore(w) PROVE TypeOK'
  <2>1. EntryOf(override[wrole[w]], wrole[w]) \in Entry
    BY EntryType
  <2> QED
    BY <1>3, <2>1 DEF WriteBefore, loginVars
<1>4. ASSUME NEW w \in Writers, WriteCheck(w) PROVE TypeOK'
  BY <1>4 DEF WriteCheck, loginVars
<1>5. ASSUME NEW w \in Writers, WriteReject(w) PROVE TypeOK'
  BY <1>5 DEF WriteReject, Release, loginVars
<1>6. ASSUME NEW w \in Writers, WriteSweepTx(w) PROVE TypeOK'
  <2>1. GrantsOfRole(wrole[w]) \in SUBSET Logins
    BY DEF GrantsOfRole
  <2> QED
    BY <1>6, <2>1 DEF WriteSweepTx, loginVars
<1>7. ASSUME NEW w \in Writers, WriteCommit(w) PROVE TypeOK'
  <2>1. EntryOf(wnew[w], wrole[w]) \in Entry
    BY EntryType
  <2>2. audit' \in [Roles -> Entry]
    BY <1>7, <2>1 DEF WriteCommit
  <2>3. grants' \in [Logins -> Rows]
    BY <1>7, RowType DEF WriteCommit
  <2>4. override' \in [Roles -> Rows]
    BY <1>7 DEF WriteCommit, After
  <2> QED
    BY <1>7, <2>2, <2>3, <2>4 DEF WriteCommit, Release, loginVars
<1>8. ASSUME NEW w \in Writers, WriteLate(w) PROVE TypeOK'
  <2>1. grants' \in [Logins -> Rows]
    BY <1>8, RowType DEF WriteLate
  <2> QED
    BY <1>8, <2>1 DEF WriteLate, loginVars
<1>9. ASSUME NEW w \in Writers, WriteAbort(w) PROVE TypeOK'
  BY <1>9 DEF WriteAbort, Release, loginVars
<1>10. ASSUME NEW l \in Logins, NEW ask \in SUBSET KnownScopes, LoginScopes(l, ask)
       PROVE  TypeOK'
  BY <1>10, RoleOfAssumption DEF LoginScopes, writerVars
<1>11. ASSUME NEW l \in Logins, LoginSave(l) PROVE TypeOK'
  <2>1. Present(lscopes[l]) \in Rows
    BY RowType
  <2>2. overtaken' \in [Logins -> BOOLEAN]
    BY <1>11 DEF LoginSave
  <2>3. grants' \in [Logins -> Rows]
    BY <1>11, <2>1 DEF LoginSave
  <2> QED
    BY <1>11, <2>2, <2>3 DEF LoginSave, writerVars
<1>12. CASE UNCHANGED vars
  BY <1>12 DEF vars
<1> QED
  BY <1>1, <1>2, <1>3, <1>4, <1>5, <1>6, <1>7, <1>8, <1>9, <1>10, <1>11, <1>12
  DEF Next, WriterStep, LoginStep

\* The state of the mapping, the writers, the logins and the grants always has
\* the types the code gives it.
THEOREM TypeCorrect == Spec => []TypeOK
BY TypeInit, TypeStep, PTL DEF Spec

-----------------------------------------------------------------------------
(* The hierarchy and the audit trail.                                       *)

\* A writer inside its transaction holds the lock.
LockInv == \A w \in Writers : wpc[w] \in TxPCs => lock = w

\* What a writer read before its write is still in force, and what it validated
\* is what its COMMIT will leave.
SnapshotInv ==
  \A w \in Writers :
     /\ wpc[w] \in {"check", "sweep.tx", "commit"}
          => wprev[w] = EntryOf(override[wrole[w]], wrole[w])
     /\ wpc[w] \in {"sweep.tx", "commit"} => HierarchyOK(Mapping(After(w)))

\* The inductive invariant: the snapshots say why COMMIT keeps the hierarchy
\* and the audit trail, the lock says why the snapshots stay good.
MappingInv == LockInv /\ SnapshotInv /\ HierarchyHolds /\ AuditTrailExact

\* The seeded defaults satisfy the invariant.
LEMMA MappingInvInit == Init => MappingInv
<1> SUFFICES ASSUME Init PROVE MappingInv
  OBVIOUS
<1>1. Mapping(override) = Defaults
  <2>1. \A r \in Roles : Resolve(override[r], r) = Defaults[r]
    BY DEF Init, Resolve, Absent
  <2>2. Mapping(override) = [r \in Roles |-> Defaults[r]]
    BY <2>1 DEF Mapping
  <2> QED
    BY <2>2, DefaultsAssumption
<1>2. HierarchyHolds
  BY <1>1, DefaultsAssumption DEF HierarchyHolds
<1>3. AuditTrailExact
  BY DEF Init, AuditTrailExact
<1>4. LockInv /\ SnapshotInv
  BY DEF Init, LockInv, SnapshotInv, TxPCs
<1> QED
  BY <1>2, <1>3, <1>4 DEF MappingInv

\* Every step keeps the invariant.
LEMMA MappingInvStep == TypeOK /\ MappingInv /\ [Next]_vars => MappingInv'
<1> SUFFICES ASSUME TypeOK, MappingInv, [Next]_vars PROVE MappingInv'
  OBVIOUS
<1> USE NoLockAssumption DEF TypeOK, MappingInv, LockInv, TxPCs
\* Only COMMIT touches the mapping and the audit trail.
<1>0. override' = override /\ audit' = audit => HierarchyHolds' /\ AuditTrailExact'
  BY DEF HierarchyHolds, AuditTrailExact
<1>1. ASSUME NEW w \in Writers, NEW role \in Roles, NEW new \in Rows,
             WriteBegin(w, role, new)
      PROVE  MappingInv'
  <2>1. LockInv'
    BY <1>1 DEF WriteBegin
  <2>2. SnapshotInv'
    BY <1>1 DEF WriteBegin, SnapshotInv, After
  <2> QED
    BY <1>0, <1>1, <2>1, <2>2 DEF WriteBegin
<1>2. ASSUME NEW w \in Writers, WriteLock(w) PROVE MappingInv'
  <2>1. LockInv'
    BY <1>2 DEF WriteLock
  <2>2. SnapshotInv'
    BY <1>2 DEF WriteLock, SnapshotInv, After
  <2> QED
    BY <1>0, <1>2, <2>1, <2>2 DEF WriteLock
<1>3. ASSUME NEW w \in Writers, WriteBefore(w) PROVE MappingInv'
  <2>1. LockInv'
    BY <1>3 DEF WriteBefore
  <2>2. SnapshotInv'
    BY <1>3 DEF WriteBefore, SnapshotInv, After
  <2> QED
    BY <1>0, <1>3, <2>1, <2>2 DEF WriteBefore
<1>4. ASSUME NEW w \in Writers, WriteCheck(w) PROVE MappingInv'
  <2>1. LockInv'
    BY <1>4 DEF WriteCheck
  <2>2. SnapshotInv'
    BY <1>4 DEF WriteCheck, SnapshotInv, After
  <2> QED
    BY <1>0, <1>4, <2>1, <2>2 DEF WriteCheck
<1>5. ASSUME NEW w \in Writers, WriteReject(w) PROVE MappingInv'
  <2>1. LockInv'
    BY <1>5 DEF WriteReject, Release
  <2>2. SnapshotInv'
    BY <1>5 DEF WriteReject, SnapshotInv, After
  <2> QED
    BY <1>0, <1>5, <2>1, <2>2 DEF WriteReject
<1>6. ASSUME NEW w \in Writers, WriteSweepTx(w) PROVE MappingInv'
  <2>1. LockInv'
    BY <1>6 DEF WriteSweepTx
  <2>2. SnapshotInv'
    BY <1>6 DEF WriteSweepTx, SnapshotInv, After
  <2> QED
    BY <1>0, <1>6, <2>1, <2>2 DEF WriteSweepTx
<1>7. ASSUME NEW w \in Writers, WriteCommit(w) PROVE MappingInv'
  <2>1. \A v \in Writers \ {w} : wpc[v] \notin TxPCs
    BY <1>7 DEF WriteCommit
  <2>2. LockInv'
    BY <1>7, <2>1 DEF WriteCommit, Release
  <2>3. SnapshotInv'
    BY <1>7, <2>1 DEF WriteCommit, SnapshotInv
  <2>4. HierarchyHolds'
    BY <1>7 DEF WriteCommit, SnapshotInv, HierarchyHolds
  <2>5. ASSUME NEW r \in Roles PROVE (audit[r] = EntryOf(override[r], r))'
    <3>1. CASE r = wrole[w]
      <4>1. override'[r] = wnew[w]
        BY <1>7, <3>1 DEF WriteCommit, After
      <4>2. audit'[r] = EntryOf(wnew[w], r)
        BY <1>7, <3>1 DEF WriteCommit, Changed, SnapshotInv, AuditTrailExact
      <4> QED
        BY <4>1, <4>2
    <3>2. CASE r # wrole[w]
      <4>1. override'[r] = override[r] /\ audit'[r] = audit[r]
        BY <1>7, <3>2 DEF WriteCommit, After
      <4> QED
        BY <4>1 DEF AuditTrailExact
    <3> QED
      BY <3>1, <3>2
  <2> QED
    BY <2>2, <2>3, <2>4, <2>5 DEF AuditTrailExact
<1>8. ASSUME NEW w \in Writers, WriteLate(w) PROVE MappingInv'
  <2>1. LockInv'
    BY <1>8 DEF WriteLate
  <2>2. SnapshotInv'
    BY <1>8 DEF WriteLate, SnapshotInv, After
  <2> QED
    BY <1>0, <1>8, <2>1, <2>2 DEF WriteLate
<1>9. ASSUME NEW w \in Writers, WriteAbort(w) PROVE MappingInv'
  <2>1. LockInv'
    BY <1>9 DEF WriteAbort, Release
  <2>2. SnapshotInv'
    BY <1>9 DEF WriteAbort, SnapshotInv, After
  <2> QED
    BY <1>0, <1>9, <2>1, <2>2 DEF WriteAbort
<1>10. ASSUME UNCHANGED <<override, lock, writerVars, audit>> PROVE MappingInv'
  <2>1. LockInv'
    BY <1>10 DEF writerVars
  <2>2. SnapshotInv'
    BY <1>10 DEF writerVars, SnapshotInv, After
  <2> QED
    BY <1>0, <1>10, <2>1, <2>2
<1>11. \A new \in {Absent} \cup {Present(s) : s \in SUBSET KnownScopes} : new \in Rows
  BY RowType
<1>12. CASE \E l \in Logins : LoginStep(l)
  BY <1>10, <1>12 DEF LoginStep, LoginScopes, LoginSave, writerVars
<1>13. CASE UNCHANGED vars
  BY <1>10, <1>13 DEF vars, writerVars
<1> QED
  BY <1>1, <1>2, <1>3, <1>4, <1>5, <1>6, <1>7, <1>8, <1>9, <1>11, <1>12, <1>13
  DEF Next, WriterStep

\* Whatever writes interleave, the committed mapping keeps every role within
\* the role above it: the advisory lock makes assertHierarchy's check sound.
THEOREM HierarchyAlwaysHolds == Spec => []HierarchyHolds
<1>1. Spec => []MappingInv
  BY TypeCorrect, MappingInvInit, MappingInvStep, PTL DEF Spec
<1>2. MappingInv => HierarchyHolds
  BY DEF MappingInv
<1> QED
  BY <1>1, <1>2, PTL

\* The newest audit entry of each role names the scopes and source in force.
THEOREM AuditAlwaysExact == Spec => []AuditTrailExact
<1>1. Spec => []MappingInv
  BY TypeCorrect, MappingInvInit, MappingInvStep, PTL DEF Spec
<1>2. MappingInv => AuditTrailExact
  BY DEF MappingInv
<1> QED
  BY <1>1, <1>2, PTL

-----------------------------------------------------------------------------
(* Narrowing.                                                               *)

\* A narrowing of the role has committed and its second sweep is still to come.
InWindow(role) == \E w \in Writers : wpc[w] = "late" /\ wrole[w] = role

Allowed(l) == ExpandEffectiveScopes(Resolve(override[RoleOf[l]], RoleOf[l]))

\* The inductive strengthening of NarrowingReachesGrants: a login about to save
\* asks for what its role allows, or the role is in the window, or a sweep it
\* has not seen has passed.
LoginInv ==
  \A l \in Logins :
     /\ lsweeps[l] <= sweeps[RoleOf[l]]
     /\ lpc[l] = "save" => \/ lscopes[l] \subseteq Allowed(l)
                           \/ lsweeps[l] # sweeps[RoleOf[l]]
                           \/ InWindow(RoleOf[l])

\* The grants, with the names above.
GrantInv ==
  \A l \in Logins : grants[l] # Absent =>
     grants[l].scopes \subseteq Allowed(l) \/ overtaken[l] \/ InWindow(RoleOf[l])

NarrowInv == LoginInv /\ GrantInv

\* GrantInv is NarrowingReachesGrants.
LEMMA GrantInvIsProperty == GrantInv => NarrowingReachesGrants
BY DEF GrantInv, NarrowingReachesGrants, Exceeds, Allowed, InWindow

\* Expanding a set of scopes keeps its members.
LEMMA ExpandGrows ==
  ASSUME NEW s PROVE s \subseteq ExpandEffectiveScopes(s)
BY DEF ExpandEffectiveScopes

\* There is neither a login nor a grant at the start.
LEMMA NarrowInvInit == Init => NarrowInv
BY RoleOfAssumption DEF Init, NarrowInv, LoginInv, GrantInv

\* A step that leaves mapping, logins, grants, sweeps and windows alone keeps it.
LEMMA NarrowInvFrame ==
  ASSUME NarrowInv, UNCHANGED <<override, loginVars, grants, sweeps>>,
         \A r \in Roles : InWindow(r) => InWindow(r)'
  PROVE  NarrowInv'
<1>1. \A l \in Logins : Allowed(l)' = Allowed(l)
  BY DEF Allowed
<1>2. \A l \in Logins : RoleOf[l] \in Roles
  BY RoleOfAssumption
<1>3. LoginInv'
  BY <1>1, <1>2 DEF NarrowInv, LoginInv, loginVars
<1>4. GrantInv'
  BY <1>1, <1>2 DEF NarrowInv, GrantInv, loginVars
<1> QED
  BY <1>3, <1>4 DEF NarrowInv

\* COMMIT either opens the window of its role or only widens what it allows.
LEMMA NarrowInvCommit ==
  ASSUME TypeOK, MappingInv, NarrowInv, NEW w \in Writers, WriteCommit(w)
  PROVE  NarrowInv'
<1> USE RoleOfAssumption DEF TypeOK, TxPCs
<1>1. ASSUME NEW r \in Roles, InWindow(r) PROVE InWindow(r)'
  BY <1>1 DEF InWindow, WriteCommit
<1>2. ASSUME NEW l \in Logins
      PROVE  Allowed(l) \subseteq Allowed(l)' \/ InWindow(RoleOf[l])'
  <2>1. CASE RoleOf[l] # wrole[w]
    <3>1. override'[RoleOf[l]] = override[RoleOf[l]]
      BY <2>1 DEF WriteCommit, After
    <3> QED
      BY <3>1 DEF Allowed
  <2>2. CASE RoleOf[l] = wrole[w] /\ Narrows(w)
    BY <2>2 DEF WriteCommit, InWindow
  <2>3. CASE RoleOf[l] = wrole[w] /\ ~Narrows(w)
    <3>1. override'[RoleOf[l]] = wnew[w]
      BY <2>3 DEF WriteCommit, After
    <3>2. Allowed(l)' = ExpandEffectiveScopes(NewScopes(w))
      BY <2>3, <3>1 DEF Allowed, NewScopes
    <3>3. wprev[w].scopes = Resolve(override[RoleOf[l]], RoleOf[l])
      BY <2>3 DEF WriteCommit, MappingInv, SnapshotInv, EntryOf
    <3>4. Allowed(l) \ ExpandEffectiveScopes(NewScopes(w)) = {}
      BY <2>3, <3>3 DEF Narrows, RemovedScopes, Allowed
    <3> QED
      BY <3>2, <3>4
  <2> QED
    BY <2>1, <2>2, <2>3
<1>3. LoginInv'
  BY <1>1, <1>2 DEF NarrowInv, LoginInv, WriteCommit, loginVars
<1>4. ASSUME NEW l \in Logins, grants'[l] # Absent PROVE grants[l] = grants'[l]
  BY <1>4 DEF WriteCommit
<1>5. GrantInv'
  BY <1>1, <1>2, <1>4 DEF NarrowInv, GrantInv, WriteCommit, loginVars
<1> QED
  BY <1>3, <1>5 DEF NarrowInv

\* The second sweep closes the window: the role's grants are gone, and its
\* pending logins have been overtaken.
LEMMA NarrowInvLate ==
  ASSUME TypeOK, NarrowInv, NEW w \in Writers, WriteLate(w)
  PROVE  NarrowInv'
<1> USE RoleOfAssumption DEF TypeOK, TxPCs
<1>1. ASSUME NEW r \in Roles, r # wrole[w], InWindow(r) PROVE InWindow(r)'
  <2>1. PICK v \in Writers : wpc[v] = "late" /\ wrole[v] = r
    BY <1>1 DEF InWindow
  <2>2. v # w
    BY <1>1, <2>1
  <2> QED
    BY <2>1, <2>2 DEF InWindow, WriteLate
<1>2. \A l \in Logins : Allowed(l)' = Allowed(l)
  BY DEF Allowed, WriteLate
<1>3. ASSUME NEW l \in Logins, RoleOf[l] = wrole[w]
      PROVE  grants'[l] = Absent /\ sweeps'[RoleOf[l]] = sweeps[RoleOf[l]] + 1
  BY <1>3 DEF WriteLate, GrantsOfRole
<1>4. ASSUME NEW l \in Logins, RoleOf[l] # wrole[w]
      PROVE  grants'[l] = grants[l] /\ sweeps'[RoleOf[l]] = sweeps[RoleOf[l]]
  BY <1>4 DEF WriteLate, GrantsOfRole
<1>5. LoginInv'
  <2> SUFFICES ASSUME NEW l \in Logins
               PROVE  /\ lsweeps'[l] <= sweeps'[RoleOf[l]]
                      /\ lpc'[l] = "save" => \/ lscopes'[l] \subseteq Allowed(l)'
                                             \/ lsweeps'[l] # sweeps'[RoleOf[l]]
                                             \/ InWindow(RoleOf[l])'
    BY DEF LoginInv
  <2>1. lsweeps' = lsweeps /\ lpc' = lpc /\ lscopes' = lscopes
    BY DEF WriteLate, loginVars
  <2>2. CASE RoleOf[l] = wrole[w]
    BY <1>3, <2>1, <2>2 DEF NarrowInv, LoginInv
  <2>3. CASE RoleOf[l] # wrole[w]
    BY <1>1, <1>2, <1>4, <2>1, <2>3 DEF NarrowInv, LoginInv
  <2> QED
    BY <2>2, <2>3
<1>6. GrantInv'
  <2> SUFFICES ASSUME NEW l \in Logins, grants'[l] # Absent
               PROVE  \/ grants'[l].scopes \subseteq Allowed(l)'
                      \/ overtaken'[l] \/ InWindow(RoleOf[l])'
    BY DEF GrantInv
  <2>1. RoleOf[l] # wrole[w] /\ grants'[l] = grants[l]
    BY <1>3, <1>4
  <2>2. overtaken' = overtaken
    BY DEF WriteLate, loginVars
  <2> QED
    BY <1>1, <1>2, <2>1, <2>2 DEF NarrowInv, GrantInv
<1> QED
  BY <1>5, <1>6 DEF NarrowInv

\* A login reads what its role allows; what it saves is excused as its ask was.
LEMMA NarrowInvLogin ==
  ASSUME TypeOK, NarrowInv, NEW l \in Logins, LoginStep(l)
  PROVE  NarrowInv'
<1> USE RoleOfAssumption DEF TypeOK
<1>1. \A r \in Roles : InWindow(r)' <=> InWindow(r)
  BY DEF LoginStep, LoginScopes, LoginSave, writerVars, InWindow
<1>2. \A k \in Logins : Allowed(k)' = Allowed(k)
  BY DEF LoginStep, LoginScopes, LoginSave, Allowed
<1>3. ASSUME NEW ask \in SUBSET KnownScopes, LoginScopes(l, ask) PROVE NarrowInv'
  <2>1. ask \subseteq Allowed(l)
    BY <1>3, ExpandGrows DEF LoginScopes, Allowed
  <2>2. LoginInv'
    BY <1>1, <1>2, <1>3, <2>1 DEF NarrowInv, LoginInv, LoginScopes
  <2>3. GrantInv'
    BY <1>1, <1>2, <1>3 DEF NarrowInv, GrantInv, LoginScopes
  <2> QED
    BY <2>2, <2>3 DEF NarrowInv
<1>4. ASSUME LoginSave(l) PROVE NarrowInv'
  <2>1. LoginInv'
    BY <1>1, <1>2, <1>4 DEF NarrowInv, LoginInv, LoginSave
  <2>2. grants'[l].scopes = lscopes[l]
    BY <1>4 DEF LoginSave, Present
  <2>3. \/ lscopes[l] \subseteq Allowed(l)
        \/ lsweeps[l] # sweeps[RoleOf[l]]
        \/ InWindow(RoleOf[l])
    BY <1>4 DEF NarrowInv, LoginInv, LoginSave
  <2>4. overtaken'[l] = (lsweeps[l] # sweeps[RoleOf[l]])
    BY <1>4 DEF LoginSave
  <2>5. \A k \in Logins \ {l} : grants'[k] = grants[k] /\ overtaken'[k] = overtaken[k]
    BY <1>4 DEF LoginSave
  <2>6. GrantInv'
    <3> SUFFICES ASSUME NEW k \in Logins, grants'[k] # Absent
                 PROVE  \/ grants'[k].scopes \subseteq Allowed(k)'
                        \/ overtaken'[k] \/ InWindow(RoleOf[k])'
      BY DEF GrantInv
    <3>1. CASE k = l
      BY <1>1, <1>2, <2>2, <2>3, <2>4, <3>1
    <3>2. CASE k # l
      BY <1>1, <1>2, <2>5, <3>2 DEF NarrowInv, GrantInv
    <3> QED
      BY <3>1, <3>2
  <2> QED
    BY <2>1, <2>6 DEF NarrowInv
<1> QED
  BY <1>3, <1>4 DEF LoginStep

\* Every step keeps it, provided no pod dies before its second sweep.
LEMMA NarrowInvStep ==
  ~PodsMayDie /\ TypeOK /\ MappingInv /\ NarrowInv /\ [Next]_vars => NarrowInv'
<1> SUFFICES ASSUME ~PodsMayDie, TypeOK, MappingInv, NarrowInv, [Next]_vars
             PROVE  NarrowInv'
  OBVIOUS
<1>1. ASSUME NEW w \in Writers, wpc[w] # "late",
             UNCHANGED <<override, loginVars, grants, sweeps>>,
             \A v \in Writers \ {w} : wpc'[v] = wpc[v] /\ wrole'[v] = wrole[v]
      PROVE  NarrowInv'
  <2>1. \A r \in Roles : InWindow(r) => InWindow(r)'
    BY <1>1 DEF InWindow
  <2> QED
    BY <1>1, <2>1, NarrowInvFrame
<1>2. ASSUME NEW w \in Writers, WriterStep(w) PROVE NarrowInv'
  <2> USE DEF TypeOK, TxPCs
  <2>1. ASSUME NEW role \in Roles, NEW new, WriteBegin(w, role, new) PROVE NarrowInv'
    BY <1>1, <2>1 DEF WriteBegin
  <2>2. CASE WriteLock(w)
    BY <1>1, <2>2 DEF WriteLock
  <2>3. CASE WriteBefore(w)
    BY <1>1, <2>3 DEF WriteBefore
  <2>4. CASE WriteCheck(w)
    BY <1>1, <2>4 DEF WriteCheck
  <2>5. CASE WriteReject(w)
    BY <1>1, <2>5 DEF WriteReject
  <2>6. CASE WriteSweepTx(w)
    BY <1>1, <2>6 DEF WriteSweepTx
  <2>7. CASE WriteCommit(w)
    BY <2>7, NarrowInvCommit
  <2>8. CASE WriteLate(w)
    BY <2>8, NarrowInvLate
  <2>9. CASE WriteAbort(w)
    BY <1>1, <2>9 DEF WriteAbort
  <2> QED
    BY <1>2, <2>1, <2>2, <2>3, <2>4, <2>5, <2>6, <2>7, <2>8, <2>9 DEF WriterStep
<1>3. CASE \E l \in Logins : LoginStep(l)
  BY <1>3, NarrowInvLogin
<1>4. CASE UNCHANGED vars
  <2>1. \A r \in Roles : InWindow(r) => InWindow(r)'
    BY <1>4 DEF vars, InWindow
  <2> QED
    BY <1>4, <2>1, NarrowInvFrame DEF vars, loginVars
<1> QED
  BY <1>2, <1>3, <1>4 DEF Next

\* A narrowing reaches every grant: one that still exceeds its role is about to
\* be swept or comes from a login the narrowing overtook.
THEOREM NarrowingReaches ==
  ASSUME ~PodsMayDie PROVE Spec => []NarrowingReachesGrants
<1>1. Spec => []MappingInv
  BY TypeCorrect, MappingInvInit, MappingInvStep, PTL DEF Spec
<1>2. TypeOK /\ MappingInv /\ NarrowInv /\ [Next]_vars => NarrowInv'
  BY NarrowInvStep
<1>3. Spec => []NarrowInv
  BY <1>1, <1>2, TypeCorrect, NarrowInvInit, PTL DEF Spec
<1>4. NarrowInv => NarrowingReachesGrants
  BY GrantInvIsProperty DEF NarrowInv
<1> QED
  BY <1>3, <1>4, PTL

-----------------------------------------------------------------------------
(* The lock.                                                                *)

\* The advisory lock is held by a writer inside its transaction only.
LockInUse == lock # NoLock => wpc[lock] \in TxPCs

\* Every step keeps it: whatever ends a transaction releases the lock.
LEMMA LockInUseStep == TypeOK /\ LockInUse /\ [Next]_vars => LockInUse'
<1> SUFFICES ASSUME TypeOK, LockInUse, [Next]_vars PROVE LockInUse'
  OBVIOUS
<1> USE NoLockAssumption DEF TypeOK, LockInUse, TxPCs
<1>1. ASSUME NEW w \in Writers, NEW role, NEW new, WriteBegin(w, role, new) PROVE LockInUse'
  BY <1>1 DEF WriteBegin
<1>2. ASSUME NEW w \in Writers, WriteLock(w) PROVE LockInUse'
  BY <1>2 DEF WriteLock
<1>3. ASSUME NEW w \in Writers, WriteBefore(w) \/ WriteCheck(w) \/ WriteSweepTx(w) PROVE LockInUse'
  BY <1>3 DEF WriteBefore, WriteCheck, WriteSweepTx
<1>4. ASSUME NEW w \in Writers, WriteReject(w) \/ WriteCommit(w) \/ WriteAbort(w) PROVE LockInUse'
  BY <1>4 DEF WriteReject, WriteCommit, WriteAbort, Release
<1>5. ASSUME NEW w \in Writers, WriteLate(w) PROVE LockInUse'
  BY <1>5 DEF WriteLate
<1>6. ASSUME NEW l \in Logins, NEW ask, LoginScopes(l, ask) \/ LoginSave(l) PROVE LockInUse'
  BY <1>6 DEF LoginScopes, LoginSave, writerVars
<1>7. CASE UNCHANGED vars
  BY <1>7 DEF vars
<1> QED
  BY <1>1, <1>2, <1>3, <1>4, <1>5, <1>6, <1>7 DEF Next, WriterStep, LoginStep

\* However many writers overlap, fail, are rejected or die, the lock of
\* lockTenantForRoleScopeWrite is never left behind: a writer that waits for it
\* waits for one that is inside its transaction and waits for nobody (the safety
\* half of WritesEnd).
THEOREM LockNeverOrphaned == Spec => []LockInUse
<1>1. Init => LockInUse
  BY DEF Init, LockInUse
<1> QED
  BY <1>1, TypeInit, TypeStep, LockInUseStep, PTL DEF Spec
=============================================================================
