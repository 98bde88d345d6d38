----------------------------- MODULE TenantUsers -----------------------------
(***************************************************************************)
(* The members of one tenant: TenantUserService (invite, update, delete    *)
(* and the last-owner rule), TenantMembershipGuard in front of it, and the *)
(* callback of the federated login, which finds, claims or creates the     *)
(* member it signs in (OidcInteractionController.callback).                *)
(*                                                                         *)
(* A request is a PATCH, DELETE or POST on /tenants/:tenantId/users; a     *)
(* callback is one return from the upstream identity provider.  An await   *)
(* ends a step.  E-mail addresses are values with a case-folding function. *)
(***************************************************************************)
EXTENDS Integers, FiniteSets

CONSTANTS Users,      \* ids of tenant_user rows; an id is generated once
          Requests, Callbacks,
          Subjects,   \* upstream identities (the sub claim)
          Emails,
          Fold,       \* LOWER(email)
          EmailOf,    \* the email claim of each subject
          SubjectOf,  \* the subject each callback is for
          Roles,      \* the roles that are told apart, "owner" among them
          Platform,   \* the platform-admin caller, who has no tenant_user row
          None        \* NULL: external_user_id of a member who never logged in

ASSUME RolesAssumption == {"owner", "member"} \subseteq Roles
ASSUME FoldAssumption == Fold \in [Emails -> Emails]
ASSUME ClaimsAssumption == /\ EmailOf \in [Subjects -> Emails]
                           /\ SubjectOf \in [Callbacks -> Subjects]
ASSUME NoneAssumption == None \notin Subjects /\ Platform \notin Users

Statuses == {"active", "invited", "disabled"}
ManagerRoles == {"owner", "admin"}
AnEmail == CHOOSE e \in Emails : TRUE

Row == [there : BOOLEAN, role : Roles, status : Statuses,
        ext : Subjects \cup {None}, email : Emails]
NoRow == [there |-> FALSE, role |-> "member", status |-> "invited",
          ext |-> None, email |-> AnEmail]

VARIABLES
  row,        \* tenant_user
  used,       \* ids generated so far
  qpc, quser, \* each request: where it is, the row it is about
  qcopy,      \* the entity it changes or inserts
  qsnap,      \* the row save() loaded
  cpc         \* where each callback is, or how it ended

requestVars == <<qpc, quser, qcopy, qsnap>>
vars == <<row, used, qpc, quser, qcopy, qsnap, cpc>>

RequestPCs == {"idle", "invite", "count.update", "load", "write",
               "count.delete", "delete"}
CallbackPCs == {"find", "claim", "claimed", "lookup", "create", "insert",
                "bound", "refused", "collided"}

TypeOK ==
  /\ row \in [Users -> Row]
  /\ \A u \in Users : row[u].there => u \in used
  /\ used \subseteq Users
  /\ qpc \in [Requests -> RequestPCs] /\ quser \in [Requests -> Users]
  /\ qcopy \in [Requests -> Row] /\ qsnap \in [Requests -> Row]
  /\ cpc \in [Callbacks -> CallbackPCs]

Exists(u) == row[u].there
Owners == {u \in Users : Exists(u) /\ row[u].role = "owner"}
WithSubject(s) == {u \in Users : Exists(u) /\ row[u].ext = s}

\* The two unique constraints; NULLs do not collide.
Unique(rows) ==
  \A u, v \in {x \in Users : rows[x].there} : u # v =>
     rows[u].email # rows[v].email /\ (rows[u].ext = None \/ rows[u].ext # rows[v].ext)

\* A new tenant: TenantService.create has invited its owner, by e-mail.
Init ==
  /\ \E u \in Users, e \in Emails :
        /\ used = {u}
        /\ row = [x \in Users |-> IF x # u THEN NoRow
             ELSE [there |-> TRUE, role |-> "owner", status |-> "invited",
                   ext |-> None, email |-> e]]
        /\ quser = [q \in Requests |-> u]
  /\ qpc = [q \in Requests |-> "idle"]
  /\ qcopy = [q \in Requests |-> NoRow] /\ qsnap = [q \in Requests |-> NoRow]
  /\ cpc = [c \in Callbacks |-> "find"]

-----------------------------------------------------------------------------
(* Requests.  A user token's sub is the id of the tenant_user row.          *)

\* TenantMembershipGuard.canActivate: the row whose external_user_id is the sub.
MembershipGuard(caller) ==
  \E u \in Users : Exists(u) /\ row[u].ext = caller /\ row[u].status = "active"
                   /\ row[u].role \in ManagerRoles

MayManage(caller) == caller = Platform \/ MembershipGuard(caller)

Finish(q) ==
  /\ qpc' = [qpc EXCEPT ![q] = "idle"]
  /\ qcopy' = [qcopy EXCEPT ![q] = NoRow]
  /\ qsnap' = [qsnap EXCEPT ![q] = NoRow]

\* invite: 409 if a member has exactly this e-mail address.
InviteRead(q, caller, email, role) ==
  /\ qpc[q] = "idle" /\ MayManage(caller)
  /\ \A u \in Users : Exists(u) => row[u].email # email
  /\ qcopy' = [qcopy EXCEPT ![q] = [there |-> TRUE, role |-> role, email |-> email,
                                    status |-> "invited", ext |-> None]]
  /\ qpc' = [qpc EXCEPT ![q] = "invite"]
  /\ UNCHANGED <<row, used, quser, qsnap, cpc>>

\* The row gets a fresh id, unless a constraint refuses it.
Insert(u, new) ==
  /\ u \notin used
  /\ used' = used \cup {u}
  /\ LET rows == [row EXCEPT ![u] = new] IN row' = IF Unique(rows) THEN rows ELSE row

InviteInsert(q, u) ==
  /\ qpc[q] = "invite"
  /\ Insert(u, qcopy[q])
  /\ Finish(q)
  /\ UNCHANGED <<quser, cpc>>

\* update: the entity is read, and changed in memory; "keep" leaves its role.
\* Nobody changes their own role; demoting an owner is counted first.
UpdateRead(q, caller, u, role, status, email) ==
  /\ qpc[q] = "idle" /\ MayManage(caller) /\ Exists(u)
  /\ role = "keep" \/ caller # u
  /\ quser' = [quser EXCEPT ![q] = u]
  /\ LET newRole == IF role = "keep" THEN row[u].role ELSE role
     IN  /\ qcopy' = [qcopy EXCEPT ![q] =
              [row[u] EXCEPT !.role = newRole, !.status = status, !.email = email]]
         /\ qpc' = [qpc EXCEPT ![q] =
              IF row[u].role = "owner" /\ newRole # "owner" THEN "count.update"
                                                           ELSE "load"]
  /\ UNCHANGED <<row, used, qsnap, cpc>>

\* MUTANT of IsLastOwner: off by one.
IsLastOwner_Zero == Cardinality(Owners) < 1

\* countByTenantAndRole: owners of any status.
IsLastOwner == Cardinality(Owners) <= 1

\* 409 for the last owner.
Count(q) ==
  /\ qpc[q] \in {"count.update", "count.delete"}
  /\ IF IsLastOwner THEN Finish(q)
     ELSE /\ qpc' = [qpc EXCEPT ![q] = IF @ = "count.update" THEN "load" ELSE "delete"]
          /\ UNCHANGED <<qcopy, qsnap>>
  /\ UNCHANGED <<row, used, quser, cpc>>

\* save(): SELECT the row, then INSERT or UPDATE the columns that differ.
SaveLoad(q) ==
  /\ qpc[q] = "load"
  /\ qsnap' = [qsnap EXCEPT ![q] = row[quser[q]]]
  /\ qpc' = [qpc EXCEPT ![q] = "write"]
  /\ UNCHANGED <<row, used, quser, qcopy, cpc>>

Merge(db, snap, entity) ==
  IF ~snap.there THEN entity
  ELSE IF ~db.there THEN db
  ELSE [db EXCEPT !.role = IF entity.role # snap.role THEN entity.role ELSE @,
                  !.status = IF entity.status # snap.status THEN entity.status ELSE @,
                  !.ext = IF entity.ext # snap.ext THEN entity.ext ELSE @,
                  !.email = IF entity.email # snap.email THEN entity.email ELSE @]

SaveWrite(q) ==
  /\ qpc[q] = "write"
  /\ LET rows == [row EXCEPT ![quser[q]] = Merge(@, qsnap[q], qcopy[q])]
     IN  row' = IF Unique(rows) THEN rows ELSE row
  /\ Finish(q)
  /\ UNCHANGED <<used, quser, cpc>>

DeleteRead(q, caller, u) ==
  /\ qpc[q] = "idle" /\ MayManage(caller) /\ Exists(u)
  /\ quser' = [quser EXCEPT ![q] = u]
  /\ qpc' = [qpc EXCEPT ![q] = IF row[u].role = "owner" THEN "count.delete" ELSE "delete"]
  /\ UNCHANGED <<row, used, qcopy, qsnap, cpc>>

DeleteWrite(q) ==
  /\ qpc[q] = "delete"
  /\ row' = [row EXCEPT ![quser[q]] = NoRow]
  /\ Finish(q)
  /\ UNCHANGED <<used, quser, cpc>>

\* A database call throws or the pod dies.
RequestAbort(q) ==
  /\ qpc[q] # "idle"
  /\ Finish(q)
  /\ UNCHANGED <<row, used, quser, cpc>>

-----------------------------------------------------------------------------
(* The callback of a federated login.                                       *)

Goto(c, pc) == cpc' = [cpc EXCEPT ![c] = pc]

\* findActiveByExternalUserId: a known active member is bound.
CallbackFind(c) ==
  /\ cpc[c] = "find"
  /\ IF \E u \in WithSubject(SubjectOf[c]) : row[u].status = "active"
     THEN Goto(c, "bound") ELSE Goto(c, "claim")
  /\ UNCHANGED <<row, used, requestVars>>

\* MUTANT of Claimable: the status is enough, a linked row may be claimed again.
Claimable_Linked(s) ==
  {u \in Users : Exists(u) /\ row[u].status = "invited"
                 /\ Fold[row[u].email] = Fold[EmailOf[s]]}

\* The WHERE clause of claimInvitedByEmail.
Claimable(s) ==
  {u \in Users : Exists(u) /\ row[u].status = "invited" /\ row[u].ext = None
                 /\ Fold[row[u].email] = Fold[EmailOf[s]]}

\* One UPDATE links and activates every matching row, or fails as a whole.
CallbackClaim(c) ==
  LET s == SubjectOf[c]
      rows == [u \in Users |-> IF u \in Claimable(s)
                 THEN [row[u] EXCEPT !.ext = s, !.status = "active"] ELSE row[u]]
  IN  /\ cpc[c] = "claim"
      /\ row' = IF Unique(rows) THEN rows ELSE row
      /\ Goto(c, IF ~Unique(rows) THEN "collided"
                 ELSE IF Claimable(s) = {} THEN "lookup" ELSE "claimed")
      /\ UNCHANGED <<used, requestVars>>

\* The claimed row is read back by subject; gone, it counts as not claimed.
CallbackClaimed(c) ==
  /\ cpc[c] = "claimed"
  /\ Goto(c, IF WithSubject(SubjectOf[c]) # {} THEN "bound" ELSE "lookup")
  /\ UNCHANGED <<row, used, requestVars>>

\* findByTenantAndExternalUserId: a member who is not active is refused.
CallbackLookup(c) ==
  /\ cpc[c] = "lookup"
  /\ LET known == WithSubject(SubjectOf[c])
     IN  Goto(c, IF known = {} THEN "create"
                 ELSE IF \E u \in known : row[u].status = "active" THEN "bound"
                 ELSE "refused")
  /\ UNCHANGED <<row, used, requestVars>>

\* TenantUserService.create: 409 if the subject is a member by now.
CallbackCreate(c) ==
  /\ cpc[c] = "create"
  /\ Goto(c, IF WithSubject(SubjectOf[c]) = {} THEN "insert" ELSE "collided")
  /\ UNCHANGED <<row, used, requestVars>>

CallbackInsert(c, u) ==
  LET s == SubjectOf[c]
      new == [there |-> TRUE, role |-> "member", status |-> "active",
              ext |-> s, email |-> EmailOf[s]]
  IN  /\ cpc[c] = "insert"
      /\ Insert(u, new)
      /\ Goto(c, IF Unique([row EXCEPT ![u] = new]) THEN "bound" ELSE "collided")
      /\ UNCHANGED requestVars

-----------------------------------------------------------------------------
RequestStep(q) ==
  \/ \E caller \in Users \cup {Platform} :
       \/ \E e \in Emails, r \in Roles : InviteRead(q, caller, e, r)
       \/ \E u \in Users, r \in Roles \cup {"keep"}, s \in Statuses, e \in Emails :
             UpdateRead(q, caller, u, r, s, e)
       \/ \E u \in Users : DeleteRead(q, caller, u)
  \/ \E u \in Users : InviteInsert(q, u)
  \/ Count(q) \/ SaveLoad(q) \/ SaveWrite(q) \/ DeleteWrite(q) \/ RequestAbort(q)

CallbackStep(c) ==
  \/ CallbackFind(c) \/ CallbackClaim(c) \/ CallbackClaimed(c) \/ CallbackLookup(c)
  \/ CallbackCreate(c) \/ \E u \in Users : CallbackInsert(c, u)

Next == \/ \E q \in Requests : RequestStep(q)
        \/ \E c \in Callbacks : CallbackStep(c)

Spec == Init /\ [][Next]_vars

-----------------------------------------------------------------------------
(* Properties.                                                              *)

\* The tenant keeps an owner: "Cannot remove the tenant's last owner", "Cannot
\* change the role of the tenant's last owner" (update, delete).
OwnerRemains == Owners # {}

\* The members of a tenant: rows keep their shape, ids are not reused and an
\* owner remains, whatever logins run beside the administrator's request.
MembershipSound == TypeOK /\ OwnerRemains

\* A member is never taken over: no step links a linked row to another identity,
\* whatever logins and updates interleave (claimInvitedByEmail's conditions).
NeverTakenOver ==
  [][\A u \in Users : Exists(u) /\ row[u].ext # None /\ row'[u].there
        => row'[u].ext \in {row[u].ext, None}]_vars

\* An active owner or admin may manage the tenant's users with their own token
\* (TenantMembershipGuard).
ManagersPassGuard ==
  \A u \in Users : Exists(u) /\ row[u].status = "active" /\ row[u].ext # None
                   /\ row[u].role \in ManagerRoles => MembershipGuard(u)
=============================================================================
