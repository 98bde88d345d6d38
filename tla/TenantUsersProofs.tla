--------------------------- MODULE TenantUsersProofs ---------------------------
(***************************************************************************)
(* Proofs about TenantUsers, for every set of users, logins, identities,   *)
(* e-mail addresses and roles.  Types are kept by any number of requests;  *)
(* that an owner remains and that no member is taken over is proved for    *)
(* one administrative request at a time, for two of them break both.       *)
(***************************************************************************)
EXTENDS TenantUsers, FiniteSetTheorems, TLAPS

OneRequest == \A p, q \in Requests : p = q

-------------------------------------------------------------------------------
(* Types.                                                                   *)

(* A request past its read is about a row that had been inserted.           *)
TypeInv ==
  /\ TypeOK /\ Emails # {}
  /\ \A q \in Requests : quser[q] \in used

LEMMA NoRowType == Emails # {} => NoRow \in Row /\ ~NoRow.there
<1> SUFFICES ASSUME Emails # {} PROVE NoRow \in Row /\ ~NoRow.there
  OBVIOUS
<1>1. AnEmail \in Emails
  BY DEF AnEmail
<1> QED
  BY <1>1, RolesAssumption DEF NoRow, Row, Statuses

LEMMA MergeType ==
  ASSUME NEW db \in Row, NEW snap \in Row, NEW entity \in Row
  PROVE  Merge(db, snap, entity) \in Row
BY DEF Merge, Row

LEMMA TypeInvInit == Init => TypeInv
<1> SUFFICES ASSUME Init PROVE TypeInv
  OBVIOUS
<1>1. PICK u \in Users, e \in Emails :
        /\ used = {u}
        /\ row = [x \in Users |-> IF x # u THEN NoRow
             ELSE [there |-> TRUE, role |-> "owner", status |-> "invited",
                   ext |-> None, email |-> e]]
        /\ quser = [q \in Requests |-> u]
  BY DEF Init
<1>2. NoRow \in Row /\ ~NoRow.there
  BY NoRowType
<1>3. [there |-> TRUE, role |-> "owner", status |-> "invited", ext |-> None, email |-> e] \in Row
  BY RolesAssumption DEF Row, Statuses
<1>4. row \in [Users -> Row] /\ \A x \in Users : row[x].there => x \in used
  BY <1>1, <1>2, <1>3
<1> QED
  BY <1>1, <1>2, <1>4 DEF Init, TypeInv, TypeOK, RequestPCs, CallbackPCs

(* The end of a request forgets its copies.                                 *)
LEMMA FinishType ==
  ASSUME TypeInv, NEW q \in Requests, Finish(q)
  PROVE  /\ qpc' \in [Requests -> RequestPCs]
         /\ qcopy' \in [Requests -> Row] /\ qsnap' \in [Requests -> Row]
BY NoRowType DEF TypeInv, TypeOK, Finish, RequestPCs

LEMMA InsertType ==
  ASSUME TypeInv, NEW u \in Users, NEW new \in Row, Insert(u, new)
  PROVE  /\ row' \in [Users -> Row] /\ used' \subseteq Users /\ used \subseteq used'
         /\ \A x \in Users : row'[x].there => x \in used'
         /\ ~Exists(u) /\ \A x \in Users : x # u => row'[x] = row[x]
         /\ row'[u] \in {row[u], new}
BY DEF TypeInv, TypeOK, Insert, Exists

LEMMA TypeInvRequest ==
  ASSUME TypeInv, NEW q \in Requests, RequestStep(q)
  PROVE  TypeInv'
<1> USE DEF TypeInv, TypeOK
<1>1. ASSUME NEW caller \in Users \cup {Platform}, NEW e \in Emails, NEW r \in Roles,
             InviteRead(q, caller, e, r)
      PROVE  TypeInv'
  <2>1. [there |-> TRUE, role |-> r, email |-> e, status |-> "invited", ext |-> None] \in Row
    BY DEF Row, Statuses
  <2> QED
    BY <1>1, <2>1 DEF InviteRead, RequestPCs
<1>2. ASSUME NEW caller \in Users \cup {Platform}, NEW u \in Users, NEW r \in Roles \cup {"keep"},
             NEW s \in Statuses, NEW e \in Emails, UpdateRead(q, caller, u, r, s, e)
      PROVE  TypeInv'
  <2> DEFINE newRole == IF r = "keep" THEN row[u].role ELSE r
  <2>1. newRole \in Roles /\ row[u] \in Row /\ u \in used
    BY <1>2 DEF Row, UpdateRead, Exists
  <2>2. [row[u] EXCEPT !.role = newRole, !.status = s, !.email = e] \in Row
    BY <2>1 DEF Row
  <2>3. qcopy' \in [Requests -> Row]
    BY <1>2, <2>2 DEF UpdateRead
  <2> QED
    BY <1>2, <2>1, <2>3 DEF UpdateRead, RequestPCs
<1>3. ASSUME NEW caller \in Users \cup {Platform}, NEW u \in Users, DeleteRead(q, caller, u)
      PROVE  TypeInv'
  BY <1>3 DEF DeleteRead, Exists, RequestPCs
<1>4. ASSUME NEW u \in Users, InviteInsert(q, u) PROVE TypeInv'
  <2>1. Insert(u, qcopy[q]) /\ qcopy[q] \in Row /\ Finish(q) /\ UNCHANGED <<quser, cpc>>
    BY <1>4 DEF InviteInsert
  <2>2. /\ row' \in [Users -> Row] /\ used' \subseteq Users /\ used \subseteq used'
        /\ \A x \in Users : row'[x].there => x \in used'
    BY <2>1, InsertType
  <2> QED
    BY <2>1, <2>2, FinishType
<1>5. CASE Count(q)
  BY <1>5, FinishType DEF Count, RequestPCs
<1>6. CASE SaveLoad(q)
  BY <1>6 DEF SaveLoad, RequestPCs
<1>7. CASE SaveWrite(q)
  <2> DEFINE u == quser[q]
             new == Merge(row[u], qsnap[q], qcopy[q])
  <2>1. new \in Row /\ u \in used
    BY MergeType
  <2>2. row' = row \/ row' = [row EXCEPT ![u] = new]
    BY <1>7 DEF SaveWrite
  <2> HIDE DEF new
  <2>3. row' \in [Users -> Row] /\ \A x \in Users : row'[x].there => x \in used
    BY <2>1, <2>2
  <2> QED
    BY <1>7, <2>3, FinishType DEF SaveWrite
<1>8. CASE DeleteWrite(q)
  <2>1. row' \in [Users -> Row] /\ \A x \in Users : row'[x].there => x \in used
    BY <1>8, NoRowType DEF DeleteWrite
  <2> QED
    BY <1>8, <2>1, FinishType DEF DeleteWrite
<1>9. CASE RequestAbort(q)
  BY <1>9, FinishType DEF RequestAbort
<1> QED
  BY <1>1, <1>2, <1>3, <1>4, <1>5, <1>6, <1>7, <1>8, <1>9 DEF RequestStep

(* A login changes a row only by claiming it, or by inserting it.           *)
LEMMA CallbackRows ==
  ASSUME TypeInv, NEW c \in Callbacks, CallbackStep(c)
  PROVE  /\ TypeInv' /\ UNCHANGED requestVars
         /\ \A u \in Users : Exists(u) =>
              /\ row'[u].there /\ row'[u].role = row[u].role
              /\ row[u].ext # None => row'[u].ext = row[u].ext
<1> USE DEF TypeInv, TypeOK, Goto, requestVars
<1>1. SubjectOf[c] \in Subjects
  BY ClaimsAssumption
<1>2. CASE CallbackFind(c) \/ CallbackClaimed(c) \/ CallbackLookup(c) \/ CallbackCreate(c)
  <2>1. UNCHANGED <<row, used, requestVars>>
    BY <1>2 DEF CallbackFind, CallbackClaimed, CallbackLookup, CallbackCreate
  <2>2. cpc' \in [Callbacks -> CallbackPCs]
    BY <1>2 DEF CallbackFind, CallbackClaimed, CallbackLookup, CallbackCreate, CallbackPCs
  <2> QED
    BY <2>1, <2>2 DEF Exists
<1>3. CASE CallbackClaim(c)
  <2> DEFINE s == SubjectOf[c]
             rows == [u \in Users |-> IF u \in Claimable(s)
                        THEN [row[u] EXCEPT !.ext = s, !.status = "active"] ELSE row[u]]
  <2>1. ASSUME NEW u \in Users
        PROVE  /\ rows[u] \in Row /\ rows[u].there = row[u].there /\ rows[u].role = row[u].role
               /\ row[u].ext # None => rows[u].ext = row[u].ext
    BY <1>1 DEF Row, Statuses, Claimable
  <2>2. rows \in [Users -> Row]
    BY <2>1
  <2>3. row' = rows \/ row' = row
    BY <1>3 DEF CallbackClaim
  <2> HIDE DEF rows
  <2>4. /\ row' \in [Users -> Row]
        /\ \A u \in Users : /\ row'[u].there = row[u].there /\ row'[u].role = row[u].role
                            /\ row[u].ext # None => row'[u].ext = row[u].ext
    BY <2>1, <2>2, <2>3
  <2> QED
    BY <1>3, <2>4 DEF CallbackClaim, CallbackPCs, Exists
<1>4. ASSUME NEW u \in Users, CallbackInsert(c, u)
      PROVE  /\ TypeInv' /\ UNCHANGED requestVars
             /\ \A x \in Users : Exists(x) => row'[x] = row[x]
  <2> DEFINE s == SubjectOf[c]
             new == [there |-> TRUE, role |-> "member", status |-> "active",
                     ext |-> s, email |-> EmailOf[s]]
  <2>1. new \in Row
    BY <1>1, ClaimsAssumption, RolesAssumption DEF Row, Statuses
  <2>2. Insert(u, new) /\ cpc' \in [Callbacks -> CallbackPCs] /\ UNCHANGED requestVars
    BY <1>4 DEF CallbackInsert, CallbackPCs
  <2> HIDE DEF new
  <2>3. /\ row' \in [Users -> Row] /\ used' \subseteq Users /\ used \subseteq used'
        /\ \A x \in Users : row'[x].there => x \in used'
        /\ ~Exists(u) /\ \A x \in Users : x # u => row'[x] = row[x]
    BY <2>1, <2>2, InsertType
  <2> QED
    BY <2>2, <2>3
<1> QED
  BY <1>2, <1>3, <1>4 DEF CallbackStep, Exists

LEMMA TypeInvNext == TypeInv /\ [Next]_vars => TypeInv'
<1> SUFFICES ASSUME TypeInv, [Next]_vars PROVE TypeInv'
  OBVIOUS
<1>1. CASE UNCHANGED vars
  BY <1>1 DEF vars, TypeInv, TypeOK
<1> QED
  BY <1>1, TypeInvRequest, CallbackRows DEF Next

(* Rows, requests and logins keep their types and a row has an id that was  *)
(* generated for it, with any number of overlapping requests and logins.    *)
THEOREM TypeCorrect == Spec => []TypeOK
<1>1. TypeInv => TypeOK
  BY DEF TypeInv
<1> QED
  BY <1>1, TypeInvInit, TypeInvNext, PTL DEF Spec

-------------------------------------------------------------------------------
(* The last owner, and the identity of a member.                            *)

(* The request past its read: its row is there, it holds the row's identity *)
(* or none, and when it is about to take an owner away there is another.    *)
RequestFresh(q) ==
  LET u == quser[q]
      another == \E v \in Owners : v # u
  IN  /\ qpc[q] \in {"count.update", "load", "write", "count.delete", "delete"} => Exists(u)
      /\ qpc[q] \in {"count.update", "load", "write"} =>
           qcopy[q].there /\ qcopy[q].ext \in {None, row[u].ext}
      /\ qpc[q] \in {"load", "write"} /\ row[u].role = "owner" =>
           qcopy[q].role = "owner" \/ another
      /\ qpc[q] = "write" => qsnap[q].there
      /\ qpc[q] = "delete" /\ row[u].role = "owner" => another

MemberInv == TypeInv /\ OwnerRemains /\ \A q \in Requests : RequestFresh(q)

(* Linked rows keep their identity or lose it.                              *)
Kept == \A u \in Users : Exists(u) /\ row[u].ext # None /\ row'[u].there
                         => row'[u].ext \in {row[u].ext, None}

LEMMA AnotherOwner ==
  ASSUME ~IsLastOwner, NEW u
  PROVE  \E v \in Owners : v # u
<1> SUFFICES ASSUME Owners \subseteq {u} PROVE FALSE
  OBVIOUS
<1>1. Owners = {} \/ Owners = {u}
  OBVIOUS
<1>2. Cardinality(Owners) \in {0, 1}
  BY <1>1, FS_EmptySet, FS_Singleton
<1> QED
  BY <1>2 DEF IsLastOwner

(* Where rows stay, keep their roles, and keep identities they have, the    *)
(* request is as fresh as it was and the owners remain.                     *)
LEMMA RowsKeepInv ==
  ASSUME MemberInv, TypeInv', UNCHANGED requestVars,
         \A u \in Users : Exists(u) =>
              /\ row'[u].there /\ row'[u].role = row[u].role
              /\ row[u].ext # None => row'[u].ext = row[u].ext
  PROVE  MemberInv' /\ Kept
<1> USE DEF MemberInv, TypeInv, TypeOK
<1>1. Owners \subseteq Owners'
  BY DEF Owners, Exists
<1>2. OwnerRemains'
  BY <1>1 DEF OwnerRemains
<1>3. ASSUME NEW q \in Requests PROVE RequestFresh(q)'
  <2>1. RequestFresh(q) /\ quser[q] \in Users
    OBVIOUS
  <2> QED
    BY <1>1, <2>1 DEF RequestFresh, requestVars, Exists
<1>4. Kept
  BY DEF Kept, Exists
<1> QED
  BY <1>2, <1>3, <1>4

(* The steps of the one request.                                            *)
LEMMA MemberInvRequest ==
  ASSUME OneRequest, MemberInv, NEW q \in Requests, RequestStep(q)
  PROVE  MemberInv' /\ Kept
<1>1. TypeInv'
  BY TypeInvRequest DEF MemberInv
<1>2. \A p \in Requests : p = q
  BY DEF OneRequest
<1>3. TypeInv /\ RequestFresh(q) /\ OwnerRemains
  BY DEF MemberInv
<1> SUFFICES OwnerRemains' /\ Kept /\ RequestFresh(q)'
  BY <1>1, <1>2 DEF MemberInv
<1> USE DEF TypeInv, TypeOK
<1>4. ASSUME NEW caller \in Users \cup {Platform}, NEW e \in Emails, NEW r \in Roles,
             InviteRead(q, caller, e, r)
      PROVE  OwnerRemains' /\ Kept /\ RequestFresh(q)'
  BY <1>3, <1>4 DEF InviteRead, OwnerRemains, Owners, Exists, Kept, RequestFresh
<1>5. ASSUME NEW caller \in Users \cup {Platform}, NEW u \in Users, NEW r \in Roles \cup {"keep"},
             NEW s \in Statuses, NEW e \in Emails, UpdateRead(q, caller, u, r, s, e)
      PROVE  OwnerRemains' /\ Kept /\ RequestFresh(q)'
  <2>1. /\ row' = row /\ quser'[q] = u /\ Exists(u) /\ row[u] \in Row
        /\ qcopy'[q].there = row[u].there /\ qcopy'[q].ext = row[u].ext
    BY <1>3, <1>5 DEF UpdateRead, Row
  <2>2. /\ qpc'[q] \in {"count.update", "load"}
        /\ qpc'[q] = "load" /\ row[u].role = "owner" => qcopy'[q].role = "owner"
    BY <1>3, <1>5, <2>1 DEF UpdateRead, Row
  <2>3. RequestFresh(q)'
    BY <2>1, <2>2 DEF RequestFresh, Exists
  <2> QED
    BY <1>3, <2>1, <2>3 DEF OwnerRemains, Owners, Exists, Kept
<1>6. ASSUME NEW caller \in Users \cup {Platform}, NEW u \in Users, DeleteRead(q, caller, u)
      PROVE  OwnerRemains' /\ Kept /\ RequestFresh(q)'
  <2>1. /\ row' = row /\ quser'[q] = u /\ Exists(u)
        /\ qpc'[q] = IF row[u].role = "owner" THEN "count.delete" ELSE "delete"
    BY <1>3, <1>6 DEF DeleteRead
  <2>2. RequestFresh(q)'
    BY <2>1 DEF RequestFresh, Exists
  <2> QED
    BY <1>3, <2>1, <2>2 DEF OwnerRemains, Owners, Exists, Kept
<1>7. ASSUME NEW u \in Users, InviteInsert(q, u) PROVE OwnerRemains' /\ Kept /\ RequestFresh(q)'
  <2>1. Insert(u, qcopy[q]) /\ qcopy[q] \in Row /\ qpc'[q] = "idle"
    BY <1>3, <1>7 DEF InviteInsert, Finish
  <2>2. ~Exists(u) /\ \A x \in Users : x # u => row'[x] = row[x]
    BY <1>3, <2>1, InsertType
  <2>3. Owners \subseteq Owners'
    BY <2>2 DEF Owners, Exists
  <2> QED
    BY <1>3, <2>1, <2>2, <2>3 DEF OwnerRemains, Exists, Kept, RequestFresh
<1>8. CASE Count(q)
  <2>1. row' = row /\ quser' = quser
    BY <1>3, <1>8 DEF Count
  <2>2. CASE qpc'[q] = "idle"
    BY <1>3, <2>1, <2>2 DEF OwnerRemains, Owners, Exists, Kept, RequestFresh
  <2>3. CASE qpc'[q] # "idle"
    <3>1. ~IsLastOwner /\ UNCHANGED qcopy /\ qpc'[q] \in {"load", "delete"}
          /\ (qpc'[q] = "load" => qpc[q] = "count.update")
          /\ (qpc'[q] = "delete" => qpc[q] = "count.delete")
      BY <1>3, <1>8, <2>3 DEF Count, Finish
    <3>2. \E v \in Owners : v # quser[q]
      BY <3>1, AnotherOwner
    <3>3. \E v \in Owners' : v # quser[q]
      BY <2>1, <3>2 DEF Owners, Exists
    <3>4. RequestFresh(q)'
      BY <1>3, <2>1, <3>1, <3>3 DEF RequestFresh, Exists
    <3> QED
      BY <1>3, <2>1, <3>3, <3>4 DEF OwnerRemains, Kept, Exists
  <2> QED
    BY <2>2, <2>3
<1>9. CASE SaveLoad(q)
  <2>1. UNCHANGED <<row, quser, qcopy>> /\ qsnap'[q] = row[quser[q]] /\ qpc'[q] = "write"
        /\ qpc[q] = "load"
    BY <1>3, <1>9 DEF SaveLoad
  <2> QED
    BY <1>3, <2>1 DEF OwnerRemains, Owners, Exists, Kept, RequestFresh
<1>10. CASE SaveWrite(q)
  <2> DEFINE u == quser[q]
             new == Merge(row[u], qsnap[q], qcopy[q])
  <2>1. /\ u \in Users /\ row[u] \in Row /\ qsnap[q] \in Row /\ qcopy[q] \in Row
        /\ qpc[q] = "write" /\ row[u].there /\ qsnap[q].there /\ qcopy[q].there
        /\ qcopy[q].ext \in {None, row[u].ext}
        /\ row[u].role = "owner" => qcopy[q].role = "owner" \/ \E v \in Owners : v # u
    BY <1>3, <1>10 DEF SaveWrite, RequestFresh, Exists
  <2>2. /\ new.there /\ new.ext \in {None, row[u].ext}
        /\ new.role \in {row[u].role, qcopy[q].role}
    BY <2>1 DEF Merge, Row
  <2>3. qpc'[q] = "idle" /\ (row' = row \/ row' = [row EXCEPT ![u] = new])
    BY <1>3, <1>10 DEF SaveWrite, Finish
  <2> HIDE DEF new, u
  <2>4. RequestFresh(q)'
    BY <2>3 DEF RequestFresh
  <2>5. Kept
    BY <1>3, <2>1, <2>2, <2>3 DEF Kept, Exists
  <2>6. OwnerRemains'
    <3>1. CASE row' = row
      BY <1>3, <3>1 DEF OwnerRemains, Owners, Exists
    <3>2. CASE row' = [row EXCEPT ![u] = new] /\ row[u].role = "owner" /\ qcopy[q].role = "owner"
      <4>1. u \in Owners'
        BY <2>1, <2>2, <3>2 DEF Owners, Exists
      <4> QED
        BY <4>1 DEF OwnerRemains
    <3>3. CASE /\ row' = [row EXCEPT ![u] = new]
               /\ row[u].role # "owner" \/ \E v \in Owners : v # u
      <4>1. PICK v \in Owners : v # u
        BY <1>3, <3>3 DEF OwnerRemains, Owners
      <4>2. v \in Owners'
        BY <3>3, <4>1 DEF Owners, Exists
      <4> QED
        BY <4>2 DEF OwnerRemains
    <3> QED
      BY <2>1, <2>3, <3>1, <3>2, <3>3
  <2> QED
    BY <2>4, <2>5, <2>6
<1>11. CASE DeleteWrite(q)
  <2> DEFINE u == quser[q]
  <2>1. u \in Users /\ qpc'[q] = "idle" /\ row' = [row EXCEPT ![u] = NoRow] /\ ~NoRow.there
    BY <1>3, <1>11, NoRowType DEF DeleteWrite, Finish
  <2>2. PICK v \in Owners : v # u
    BY <1>3, <1>11 DEF DeleteWrite, RequestFresh, OwnerRemains, Owners
  <2>3. v \in Owners'
    BY <2>1, <2>2 DEF Owners, Exists
  <2> QED
    BY <2>1, <2>3 DEF OwnerRemains, Kept, RequestFresh, Exists
<1>12. CASE RequestAbort(q)
  BY <1>3, <1>12 DEF RequestAbort, Finish, OwnerRemains, Owners, Exists, Kept, RequestFresh
<1> QED
  BY <1>4, <1>5, <1>6, <1>7, <1>8, <1>9, <1>10, <1>11, <1>12 DEF RequestStep

LEMMA MemberInvNext == OneRequest /\ MemberInv /\ [Next]_vars => MemberInv' /\ Kept
<1> SUFFICES ASSUME OneRequest, MemberInv, [Next]_vars PROVE MemberInv' /\ Kept
  OBVIOUS
<1>1. ASSUME NEW c \in Callbacks, CallbackStep(c) PROVE MemberInv' /\ Kept
  BY <1>1, CallbackRows, RowsKeepInv DEF MemberInv
<1>2. CASE UNCHANGED vars
  <2>1. TypeInv' /\ UNCHANGED <<row, requestVars>>
    BY <1>2, TypeInvNext DEF MemberInv, vars, requestVars
  <2> QED
    BY <2>1, RowsKeepInv DEF Exists
<1> QED
  BY <1>1, <1>2, MemberInvRequest DEF Next

LEMMA MemberInvInit == Init => MemberInv
<1> SUFFICES ASSUME Init PROVE OwnerRemains /\ \A q \in Requests : RequestFresh(q)
  BY TypeInvInit DEF MemberInv
<1>1. OwnerRemains
  BY DEF Init, OwnerRemains, Owners, Exists
<1>2. \A q \in Requests : RequestFresh(q)
  BY DEF Init, RequestFresh
<1> QED
  BY <1>1, <1>2

(* With administrators' requests one at a time and any number of logins     *)
(* beside them, the tenant keeps an owner: the count before a demotion or a *)
(* removal is still true when the row is written (update, delete).          *)
THEOREM OwnerAlwaysRemains ==
  ASSUME OneRequest
  PROVE  Spec => []MembershipSound
<1>1. MemberInv => MembershipSound
  BY DEF MemberInv, MembershipSound, TypeInv
<1> QED
  BY <1>1, MemberInvInit, MemberInvNext, PTL DEF Spec

(* Under the same condition no step links a member to a second identity:    *)
(* neither a claim, which takes unlinked rows only, nor a save of an entity *)
(* read before the claim (claimInvitedByEmail, save).                       *)
THEOREM MembersNeverTakenOver ==
  ASSUME OneRequest
  PROVE  Spec => NeverTakenOver
<1>1. MemberInv /\ [Next]_vars => [Kept]_vars
  BY MemberInvNext
<1> QED
  BY <1>1, MemberInvInit, MemberInvNext, PTL DEF Spec, NeverTakenOver, Kept
===============================================================================
