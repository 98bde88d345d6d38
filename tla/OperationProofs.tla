--------------------------- MODULE OperationProofs ---------------------------
(***************************************************************************)
(* Proofs about Operation, for every set of requests, pollers and markers, *)
(* every set of tenant configurations and every batch size.                *)
(***************************************************************************)
EXTENDS OperationRefinement, TLAPS

USE DEF Viewers, Unviewed, Idle

(* A time-to-live is a natural number whatever the tenant's overrides are   *)
(* (resolveOperationTtlMs falls back to the default for anything else).     *)
LEMMA ExpiryType ==
  ASSUME NEW s \in States, NEW created \in Int, NEW viewed \in Int,
         NEW c \in Configs
  PROVE  ComputeExpiresAt(s, created, viewed, c) \in Int
<1> DEFINE ttl == ResolveOperationTtl(c)
<1>1. c \in [TtlKeys -> Int] /\ Defaults \in [TtlKeys -> Nat]
  BY ConfigsAssumption, DefaultsAssumption
<1>2. \A k \in TtlKeys : ttl[k] \in Int
  BY <1>1 DEF ResolveOperationTtl, ParseDurationMs, NoDuration
<1>3. /\ ttl["completedViewed"] \in Int /\ ttl["completedUnviewed"] \in Int
      /\ ttl["failedViewed"] \in Int /\ ttl["failedUnviewed"] \in Int
      /\ ttl["pendingStale"] \in Int
  BY <1>2 DEF TtlKeys
<1> HIDE DEF ttl
<1>4. CreatedTtl \in Int
  BY NumbersAssumption
<1> QED
  BY <1>3, <1>4 DEF ComputeExpiresAt, States, ttl

(* The entity save() writes back is a row when the entity, the loaded row   *)
(* and the current row are.                                                 *)
LEMMA MergeType ==
  ASSUME NEW db \in Row, NEW snap \in Row, NEW entity \in Row
  PROVE  Merge(db, snap, entity) \in Row
BY DEF Merge, Row

(* While a request is between its transition's read and its save, the      *)
(* entity it carries is a row, and so is what a viewer carries.            *)
CopiesAreRows ==
  /\ \A r \in Requests :
        rpc[r] \in {"transition.tenant", "transition.load", "transition.write"}
        => rcopy[r] \in Row
  /\ \A v \in Viewers : vpc[v] \in {"tenant", "stamp"} => vcopy[v] \in Row

TypeInv == TypeOK /\ CopiesAreRows

LEMMA NoRowIsNoRow == NoRow \notin Row
BY DEF NoRow, Row, States

LEMMA TypeInvInit == Init => TypeInv
BY NumbersAssumption DEF Init, TypeInv, TypeOK, CopiesAreRows, MaybeRow, States,
   RequestPCs, ViewerPCs

LEMMA TypeInvNext == TypeInv /\ [Next]_vars => TypeInv'
<1> SUFFICES ASSUME TypeInv, [Next]_vars PROVE TypeInv'
  OBVIOUS
<1> USE DEF TypeInv, TypeOK, CopiesAreRows, MaybeRow
<1>1. ASSUME NEW r \in Requests, CreateBegin(r) PROVE TypeInv'
  BY <1>1 DEF CreateBegin, clock, viewVars, RequestPCs
<1>2. ASSUME NEW r \in Requests, CreateTenant(r) PROVE TypeInv'
  <2>1. ComputeExpiresAt("pending", rt[r], 0, config) \in Int
    BY ExpiryType DEF States
  <2> QED
    BY <1>2, <2>1 DEF CreateTenant, clock, viewVars, RequestPCs
<1>3. ASSUME NEW r \in Requests, CreateSave(r) PROVE TypeInv'
  BY <1>3 DEF CreateSave, clock, viewVars, RequestPCs, Row, States
<1>4. ASSUME NEW r \in Requests, NEW s \in States, AdapterReturn(r, s) PROVE TypeInv'
  BY <1>4 DEF AdapterReturn, clock, viewVars, RequestPCs
<1>5. ASSUME NEW r \in Requests, TransitionRead(r) PROVE TypeInv'
  BY <1>5 DEF TransitionRead, clock, viewVars, RequestPCs, Exists
<1>6. ASSUME NEW r \in Requests, TransitionTenant(r) PROVE TypeInv'
  <2>1. rcopy[r] \in Row
    BY <1>6 DEF TransitionTenant
  <2>2. ComputeExpiresAt(rtarget[r], rcopy[r].createdAt, rcopy[r].viewedAt, config) \in Int
    BY <2>1, ExpiryType DEF Row
  <2>3. rcopy'[r] \in Row /\ rcopy' \in [Requests -> MaybeRow]
    BY <1>6, <2>1, <2>2 DEF TransitionTenant, Row
  <2> QED
    BY <1>6, <2>3 DEF TransitionTenant, clock, viewVars, RequestPCs
<1>7. ASSUME NEW r \in Requests, SaveLoad(r) PROVE TypeInv'
  BY <1>7 DEF SaveLoad, clock, viewVars, RequestPCs
<1>8. ASSUME NEW r \in Requests, SaveWrite(r) PROVE TypeInv'
  <2>1. rcopy[r] \in Row
    BY <1>8 DEF SaveWrite
  <2>2. rsnap[r] # NoRow /\ Exists(r) => Merge(row[r], rsnap[r], rcopy[r]) \in Row
    BY <2>1, MergeType DEF Exists
  <2>3. row' \in [Requests -> MaybeRow]
    BY <1>8, <2>1, <2>2 DEF SaveWrite
  <2> QED
    BY <1>8, <2>3 DEF SaveWrite, clock, viewVars, RequestPCs
<1>9. ASSUME NEW r \in Requests, Abort(r) PROVE TypeInv'
  BY <1>9 DEF Abort, clock, viewVars, RequestPCs
<1>10. ASSUME NEW v \in Viewers, NEW o \in Requests, ViewRead(v, o) PROVE TypeInv'
  BY <1>10 DEF ViewRead, clock, reqVars, ViewerPCs, Exists
<1>11. ASSUME NEW v \in Viewers, ViewTenant(v) PROVE TypeInv'
  <2>1. vcopy[v] \in Row
    BY <1>11 DEF ViewTenant
  <2>2. ComputeExpiresAt(vcopy[v].state, vcopy[v].createdAt, now, config) \in Int
    BY <2>1, ExpiryType DEF Row
  <2>3. vcopy'[v] \in Row /\ vcopy' \in [Viewers -> MaybeRow]
    BY <1>11, <2>1, <2>2 DEF ViewTenant, Row
  <2> QED
    BY <1>11, <2>3 DEF ViewTenant, clock, reqVars, ViewerPCs
<1>12. ASSUME NEW v \in Viewers, ViewStamp(v) PROVE TypeInv'
  <2>1. vcopy[v] \in Row
    BY <1>12 DEF ViewStamp
  <2>2. row' \in [Requests -> MaybeRow]
    BY <1>12, <2>1 DEF ViewStamp, MarkFirstView, Exists, Row
  <2> QED
    BY <1>12, <2>1, <2>2 DEF ViewStamp, clock, reqVars, ViewerPCs
<1>13. ASSUME NEW v \in Viewers, ViewReread(v) PROVE TypeInv'
  BY <1>13 DEF ViewReread, clock, reqVars, ViewerPCs
<1>14. CASE PurgeStart \/ PurgeError
  BY <1>14 DEF PurgeStart, PurgeError, clock, reqVars, viewVars
<1>15. CASE PurgeBatch
  BY <1>15 DEF PurgeBatch, clock, reqVars, viewVars
<1>16. CASE Tick
  BY <1>16 DEF Tick, reqVars, viewVars
<1>17. ASSUME NEW c \in Configs, UpdateConfig(c) PROVE TypeInv'
  BY <1>17 DEF UpdateConfig, reqVars, viewVars
<1>18. CASE UNCHANGED vars
  BY <1>18 DEF vars
<1> QED
  BY <1>1, <1>2, <1>3, <1>4, <1>5, <1>6, <1>7, <1>8, <1>9, <1>10, <1>11, <1>12,
     <1>13, <1>14, <1>15, <1>16, <1>17, <1>18 DEF Next, RequestStep, ViewerStep

(* Every state of the operation service is well typed: in particular no     *)
(* stale copy, partial save or late view stamp ever stores half a row.      *)
THEOREM TypeCorrect == Spec => []TypeOK
<1>1. TypeInv => TypeOK
  BY DEF TypeInv
<1> QED
  BY <1>1, TypeInvInit, TypeInvNext, PTL DEF Spec

-----------------------------------------------------------------------------
(* PromiseKept.  A terminal row belongs to a request that has finished, so  *)
(* no save() can touch it any more and what a poller loaded stays the row's *)
(* state until the purge takes it.                                          *)

OutcomeFinal == \A r \in Requests : IsTerminal(row[r].state) => rpc[r] = "done"

LoadedCurrent ==
  \A v \in Pollers : vpc[v] \in {"tenant", "stamp"} =>
     /\ IsTerminal(vcopy[v].state)
     /\ rpc[vop[v]] = "done"
     /\ vpc[v] = "stamp" => vcopy[v].viewedAt # Unviewed
     /\ Exists(vop[v]) => /\ row[vop[v]].state = vcopy[v].state
                          /\ row[vop[v]].createdAt = vcopy[v].createdAt

RereadViewed ==
  \A v \in Pollers : vpc[v] = "reread" =>
     /\ rpc[vop[v]] = "done"
     /\ Exists(vop[v]) => row[vop[v]].viewedAt # Unviewed

AnsweredDone ==
  \A v \in Pollers : IsTerminal(resp[v].state) => rpc[vop[v]] = "done"

ViewInv == /\ now > 0
           /\ OutcomeFinal
           /\ LoadedCurrent
           /\ RereadViewed
           /\ AnsweredDone
           /\ PromiseKept

(* A request's own steps leave the operation of a finished request alone,   *)
(* and the viewers too.                                                     *)
LEMMA FinishedUntouched ==
  ASSUME TypeInv, NEW r \in Requests, RequestStep(r)
  PROVE  /\ UNCHANGED <<now, config, vpc, vop, vcopy, resp, purge>>
         /\ \A o \in Requests : rpc[o] = "done" =>
               rpc'[o] = "done" /\ row'[o] = row[o]
<1> USE DEF TypeInv, TypeOK, clock, viewVars
<1>1. CASE CreateBegin(r)
  BY <1>1 DEF CreateBegin
<1>2. CASE CreateTenant(r)
  BY <1>2 DEF CreateTenant
<1>3. CASE CreateSave(r)
  BY <1>3 DEF CreateSave
<1>4. ASSUME NEW s \in States, AdapterReturn(r, s)
      PROVE  /\ UNCHANGED <<now, config, vpc, vop, vcopy, resp, purge>>
             /\ \A o \in Requests : rpc[o] = "done" =>
                   rpc'[o] = "done" /\ row'[o] = row[o]
  BY <1>4 DEF AdapterReturn
<1>5. CASE TransitionRead(r)
  BY <1>5 DEF TransitionRead
<1>6. CASE TransitionTenant(r)
  BY <1>6 DEF TransitionTenant
<1>7. CASE SaveLoad(r)
  BY <1>7 DEF SaveLoad
<1>8. CASE SaveWrite(r)
  BY <1>8 DEF SaveWrite
<1>9. CASE Abort(r)
  BY <1>9 DEF Abort
<1> QED
  BY <1>1, <1>2, <1>3, <1>4, <1>5, <1>6, <1>7, <1>8, <1>9 DEF RequestStep

(* Only a finished request's operation is terminal after a request's step.  *)
LEMMA OutcomeFinalStep ==
  ASSUME TypeInv, OutcomeFinal, NEW r \in Requests, RequestStep(r)
  PROVE  OutcomeFinal'
<1> USE DEF TypeInv, TypeOK, OutcomeFinal, IsTerminal
<1>1. CASE CreateBegin(r)
  BY <1>1 DEF CreateBegin
<1>2. CASE CreateTenant(r)
  BY <1>2 DEF CreateTenant
<1>3. CASE CreateSave(r)
  BY <1>3 DEF CreateSave
<1>4. ASSUME NEW s \in States, AdapterReturn(r, s) PROVE OutcomeFinal'
  BY <1>4 DEF AdapterReturn
<1>5. CASE TransitionRead(r)
  BY <1>5 DEF TransitionRead
<1>6. CASE TransitionTenant(r)
  BY <1>6 DEF TransitionTenant
<1>7. CASE SaveLoad(r)
  BY <1>7 DEF SaveLoad
<1>8. CASE SaveWrite(r)
  BY <1>8 DEF SaveWrite
<1>9. CASE Abort(r)
  BY <1>9 DEF Abort
<1> QED
  BY <1>1, <1>2, <1>3, <1>4, <1>5, <1>6, <1>7, <1>8, <1>9 DEF RequestStep

LEMMA ViewInvInit == Init => ViewInv
BY DEF Init, ViewInv, OutcomeFinal, LoadedCurrent, RereadViewed, AnsweredDone,
   PromiseKept, IsTerminal, NoRow

LEMMA ViewInvNext == TypeInv /\ ViewInv /\ [Next]_vars => ViewInv'
<1> SUFFICES ASSUME TypeInv, ViewInv, [Next]_vars PROVE ViewInv'
  OBVIOUS
<1> USE DEF ViewInv
<1>1. ASSUME NEW r \in Requests, RequestStep(r) PROVE ViewInv'
  <2>1. /\ UNCHANGED <<now, config, vpc, vop, vcopy, resp, purge>>
        /\ \A o \in Requests : rpc[o] = "done" =>
              rpc'[o] = "done" /\ row'[o] = row[o]
    BY <1>1, FinishedUntouched
  <2>2. \A v \in Viewers : vop[v] \in Requests
    BY DEF TypeInv, TypeOK
  <2>3. OutcomeFinal'
    BY <1>1, OutcomeFinalStep
  <2>4. LoadedCurrent'
    BY <2>1, <2>2 DEF LoadedCurrent, Exists
  <2>5. RereadViewed'
    BY <2>1, <2>2 DEF RereadViewed, Exists
  <2>6. AnsweredDone' /\ PromiseKept'
    BY <2>1, <2>2 DEF AnsweredDone, PromiseKept
  <2> QED
    BY <2>1, <2>3, <2>4, <2>5, <2>6
<1>2. ASSUME NEW w \in Viewers, NEW o \in Requests, ViewRead(w, o) PROVE ViewInv'
  <2>1. /\ UNCHANGED <<now, row, rpc>>
        /\ \A v \in Viewers : v # w => /\ vpc'[v] = vpc[v] /\ vop'[v] = vop[v]
                                       /\ vcopy'[v] = vcopy[v] /\ resp'[v] = resp[v]
    BY <1>2 DEF ViewRead, clock, reqVars, TypeInv, TypeOK
  <2>2. vop'[w] = o
    BY <1>2 DEF ViewRead, TypeInv, TypeOK
  <2>3. OutcomeFinal'
    BY <2>1 DEF OutcomeFinal
  <2>4. w \in Pollers => \/ vpc'[w] = "idle" /\ resp'[w] = row[o]
                             /\ (IsTerminal(row[o].state) => row[o].viewedAt # Unviewed)
                         \/ vpc'[w] = "tenant" /\ resp'[w] = NoRow
                             /\ vcopy'[w] = row[o] /\ IsTerminal(row[o].state)
    BY <1>2 DEF ViewRead, TypeInv, TypeOK, Exists, IsTerminal, NoRow
  <2>5. LoadedCurrent' /\ RereadViewed'
    BY <2>1, <2>2, <2>4 DEF LoadedCurrent, RereadViewed, Exists, OutcomeFinal
  <2>6. AnsweredDone' /\ PromiseKept'
    BY <2>1, <2>2, <2>4 DEF AnsweredDone, PromiseKept, OutcomeFinal, IsTerminal, NoRow
  <2> QED
    BY <2>1, <2>3, <2>5, <2>6
<1>3. ASSUME NEW w \in Viewers, ViewTenant(w) PROVE ViewInv'
  <2>1. /\ UNCHANGED <<now, row, rpc, vop, resp>>
        /\ \A v \in Viewers : v # w => vpc'[v] = vpc[v] /\ vcopy'[v] = vcopy[v]
    BY <1>3 DEF ViewTenant, clock, reqVars, TypeInv, TypeOK
  <2>2. /\ vpc[w] = "tenant" /\ vpc'[w] = "stamp"
        /\ vcopy'[w].state = vcopy[w].state
        /\ vcopy'[w].createdAt = vcopy[w].createdAt
        /\ vcopy'[w].viewedAt # Unviewed
    BY <1>3 DEF ViewTenant, TypeInv, TypeOK
  <2>3. OutcomeFinal' /\ AnsweredDone' /\ PromiseKept'
    BY <2>1 DEF OutcomeFinal, AnsweredDone, PromiseKept
  <2>4. LoadedCurrent' /\ RereadViewed'
    BY <2>1, <2>2 DEF LoadedCurrent, RereadViewed, Exists
  <2> QED
    BY <2>1, <2>3, <2>4
<1>4. ASSUME NEW w \in Viewers, ViewStamp(w) PROVE ViewInv'
  <2> DEFINE o == vop[w]
             stored == Exists(o) /\ row[o].viewedAt = Unviewed
  <2>0. o \in Requests /\ vcopy[w] \in Row
    BY <1>4 DEF ViewStamp, TypeInv, TypeOK, CopiesAreRows
  <2>1. /\ UNCHANGED <<now, rpc, vop>> /\ vpc[w] = "stamp"
        /\ \A v \in Viewers : v # w => /\ vpc'[v] = vpc[v] /\ vcopy'[v] = vcopy[v]
                                       /\ resp'[v] = resp[v]
    BY <1>4 DEF ViewStamp, clock, reqVars, TypeInv, TypeOK
  <2>2. CASE stored
    <3>1. row[o] \in Row
      BY <2>0, <2>2 DEF TypeInv, TypeOK, MaybeRow, Exists
    <3>2. /\ \A q \in Requests : q # o => row'[q] = row[q]
          /\ row'[o] = [row[o] EXCEPT !.viewedAt = vcopy[w].viewedAt,
                                      !.expiresAt = vcopy[w].expiresAt]
          /\ resp'[w] = vcopy[w] /\ vpc'[w] = "idle"
      BY <1>4, <2>0, <2>2 DEF ViewStamp, MarkFirstView, TypeInv, TypeOK, Exists
    <3>3. /\ row'[o].state = row[o].state /\ row'[o].createdAt = row[o].createdAt
          /\ row'[o].viewedAt = vcopy[w].viewedAt
      BY <3>1, <3>2 DEF Row
    <3>4. w \in Pollers => row'[o] = vcopy[w] /\ vcopy[w].viewedAt # Unviewed
                           /\ rpc[o] = "done"
      <4>1. ASSUME w \in Pollers
            PROVE  /\ row[o].state = vcopy[w].state
                   /\ row[o].createdAt = vcopy[w].createdAt
                   /\ vcopy[w].viewedAt # Unviewed /\ rpc[o] = "done"
        BY <4>1, <2>1, <2>2 DEF LoadedCurrent
      <4> QED
        BY <4>1, <3>1, <3>2, <2>0 DEF Row
    <3>5. \A q \in Requests : Exists(q)' => Exists(q)
      BY <3>2, <2>2 DEF Exists
    <3>6. OutcomeFinal'
      BY <2>0, <2>1, <3>2, <3>3 DEF OutcomeFinal
    <3>7. LoadedCurrent'
      <4> SUFFICES ASSUME NEW v \in Pollers, vpc'[v] \in {"tenant", "stamp"}
                   PROVE  /\ IsTerminal(vcopy'[v].state)
                          /\ rpc'[vop'[v]] = "done"
                          /\ vpc'[v] = "stamp" => vcopy'[v].viewedAt # Unviewed
                          /\ Exists(vop[v])' =>
                               /\ row'[vop'[v]].state = vcopy'[v].state
                               /\ row'[vop'[v]].createdAt = vcopy'[v].createdAt
        BY DEF LoadedCurrent, Exists
      <4>1. v # w /\ vop[v] \in Requests
        BY <3>2 DEF TypeInv, TypeOK
      <4>2. /\ IsTerminal(vcopy[v].state) /\ rpc[vop[v]] = "done"
            /\ vpc[v] = "stamp" => vcopy[v].viewedAt # Unviewed
            /\ Exists(vop[v]) => /\ row[vop[v]].state = vcopy[v].state
                                 /\ row[vop[v]].createdAt = vcopy[v].createdAt
        BY <4>1, <2>1 DEF LoadedCurrent
      <4>3. Exists(vop[v])' => Exists(vop[v])
        BY <4>1, <2>1, <3>5 DEF Exists
      <4>4. /\ vop' = vop /\ rpc' = rpc /\ vpc'[v] = vpc[v] /\ vcopy'[v] = vcopy[v]
        BY <4>1, <2>1
      <4>5. /\ row'[vop[v]].state = row[vop[v]].state
            /\ row'[vop[v]].createdAt = row[vop[v]].createdAt
        BY <4>1, <3>2, <3>3
      <4> HIDE DEF Exists
      <4> QED
        BY <4>2, <4>3, <4>4, <4>5
    <3>8. RereadViewed'
      <4> SUFFICES ASSUME NEW v \in Pollers, vpc'[v] = "reread"
                   PROVE  /\ rpc[vop[v]] = "done"
                          /\ Exists(vop[v])' => row'[vop[v]].viewedAt # Unviewed
        BY <2>1 DEF RereadViewed, Exists
      <4>1. v # w /\ vop[v] \in Requests /\ vpc[v] = "reread"
        BY <2>1, <3>2 DEF TypeInv, TypeOK
      <4>2. /\ rpc[vop[v]] = "done"
            /\ Exists(vop[v]) => row[vop[v]].viewedAt # Unviewed
        BY <4>1 DEF RereadViewed
      <4>3. vop[v] # o
        BY <4>2, <2>2
      <4> QED
        BY <4>1, <4>2, <4>3, <3>2, <2>1 DEF Exists
    <3>9. AnsweredDone'
      BY <2>1, <3>2, <3>4 DEF AnsweredDone
    <3>10. PromiseKept'
      <4> SUFFICES ASSUME NEW v \in Pollers, IsTerminal(resp'[v].state)
                   PROVE  /\ resp'[v].viewedAt # Unviewed
                          /\ now <= resp'[v].expiresAt => row'[vop[v]] = resp'[v]
        BY <2>1 DEF PromiseKept
      <4>1. CASE v = w
        BY <4>1, <3>2, <3>4
      <4>2. CASE v # w
        <5>1. vop[v] \in Requests /\ resp'[v] = resp[v]
          BY <4>2, <2>1 DEF TypeInv, TypeOK
        <5>2. /\ resp[v].viewedAt # Unviewed
              /\ now <= resp[v].expiresAt => row[vop[v]] = resp[v]
          BY <5>1 DEF PromiseKept
        <5>3. now <= resp[v].expiresAt => vop[v] # o
          BY <5>2, <2>2
        <5> QED
          BY <5>1, <5>2, <5>3, <3>2
      <4> QED
        BY <4>1, <4>2
    <3> QED
      BY <2>1, <3>6, <3>7, <3>8, <3>9, <3>10
  <2>3. CASE ~stored
    <3>1. row' = row /\ resp'[w] = NoRow /\ vpc'[w] = "reread"
      BY <1>4, <2>3 DEF ViewStamp, MarkFirstView, TypeInv, TypeOK
    <3>2. OutcomeFinal'
      BY <2>1, <3>1 DEF OutcomeFinal
    <3>3. LoadedCurrent'
      BY <2>1, <3>1 DEF LoadedCurrent, Exists
    <3>4. RereadViewed'
      <4>1. w \in Pollers => rpc[o] = "done"
        BY <2>1 DEF LoadedCurrent
      <4> QED
        BY <2>1, <2>3, <3>1, <4>1 DEF RereadViewed, Exists
    <3>5. AnsweredDone' /\ PromiseKept'
      BY <2>1, <3>1 DEF AnsweredDone, PromiseKept, IsTerminal, NoRow
    <3> QED
      BY <2>1, <3>2, <3>3, <3>4, <3>5
  <2> QED
    BY <2>2, <2>3
<1>5. ASSUME NEW w \in Viewers, ViewReread(w) PROVE ViewInv'
  <2>1. /\ UNCHANGED <<now, row, rpc, vop, vcopy>>
        /\ vpc[w] = "reread" /\ vpc'[w] = "idle" /\ resp'[w] = row[vop[w]]
        /\ \A v \in Viewers : v # w => vpc'[v] = vpc[v] /\ resp'[v] = resp[v]
    BY <1>5 DEF ViewReread, clock, reqVars, TypeInv, TypeOK
  <2>2. OutcomeFinal' /\ LoadedCurrent' /\ RereadViewed'
    BY <2>1 DEF OutcomeFinal, LoadedCurrent, RereadViewed, Exists
  <2>3. w \in Pollers => /\ rpc[vop[w]] = "done"
                         /\ Exists(vop[w]) => row[vop[w]].viewedAt # Unviewed
    BY <2>1 DEF RereadViewed
  <2>4. AnsweredDone' /\ PromiseKept'
    BY <2>1, <2>3 DEF AnsweredDone, PromiseKept, Exists, IsTerminal, NoRow
  <2> QED
    BY <2>1, <2>2, <2>4
<1>6. CASE PurgeBatch
  <2>1. /\ UNCHANGED <<now, rpc, vpc, vop, vcopy, resp>>
        /\ \A o \in Requests : row'[o] = row[o] \/ (row'[o] = NoRow /\ o \in Expired)
    BY <1>6 DEF PurgeBatch, clock, reqVars, viewVars
  <2>2. \A v \in Viewers : vop[v] \in Requests
    BY DEF TypeInv, TypeOK
  <2>3. \A o \in Requests : Exists(o)' => row'[o] = row[o]
    BY <2>1 DEF Exists
  <2>4. OutcomeFinal'
    BY <2>1 DEF OutcomeFinal, IsTerminal, NoRow
  <2>5. LoadedCurrent' /\ RereadViewed'
    BY <2>1, <2>2, <2>3 DEF LoadedCurrent, RereadViewed, Exists
  <2>6. AnsweredDone'
    BY <2>1 DEF AnsweredDone
  <2>7. PromiseKept'
    <3> SUFFICES ASSUME NEW v \in Pollers, IsTerminal(resp[v].state)
                 PROVE  /\ resp[v].viewedAt # Unviewed
                        /\ now <= resp[v].expiresAt => row'[vop[v]] = resp[v]
      BY <2>1 DEF PromiseKept
    <3>1. /\ resp[v].viewedAt # Unviewed
          /\ now <= resp[v].expiresAt => row[vop[v]] = resp[v]
      BY DEF PromiseKept
    <3>2. now \in Int /\ resp[v].expiresAt \in Int
      BY DEF TypeInv, TypeOK, MaybeRow, Row, NoRow
    <3> QED
      BY <3>1, <3>2, <2>1, <2>2 DEF Expired
  <2> QED
    BY <2>1, <2>4, <2>5, <2>6, <2>7
<1>7. CASE Tick
  <2>1. /\ now' = now + 1 /\ UNCHANGED <<row, rpc, vpc, vop, vcopy, resp>>
        /\ now \in Nat
    BY <1>7 DEF Tick, reqVars, viewVars, TypeInv, TypeOK
  <2>2. now' > 0 /\ OutcomeFinal' /\ AnsweredDone'
    BY <2>1 DEF OutcomeFinal, AnsweredDone
  <2>3. LoadedCurrent' /\ RereadViewed'
    BY <2>1 DEF LoadedCurrent, RereadViewed, Exists
  <2>4. \A v \in Pollers : resp[v].expiresAt \in Int
    BY DEF TypeInv, TypeOK, MaybeRow, Row, NoRow
  <2>5. PromiseKept'
    BY <2>1, <2>4 DEF PromiseKept
  <2> QED
    BY <2>2, <2>3, <2>5
<1>8. CASE \/ PurgeStart \/ PurgeError \/ (\E c \in Configs : UpdateConfig(c))
           \/ UNCHANGED vars
  <2>1. UNCHANGED <<now, row, rpc, vpc, vop, vcopy, resp>>
    BY <1>8 DEF PurgeStart, PurgeError, UpdateConfig, clock, reqVars, viewVars, vars
  <2> QED
    BY <2>1 DEF OutcomeFinal, LoadedCurrent, RereadViewed, AnsweredDone, PromiseKept, Exists
<1> QED
  BY <1>1, <1>2, <1>3, <1>4, <1>5, <1>6, <1>7, <1>8 DEF Next, ViewerStep

(* What a poll told a client about a finished operation stays true until    *)
(* the expiry it was given, for every interleaving of polls, markViewed     *)
(* calls, requests, configuration changes and purge runs.                   *)
THEOREM PollsKeepTheirPromise == Spec => []PromiseKept
<1>1. Init => TypeInv /\ ViewInv
  BY TypeInvInit, ViewInvInit
<1>2. TypeInv /\ ViewInv /\ [Next]_vars => (TypeInv /\ ViewInv)'
  BY TypeInvNext, ViewInvNext
<1>3. TypeInv /\ ViewInv => PromiseKept
  BY DEF ViewInv
<1> QED
  BY <1>1, <1>2, <1>3, PTL DEF Spec

-----------------------------------------------------------------------------
(* The two action properties.                                               *)

\* What each step may do to the table, besides the steps of the request whose
\* operation it is: stamp a row that has no view stamp, or delete.
RowStep(o) ==
  \/ row'[o] = row[o]
  \/ row'[o] = NoRow /\ o \in Expired
  \/ /\ Exists(o) /\ row[o].viewedAt = Unviewed
     /\ row'[o].state = row[o].state /\ rpc'[o] = rpc[o]
     /\ \E v \in Viewers : vpc[v] = "stamp" /\ vop[v] = o

\* A step that is not a request's leaves the requests alone and changes rows
\* only as RowStep says.
LEMMA OtherSteps ==
  ASSUME TypeInv, [Next]_vars, \A r \in Requests : ~RequestStep(r)
  PROVE  /\ UNCHANGED reqVars /\ now <= now'
         /\ \A o \in Requests : RowStep(o)
<1>0. now \in Int
  BY DEF TypeInv, TypeOK
<1>1. ASSUME NEW w \in Viewers, ViewStamp(w)
      PROVE  UNCHANGED <<reqVars, now>> /\ \A o \in Requests : RowStep(o)
  <2>1. row \in [Requests -> MaybeRow] /\ UNCHANGED <<reqVars, now>>
    BY <1>1 DEF TypeInv, TypeOK, ViewStamp, clock
  <2>2. CASE Exists(vop[w]) /\ row[vop[w]].viewedAt = Unviewed
    <3>1. row' = [row EXCEPT ![vop[w]].viewedAt = vcopy[w].viewedAt,
                             ![vop[w]].expiresAt = vcopy[w].expiresAt]
      BY <1>1, <2>2 DEF ViewStamp, MarkFirstView
    <3>2. row[vop[w]] \in Row /\ vop[w] \in Requests
      BY <2>1, <2>2 DEF Exists, MaybeRow, TypeInv, TypeOK
    <3>3. row'[vop[w]].state = row[vop[w]].state
      BY <2>1, <3>1, <3>2 DEF Row
    <3>4. \A o \in Requests : o # vop[w] => row'[o] = row[o]
      BY <2>1, <3>1, <3>2
    <3> QED
      BY <1>1, <2>1, <2>2, <3>3, <3>4 DEF RowStep, ViewStamp, reqVars
  <2>3. CASE ~ (Exists(vop[w]) /\ row[vop[w]].viewedAt = Unviewed)
    BY <1>1, <2>1, <2>3 DEF ViewStamp, MarkFirstView, RowStep
  <2> QED
    BY <2>2, <2>3
<1>2. CASE PurgeBatch
  BY <1>0, <1>2 DEF PurgeBatch, clock, RowStep
<1>3. ASSUME NEW w \in Viewers, NEW o \in Requests,
             ViewRead(w, o) \/ ViewTenant(w) \/ ViewReread(w)
      PROVE  UNCHANGED <<reqVars, row, now>>
  BY <1>3 DEF ViewRead, ViewTenant, ViewReread, clock
<1>4. ASSUME NEW c \in Configs,
             PurgeStart \/ PurgeError \/ Tick \/ UpdateConfig(c) \/ UNCHANGED vars
      PROVE  UNCHANGED <<reqVars, row>> /\ now <= now'
  BY <1>0, <1>4 DEF PurgeStart, PurgeError, Tick, UpdateConfig, clock, reqVars, vars
<1>5. \A v \in Viewers : vop[v] \in Requests
  BY DEF TypeInv, TypeOK
<1>6. Configs # {}
  BY ConfigsAssumption
<1> QED
  BY <1>0, <1>1, <1>2, <1>3, <1>4, <1>5, <1>6 DEF Next, ViewerStep, RowStep

(* A completed or failed operation never changes its state again, for any   *)
(* number of requests, polls and markViewed calls.                          *)
THEOREM OutcomesAreFinal == Spec => TerminalStable
<1>1. TypeInv /\ ViewInv /\ [Next]_vars =>
        [\A o \in Requests : Exists(o) /\ Exists(o)' /\ IsTerminal(row[o].state)
            => row'[o].state = row[o].state]_vars
  <2> SUFFICES ASSUME TypeInv, ViewInv, [Next]_vars, NEW o \in Requests,
                      Exists(o)', IsTerminal(row[o].state)
               PROVE  row'[o].state = row[o].state
    OBVIOUS
  <2>1. ASSUME NEW r \in Requests, RequestStep(r) PROVE row'[o] = row[o]
    BY <2>1, FinishedUntouched DEF ViewInv, OutcomeFinal
  <2>2. CASE \A r \in Requests : ~RequestStep(r)
    BY <2>2, OtherSteps DEF RowStep, Exists
  <2> QED
    BY <2>1, <2>2
<1>2. Init => TypeInv /\ ViewInv
  BY TypeInvInit, ViewInvInit
<1>3. TypeInv /\ ViewInv /\ [Next]_vars => (TypeInv /\ ViewInv)'
  BY TypeInvNext, ViewInvNext
<1> QED
  BY <1>1, <1>2, <1>3, PTL DEF Spec, TerminalStable

\* Without markViewed a request under way has an operation nobody has viewed,
\* and its own copy of it carries no view stamp that save() could write back.
UnfinishedUnviewed ==
  \A r \in Requests : rpc[r] # "done" =>
     row[r].viewedAt = Unviewed /\ rcopy[r].viewedAt = Unviewed

\* The steps of a request keep it so, and touch only rows without a view stamp.
LEMMA UnviewedRequestStep ==
  ASSUME TypeInv, UnfinishedUnviewed, NEW r \in Requests, RequestStep(r)
  PROVE  /\ UnfinishedUnviewed'
         /\ \A o \in Requests : row'[o] = row[o] \/ row[o].viewedAt = Unviewed
<1> USE DEF TypeInv, TypeOK, UnfinishedUnviewed
<1>1. CASE CreateBegin(r)
  BY <1>1 DEF CreateBegin
<1>2. CASE CreateTenant(r)
  BY <1>2 DEF CreateTenant
<1>3. CASE CreateSave(r)
  BY <1>3 DEF CreateSave
<1>4. ASSUME NEW s \in States, AdapterReturn(r, s)
      PROVE  /\ UnfinishedUnviewed'
             /\ \A o \in Requests : row'[o] = row[o] \/ row[o].viewedAt = Unviewed
  BY <1>4 DEF AdapterReturn
<1>5. CASE TransitionRead(r)
  BY <1>5 DEF TransitionRead
<1>6. CASE TransitionTenant(r)
  BY <1>6 DEF TransitionTenant
<1>7. CASE SaveLoad(r)
  BY <1>7 DEF SaveLoad
<1>8. CASE SaveWrite(r)
  BY <1>8 DEF SaveWrite
<1>9. CASE Abort(r)
  BY <1>9 DEF Abort
<1> QED
  BY <1>1, <1>2, <1>3, <1>4, <1>5, <1>6, <1>7, <1>8, <1>9 DEF RequestStep

\* No step of anybody else stamps the row of a request under way.
LEMMA UnviewedNext ==
  ASSUME Markers = {}, TypeInv, ViewInv, UnfinishedUnviewed, [Next]_vars
  PROVE  UnfinishedUnviewed'
<1>1. ASSUME NEW r \in Requests, RequestStep(r) PROVE UnfinishedUnviewed'
  BY <1>1, UnviewedRequestStep
<1>2. CASE \A r \in Requests : ~RequestStep(r)
  <2>1. UNCHANGED reqVars /\ \A o \in Requests : RowStep(o)
    BY <1>2, OtherSteps
  <2>2. \A v \in Viewers : vpc[v] = "stamp" => rpc[vop[v]] = "done"
    BY DEF Viewers, ViewInv, LoadedCurrent
  <2> QED
    BY <2>1, <2>2 DEF UnfinishedUnviewed, RowStep, NoRow, reqVars
<1> QED
  BY <1>1, <1>2

(* As long as polls are the only viewers, the first view of an operation is *)
(* stamped once: no step moves or clears it.                                *)
THEOREM PollsStampOnce ==
  ASSUME Markers = {}
  PROVE  Spec => ViewStampedOnce
<1> DEFINE Inv == TypeInv /\ ViewInv /\ UnfinishedUnviewed
<1>1. Init => Inv
  BY TypeInvInit, ViewInvInit DEF Init, UnfinishedUnviewed, NoRow, Unviewed
<1>2. Inv /\ [Next]_vars => UnfinishedUnviewed'
  BY UnviewedNext
<1>3. Inv /\ [Next]_vars => Inv'
  BY <1>2, TypeInvNext, ViewInvNext
<1>4. Inv /\ [Next]_vars =>
        [\A o \in Requests : Exists(o) /\ Exists(o)' /\ row[o].viewedAt # Unviewed
            => row'[o].viewedAt = row[o].viewedAt]_vars
  <2> SUFFICES ASSUME Inv, [Next]_vars, NEW o \in Requests,
                      Exists(o)', row[o].viewedAt # Unviewed
               PROVE  row'[o] = row[o]
    OBVIOUS
  <2>1. ASSUME NEW r \in Requests, RequestStep(r) PROVE row'[o] = row[o]
    BY <2>1, UnviewedRequestStep
  <2>2. CASE \A r \in Requests : ~RequestStep(r)
    BY <2>2, OtherSteps DEF RowStep, Exists
  <2> QED
    BY <2>1, <2>2
<1> QED
  BY <1>1, <1>3, <1>4, PTL DEF Spec, ViewStampedOnce

-----------------------------------------------------------------------------
(* How long rows are kept, and the contract.  Both rest on LifeInv: what a  *)
(* request under way knows of its own row, as long as polls are the only    *)
(* viewers.                                                                 *)

Answers == {"processing", "completed", "failed"}

\* The row of a request that has not saved yet does not exist; while the
\* request is in flight the row, if the purge has left it, is the pending one
\* it saved, and it is gone only after its expiry.
RowInFlight(r) ==
  /\ rpc[r] \in {"idle", "create.tenant", "create.save"} => ~Exists(r)
  /\ InFlight(r) => IF Exists(r)
                    THEN row[r].state = "pending" /\ row[r].expiresAt = rt[r]
                    ELSE rt[r] < now

\* What the request carries: the agent's answer, an entity with its state and
\* the row's creation time, and the row that save() loaded.
CarriedInFlight(r) ==
  /\ rpc[r] \in {"transition.read", "transition.tenant", "transition.load",
                 "transition.write"} => rtarget[r] \in Answers
  /\ rpc[r] \in {"transition.tenant", "transition.load", "transition.write"} /\ Exists(r)
        => rcopy[r].createdAt = row[r].createdAt
  /\ rpc[r] \in {"transition.load", "transition.write"} => rcopy[r].state = rtarget[r]
  /\ rpc[r] = "transition.write" =>
        /\ rsnap[r] = NoRow => ~Exists(r)
        /\ rsnap[r] # NoRow => /\ rsnap[r].state = "pending" /\ rsnap[r].viewedAt = Unviewed
                               /\ Exists(r) => rsnap[r].expiresAt = row[r].expiresAt

LifeInv == /\ UnfinishedUnviewed
           /\ \A r \in Requests : RowInFlight(r) /\ CarriedInFlight(r)

LEMMA LifeInvInit == Init => LifeInv
BY DEF Init, LifeInv, UnfinishedUnviewed, RowInFlight, CarriedInFlight, InFlight, Exists,
   NoRow

LEMMA LifeInvRequest ==
  ASSUME TypeInv, LifeInv, NEW r \in Requests, RequestStep(r)
  PROVE  \A o \in Requests : RowInFlight(o)' /\ CarriedInFlight(o)'
<1> USE DEF TypeInv, TypeOK, LifeInv, RowInFlight, CarriedInFlight, InFlight, Exists, clock, viewVars
<1> SUFFICES ASSUME NEW o \in Requests PROVE RowInFlight(o)' /\ CarriedInFlight(o)'
  OBVIOUS
<1>1. CASE CreateBegin(r)
  BY <1>1 DEF CreateBegin
<1>2. CASE CreateTenant(r)
  BY <1>2 DEF CreateTenant
<1>3. CASE CreateSave(r)
  BY <1>3 DEF CreateSave, NoRow
<1>4. ASSUME NEW s \in States, AdapterReturn(r, s) PROVE RowInFlight(o)' /\ CarriedInFlight(o)'
  BY <1>4 DEF AdapterReturn, Answers
<1>5. CASE TransitionRead(r)
  BY <1>5 DEF TransitionRead
<1>6. CASE TransitionTenant(r)
  BY <1>6 DEF TransitionTenant
<1>7. CASE SaveLoad(r)
  BY <1>7 DEF SaveLoad, UnfinishedUnviewed
<1>8. CASE SaveWrite(r)
  BY <1>8 DEF SaveWrite
<1>9. CASE Abort(r)
  BY <1>9 DEF Abort
<1> QED
  BY <1>1, <1>2, <1>3, <1>4, <1>5, <1>6, <1>7, <1>8, <1>9 DEF RequestStep

LEMMA LifeInvNext ==
  ASSUME Markers = {}, TypeInv, ViewInv, LifeInv, [Next]_vars
  PROVE  LifeInv'
<1>1. UnfinishedUnviewed'
  BY UnviewedNext DEF LifeInv
<1>2. ASSUME NEW r \in Requests, RequestStep(r) PROVE LifeInv'
  BY <1>1, <1>2, LifeInvRequest DEF LifeInv
<1>3. CASE \A r \in Requests : ~RequestStep(r)
  <2>1. UNCHANGED reqVars /\ now <= now' /\ \A o \in Requests : RowStep(o)
    BY <1>3, OtherSteps
  <2>2. \A v \in Viewers : vpc[v] = "stamp" => rpc[vop[v]] = "done"
    BY DEF ViewInv, LoadedCurrent
  <2>3. ASSUME NEW o \in Requests PROVE RowInFlight(o)' /\ CarriedInFlight(o)'
    <3>1. now \in Int /\ now' \in Int /\ rt[o] \in Int
      BY TypeInvNext DEF TypeInv, TypeOK
    <3>2. CASE rpc[o] = "done"
      BY <2>1, <3>2 DEF RowInFlight, CarriedInFlight, InFlight, reqVars
    <3>3. CASE rpc[o] # "done" /\ row'[o] = row[o]
      BY <2>1, <3>1, <3>3 DEF LifeInv, RowInFlight, CarriedInFlight, InFlight, reqVars, Exists
    <3>4. CASE row'[o] = NoRow /\ o \in Expired
      <4>1. Exists(o) /\ row[o].expiresAt < now /\ ~Exists(o)'
        BY <3>4 DEF Expired, Exists
      <4> QED
        BY <2>1, <3>1, <4>1 DEF LifeInv, RowInFlight, CarriedInFlight, InFlight, reqVars
    <3> QED
      BY <2>1, <2>2, <3>2, <3>3, <3>4 DEF RowStep, reqVars
  <2> QED
    BY <1>1, <2>3 DEF LifeInv
<1> QED
  BY <1>2, <1>3

\* The expiries under way are ones the TTL rules give: the one a request is
\* about to create its row with, the one of the entity it is about to save, and
\* the one a viewer is about to stamp.
Fits(entity) ==
  \E c \in Configs : entity.expiresAt =
     ComputeExpiresAt(entity.state, entity.createdAt, entity.viewedAt, c)

PendingFits(created, expires) ==
  \E c \in Configs : expires <= ComputeExpiresAt("pending", created, Unviewed, c)

StoredFits(o) ==
  Exists(o) => IF row[o].state = "pending" THEN PendingFits(row[o].createdAt, row[o].expiresAt)
                                           ELSE Fits(row[o])

ExpiryInv ==
  /\ \A r \in Requests :
       /\ rpc[r] = "create.tenant" => rt[r] <= now
       /\ rpc[r] = "create.save" => PendingFits(now, rt[r])
       /\ rpc[r] \in {"transition.load", "transition.write"} => Fits(rcopy[r])
       /\ StoredFits(r)
  /\ \A v \in Viewers : vpc[v] = "stamp" => Fits(vcopy[v])

LEMMA ExpiryInvMatches == TypeInv /\ ExpiryInv => ExpiryMatchesState
BY DEF ComputeExpiresAt, PendingFits, Fits, StoredFits, ExpiryInv, ExpiryMatchesState

\* A pending expiry computed from a later creation is later.
LEMMA PendingLater ==
  ASSUME NEW t \in Int, NEW u \in Int, t <= u, NEW c \in Configs
  PROVE  ComputeExpiresAt("pending", t, 0, c) <= ComputeExpiresAt("pending", u, 0, c)
<1>1. c \in [TtlKeys -> Int] /\ Defaults \in [TtlKeys -> Nat]
  BY ConfigsAssumption, DefaultsAssumption
<1>2. ResolveOperationTtl(c)["pendingStale"] \in Int
  BY <1>1 DEF ResolveOperationTtl, ParseDurationMs, NoDuration, TtlKeys
<1> QED
  BY <1>2 DEF ComputeExpiresAt

LEMMA PendingFitsLater ==
  ASSUME NEW t \in Int, NEW u \in Int, t <= u, NEW e \in Int, PendingFits(t, e)
  PROVE  PendingFits(u, e)
<1>1. PICK c \in Configs : e <= ComputeExpiresAt("pending", t, 0, c)
  BY DEF PendingFits
<1>2. /\ ComputeExpiresAt("pending", t, 0, c) \in Int
      /\ ComputeExpiresAt("pending", u, 0, c) \in Int
  BY ExpiryType DEF States
<1> QED
  BY <1>1, <1>2, PendingLater DEF PendingFits

\* The save of a transition stores the request's entity whole, or nothing.
LEMMA SaveStores ==
  ASSUME TypeInv, LifeInv, NEW r \in Requests, SaveWrite(r)
  PROVE  /\ rcopy[r] \in Row /\ rcopy[r].state \in Answers /\ rcopy[r].viewedAt = Unviewed
         /\ \/ row'[r] = NoRow /\ ~Exists(r)
            \/ row'[r] = rcopy[r]
         /\ \A o \in Requests : o # r => row'[o] = row[o]
<1>1. /\ rcopy[r] \in Row /\ rcopy[r].state \in Answers /\ rcopy[r].viewedAt = Unviewed
      /\ \A o \in Requests : o # r => row'[o] = row[o]
  BY DEF SaveWrite, TypeInv, TypeOK, CopiesAreRows, LifeInv, CarriedInFlight, UnfinishedUnviewed
<1>2. CASE rsnap[r] # NoRow /\ Exists(r)
  <2>1. /\ rsnap[r] \in Row /\ rsnap[r].state = "pending" /\ rsnap[r].viewedAt = Unviewed
        /\ rsnap[r].expiresAt = row[r].expiresAt /\ row[r].viewedAt = Unviewed
        /\ rcopy[r].createdAt = row[r].createdAt
    BY <1>2 DEF SaveWrite, TypeInv, TypeOK, MaybeRow, LifeInv, CarriedInFlight, UnfinishedUnviewed
  <2>2. Merge(row[r], rsnap[r], rcopy[r]) =
          [state |-> rcopy[r].state, createdAt |-> rcopy[r].createdAt,
           viewedAt |-> rcopy[r].viewedAt, expiresAt |-> rcopy[r].expiresAt]
    BY <1>1, <2>1 DEF Merge, Answers
  <2>3. Merge(row[r], rsnap[r], rcopy[r]) = rcopy[r]
    BY <1>1, <2>2 DEF Row
  <2> QED
    BY <1>1, <1>2, <2>3 DEF SaveWrite, TypeInv, TypeOK
<1>3. CASE ~(rsnap[r] # NoRow /\ Exists(r))
  BY <1>1, <1>3 DEF SaveWrite, TypeInv, TypeOK
<1> QED
  BY <1>1, <1>2, <1>3

\* A poll's stamp stores its entity whole over a terminal row, or nothing.
LEMMA StampStores ==
  ASSUME TypeInv, ViewInv, Markers = {}, NEW w \in Viewers, ViewStamp(w)
  PROVE  /\ vop[w] \in Requests /\ vcopy[w] \in Row /\ IsTerminal(vcopy[w].state)
         /\ vcopy[w].viewedAt # Unviewed
         /\ \/ row'[vop[w]] = row[vop[w]]
            \/ /\ row'[vop[w]] = vcopy[w] /\ Exists(vop[w])
               /\ row[vop[w]].viewedAt = Unviewed /\ row[vop[w]].state = vcopy[w].state
         /\ \A o \in Requests : o # vop[w] => row'[o] = row[o]
<1> DEFINE o == vop[w]
<1>1. /\ o \in Requests /\ vcopy[w] \in Row /\ IsTerminal(vcopy[w].state)
      /\ vcopy[w].viewedAt # Unviewed
      /\ Exists(o) => row[o].state = vcopy[w].state /\ row[o].createdAt = vcopy[w].createdAt
  BY DEF ViewStamp, TypeInv, TypeOK, CopiesAreRows, ViewInv, LoadedCurrent
<1>2. CASE Exists(o) /\ row[o].viewedAt = Unviewed
  <2>1. row[o] \in Row /\ row \in [Requests -> MaybeRow]
    BY <1>1, <1>2 DEF TypeInv, TypeOK, MaybeRow, Exists
  <2>2. /\ row'[o] = [row[o] EXCEPT !.viewedAt = vcopy[w].viewedAt,
                                    !.expiresAt = vcopy[w].expiresAt]
        /\ \A q \in Requests : q # o => row'[q] = row[q]
    BY <1>1, <1>2, <2>1 DEF ViewStamp, MarkFirstView
  <2>3. row'[o] = vcopy[w]
    BY <1>1, <1>2, <2>1, <2>2 DEF Row
  <2> QED
    BY <1>1, <1>2, <2>2, <2>3
<1>3. CASE ~(Exists(o) /\ row[o].viewedAt = Unviewed)
  BY <1>1, <1>3 DEF ViewStamp, MarkFirstView
<1> QED
  BY <1>1, <1>2, <1>3

LEMMA ExpiryInvInit == Init => ExpiryInv
BY DEF Init, ExpiryInv, StoredFits, Exists

LEMMA ExpiryInvRequest ==
  ASSUME TypeInv, LifeInv, ExpiryInv, NEW r \in Requests, RequestStep(r)
  PROVE  ExpiryInv'
<1> USE DEF ExpiryInv, TypeInv, TypeOK, clock, viewVars
<1>1. CASE CreateBegin(r)
  BY <1>1 DEF CreateBegin, StoredFits, Exists
<1>2. CASE CreateTenant(r)
  <2>1. PendingFits(now, ComputeExpiresAt("pending", rt[r], 0, config))
    BY <1>2, PendingLater DEF CreateTenant, PendingFits
  <2> QED
    BY <1>2, <2>1 DEF CreateTenant, StoredFits, Exists
<1>3. CASE CreateSave(r)
  BY <1>3 DEF CreateSave, StoredFits, Exists
<1>4. ASSUME NEW s \in States, AdapterReturn(r, s) PROVE ExpiryInv'
  BY <1>4 DEF AdapterReturn, StoredFits, Exists
<1>5. CASE TransitionRead(r)
  BY <1>5 DEF TransitionRead, StoredFits, Exists
<1>6. CASE TransitionTenant(r)
  <2>1. Fits(rcopy'[r])
    BY <1>6 DEF TransitionTenant, Fits
  <2> QED
    BY <1>6, <2>1 DEF TransitionTenant, StoredFits, Exists
<1>7. CASE SaveLoad(r)
  BY <1>7 DEF SaveLoad, StoredFits, Exists
<1>8. CASE SaveWrite(r)
  <2>1. /\ rcopy[r].state \in Answers /\ (row'[r] = NoRow \/ row'[r] = rcopy[r])
        /\ \A o \in Requests : o # r => row'[o] = row[o]
    BY <1>8, SaveStores
  <2>2. Fits(rcopy[r])
    BY <1>8 DEF SaveWrite
  <2>3. \A o \in Requests : StoredFits(o)'
    BY <2>1, <2>2 DEF StoredFits, Exists, Answers
  <2> QED
    BY <1>8, <2>3 DEF SaveWrite
<1>9. CASE Abort(r)
  BY <1>9 DEF Abort, StoredFits, Exists
<1> QED
  BY <1>1, <1>2, <1>3, <1>4, <1>5, <1>6, <1>7, <1>8, <1>9 DEF RequestStep

LEMMA ExpiryInvNext ==
  ASSUME Markers = {}, TypeInv, ViewInv, LifeInv, ExpiryInv, [Next]_vars
  PROVE  ExpiryInv'
<1> USE DEF ExpiryInv
<1>1. ASSUME NEW r \in Requests, RequestStep(r) PROVE ExpiryInv'
  BY <1>1, ExpiryInvRequest
<1>2. ASSUME NEW w \in Viewers, NEW o \in Requests, ViewRead(w, o) \/ ViewReread(w)
      PROVE  ExpiryInv'
  BY <1>2 DEF ViewRead, ViewReread, TypeInv, TypeOK, clock, reqVars, StoredFits, Exists
<1>3. ASSUME NEW w \in Viewers, ViewTenant(w) PROVE ExpiryInv'
  <2>1. Fits(vcopy'[w])
    BY <1>3 DEF ViewTenant, Fits, TypeInv, TypeOK
  <2> QED
    BY <1>3, <2>1 DEF ViewTenant, TypeInv, TypeOK, clock, reqVars, StoredFits, Exists
<1>4. ASSUME NEW w \in Viewers, ViewStamp(w) PROVE ExpiryInv'
  <2>1. Fits(vcopy[w])
    BY <1>4 DEF ViewStamp
  <2>2. /\ IsTerminal(vcopy[w].state)
        /\ row'[vop[w]] = row[vop[w]] \/ row'[vop[w]] = vcopy[w]
        /\ \A o \in Requests : o # vop[w] => row'[o] = row[o]
    BY <1>4, StampStores
  <2>3. \A o \in Requests : StoredFits(o)'
    BY <2>1, <2>2 DEF StoredFits, Exists, IsTerminal
  <2> QED
    BY <1>4, <2>3 DEF ViewStamp, TypeInv, TypeOK, clock, reqVars
<1>5. CASE PurgeBatch
  BY <1>5 DEF PurgeBatch, clock, reqVars, viewVars, StoredFits, Exists
<1>6. CASE Tick
  <2>1. now \in Int /\ now' = now + 1 /\ \A r \in Requests : rt[r] \in Int
    BY <1>6 DEF Tick, TypeInv, TypeOK
  <2>2. \A r \in Requests : PendingFits(now, rt[r]) => PendingFits(now', rt[r])
    BY <2>1, PendingFitsLater
  <2> QED
    BY <1>6, <2>1, <2>2 DEF Tick, reqVars, viewVars, StoredFits, Exists
<1>7. CASE \/ PurgeStart \/ PurgeError \/ (\E c \in Configs : UpdateConfig(c))
           \/ UNCHANGED vars
  BY <1>7 DEF PurgeStart, PurgeError, UpdateConfig, clock, reqVars, viewVars, vars,
     StoredFits, Exists
<1> QED
  BY <1>1, <1>2, <1>3, <1>4, <1>5, <1>6, <1>7 DEF Next, ViewerStep, TypeInv, TypeOK

\* The invariant of the results that need polls to be the only viewers.
KeepInv == TypeInv /\ ViewInv /\ LifeInv /\ ExpiryInv

LEMMA KeepInvHolds ==
  ASSUME Markers = {}
  PROVE  Spec => []KeepInv
<1>1. Init => KeepInv
  BY TypeInvInit, ViewInvInit, LifeInvInit, ExpiryInvInit DEF KeepInv
<1>2. KeepInv /\ [Next]_vars => KeepInv'
  BY TypeInvNext, ViewInvNext, LifeInvNext, ExpiryInvNext DEF KeepInv
<1> QED
  BY <1>1, <1>2, PTL DEF Spec

(* The expiry of every stored operation is one the TTL rules give for what  *)
(* is stored beside it, and the purge takes no row from under its request   *)
(* before the pending expiry, for every interleaving of requests with stale *)
(* copies, polls, configuration changes and purges.                         *)
THEOREM RetentionHolds ==
  ASSUME Markers = {}
  PROVE  Spec => []RetentionSound
<1>1. KeepInv => RetentionSound
  <2> SUFFICES ASSUME KeepInv PROVE RetentionSound
    OBVIOUS
  <2>1. ExpiryMatchesState
    BY ExpiryInvMatches DEF KeepInv
  <2>2. InFlightRetained
    BY DEF KeepInv, TypeInv, TypeOK, LifeInv, RowInFlight, InFlight, InFlightRetained
  <2> QED
    BY <2>1, <2>2 DEF RetentionSound
<1> QED
  BY <1>1, KeepInvHolds, PTL

-----------------------------------------------------------------------------
(* The contract.                                                            *)

\* The life of one operation moves as the contract allows, or rests.
LifeStep(o) == Contract!Move(o) \/ Contract!Rests(o)

LEMMA ContractInit == Init => Contract!Init
<1> SUFFICES ASSUME Init PROVE Contract!Init
  OBVIOUS
<1>1. ASSUME NEW o \in Requests PROVE StatusOf(o) = "absent" /\ row[o].viewedAt = 0
  BY DEF Init, StatusOf, Exists, NoRow
<1>2. [o \in Requests |-> StatusOf(o)] = [o \in Requests |-> "absent"]
  BY <1>1
<1>3. ASSUME NEW o \in Requests PROVE (row[o].viewedAt # 0) = FALSE
  BY <1>1
<1>4. [o \in Requests |-> row[o].viewedAt # 0] = [o \in Requests |-> FALSE]
  BY <1>3, Zenon
<1> QED
  BY <1>2, <1>4 DEF Contract!Init

\* The status and the stamp of one operation, spelled out.
LEMMA RestsOf ==
  ASSUME NEW o \in Requests, StatusOf(o)' = StatusOf(o), row'[o].viewedAt = row[o].viewedAt
  PROVE  LifeStep(o)
BY DEF LifeStep, Contract!Rests

LEMMA MovesOf ==
  ASSUME NEW o \in Requests, NEW from, NEW to,
         StatusOf(o) \in from, StatusOf(o)' \in to, row'[o].viewedAt = 0
  PROVE  Contract!Moves(o, from, to)
BY DEF Contract!Moves

LEMMA ShowOf ==
  ASSUME NEW o \in Requests, IsTerminal(StatusOf(o)), StatusOf(o)' = StatusOf(o),
         row[o].viewedAt = 0, row'[o].viewedAt # 0
  PROVE  LifeStep(o)
BY DEF LifeStep, Contract!Move, Contract!Show, Contract!Outcomes, IsTerminal

\* A request moves the life of its own operation only.
LEMMA ContractRequest ==
  ASSUME KeepInv, NEW r \in Requests, RequestStep(r), NEW o \in Requests
  PROVE  LifeStep(o)
<1> USE DEF KeepInv, TypeInv, TypeOK
<1>1. CASE o # r
  <2>1. row'[o] = row[o] /\ rpc'[o] = rpc[o]
    BY <1>1, SaveStores DEF RequestStep, CreateBegin, CreateTenant, CreateSave, AdapterReturn,
       TransitionRead, TransitionTenant, SaveLoad, SaveWrite, Abort
  <2> QED
    BY <2>1, RestsOf DEF StatusOf, InFlight, Exists
<1> SUFFICES LifeStep(r)
  BY <1>1
<1>2. /\ RowInFlight(r) /\ (rpc[r] # "done" => row[r].viewedAt = 0) /\ row[r] \in MaybeRow
  BY DEF LifeInv, UnfinishedUnviewed
<1>3. ASSUME NEW s \in States,
             CreateBegin(r) \/ CreateTenant(r) \/ AdapterReturn(r, s) \/ TransitionTenant(r)
             \/ SaveLoad(r)
      PROVE  LifeStep(r)
  <2>1. row' = row /\ StatusOf(r)' = StatusOf(r)
    BY <1>3 DEF CreateBegin, CreateTenant, AdapterReturn, TransitionTenant, SaveLoad,
       StatusOf, InFlight, Exists
  <2> QED
    BY <2>1, RestsOf
<1>4. CASE CreateSave(r)
  <2>1. StatusOf(r) = "absent" /\ StatusOf(r)' = "pending" /\ row'[r].viewedAt = 0
    BY <1>2, <1>4 DEF CreateSave, StatusOf, RowInFlight, Exists, NoRow
  <2>2. Contract!Accept(r)
    BY <2>1, MovesOf DEF Contract!Accept
  <2> QED
    BY <2>2 DEF LifeStep, Contract!Move
<1>5. CASE TransitionRead(r) \/ Abort(r)
  <2>1. row' = row
    BY <1>5 DEF TransitionRead, Abort
  <2>2. CASE Exists(r)
    BY <2>1, <2>2, RestsOf DEF StatusOf, Exists
  <2>3. CASE ~Exists(r)
    <3>1. /\ StatusOf(r) \in {"absent", "lapsed"} /\ StatusOf(r)' = "gone"
          /\ row'[r].viewedAt = 0
      BY <1>5, <2>1, <2>3 DEF TransitionRead, Abort, StatusOf, InFlight, Exists, NoRow, RequestPCs
    <3>2. Contract!Accept(r) \/ Contract!Return(r)
      BY <3>1, MovesOf DEF Contract!Accept, Contract!Return, Contract!Outcomes
    <3> QED
      BY <3>2 DEF LifeStep, Contract!Move
  <2> QED
    BY <2>2, <2>3
<1>6. CASE SaveWrite(r)
  <2>1. /\ rcopy[r] \in Row /\ rcopy[r].state \in Answers /\ rcopy[r].viewedAt = 0
        /\ (row'[r] = NoRow /\ ~Exists(r)) \/ row'[r] = rcopy[r]
    BY <1>6, SaveStores
  <2>2. StatusOf(r) = (IF Exists(r) THEN "pending" ELSE "lapsed")
    BY <1>2, <1>6 DEF SaveWrite, StatusOf, RowInFlight, InFlight
  <2>3. CASE row'[r] = NoRow /\ ~Exists(r)
    <3>1. StatusOf(r)' = "gone" /\ row'[r].viewedAt = 0
      BY <1>6, <2>3 DEF SaveWrite, StatusOf, InFlight, Exists, NoRow
    <3>2. Contract!Return(r)
      BY <2>2, <2>3, <3>1, MovesOf DEF Contract!Return, Contract!Outcomes
    <3> QED
      BY <3>2 DEF LifeStep, Contract!Move
  <2>4. CASE row'[r] = rcopy[r]
    <3>1. StatusOf(r)' \in Answers /\ row'[r].viewedAt = 0
      BY <2>1, <2>4, NoRowIsNoRow DEF StatusOf, Exists
    <3>2. Contract!Resolve(r) \/ Contract!Return(r)
      BY <2>2, <3>1, MovesOf DEF Contract!Resolve, Contract!Return, Contract!Outcomes, Answers
    <3> QED
      BY <3>2 DEF LifeStep, Contract!Move
  <2> QED
    BY <2>1, <2>3, <2>4
<1> QED
  BY <1>3, <1>4, <1>5, <1>6 DEF RequestStep, States

\* A poll shows an outcome, the purge ends a life or lets it lapse, and nothing
\* else moves one.
LEMMA ContractOther ==
  ASSUME Markers = {}, KeepInv, [Next]_vars, \A r \in Requests : ~RequestStep(r),
         NEW o \in Requests
  PROVE  LifeStep(o)
<1>1. rpc' = rpc
  BY OtherSteps DEF KeepInv, reqVars
<1>2. CASE row'[o] = row[o]
  BY <1>1, <1>2, RestsOf DEF StatusOf, InFlight, Exists
<1>3. ASSUME NEW w \in Viewers, ViewStamp(w), row'[o] # row[o] PROVE LifeStep(o)
  <2>1. /\ o = vop[w] /\ row'[o] = vcopy[w] /\ vcopy[w] \in Row /\ vcopy[w].viewedAt # 0
        /\ IsTerminal(vcopy[w].state) /\ Exists(o) /\ row[o].viewedAt = 0
        /\ row[o].state = vcopy[w].state
    BY <1>3, StampStores DEF KeepInv
  <2>2. StatusOf(o) = vcopy[w].state /\ StatusOf(o)' = vcopy[w].state
    BY <2>1, NoRowIsNoRow DEF StatusOf, Exists
  <2> QED
    BY <2>1, <2>2, ShowOf
<1>4. CASE PurgeBatch /\ row'[o] # row[o]
  <2>1. row'[o] = NoRow /\ row[o] \in Row /\ rpc[o] \in RequestPCs
    BY <1>4 DEF PurgeBatch, KeepInv, TypeInv, TypeOK, MaybeRow
  <2>2. /\ StatusOf(o) = row[o].state /\ row'[o].viewedAt = 0
        /\ StatusOf(o)' = IF InFlight(o) THEN "lapsed" ELSE "gone"
        /\ InFlight(o) => row[o].state = "pending"
    BY <1>1, <2>1, NoRowIsNoRow DEF StatusOf, InFlight, Exists, NoRow, KeepInv, LifeInv, RowInFlight
  <2>3. Contract!Lapse(o) \/ Contract!Remove(o)
    BY <2>1, <2>2, MovesOf DEF Contract!Lapse, Contract!Remove, Contract!InTable,
       Contract!Outcomes, Row, States
  <2> QED
    BY <2>3 DEF LifeStep, Contract!Move
<1> QED
  BY <1>2, <1>3, <1>4 DEF Next, ViewerStep, ViewRead, ViewTenant, ViewReread, PurgeStart,
     PurgeError, Tick, UpdateConfig, vars

(* The operation table implements its contract: whatever requests with      *)
(* stale copies, polls, configuration changes and purges do, an operation   *)
(* lives the one life the contract describes.                               *)
THEOREM ContractImplemented ==
  ASSUME Markers = {}
  PROVE  Spec => ImplementsContract
<1>1. KeepInv /\ [Next]_vars => [Contract!Next]_(Contract!contractVars)
  <2> SUFFICES ASSUME KeepInv, [Next]_vars PROVE Contract!Next
    OBVIOUS
  <2>1. \A o \in Requests : LifeStep(o)
    BY ContractRequest, ContractOther
  <2> QED
    BY <2>1 DEF Contract!Next, LifeStep
<1> QED
  BY <1>1, ContractInit, KeepInvHolds, PTL DEF Spec, ImplementsContract, Contract!Spec
=============================================================================
