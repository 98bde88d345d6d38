----------------------------- MODULE ResourceProofs -----------------------------
(***************************************************************************)
(* Proofs about what a tenant keeps: its credential definitions, its OAuth *)
(* clients and its connectors, for every number of rows, overlapping       *)
(* requests, names, scopes, roles, endpoints, secrets and pods; about the  *)
(* format validators, for offers of every length; and about the keyset     *)
(* listings, for every number of rows and page size.                       *)
(***************************************************************************)
EXTENDS CredentialDefinitions, OAuthClients, Connectors, Formats, ListPages,
        FiniteSetTheorems, WellFoundedInduction, TLAPS

-------------------------------------------------------------------------------
(* Credential definitions.                                                  *)

DRow == [there : {TRUE}, name : DNames, format : DFormats, meta : {0, 1},
         checked : BOOLEAN, active : BOOLEAN]

DRequest == [at : {"idle", "insert", "loaded", "save"}, op : {"none", "create", "update", "delete"},
             id : DIds \cup {"none"}, name : DNames \cup {"none"},
             format : DFormats \cup {"none"}, copy : DRow \cup {DAbsent},
             found : DRow \cup {DAbsent}]

(* A request with a copy read it active, of a row that is still there, with *)
(* the format and the checked schema the row has for good.                  *)
DHolds(r) ==
  LET q == dReq[r]
      row == dRow[q.id]
  IN  /\ q.at \in {"loaded", "save"} =>
           /\ q.id \in DIds /\ row \in DRow /\ q.copy \in DRow /\ q.copy.active
           /\ q.copy.format = row.format /\ q.copy.checked = row.checked
      /\ q.at = "save" => /\ q.op = "update" /\ q.found \in DRow
                          /\ q.found.format = row.format /\ q.found.checked = row.checked
      /\ q.at = "insert" => q.name \in DNames /\ q.format \in DFormats

DInv ==
  /\ dRow \in [DIds -> DRow \cup {DAbsent}] /\ dReq \in [DRequests -> DRequest]
  /\ DIndexAllows(dRow)
  /\ \A r \in DRequests : DHolds(r)

LEMMA DRowFacts ==
  /\ DAbsent \notin DRow /\ ~DAbsent.there /\ ~DAbsent.active
  /\ \A row \in DRow : /\ row.there
                       /\ DOMAIN row = {"there", "name", "format", "meta", "checked", "active"}
BY DEF DAbsent, DRow

(* save() writes a row; what the entity and the row read agree in stays.    *)
LEMMA DDiffRow ==
  ASSUME NEW entity \in DRow, NEW found \in DRow, NEW now \in DRow
  PROVE  /\ DDiff(entity, found, now) \in DRow
         /\ entity.format = found.format => DDiff(entity, found, now).format = now.format
         /\ entity.checked = found.checked => DDiff(entity, found, now).checked = now.checked
<1> DEFINE new == DDiff(entity, found, now)
<1>1. new = [there |-> new.there, name |-> new.name, format |-> new.format, meta |-> new.meta,
             checked |-> new.checked, active |-> new.active]
  BY DRowFacts DEF DDiff
<1> QED
  BY <1>1, DRowFacts DEF DDiff, DRow

(* The request that moved has its shape, the table its rows: what is left   *)
(* to show is that other requests still hold what they held.                *)
LEMMA DOthersHold ==
  ASSUME DInv, NEW r \in DRequests, NEW q \in DRequest, DGo(r, q),
         dRow' \in [DIds -> DRow \cup {DAbsent}], DIndexAllows(dRow'),
         \A d \in DIds : dRow[d] \in DRow =>
            dRow'[d] \in DRow /\ dRow'[d].format = dRow[d].format /\ dRow'[d].checked = dRow[d].checked,
         DHolds(r)'
  PROVE  DInv'
<1> USE DEF DInv
<1>1. dReq' \in [DRequests -> DRequest]
  BY DEF DGo
<1>2. ASSUME NEW p \in DRequests, p # r PROVE DHolds(p)'
  <2>1. dReq'[p] = dReq[p] /\ DHolds(p)
    BY <1>2 DEF DGo
  <2> QED
    BY <2>1 DEF DHolds
<1> QED
  BY <1>1, <1>2

LEMMA DInvNext == DInv /\ [DNext]_dVars => DInv'
<1> SUFFICES ASSUME DInv, [DNext]_dVars PROVE DInv'
  OBVIOUS
<1>0. DIdle \in DRequest
  BY DEF DIdle, DRequest
<1>1. ASSUME NEW r \in DRequests, NEW n \in DNames, NEW f \in DFormats, NEW ok \in BOOLEAN,
             DCreateRead(r, n, f, ok)
      PROVE  DInv'
  <2> DEFINE q == [DIdle EXCEPT !.at = "insert", !.op = "create", !.name = n, !.format = f]
  <2>1. q \in DRequest /\ q.at = "insert" /\ q.name = n /\ q.format = f
    BY DEF DIdle, DRequest
  <2>2. DGo(r, q) /\ dRow' = dRow
    BY <1>1 DEF DCreateRead
  <2> HIDE DEF q
  <2>3. DHolds(r)'
    BY <2>1, <2>2 DEF DHolds, DGo, DInv
  <2> QED
    BY <2>1, <2>2, <2>3, DOthersHold DEF DInv
<1>2. ASSUME NEW r \in DRequests, NEW d \in DIds, DCreateInsert(r, d) PROVE DInv'
  <2> DEFINE new == [there |-> TRUE, name |-> dReq[r].name, format |-> dReq[r].format, meta |-> 0,
                     checked |-> DValidated(dReq[r].format), active |-> TRUE]
  <2>1. new \in DRow /\ dRow[d] \notin DRow
    <3>1. dReq[r].name \in DNames /\ dReq[r].format \in DFormats /\ ~dRow[d].there
      BY <1>2 DEF DCreateInsert, DInv, DHolds
    <3>2. DValidated(dReq[r].format) \in BOOLEAN
      BY DEF DValidated
    <3> QED
      BY <3>1, <3>2, DRowFacts DEF DRow
  <2>2. DGo(r, DIdle) /\ (dRow' = dRow \/ (dRow' = [dRow EXCEPT ![d] = new] /\ DIndexAllows(dRow')))
    <3> DEFINE rows == [dRow EXCEPT ![d] = new]
    <3>1. DGo(r, DIdle) /\ dRow' = IF DIndexAllows(rows) THEN rows ELSE dRow
      BY <1>2 DEF DCreateInsert
    <3> HIDE DEF rows
    <3>2. DIndexAllows(rows) /\ dRow' = rows => DIndexAllows(dRow')
      OBVIOUS
    <3>3. dRow' = dRow \/ (dRow' = rows /\ DIndexAllows(dRow'))
      BY <3>1, <3>2
    <3> QED
      BY <3>1, <3>3 DEF rows
  <2> HIDE DEF new
  <2>3. DHolds(r)'
    BY <2>2 DEF DHolds, DGo, DInv, DIdle
  <2> QED
    BY <1>0, <2>1, <2>2, <2>3, DOthersHold DEF DInv
<1>3. ASSUME NEW r \in DRequests, NEW op \in {"update", "delete"}, NEW d \in DIds,
             NEW n \in DNames \cup {"none"}, DLoad(r, op, d, n)
      PROVE  DInv'
  <2> DEFINE q == [DIdle EXCEPT !.at = "loaded", !.op = op, !.id = d, !.name = n, !.copy = DFind(d)]
  <2>1. DFind(d) = dRow[d] /\ dRow[d] \in DRow /\ dRow[d].active
    BY <1>3, DRowFacts DEF DLoad, DFind, DInv
  <2>2. q \in DRequest /\ q.at = "loaded" /\ q.id = d /\ q.copy = dRow[d]
    BY <2>1 DEF DIdle, DRequest
  <2>3. DGo(r, q) /\ dRow' = dRow
    BY <1>3 DEF DLoad
  <2> HIDE DEF q
  <2>4. DHolds(r)'
    BY <2>1, <2>2, <2>3 DEF DHolds, DGo, DInv
  <2> QED
    BY <2>2, <2>3, <2>4, DOthersHold DEF DInv
<1>4. ASSUME NEW r \in DRequests, DSaveRead(r) PROVE DInv'
  <2> DEFINE p == dReq[r]
             e == IF p.name = "none" THEN [p.copy EXCEPT !.meta = 1 - @] ELSE [p.copy EXCEPT !.name = p.name]
             q == [p EXCEPT !.at = "save", !.copy = e, !.found = dRow[p.id]]
  <2>1. /\ p \in DRequest /\ p.id \in DIds /\ dRow[p.id] \in DRow /\ p.copy \in DRow /\ p.copy.active
        /\ p.copy.format = dRow[p.id].format /\ p.copy.checked = dRow[p.id].checked
        /\ p.op = "update"
    BY <1>4 DEF DSaveRead, DInv, DHolds
  <2>2. /\ e \in DRow /\ e.active /\ e.format = p.copy.format /\ e.checked = p.copy.checked
    <3>1. CASE p.name = "none"
      <4>1. 1 - p.copy.meta \in {0, 1}
        <5>1. p.copy.meta \in {0, 1}
          BY <2>1 DEF DRow
        <5> QED
          BY <5>1
      <4> QED
        BY <2>1, <3>1, <4>1 DEF DRow
    <3>2. CASE p.name # "none"
      BY <2>1, <3>2 DEF DRow, DRequest
    <3> QED
      BY <3>1, <3>2
  <2>3. DGo(r, q) /\ dRow' = dRow
    BY <1>4 DEF DSaveRead
  <2> HIDE DEF e
  <2>4. /\ q \in DRequest /\ q.at = "save" /\ q.id = p.id /\ q.copy = e /\ q.found = dRow[p.id]
        /\ q.op = "update"
    BY <2>1, <2>2 DEF DRequest
  <2> HIDE DEF q
  <2>5. DHolds(r)'
    BY <2>1, <2>2, <2>3, <2>4 DEF DHolds, DGo, DInv
  <2> QED
    BY <2>3, <2>4, <2>5, DOthersHold DEF DInv
<1>5. ASSUME NEW r \in DRequests, DSaveWrite(r) PROVE DInv'
  <2> DEFINE p == dReq[r]
             new == DDiff(p.copy, p.found, dRow[p.id])
  <2>1. /\ p.id \in DIds /\ dRow[p.id] \in DRow /\ p.copy \in DRow /\ p.found \in DRow
        /\ p.copy.format = p.found.format /\ p.copy.checked = p.found.checked
    BY <1>5 DEF DSaveWrite, DInv, DHolds
  <2>2. new \in DRow /\ new.format = dRow[p.id].format /\ new.checked = dRow[p.id].checked
    BY <2>1, DDiffRow
  <2>3. DGo(r, DIdle) /\ (dRow' = dRow \/ (dRow' = [dRow EXCEPT ![p.id] = new] /\ DIndexAllows(dRow')))
    <3> DEFINE rows == [dRow EXCEPT ![p.id] = new]
    <3>1. DGo(r, DIdle) /\ dRow' = IF DIndexAllows(rows) THEN rows ELSE dRow
      BY <1>5 DEF DSaveWrite
    <3> HIDE DEF rows
    <3>2. DIndexAllows(rows) /\ dRow' = rows => DIndexAllows(dRow')
      OBVIOUS
    <3>3. dRow' = dRow \/ (dRow' = rows /\ DIndexAllows(dRow'))
      BY <3>1, <3>2
    <3> QED
      BY <3>1, <3>3 DEF rows
  <2> HIDE DEF new
  <2>4. DHolds(r)'
    BY <2>3 DEF DHolds, DGo, DInv, DIdle
  <2> QED
    BY <1>0, <2>1, <2>2, <2>3, <2>4, DOthersHold DEF DInv
<1>6. ASSUME NEW r \in DRequests, DDeactivate(r) PROVE DInv'
  <2> DEFINE d == dReq[r].id
  <2>1. d \in DIds /\ dRow[d] \in DRow
    BY <1>6 DEF DDeactivate, DInv, DHolds
  <2>2. DGo(r, DIdle) /\ dRow' = [dRow EXCEPT ![d].active = FALSE]
    BY <1>6 DEF DDeactivate
  <2>3. [dRow[d] EXCEPT !.active = FALSE] \in DRow
    BY <2>1 DEF DRow
  <2>4. /\ dRow' = [dRow EXCEPT ![d] = [dRow[d] EXCEPT !.active = FALSE]]
        /\ dRow'[d] = [dRow[d] EXCEPT !.active = FALSE]
    BY <2>1, <2>2 DEF DInv
  <2>5. /\ dRow'[d].format = dRow[d].format /\ dRow'[d].checked = dRow[d].checked
        /\ ~dRow'[d].active
    <3>1. /\ [dRow[d] EXCEPT !.active = FALSE].format = dRow[d].format
          /\ [dRow[d] EXCEPT !.active = FALSE].checked = dRow[d].checked
          /\ ~[dRow[d] EXCEPT !.active = FALSE].active
      BY <2>1 DEF DRow
    <3> QED
      BY <2>4, <3>1
  <2>6. DIndexAllows(dRow')
    BY <2>1, <2>4, <2>5 DEF DInv, DIndexAllows
  <2>7. DHolds(r)'
    BY <2>2 DEF DHolds, DGo, DInv, DIdle
  <2> QED
    BY <1>0, <2>1, <2>2, <2>3, <2>4, <2>5, <2>6, <2>7, DOthersHold DEF DInv
<1>7. CASE UNCHANGED dVars
  BY <1>7 DEF dVars, DInv, DHolds, DIndexAllows
<1> QED
  BY <1>1, <1>2, <1>3, <1>4, <1>5, <1>6, <1>7 DEF DNext

LEMMA DInvInit == DInit => DInv
BY DRowFacts DEF DInit, DInv, DHolds, DIndexAllows, DIdle, DRequest

(* The table keeps its shape, and one active definition of a name and       *)
(* format, under any number of overlapping creates, renames, saves of stale *)
(* entities and deactivations (uq_credential_definition_active).            *)
THEOREM DefinitionsUnique == DSpec => []DTableSound
<1>1. DInv => DTableSound
  <2> SUFFICES ASSUME DInv PROVE DTableSound
    OBVIOUS
  <2>1. DTypeOK
    BY DEF DInv, DTypeOK, DRow, DRequest
  <2>2. DUniqueActive
    BY DEF DInv, DIndexAllows, DUniqueActive
  <2> QED
    BY <2>1, <2>2 DEF DTableSound
<1> QED
  BY <1>1, DInvInit, DInvNext, PTL DEF DSpec

(* A deactivated definition comes back only through the save of an update   *)
(* that had read it active, and with the format and schema check it had.    *)
THEOREM DefinitionsReturnBySave == DSpec => DReturnsOnlyBySave
<1> DEFINE Back(d) == dRow[d].there /\ ~dRow[d].active /\ dRow'[d].active
           Owed(d) == /\ \E r \in DRequests : dReq[r].id = d /\ dReq[r].op = "update" /\ dReq[r].copy.active
                      /\ dRow'[d].format = dRow[d].format /\ dRow'[d].checked = dRow[d].checked
<1>1. DInv /\ [DNext]_dVars => \A d \in DIds : Back(d) => Owed(d)
  <2> SUFFICES ASSUME DInv, DNext, NEW d \in DIds, Back(d) PROVE Owed(d)
    BY DEF dVars
  <2>1. PICK r \in DRequests :
          \/ \E n \in DNames, f \in DFormats, ok \in BOOLEAN : DCreateRead(r, n, f, ok)
          \/ \E x \in DIds : DCreateInsert(r, x) \/ DLoad(r, "delete", x, "none")
          \/ \E x \in DIds, n \in DNames \cup {"none"} : DLoad(r, "update", x, n)
          \/ DSaveRead(r) \/ DSaveWrite(r) \/ DDeactivate(r)
    BY DEF DNext
  <2>2. dRow'[d] # dRow[d] /\ dRow[d].there /\ dRow'[d].active
    OBVIOUS
  <2>3. CASE DSaveWrite(r)
    <3> DEFINE p == dReq[r]
               new == DDiff(p.copy, p.found, dRow[p.id])
    <3>1. /\ p.id \in DIds /\ dRow[p.id] \in DRow /\ p.copy \in DRow /\ p.found \in DRow
          /\ p.copy.format = p.found.format /\ p.copy.checked = p.found.checked
          /\ p.op = "update" /\ p.copy.active
      BY <2>3 DEF DSaveWrite, DInv, DHolds
    <3>2. new.format = dRow[p.id].format /\ new.checked = dRow[p.id].checked
      BY <3>1, DDiffRow
    <3>3. dRow' = dRow \/ dRow' = [dRow EXCEPT ![p.id] = new]
      BY <2>3 DEF DSaveWrite
    <3> HIDE DEF new
    <3>4. d = p.id /\ dRow'[d] = new
      BY <2>2, <3>1, <3>3 DEF DInv
    <3> QED
      BY <3>1, <3>2, <3>4
  <2>4. ASSUME NEW x \in DIds, DCreateInsert(r, x) PROVE FALSE
    <3>1. ~dRow[x].there /\ \A y \in DIds : y # x => dRow'[y] = dRow[y]
      BY <2>4 DEF DCreateInsert, DInv
    <3> QED
      BY <2>2, <3>1
  <2>5. CASE DDeactivate(r)
    <3> DEFINE x == dReq[r].id
    <3>1. x \in DIds /\ dRow[x] \in DRow /\ dRow' = [dRow EXCEPT ![x].active = FALSE]
      BY <2>5 DEF DDeactivate, DInv, DHolds
    <3>2. ~dRow'[x].active /\ \A y \in DIds : y # x => dRow'[y] = dRow[y]
      BY <3>1 DEF DInv, DRow
    <3> QED
      BY <2>2, <3>2
  <2> QED
    BY <2>1, <2>2, <2>3, <2>4, <2>5 DEF DCreateRead, DLoad, DSaveRead
<1> QED
  BY <1>1, DInvInit, DInvNext, PTL DEF DSpec, DReturnsOnlyBySave

-------------------------------------------------------------------------------
(* OAuth clients.                                                           *)

KRequest == [at : {"idle", "load", "write", "done"}, id : KIds \cup {"none"},
             caller : KCallers, sent : SUBSET (KColumns \cup {"secret"}),
             copy : KRow, found : KRow]

KPaired(row) == row.roles = {} \/ row.grants = {KMachineGrant}

(* What a request past its read holds: privileges that were granted, or     *)
(* that its platform admin asks for; a pair of roles and grants that was    *)
(* checked; and, unless it was overtaken, the row but for what it sends.    *)
KHolds(r) ==
  LET q == kReq[r]
      row == kRow[q.id]
  IN  q.at \in {"load", "write"} =>
        /\ q.id \in KIds /\ row.there /\ q.copy.there /\ q.copy.scopes \subseteq KConfigured
        /\ \/ q.copy.scopes \ KHeld \subseteq kGranted[q.id]
           \/ q.caller = "platform" /\ "scopes" \in q.sent
        /\ \/ q.copy.roles \cap KPlatformRoles \subseteq kGranted[q.id]
           \/ q.caller = "platform" /\ "roles" \in q.sent
        /\ kLost \/ KPaired(q.copy)
        /\ "secret" \in q.sent => q.copy.secret = r
        /\ r \notin kOvertaken =>
             /\ q.copy.public = row.public
             /\ "secret" \notin q.sent => q.copy.secret = row.secret
        /\ q.at = "write" => q.found.there /\ (r \notin kOvertaken => q.found = row)

(* What is true of a client's row, what was granted and what was shown.     *)
KRowSound(k) ==
  /\ KCheckHolds(kRow[k])
  /\ KPrivileges(kRow[k]) \subseteq kGranted[k] /\ kRow[k].scopes \subseteq KConfigured
  /\ ~kRow[k].there => kRow[k].secret = KNoSecret /\ ~kRow[k].public
  /\ kLost \/ (KPaired(kRow[k]) /\ (~kRow[k].public => kShown[k] = kRow[k].secret))

KInv ==
  /\ kRow \in [KIds -> KRow] /\ kReq \in [KRequests -> KRequest]
  /\ kShown \in [KIds -> KRequests \cup {KNoSecret, KFirstSecret}]
  /\ kGranted \in [KIds -> SUBSET (KCatalog \cup KAllowedRoles)]
  /\ kOvertaken \subseteq KRequests /\ kLost \in BOOLEAN
  /\ \A k \in KIds : KRowSound(k)
  /\ \A r \in KRequests : KHolds(r)

LEMMA KConstants ==
  /\ KIdle \in KRequest /\ KAbsent \in KRow /\ KPublic \in KRow
  /\ [KIdle EXCEPT !.at = "done"] \in KRequest /\ [KIdle EXCEPT !.at = "done"].at = "done"
<1>1. KAbsent \in KRow /\ KPublic \in KRow
  BY KAssumption DEF KAbsent, KPublic, KRow
<1> QED
  BY <1>1 DEF KIdle, KRequest, KCallers

(* save() writes a row whose columns are the copy's or the stored ones, and *)
(* the copy itself when the row is still the one it found.                  *)
LEMMA KMergeRow ==
  ASSUME NEW row \in KRow, NEW found \in KRow, NEW copy \in KRow
  PROVE  LET new == KMerge(row, found, copy)
         IN  /\ new \in KRow
             /\ new.there \in {row.there, copy.there}
             /\ new.scopes \in {row.scopes, copy.scopes} /\ new.roles \in {row.roles, copy.roles}
             /\ found = row => new = copy
<1> DEFINE new == KMerge(row, found, copy)
<1>1. \A x \in KRow : DOMAIN x = {"there", "public", "secret", "scopes", "roles", "grants"}
  BY DEF KRow
<1>2. new = [there |-> new.there, public |-> new.public, secret |-> new.secret,
             scopes |-> new.scopes, roles |-> new.roles, grants |-> new.grants]
  BY <1>1 DEF KMerge
<1>3. new \in KRow
  BY <1>1, <1>2 DEF KMerge, KRow
<1>4. /\ new.there \in {row.there, copy.there}
      /\ new.scopes \in {row.scopes, copy.scopes} /\ new.roles \in {row.roles, copy.roles}
  BY <1>1 DEF KMerge
<1>5. ASSUME found = row PROVE new = copy
  <2>1. /\ new.there = copy.there /\ new.public = copy.public /\ new.secret = copy.secret
        /\ new.scopes = copy.scopes /\ new.roles = copy.roles /\ new.grants = copy.grants
    BY <1>1, <1>5 DEF KMerge
  <2> QED
    BY <1>2, <2>1 DEF KRow
<1> QED
  BY <1>3, <1>4, <1>5

(* The requests that do not move hold what they held: a change of their row *)
(* overtakes them, and what was granted stays granted.                      *)
LEMMA KOthersHold ==
  ASSUME KInv, NEW r \in KRequests, NEW q \in KRequests, q # r, kReq'[q] = kReq[q],
         \A k \in KIds : kRow[k].there => kRow'[k].there,
         \A k \in KIds : kGranted[k] \subseteq kGranted'[k],
         kOvertaken \subseteq kOvertaken', kLost => kLost',
         kReq[q].at \in {"load", "write"} /\ q \notin kOvertaken' => kRow'[kReq[q].id] = kRow[kReq[q].id]
  PROVE  KHolds(q)'
<1>1. KHolds(q)
  BY DEF KInv
<1>2. CASE kReq[q].at \notin {"load", "write"}
  BY <1>2 DEF KHolds
<1>3. CASE kReq[q].at \in {"load", "write"}
  BY <1>1, <1>3 DEF KHolds
<1> QED
  BY <1>2, <1>3

(* A request that only reads.                                               *)
LEMMA KReadStep ==
  ASSUME KInv, NEW r \in KRequests, NEW q \in KRequest, kReq' = [kReq EXCEPT ![r] = q],
         UNCHANGED <<kRow, kShown, kGranted, kOvertaken, kLost>>, KHolds(r)'
  PROVE  KInv'
<1>1. ASSUME NEW p \in KRequests, p # r PROVE KHolds(p)'
  <2>1. kReq'[p] = kReq[p]
    BY <1>1 DEF KInv
  <2> QED
    BY <1>1, <2>1, KOthersHold DEF KInv
<1>2. \A k \in KIds : KRowSound(k)'
  BY DEF KInv, KRowSound, KPrivileges, KCheckHolds, KPaired
<1>3. kReq' \in [KRequests -> KRequest]
  BY DEF KInv
<1> QED
  BY <1>1, <1>2, <1>3 DEF KInv

(* A request that writes row k and is done.                                 *)
LEMMA KWriteStep ==
  ASSUME KInv, NEW r \in KRequests, NEW k \in KIds, NEW new \in KRow, NEW caller, NEW sent,
         KWrote(r, k, new, caller, sent), kReq' = KDone(r),
         kShown' \in [KIds -> KRequests \cup {KNoSecret, KFirstSecret}],
         \A x \in KIds : x # k => kShown'[x] = kShown[x],
         kLost' \in BOOLEAN, kLost => kLost', new.there,
         KRowSound(k)'
  PROVE  KInv'
<1> DEFINE done == [KIdle EXCEPT !.at = "done"]
<1>1. /\ kReq' \in [KRequests -> KRequest] /\ kReq'[r].at = "done"
      /\ \A q \in KRequests : q # r => kReq'[q] = kReq[q]
  BY KConstants DEF KDone, KInv
<1>2. kRow' \in [KIds -> KRow] /\ kRow'[k] = new /\ \A x \in KIds : x # k => kRow'[x] = kRow[x]
  BY DEF KWrote, KInv
<1>3. kOvertaken' \subseteq KRequests /\ kOvertaken \subseteq kOvertaken'
  BY DEF KWrote, KInv
<1>4. /\ kGranted' \in [KIds -> SUBSET (KCatalog \cup KAllowedRoles)]
      /\ \A x \in KIds : kGranted[x] \subseteq kGranted'[x]
  <2>1. new.scopes \subseteq KCatalog /\ new.roles \subseteq KAllowedRoles
    BY DEF KRow
  <2>2. ((IF caller = "platform"
          THEN (IF "scopes" \in sent THEN new.scopes ELSE {})
                 \cup (IF "roles" \in sent THEN new.roles ELSE {})
          ELSE {}) \in SUBSET (KCatalog \cup KAllowedRoles))
    BY <2>1
  <2> QED
    BY <2>2 DEF KWrote, KInv
<1>5. ASSUME NEW q \in KRequests, q # r PROVE KHolds(q)'
  <2>1. kReq[q].at \in {"load", "write"} /\ q \notin kOvertaken' => kRow'[kReq[q].id] = kRow[kReq[q].id]
    <3> SUFFICES ASSUME kReq[q].at \in {"load", "write"}, q \notin kOvertaken'
                 PROVE  kRow'[kReq[q].id] = kRow[kReq[q].id]
      OBVIOUS
    <3>1. kReq[q].id \in KIds
      BY DEF KInv, KHolds
    <3>2. kReq[q].id = k => new = kRow[k]
      BY <1>5 DEF KWrote
    <3> QED
      BY <1>2, <3>1, <3>2
  <2>2. \A x \in KIds : kRow[x].there => kRow'[x].there
    BY <1>2
  <2> QED
    BY <1>1, <1>3, <1>4, <1>5, <2>1, <2>2, KOthersHold
<1>6. KHolds(r)'
  BY <1>1 DEF KHolds
<1>7. ASSUME NEW x \in KIds, x # k PROVE KRowSound(x)'
  <2>1. KRowSound(x) /\ kRow'[x] = kRow[x] /\ kShown'[x] = kShown[x] /\ kGranted[x] \subseteq kGranted'[x]
    BY <1>2, <1>4, <1>7 DEF KInv
  <2> QED
    BY <2>1 DEF KRowSound, KCheckHolds, KPrivileges, KPaired
<1> QED
  BY <1>1, <1>2, <1>3, <1>4, <1>5, <1>6, <1>7 DEF KInv

LEMMA KInvInit == KInit => KInv
<1> SUFFICES ASSUME KInit PROVE KInv
  OBVIOUS
<1> DEFINE Seeded == {KMachine(KFirstSecret, KHeld \cap KConfigured, roles, {KMachineGrant}) :
                        roles \in {{}, {"member"}, KPlatformRoles}}
<1>1. \A row \in Seeded : /\ row \in KRow /\ row.there /\ ~row.public /\ row.secret = KFirstSecret
                          /\ row.scopes = KHeld \cap KConfigured /\ KPaired(row)
  <2> SUFFICES ASSUME NEW roles \in {{}, {"member"}, KPlatformRoles}
               PROVE  LET row == KMachine(KFirstSecret, KHeld \cap KConfigured, roles, {KMachineGrant})
                      IN  /\ row \in KRow /\ row.there /\ ~row.public /\ row.secret = KFirstSecret
                          /\ row.scopes = KHeld \cap KConfigured /\ KPaired(row)
    OBVIOUS
  <2>1. roles \in SUBSET KAllowedRoles
    BY DEF KAllowedRoles
  <2>2. KHeld \cap KConfigured \in SUBSET KCatalog
    BY KAssumption
  <2>3. {KMachineGrant} \in SUBSET {KMachineGrant, "authorization_code", "refresh_token"}
    OBVIOUS
  <2> QED
    BY <2>1, <2>2, <2>3 DEF KMachine, KRow, KPaired
<1>2. \A k \in KIds : kRow[k] \in {KAbsent, KPublic} \cup Seeded
  BY DEF KInit
<1> HIDE DEF Seeded
<1>3. ASSUME NEW k \in KIds
      PROVE  /\ kRow[k] \in KRow /\ KRowSound(k)
             /\ KPrivileges(kRow[k]) \subseteq KCatalog \cup KAllowedRoles
  <2>1. /\ kRow[k] \in KRow /\ kRow[k].scopes \subseteq KConfigured /\ KPaired(kRow[k])
        /\ KCheckHolds(kRow[k])
        /\ ~kRow[k].there => kRow[k].secret = KNoSecret /\ ~kRow[k].public
    <3>1. CASE kRow[k] = KAbsent
      BY <3>1, KConstants DEF KAbsent, KPaired, KCheckHolds
    <3>2. CASE kRow[k] = KPublic
      BY <3>2, KConstants DEF KPublic, KPaired, KCheckHolds
    <3>3. CASE kRow[k] \in Seeded
      BY <1>1, <3>3, KAssumption DEF KCheckHolds
    <3> QED
      BY <1>2, <3>1, <3>2, <3>3
  <2>2. KPrivileges(kRow[k]) \subseteq KCatalog \cup KAllowedRoles
    BY <2>1 DEF KPrivileges, KRow
  <2>3. kGranted[k] = KPrivileges(kRow[k]) /\ kShown[k] = kRow[k].secret
    BY DEF KInit
  <2> QED
    BY <2>1, <2>2, <2>3 DEF KRowSound
<1>4. \A k \in KIds : kRow[k].secret \in KRequests \cup {KNoSecret, KFirstSecret}
  BY <1>3 DEF KRow
<1>5. \A r \in KRequests : KHolds(r)
  BY DEF KInit, KHolds, KIdle
<1>6. kRow = [k \in KIds |-> kRow[k]]
  BY DEF KInit
<1> QED
  BY <1>3, <1>4, <1>5, <1>6, KConstants DEF KInit, KInv

LEMMA KAssignableFacts ==
  ASSUME NEW scopes, NEW caller, KAssignable(scopes, caller)
  PROVE  /\ scopes \subseteq KCatalog /\ scopes \subseteq KConfigured
         /\ caller # "platform" => scopes \subseteq KHeld
BY DEF KAssignable, KPartition

LEMMA KRolesFacts ==
  ASSUME NEW roles, NEW grants, NEW caller, NEW check, NEW previous,
         KRolesFit(roles, grants, caller, check, previous)
  PROVE  /\ roles \subseteq KAllowedRoles /\ (roles = {} \/ grants = {KMachineGrant})
         /\ check /\ caller # "platform" => roles \cap KPlatformRoles \subseteq previous
BY DEF KRolesFit, KHasPlatformRole, KPlatformRoles

LEMMA KCreateInv ==
  ASSUME KInv, NEW r \in KRequests, NEW k \in KIds, NEW caller \in KCallers, NEW scopes, NEW roles,
         NEW grants, NEW rolesSent \in BOOLEAN,
         KCreate(r, k, caller, scopes, roles, grants, rolesSent)
  PROVE  KInv'
<1> DEFINE new == KMachine(r, scopes, roles, grants)
           sent == {"scopes", "roles"}
<1>1. /\ KAssignable(scopes, caller) /\ KRolesFit(roles, grants, caller, rolesSent, {})
      /\ ~rolesSent => roles = {}
      /\ KSupported(grants) /\ kReq' = KDone(r) /\ KWrote(r, k, new, caller, sent)
      /\ kShown' = [kShown EXCEPT ![k] = r] /\ kLost' = kLost
  BY DEF KCreate
<1>2. /\ new \in KRow /\ new.there /\ ~new.public /\ new.secret = r /\ new.scopes = scopes
      /\ new.roles = roles /\ KPaired(new) /\ scopes \subseteq KConfigured
  BY <1>1, KAssignableFacts, KRolesFacts DEF KMachine, KRow, KSupported, KPaired
<1>3. caller # "platform" => scopes \subseteq KHeld /\ roles \cap KPlatformRoles = {}
  BY <1>1, KAssignableFacts, KRolesFacts
<1> HIDE DEF new
<1>4. kGranted'[k] = kGranted[k] \cup (IF caller = "platform" THEN scopes \cup roles ELSE {})
  BY <1>1, <1>2 DEF KWrote, KInv
<1>5. kRow'[k] = new /\ kShown'[k] = r
  BY <1>1 DEF KWrote, KInv
<1>6. KRowSound(k)'
  <2>1. KPrivileges(new) \subseteq kGranted'[k]
    BY <1>2, <1>3, <1>4 DEF KPrivileges
  <2>2. r # KNoSecret
    BY KAssumption
  <2> QED
    BY <1>2, <1>5, <2>1, <2>2 DEF KRowSound, KCheckHolds
<1>7. /\ kShown' \in [KIds -> KRequests \cup {KNoSecret, KFirstSecret}]
      /\ \A x \in KIds : x # k => kShown'[x] = kShown[x]
  BY <1>1 DEF KInv
<1> QED
  BY <1>1, <1>2, <1>6, <1>7, KWriteStep DEF KInv

LEMMA KUpdateReadInv ==
  ASSUME KInv, NEW r \in KRequests, NEW k \in KIds, NEW caller \in KCallers,
         NEW sent \in SUBSET KColumns, NEW patch, KUpdateRead(r, k, caller, sent, patch)
  PROVE  KInv'
<1> DEFINE row == kRow[k]
           next == KPatched(row, sent, patch)
           copy == [row EXCEPT !.scopes = next["scopes"], !.roles = next["roles"],
                               !.grants = next["grants"]]
           q == [KIdle EXCEPT !.at = "load", !.id = k, !.caller = caller, !.sent = sent,
                              !.copy = copy]
<1>1. /\ row \in KRow /\ row.there
      /\ "grants" \in sent => KSupported(patch["grants"])
      /\ KRolesFit(next["roles"], next["grants"], caller, "roles" \in sent, row.roles)
      /\ "scopes" \in sent => KAssignable(patch["scopes"], caller)
      /\ kReq' = [kReq EXCEPT ![r] = q]
      /\ UNCHANGED <<kRow, kShown, kGranted, kOvertaken, kLost>>
  BY DEF KUpdateRead, KInv
<1>2. /\ next["scopes"] = IF "scopes" \in sent THEN patch["scopes"] ELSE row.scopes
      /\ next["roles"] = IF "roles" \in sent THEN patch["roles"] ELSE row.roles
      /\ next["grants"] = IF "grants" \in sent THEN patch["grants"] ELSE row.grants
  BY DEF KPatched, KColumns
<1> HIDE DEF next
<1>3. /\ KPrivileges(row) \subseteq kGranted[k] /\ row.scopes \subseteq KConfigured
  BY DEF KInv, KRowSound
<1>4. /\ next["scopes"] \subseteq KCatalog /\ next["scopes"] \subseteq KConfigured
      /\ (next["scopes"] \ KHeld \subseteq kGranted[k] \/ (caller = "platform" /\ "scopes" \in sent))
  <2>1. CASE "scopes" \in sent
    BY <1>1, <1>2, <2>1, KAssignableFacts
  <2>2. CASE "scopes" \notin sent
    BY <1>1, <1>2, <1>3, <2>2 DEF KPrivileges, KRow
  <2> QED
    BY <2>1, <2>2
<1>5. /\ next["roles"] \subseteq KAllowedRoles
      /\ (next["roles"] \cap KPlatformRoles \subseteq kGranted[k] \/ (caller = "platform" /\ "roles" \in sent))
      /\ (next["roles"] = {} \/ next["grants"] = {KMachineGrant})
  <2>1. /\ next["roles"] \subseteq KAllowedRoles
        /\ (next["roles"] = {} \/ next["grants"] = {KMachineGrant})
        /\ ("roles" \in sent /\ caller # "platform" => next["roles"] \cap KPlatformRoles \subseteq row.roles)
    BY <1>1 DEF KRolesFit, KHasPlatformRole, KPlatformRoles
  <2> QED
    BY <1>2, <1>3, <2>1 DEF KPrivileges
<1>6. next["grants"] \subseteq {KMachineGrant, "authorization_code", "refresh_token"}
  BY <1>1, <1>2 DEF KSupported, KRow
<1>7. /\ copy \in KRow /\ copy.there /\ copy.public = row.public /\ copy.secret = row.secret
      /\ copy.scopes = next["scopes"] /\ copy.roles = next["roles"] /\ copy.grants = next["grants"]
  BY <1>1, <1>4, <1>5, <1>6 DEF KRow
<1> HIDE DEF copy
<1>8. /\ q \in KRequest /\ q.at = "load" /\ q.id = k /\ q.caller = caller /\ q.sent = sent
      /\ q.copy = copy
  BY <1>7, KConstants DEF KIdle, KRequest
<1> HIDE DEF q
<1>9. kReq'[r] = q /\ "secret" \notin sent
  BY <1>1 DEF KInv, KColumns
<1>10. KHolds(r)'
  BY <1>1, <1>4, <1>5, <1>7, <1>8, <1>9 DEF KHolds, KPaired
<1> QED
  BY <1>1, <1>8, <1>10, KReadStep

LEMMA KRotateReadInv ==
  ASSUME KInv, NEW r \in KRequests, NEW k \in KIds, KRotateRead(r, k)
  PROVE  KInv'
<1> DEFINE row == kRow[k]
           copy == [row EXCEPT !.secret = r]
           q == [KIdle EXCEPT !.at = "load", !.id = k, !.sent = {"secret"}, !.copy = copy]
<1>1. /\ row \in KRow /\ row.there /\ kReq' = [kReq EXCEPT ![r] = q]
      /\ UNCHANGED <<kRow, kShown, kGranted, kOvertaken, kLost>>
  BY DEF KRotateRead, KInv
<1>2. /\ copy \in KRow /\ copy.there /\ copy.public = row.public /\ copy.secret = r
      /\ copy.scopes = row.scopes /\ copy.roles = row.roles /\ copy.grants = row.grants
  BY <1>1 DEF KRow
<1> HIDE DEF copy
<1>3. q \in KRequest /\ q.at = "load" /\ q.id = k /\ q.sent = {"secret"} /\ q.copy = copy
  BY <1>2, KConstants DEF KIdle, KRequest
<1> HIDE DEF q
<1>4. kReq'[r] = q
  BY <1>1 DEF KInv
<1>5. /\ KPrivileges(row) \subseteq kGranted[k] /\ row.scopes \subseteq KConfigured
      /\ kLost \/ KPaired(row)
  BY DEF KInv, KRowSound
<1>6. KHolds(r)'
  BY <1>1, <1>2, <1>3, <1>4, <1>5 DEF KHolds, KPaired, KPrivileges
<1> QED
  BY <1>1, <1>3, <1>6, KReadStep

LEMMA KLoadInv ==
  ASSUME KInv, NEW r \in KRequests, KLoad(r)
  PROVE  KInv'
<1> DEFINE p == kReq[r]
           q == [p EXCEPT !.at = "write", !.found = kRow[p.id]]
<1>1. /\ p \in KRequest /\ p.at = "load" /\ KHolds(r) /\ p.id \in KIds /\ kRow[p.id] \in KRow
      /\ UNCHANGED <<kRow, kShown, kGranted, kOvertaken, kLost>>
  BY DEF KLoad, KInv, KHolds
<1>2. kReq' = [kReq EXCEPT ![r] = q]
  BY <1>1 DEF KLoad, KInv
<1>3. /\ q \in KRequest /\ q.at = "write" /\ q.id = p.id /\ q.caller = p.caller
      /\ q.sent = p.sent /\ q.copy = p.copy /\ q.found = kRow[p.id]
  BY <1>1 DEF KRequest
<1> HIDE DEF q
<1>4. kReq'[r] = q
  BY <1>2 DEF KInv
<1>5. KHolds(r)'
  BY <1>1, <1>3, <1>4 DEF KHolds
<1> QED
  BY <1>1, <1>2, <1>3, <1>5, KReadStep

LEMMA KWriteInv ==
  ASSUME KInv, NEW r \in KRequests, KWrite(r)
  PROVE  KInv'
<1>k. PICK k \in KIds : k = kReq[r].id
  BY DEF KWrite, KInv, KHolds
<1> DEFINE q == kReq[r]
           row == kRow[k]
           new == KMerge(row, q.found, q.copy)
<1>1. /\ q \in KRequest /\ q.at = "write" /\ KHolds(r) /\ k = q.id /\ row \in KRow
      /\ q.copy \in KRow /\ q.found \in KRow /\ row.there /\ q.copy.there
      /\ KRowSound(k) /\ kReq' = KDone(r)
  BY <1>k DEF KWrite, KInv, KHolds, KRequest
<1>2. /\ new \in KRow /\ new.there
      /\ new.scopes \in {row.scopes, q.copy.scopes} /\ new.roles \in {row.roles, q.copy.roles}
      /\ q.found = row => new = q.copy
  BY <1>1, KMergeRow
<1>3. CASE ~KCheckHolds(new)
  <2>1. UNCHANGED <<kRow, kShown, kGranted, kOvertaken, kLost>>
    BY <1>k, <1>3 DEF KWrite
  <2>2. [KIdle EXCEPT !.at = "done"] \in KRequest /\ kReq' = [kReq EXCEPT ![r] = [KIdle EXCEPT !.at = "done"]]
    BY <1>1, KConstants DEF KDone
  <2>3. KHolds(r)'
    BY <2>2, KConstants DEF KHolds, KInv
  <2> QED
    BY <2>1, <2>2, <2>3, KReadStep
<1>4. CASE KCheckHolds(new)
  <2>1. /\ KWrote(r, k, new, q.caller, q.sent)
        /\ kShown' = IF "secret" \in q.sent THEN [kShown EXCEPT ![k] = r] ELSE kShown
        /\ kLost' = (kLost \/ r \in kOvertaken)
    BY <1>k, <1>4 DEF KWrite
  <2> HIDE DEF new
  <2>2. /\ kShown' \in [KIds -> KRequests \cup {KNoSecret, KFirstSecret}]
        /\ \A x \in KIds : x # k => kShown'[x] = kShown[x]
        /\ kShown'[k] = IF "secret" \in q.sent THEN r ELSE kShown[k]
    BY <1>1, <2>1 DEF KInv
  <2>3. kLost' \in BOOLEAN /\ (kLost => kLost') /\ (~kLost' => ~kLost /\ r \notin kOvertaken)
    BY <2>1, Zenon
  <2>4. /\ kRow'[k] = new /\ kGranted[k] \subseteq kGranted'[k]
        /\ q.caller = "platform" /\ "scopes" \in q.sent => new.scopes \subseteq kGranted'[k]
        /\ q.caller = "platform" /\ "roles" \in q.sent => new.roles \subseteq kGranted'[k]
    BY <1>1, <2>1 DEF KWrote, KInv
  <2>5. KPrivileges(new) \subseteq kGranted'[k] /\ new.scopes \subseteq KConfigured
    <3>1. KPrivileges(row) \subseteq kGranted[k] /\ row.scopes \subseteq KConfigured
      BY <1>1 DEF KRowSound
    <3>2. new.scopes \ KHeld \subseteq kGranted'[k] /\ new.scopes \subseteq KConfigured
      BY <1>1, <1>2, <2>4, <3>1 DEF KHolds, KPrivileges
    <3>3. new.roles \cap KPlatformRoles \subseteq kGranted'[k]
      BY <1>1, <1>2, <2>4, <3>1 DEF KHolds, KPrivileges
    <3> QED
      BY <3>2, <3>3 DEF KPrivileges
  <2>6. kLost' \/ (KPaired(new) /\ (~new.public => kShown'[k] = new.secret))
    <3> SUFFICES ASSUME ~kLost' PROVE KPaired(new) /\ (~new.public => kShown'[k] = new.secret)
      OBVIOUS
    <3>1. ~kLost /\ r \notin kOvertaken /\ new = q.copy
      BY <1>1, <1>2, <2>3 DEF KHolds
    <3>2. KPaired(new)
      BY <1>1, <3>1 DEF KHolds
    <3>3. ~row.public => kShown[k] = row.secret
      BY <1>1, <3>1 DEF KRowSound
    <3> QED
      BY <1>1, <2>2, <3>1, <3>2, <3>3 DEF KHolds
  <2>7. KRowSound(k)'
    BY <1>2, <1>4, <2>4, <2>5, <2>6 DEF KRowSound
  <2> QED
    BY <1>1, <1>2, <2>1, <2>2, <2>3, <2>7, KWriteStep
<1> QED
  BY <1>3, <1>4

LEMMA KInvNext == KInv /\ [KNext]_kVars => KInv'
<1> SUFFICES ASSUME KInv, [KNext]_kVars PROVE KInv'
  OBVIOUS
<1>1. CASE UNCHANGED kVars
  <2>1. \A r \in KRequests : KHolds(r)'
    BY <1>1 DEF kVars, KInv, KHolds
  <2>2. \A k \in KIds : KRowSound(k)'
    BY <1>1 DEF kVars, KInv, KRowSound, KPrivileges
  <2> QED
    BY <1>1, <2>1, <2>2 DEF kVars, KInv
<1> QED
  BY <1>1, KCreateInv, KUpdateReadInv, KRotateReadInv, KLoadInv, KWriteInv DEF KNext

(* Whatever requests overlap: a client has no privilege a platform admin    *)
(* did not ask for and no scope the deployment does not offer, and, unless  *)
(* an overtaken copy was saved, roles go with machine grants and the secret *)
(* shown last is the one that works (OAuthClientService).                   *)
THEOREM ClientsAlwaysSound == KSpec => []KClientsSound
<1>1. KInv => KClientsSound
  <2> SUFFICES ASSUME KInv PROVE KClientsSound
    OBVIOUS
  <2>1. KTypeOK
    BY DEF KInv, KTypeOK, KRequest, KRowSound
  <2>2. KPrivilegesGranted
    BY DEF KInv, KPrivilegesGranted, KRowSound
  <2>3. KRolesOnlyForMachines
    BY DEF KInv, KRolesOnlyForMachines, KRowSound, KPaired
  <2>4. KShownSecretWorks
    <3> SUFFICES ASSUME ~kLost, NEW k \in KIds, NEW s \in KRequests \cup {KFirstSecret}
                 PROVE  KAuthenticates(k, s) <=> (kShown[k] = s /\ ~kRow[k].public)
      BY DEF KShownSecretWorks
    <3>1. KRowSound(k) /\ kRow[k] \in KRow
      BY DEF KInv
    <3>2. s # KNoSecret
      BY KAssumption
    <3> QED
      BY <3>1, <3>2 DEF KRowSound, KAuthenticates, KCheckHolds, KRow
  <2> QED
    BY <2>1, <2>2, <2>3, <2>4 DEF KClientsSound
<1> QED
  BY <1>1, KInvInit, KInvNext, PTL DEF KSpec

-------------------------------------------------------------------------------
(* Connectors.                                                              *)

(* What the proofs need of a row, stored or loaded: an active one is there, *)
(* one that is there was encrypted under the key it names, and its endpoint *)
(* passed a check.                                                          *)
CWell(row, checked) ==
  /\ row \in CRows
  /\ row.active => row.exists
  /\ row.exists => row.under = row.keyVersion /\ row.secret # CNone /\ row.endpoint \in checked

CJobRecord == [kind : CKinds \cup {"none"}, pod : CPods \cup {CNone},
               at : {"free", "load", "rotate", "check", "store", "delete",
                     "default", "select", "resolved"},
               id : CIds \cup {CNone}, named : CIds \cup {CNone},
               endpoint : CEndpoints \cup {CNone}, secret : CSecrets \cup {CNone},
               copy : [CIds -> CRows], todo : SUBSET CIds, failed : BOOLEAN]

(* The states the kinds of jobs go through.                                 *)
CStage(job) ==
  /\ job.at # "free" => job.pod \in CPods /\ job.kind # "none"
  /\ job.at \in {"load", "rotate"} => job.kind # "create"
  /\ job.at \in {"check", "store"} => job.kind \in {"create", "update"}
  /\ job.at = "delete" => job.kind = "delete"
  /\ job.at = "default" => job.kind = "resolve"
  /\ job.kind \in {"create", "update", "delete"} /\ job.at # "free" => job.id \in CIds
  /\ job.kind = "create" /\ job.at # "free" => job.endpoint # CNone /\ job.secret # CNone

(* An update tests the endpoint sent, or that of the row it loaded, and     *)
(* stores none that was not tested.                                         *)
CTested(job, checked) ==
  /\ job.kind = "update" /\ job.at \in {"rotate", "check"} => job.copy[job.id].exists
  /\ job.at = "store" /\ job.endpoint # CNone => job.endpoint \in checked

(* The connector a resolution has chosen.                                   *)
CChosen(job) ==
  job.at = "resolved" =>
    /\ job.id \in CIds /\ job.copy[job.id].active
    /\ job.named \in {CNone, job.id}
    /\ job.named = CNone => \A c \in CIds \ {job.id} : ~job.copy[c].active

CJobSound(job, checked) ==
  /\ job \in CJobRecord
  /\ \A c \in CIds : CWell(job.copy[c], checked)
  /\ \A c \in job.todo : job.copy[c].exists
  /\ CStage(job) /\ CTested(job, checked) /\ CChosen(job)

CInv ==
  /\ cKeys \in [CPods -> 1 .. 2] /\ cDefault \in CIds \cup {CNone}
  /\ cAcked \in [CIds -> CSecrets \cup {CNone}] /\ cChecked \subseteq CEndpoints
  /\ cRow \in [CIds -> CRows] /\ \A c \in CIds : CWell(cRow[c], cChecked)
  /\ cJob \in [CJobs -> CJobRecord] /\ \A j \in CJobs : CJobSound(cJob[j], cChecked)

LEMMA CFreeSound == ASSUME NEW checked PROVE CWell(CNoRow, checked) /\ CJobSound(CFree, checked)
<1>1. CNoRow \in CRows /\ ~CNoRow.active /\ ~CNoRow.exists
  BY DEF CNoRow, CRows
<1>2. CNoRows \in [CIds -> CRows] /\ \A c \in CIds : CNoRows[c] = CNoRow
  BY <1>1 DEF CNoRows
<1>3. /\ CFree \in CJobRecord /\ CFree.at = "free" /\ CFree.copy = CNoRows /\ CFree.todo = {}
  BY <1>2 DEF CFree, CJobRecord
<1> QED
  BY <1>1, <1>2, <1>3 DEF CWell, CJobSound, CStage, CTested, CChosen

(* A check that passes takes nothing away from what was checked.            *)
LEMMA CMoreChecked ==
  ASSUME NEW job, NEW checked, NEW more, checked \subseteq more, CJobSound(job, checked)
  PROVE  CJobSound(job, more)
BY DEF CJobSound, CWell, CTested

(* What a step of job j has to establish.                                   *)
LEMMA CJobStep ==
  ASSUME CInv, NEW j \in CJobs, NEW new, cJob' = [cJob EXCEPT ![j] = new],
         cChecked' \subseteq CEndpoints, cChecked \subseteq cChecked', CJobSound(new, cChecked'),
         cKeys' = cKeys, cDefault' = cDefault, cAcked' \in [CIds -> CSecrets \cup {CNone}],
         cRow' \in [CIds -> CRows], \A c \in CIds : CWell(cRow'[c], cChecked')
  PROVE  CInv'
<1>1. new \in CJobRecord
  BY DEF CJobSound
<1>2. cJob' \in [CJobs -> CJobRecord] /\ cJob'[j] = new /\ \A i \in CJobs : i # j => cJob'[i] = cJob[i]
  BY <1>1 DEF CInv
<1>3. \A i \in CJobs : CJobSound(cJob[i], cChecked')
  BY CMoreChecked DEF CInv
<1>4. \A i \in CJobs : CJobSound(cJob'[i], cChecked')
  BY <1>2, <1>3
<1> QED
  BY <1>2, <1>4 DEF CInv

(* A step of job j that leaves the rows alone.                              *)
LEMMA CQuietStep ==
  ASSUME CInv, NEW j \in CJobs, NEW new, cJob' = [cJob EXCEPT ![j] = new], CJobSound(new, cChecked),
         UNCHANGED <<cKeys, cRow, cDefault, cChecked, cAcked>>
  PROVE  CInv'
<1>1. /\ cChecked' \subseteq CEndpoints /\ cChecked \subseteq cChecked' /\ CJobSound(new, cChecked')
      /\ cAcked' \in [CIds -> CSecrets \cup {CNone}] /\ cRow' \in [CIds -> CRows]
      /\ \A c \in CIds : CWell(cRow'[c], cChecked')
  BY DEF CInv
<1> QED
  BY <1>1, CJobStep

(* EncryptionService.encrypt gives a row of the pod's current key.          *)
LEMMA CEncrypted ==
  ASSUME CInv, NEW row \in CRows, NEW secret \in CSecrets \cup {CNone}, NEW p \in CPods
  PROVE  LET new == CEncrypt(row, secret, p)
         IN  /\ new \in CRows /\ new.under = new.keyVersion /\ new.secret = secret
             /\ new.exists = row.exists /\ new.active = row.active /\ new.endpoint = row.endpoint
<1>1. cKeys[p] \in 1 .. 2
  BY DEF CInv
<1> QED
  BY <1>1 DEF CEncrypt, CRows

LEMMA CBeginInv ==
  ASSUME CInv, NEW j \in CJobs, NEW p \in CPods, NEW kind \in CKinds, NEW c \in CIds \cup {CNone},
         NEW e \in CEndpoints \cup {CNone}, NEW s \in CSecrets \cup {CNone},
         CBegin(j, p, kind, c, e, s)
  PROVE  CInv'
<1> DEFINE at == CASE kind = "create" -> "check" [] kind = "resolve" -> "default" [] OTHER -> "load"
           new == [CFree EXCEPT !.kind = kind, !.pod = p, !.id = c, !.endpoint = e, !.secret = s,
                                !.at = at]
<1>1. cJob' = [cJob EXCEPT ![j] = new] /\ UNCHANGED <<cKeys, cRow, cDefault, cChecked, cAcked>>
  BY DEF CBegin
<1>2. /\ kind \in {"create", "update", "delete"} => c \in CIds
      /\ kind = "create" => e # CNone /\ s # CNone
  BY DEF CBegin, CKinds
<1>3. /\ at \in {"check", "default", "load"}
      /\ at = "check" => kind = "create" /\ kind # "update"
      /\ at = "load" => kind # "create"
      /\ at = "default" => kind = "resolve"
  BY DEF CKinds
<1> HIDE DEF at
<1>4. CFree \in CJobRecord /\ CFree.todo = {} /\ \A x \in CIds : CWell(CFree.copy[x], cChecked)
  BY CFreeSound DEF CJobSound, CFree
<1>5. /\ new \in CJobRecord /\ new.todo = {} /\ new.copy = CFree.copy /\ new.at = at
      /\ new.kind = kind /\ new.pod = p /\ new.id = c /\ new.endpoint = e /\ new.secret = s
  BY <1>3, <1>4 DEF CJobRecord
<1> HIDE DEF new
<1>6. CJobSound(new, cChecked)
  <2>1. CStage(new)
    BY <1>2, <1>3, <1>5 DEF CStage, CKinds
  <2>2. CTested(new, cChecked) /\ CChosen(new)
    BY <1>3, <1>5 DEF CTested, CChosen
  <2> QED
    BY <1>4, <1>5, <2>1, <2>2 DEF CJobSound
<1> QED
  BY <1>1, <1>6, CQuietStep

LEMMA CLoadInv ==
  ASSUME CInv, NEW j \in CJobs, CLoad(j)
  PROVE  CInv'
<1> DEFINE job == cJob[j]
           rows == {c \in CIds : cRow[c].exists /\ job.id \in {c, CNone}}
           copy == [c \in CIds |-> IF c \in rows THEN cRow[c] ELSE CNoRow]
           todo == {c \in rows : CRequiresRotation(cRow[c], job.pod)}
           new == [job EXCEPT !.at = "rotate", !.copy = copy, !.todo = todo]
<1>1. /\ job \in CJobRecord /\ CJobSound(job, cChecked) /\ job.at = "load"
      /\ UNCHANGED <<cKeys, cRow, cDefault, cChecked, cAcked>>
  BY DEF CLoad, CInv
<1>2. CASE rows = {}
  BY <1>1, <1>2, CFreeSound, CQuietStep DEF CLoad, CEnd
<1>3. CASE rows # {}
  <2>1. cJob' = [cJob EXCEPT ![j] = new]
    BY <1>1, <1>3 DEF CLoad, CInv
  <2>2. \A c \in CIds : CWell(copy[c], cChecked)
    BY CFreeSound DEF CInv
  <2>3. copy \in [CIds -> CRows] /\ todo \subseteq CIds /\ \A c \in todo : copy[c].exists
    BY <2>2 DEF CWell
  <2>4. job.id \in CIds => copy[job.id].exists
    BY <1>3, CAssumption
  <2> HIDE DEF copy, todo
  <2>5. /\ new \in CJobRecord /\ new.at = "rotate" /\ new.copy = copy /\ new.todo = todo
        /\ new.kind = job.kind /\ new.pod = job.pod /\ new.id = job.id
        /\ new.endpoint = job.endpoint /\ new.secret = job.secret
    BY <1>1, <2>3 DEF CJobRecord
  <2> HIDE DEF new
  <2>6. CStage(new)
    BY <1>1, <2>5 DEF CStage, CJobSound
  <2>7. CTested(new, cChecked) /\ CChosen(new)
    BY <1>1, <2>4, <2>5, <2>6 DEF CTested, CChosen, CStage
  <2>8. CJobSound(new, cChecked)
    BY <2>2, <2>3, <2>5, <2>6, <2>7 DEF CJobSound
  <2> QED
    BY <1>1, <2>1, <2>8, CQuietStep
<1> QED
  BY <1>2, <1>3

LEMMA CRotateInv ==
  ASSUME CInv, NEW j \in CJobs, NEW c \in CIds, CRotate(j, c)
  PROVE  CInv'
<1> DEFINE job == cJob[j]
           row == CEncrypt(job.copy[c], job.copy[c].secret, job.pod)
           copy == [job.copy EXCEPT ![c] = row]
<1>1. /\ job \in CJobRecord /\ CJobSound(job, cChecked) /\ job.at = "rotate" /\ c \in job.todo
      /\ job.copy[c] \in CRows /\ job.pod \in CPods /\ job.copy[c].exists
      /\ UNCHANGED <<cKeys, cDefault, cChecked, cAcked>>
  BY DEF CRotate, CInv, CJobSound, CStage, CJobRecord
<1>2. CASE CDecrypts(job.copy[c], job.pod)
  <2> DEFINE new == [job EXCEPT !.copy = copy, !.todo = job.todo \ {c}]
  <2>1. /\ cRow' = [cRow EXCEPT ![c] = IF cRow[c].exists THEN CWriteSecret(cRow[c], row) ELSE cRow[c]]
        /\ cJob' = [cJob EXCEPT ![j] = new]
    BY <1>1, <1>2 DEF CRotate, CInv, CJobRecord
  <2>2. CWell(job.copy[c], cChecked) /\ job.copy[c].secret \in CSecrets \cup {CNone}
    BY <1>1 DEF CJobSound, CRows
  <2>3. /\ row \in CRows /\ row.under = row.keyVersion /\ row.secret = job.copy[c].secret
        /\ row.exists = job.copy[c].exists /\ row.active = job.copy[c].active
        /\ row.endpoint = job.copy[c].endpoint
    BY <1>1, <2>2, CEncrypted
  <2> HIDE DEF row
  <2>4. CWell(row, cChecked) /\ row.secret # CNone
    BY <1>1, <2>2, <2>3 DEF CWell
  <2>5. /\ copy \in [CIds -> CRows] /\ \A x \in CIds : CWell(copy[x], cChecked)
        /\ \A x \in CIds : copy[x].exists = job.copy[x].exists
    BY <1>1, <2>3, <2>4 DEF CJobSound, CJobRecord
  <2> HIDE DEF copy
  <2>6. /\ new \in CJobRecord /\ new.at = "rotate" /\ new.copy = copy /\ new.todo = job.todo \ {c}
        /\ new.kind = job.kind /\ new.pod = job.pod /\ new.id = job.id
        /\ new.endpoint = job.endpoint /\ new.secret = job.secret
    BY <1>1, <2>5 DEF CJobRecord
  <2> HIDE DEF new
  <2>7. CStage(new)
    BY <1>1, <2>6 DEF CStage, CJobSound
  <2>8. CTested(new, cChecked) /\ CChosen(new)
    BY <1>1, <2>5, <2>6, <2>7 DEF CTested, CChosen, CStage, CJobSound
  <2>9. CJobSound(new, cChecked)
    <3>1. \A x \in new.todo : x \in CIds /\ new.copy[x].exists
      BY <1>1, <2>5, <2>6 DEF CJobSound, CJobRecord
    <3> QED
      BY <2>5, <2>6, <2>7, <2>8, <3>1 DEF CJobSound
  <2>10. cRow' \in [CIds -> CRows] /\ \A x \in CIds : CWell(cRow'[x], cChecked)
    <3>1. cRow[c] \in CRows /\ CWell(cRow[c], cChecked)
      BY DEF CInv
    <3>2. cRow[c].exists => CWell(CWriteSecret(cRow[c], row), cChecked)
      BY <2>3, <2>4, <3>1 DEF CWell, CWriteSecret, CRows
    <3>3. CWell(cRow'[c], cChecked) /\ \A x \in CIds : x # c => cRow'[x] = cRow[x]
      BY <2>1, <3>1, <3>2 DEF CInv
    <3>4. \A x \in CIds : CWell(cRow'[x], cChecked)
      BY <3>3 DEF CInv
    <3> QED
      BY <2>1, <3>4 DEF CInv, CWell
  <2> QED
    BY <1>1, <2>1, <2>9, <2>10, CJobStep DEF CInv
<1>3. CASE ~CDecrypts(job.copy[c], job.pod)
  <2> DEFINE new == [job EXCEPT !.failed = TRUE, !.todo = job.todo \ {c}]
  <2>1. cRow' = cRow /\ cJob' = [cJob EXCEPT ![j] = new]
    BY <1>1, <1>3 DEF CRotate, CInv, CJobRecord
  <2>2. /\ new \in CJobRecord /\ new.at = "rotate" /\ new.copy = job.copy /\ new.todo = job.todo \ {c}
        /\ new.kind = job.kind /\ new.pod = job.pod /\ new.id = job.id
        /\ new.endpoint = job.endpoint /\ new.secret = job.secret
    BY <1>1 DEF CJobRecord
  <2> HIDE DEF new
  <2>3. CJobSound(new, cChecked)
    BY <1>1, <2>2 DEF CJobSound, CStage, CTested, CChosen
  <2> QED
    BY <1>1, <2>1, <2>3, CQuietStep
<1> QED
  BY <1>2, <1>3

LEMMA CLoadedInv ==
  ASSUME CInv, NEW j \in CJobs, CLoaded(j)
  PROVE  CInv'
<1> DEFINE job == cJob[j]
           at == CASE job.kind = "update" -> "check" [] job.kind = "delete" -> "delete"
                   [] job.kind = "resolve" -> "select"
           new == [job EXCEPT !.at = at]
<1>1. /\ job \in CJobRecord /\ CJobSound(job, cChecked) /\ job.at = "rotate"
      /\ job.kind \notin {"none", "create"}
      /\ UNCHANGED <<cKeys, cRow, cDefault, cChecked, cAcked>>
  BY DEF CLoaded, CInv, CJobSound, CStage
<1>2. CASE job.failed \/ job.kind = "list"
  BY <1>1, <1>2, CFreeSound, CQuietStep DEF CLoaded, CEnd
<1>3. CASE ~(job.failed \/ job.kind = "list")
  <2>1. job.kind \in {"update", "delete", "resolve"}
    BY <1>1, <1>3 DEF CJobRecord, CKinds
  <2>2. /\ at \in {"check", "delete", "select"} /\ (at = "check" <=> job.kind = "update")
        /\ (at = "delete" <=> job.kind = "delete")
    BY <2>1
  <2>3. cJob' = [cJob EXCEPT ![j] = new]
    BY <1>1, <1>3 DEF CLoaded, CGo, CInv
  <2> HIDE DEF at
  <2>4. /\ new \in CJobRecord /\ new.at = at /\ new.copy = job.copy /\ new.todo = job.todo
        /\ new.kind = job.kind /\ new.pod = job.pod /\ new.id = job.id
        /\ new.endpoint = job.endpoint /\ new.secret = job.secret
    BY <1>1, <2>2 DEF CJobRecord
  <2> HIDE DEF new
  <2>5. CJobSound(new, cChecked)
    BY <1>1, <2>1, <2>2, <2>4 DEF CJobSound, CStage, CTested, CChosen
  <2> QED
    BY <1>1, <2>3, <2>5, CQuietStep
<1> QED
  BY <1>2, <1>3

LEMMA CCheckInv ==
  ASSUME CInv, NEW j \in CJobs, NEW healthy, CCheck(j, healthy)
  PROVE  CInv'
<1> DEFINE job == cJob[j]
           new == [job EXCEPT !.at = "store"]
           tested == CTestedEndpoint(job)
<1>1. /\ job \in CJobRecord /\ CJobSound(job, cChecked) /\ job.at = "check"
      /\ UNCHANGED <<cKeys, cRow, cDefault, cAcked>>
  BY DEF CCheck, CInv
<1>2. CASE ~(healthy /\ CCanTest(job))
  BY <1>1, <1>2, CFreeSound, CQuietStep DEF CCheck, CEnd
<1>3. CASE healthy /\ CCanTest(job)
  <2>1. cJob' = [cJob EXCEPT ![j] = new] /\ cChecked' = cChecked \cup {tested}
    BY <1>1, <1>3 DEF CCheck, CGo, CInv
  <2>2. tested \in CEndpoints /\ (job.endpoint # CNone => tested = job.endpoint)
    BY <1>1 DEF CTestedEndpoint, CJobSound, CStage, CTested, CJobRecord, CWell, CInv
  <2> HIDE DEF tested
  <2>3. /\ cChecked' \subseteq CEndpoints /\ cChecked \subseteq cChecked' /\ tested \in cChecked'
    BY <2>1, <2>2 DEF CInv
  <2>4. CJobSound(job, cChecked')
    BY <1>1, <2>3, CMoreChecked
  <2>5. /\ new \in CJobRecord /\ new.at = "store" /\ new.copy = job.copy /\ new.todo = job.todo
        /\ new.kind = job.kind /\ new.pod = job.pod /\ new.id = job.id
        /\ new.endpoint = job.endpoint /\ new.secret = job.secret
    BY <1>1 DEF CJobRecord
  <2> HIDE DEF new
  <2>6. CJobSound(new, cChecked')
    BY <1>1, <2>2, <2>3, <2>4, <2>5 DEF CJobSound, CStage, CTested, CChosen
  <2>7. \A c \in CIds : CWell(cRow'[c], cChecked')
    BY <1>1, <2>3 DEF CInv, CWell
  <2> QED
    BY <1>1, <2>1, <2>3, <2>6, <2>7, CJobStep DEF CInv
<1> QED
  BY <1>2, <1>3

LEMMA CStoreInv ==
  ASSUME CInv, NEW j \in CJobs, CStore(j)
  PROVE  CInv'
<1> DEFINE job == cJob[j]
           row == cRow[job.id]
           stored == IF job.kind = "create" THEN (IF row.exists THEN row ELSE CInserted(job))
                     ELSE IF row.exists THEN CUpdates(row, job) ELSE row
           again == [CFree EXCEPT !.kind = "list", !.pod = job.pod, !.id = job.id, !.at = "load"]
<1>1. /\ job \in CJobRecord /\ CJobSound(job, cChecked) /\ job.at = "store" /\ job.id \in CIds
      /\ job.pod \in CPods /\ job.secret \in CSecrets \cup {CNone} /\ job.kind \in {"create", "update"}
      /\ job.endpoint # CNone => job.endpoint \in cChecked /\ job.endpoint \in CEndpoints
      /\ job.kind = "create" => job.secret # CNone /\ job.endpoint # CNone
      /\ CWell(row, cChecked) /\ row \in CRows
      /\ cRow' = [cRow EXCEPT ![job.id] = stored]
      /\ UNCHANGED <<cKeys, cDefault, cChecked>>
  BY DEF CStore, CInv, CJobSound, CStage, CTested, CJobRecord
<1>2. CWell(CInserted(job), cChecked) \/ job.kind = "update"
  <2> SUFFICES ASSUME job.kind = "create" PROVE CWell(CInserted(job), cChecked)
    BY <1>1
  <2> DEFINE empty == [CNoRow EXCEPT !.exists = TRUE, !.active = TRUE, !.endpoint = job.endpoint]
  <2>1. empty \in CRows /\ empty.exists /\ empty.endpoint = job.endpoint
    <3>1. job.endpoint \in CEndpoints \cup {CNone} /\ CNoRow \in CRows
      BY <1>1 DEF CNoRow, CRows
    <3> QED
      BY <3>1 DEF CRows
  <2> HIDE DEF empty
  <2>2. /\ CEncrypt(empty, job.secret, job.pod) \in CRows
        /\ LET new == CEncrypt(empty, job.secret, job.pod)
           IN  /\ new.under = new.keyVersion /\ new.secret = job.secret
               /\ new.exists = empty.exists /\ new.endpoint = empty.endpoint
    <3>1. job.pod \in CPods /\ job.secret \in CSecrets \cup {CNone} /\ empty \in CRows
      BY <1>1, <2>1
    <3> QED
      BY <3>1, CEncrypted
  <2>3. CInserted(job) = CEncrypt(empty, job.secret, job.pod)
    BY DEF CInserted, empty
  <2> QED
    BY <1>1, <2>1, <2>2, <2>3 DEF CWell
<1>3. CWell(CUpdates(row, job), cChecked)
  <2> DEFINE moved == IF job.endpoint = CNone THEN row ELSE [row EXCEPT !.endpoint = job.endpoint]
  <2>1. CWell(moved, cChecked)
    BY <1>1 DEF CWell, CRows
  <2> HIDE DEF moved
  <2>2. moved \in CRows
    BY <2>1 DEF CWell
  <2>3. /\ CEncrypt(moved, job.secret, job.pod) \in CRows
        /\ LET new == CEncrypt(moved, job.secret, job.pod)
           IN  /\ new.under = new.keyVersion /\ new.secret = job.secret
               /\ new.exists = moved.exists /\ new.active = moved.active
               /\ new.endpoint = moved.endpoint
    BY <1>1, <2>2, CEncrypted
  <2>4. CUpdates(row, job) = IF job.secret = CNone THEN moved ELSE CEncrypt(moved, job.secret, job.pod)
    BY DEF CUpdates, moved
  <2> QED
    BY <2>1, <2>3, <2>4 DEF CWell
<1>4. CWell(stored, cChecked)
  BY <1>1, <1>2, <1>3
<1>5. cRow' \in [CIds -> CRows] /\ \A c \in CIds : CWell(cRow'[c], cChecked)
  <2> HIDE DEF stored
  <2>1. stored \in CRows
    BY <1>4 DEF CWell
  <2> QED
    BY <1>1, <1>4, <2>1 DEF CInv
<1>6. cAcked' \in [CIds -> CSecrets \cup {CNone}]
  <2>1. cAcked' \in {cAcked, [cAcked EXCEPT ![job.id] = job.secret]}
    BY DEF CStore
  <2> QED
    BY <1>1, <2>1 DEF CInv
<1>7. CJobSound(again, cChecked)
  <2>1. CJobSound(CFree, cChecked) /\ CFree.todo = {}
    BY CFreeSound DEF CFree
  <2>2. /\ again \in CJobRecord /\ again.at = "load" /\ again.copy = CFree.copy /\ again.todo = {}
        /\ again.kind = "list" /\ again.pod = job.pod
    BY <1>1, <2>1 DEF CJobRecord, CJobSound, CKinds
  <2> HIDE DEF again
  <2> QED
    BY <1>1, <2>1, <2>2 DEF CJobSound, CStage, CTested, CChosen
<1>8. cJob' = [cJob EXCEPT ![j] = again] \/ cJob' = [cJob EXCEPT ![j] = CFree]
  BY DEF CStore, CEnd
<1> HIDE DEF again, stored
<1>9. cChecked' \subseteq CEndpoints /\ cChecked \subseteq cChecked' /\ CJobSound(CFree, cChecked)
  BY <1>1, CFreeSound DEF CInv
<1> QED
  BY <1>1, <1>5, <1>6, <1>7, <1>8, <1>9, CJobStep

LEMMA CDeleteInv ==
  ASSUME CInv, NEW j \in CJobs, NEW referenced \in BOOLEAN, CDelete(j, referenced)
  PROVE  CInv'
<1>1. /\ cJob[j].id \in CIds /\ cJob' = [cJob EXCEPT ![j] = CFree]
      /\ UNCHANGED <<cKeys, cDefault, cChecked>>
  BY DEF CDelete, CInv, CJobSound, CStage, CEnd
<1>2. CWell(CNoRow, cChecked) /\ CJobSound(CFree, cChecked) /\ CNoRow \in CRows
  BY CFreeSound DEF CWell
<1>3. cRow' \in [CIds -> CRows] /\ \A c \in CIds : CWell(cRow'[c], cChecked)
  <2>1. cRow' \in {cRow, [cRow EXCEPT ![cJob[j].id] = CNoRow]}
    BY DEF CDelete
  <2> QED
    BY <1>1, <1>2, <2>1 DEF CInv
<1>4. cAcked' \in [CIds -> CSecrets \cup {CNone}]
  <2>1. cAcked' \in {cAcked, [cAcked EXCEPT ![cJob[j].id] = CNone]}
    BY DEF CDelete
  <2> QED
    BY <1>1, <2>1 DEF CInv
<1> QED
  BY <1>1, <1>2, <1>3, <1>4, CJobStep DEF CInv

LEMMA CResolveDefaultInv ==
  ASSUME CInv, NEW j \in CJobs, CResolveDefault(j)
  PROVE  CInv'
<1> DEFINE job == cJob[j]
           new == [job EXCEPT !.at = "load", !.named = cDefault]
<1>1. /\ job \in CJobRecord /\ CJobSound(job, cChecked) /\ job.at = "default"
      /\ cDefault \in CIds \cup {CNone}
      /\ UNCHANGED <<cKeys, cRow, cDefault, cChecked, cAcked>>
  BY DEF CResolveDefault, CInv
<1>2. cJob' = [cJob EXCEPT ![j] = new]
  BY <1>1 DEF CResolveDefault, CInv
<1>3. /\ new \in CJobRecord /\ new.at = "load" /\ new.copy = job.copy /\ new.todo = job.todo
      /\ new.kind = job.kind /\ new.pod = job.pod /\ new.id = job.id
      /\ new.endpoint = job.endpoint /\ new.secret = job.secret
  BY <1>1 DEF CJobRecord
<1> HIDE DEF new
<1>4. CJobSound(new, cChecked)
  BY <1>1, <1>3 DEF CJobSound, CStage, CTested, CChosen
<1> QED
  BY <1>1, <1>2, <1>4, CQuietStep

(* findConnector: a chosen row is active, and the only active one unless    *)
(* the tenant names it.                                                     *)
LEMMA CCandidateFacts ==
  ASSUME NEW rows, NEW named, NEW c \in CCandidates(rows, named),
         \A x \in CIds : rows[x].active => rows[x].exists
  PROVE  /\ c \in CIds /\ rows[c].active /\ named \in {CNone, c}
         /\ named = CNone => \A x \in CIds \ {c} : ~rows[x].active
<1> DEFINE active == {x \in CIds : rows[x].exists /\ rows[x].active}
<1>1. CASE named # CNone
  BY <1>1 DEF CCandidates
<1>2. CASE named = CNone
  <2>1. Cardinality(active) = 1 /\ c \in active
    BY <1>2 DEF CCandidates
  <2>2. IsFiniteSet(active)
    BY CAssumption, FS_Subset
  <2>3. \E x : active = {x}
    BY <2>1, <2>2, FS_Singleton
  <2> QED
    BY <1>2, <2>1, <2>3
<1> QED
  BY <1>1, <1>2

LEMMA CSelectInv ==
  ASSUME CInv, NEW j \in CJobs, CSelect(j)
  PROVE  CInv'
<1> DEFINE job == cJob[j]
           chosen == CCandidates(job.copy, job.named)
<1>1. /\ job \in CJobRecord /\ CJobSound(job, cChecked) /\ job.at = "select"
      /\ UNCHANGED <<cKeys, cRow, cDefault, cChecked, cAcked>>
  BY DEF CSelect, CInv
<1>2. CASE chosen = {}
  BY <1>1, <1>2, CFreeSound, CQuietStep DEF CSelect, CEnd
<1>3. CASE chosen # {}
  <2>1. PICK c \in chosen : cJob' = [cJob EXCEPT ![j].at = "resolved", ![j].id = c]
    BY <1>3 DEF CSelect
  <2> DEFINE new == [job EXCEPT !.at = "resolved", !.id = c]
  <2>2. \A x \in CIds : job.copy[x].active => job.copy[x].exists
    BY <1>1 DEF CJobSound, CWell
  <2>3. /\ c \in CIds /\ job.copy[c].active /\ job.named \in {CNone, c}
        /\ job.named = CNone => \A x \in CIds \ {c} : ~job.copy[x].active
    BY <2>2, CCandidateFacts
  <2>4. cJob' = [cJob EXCEPT ![j] = new]
    BY <1>1, <2>1 DEF CInv
  <2>5. /\ new \in CJobRecord /\ new.at = "resolved" /\ new.copy = job.copy /\ new.todo = job.todo
        /\ new.kind = job.kind /\ new.pod = job.pod /\ new.id = c /\ new.named = job.named
        /\ new.endpoint = job.endpoint /\ new.secret = job.secret
    BY <1>1, <2>3 DEF CJobRecord
  <2> HIDE DEF new, chosen
  <2>6. CStage(new) /\ CTested(new, cChecked)
    BY <1>1, <2>3, <2>5 DEF CJobSound, CStage, CTested
  <2>7. CChosen(new)
    BY <2>3, <2>5 DEF CChosen
  <2>8. CJobSound(new, cChecked)
    BY <1>1, <2>5, <2>6, <2>7 DEF CJobSound
  <2> QED
    BY <1>1, <2>4, <2>8, CQuietStep
<1> QED
  BY <1>2, <1>3

LEMMA CRestartInv ==
  ASSUME CInv, NEW p \in CPods, CRestart(p)
  PROVE  CInv'
<1>1. /\ \A j \in CJobs : cJob'[j] \in {CFree, cJob[j]}
      /\ cJob' = [j \in CJobs |-> cJob'[j]]
  BY DEF CRestart
<1>2. \A j \in CJobs : CJobSound(cJob'[j], cChecked)
  BY <1>1, CFreeSound DEF CInv
<1>3. cJob' \in [CJobs -> CJobRecord]
  BY <1>1, <1>2 DEF CJobSound
<1>4. cKeys' \in [CPods -> 1 .. 2] /\ UNCHANGED <<cRow, cDefault, cChecked, cAcked>>
  BY DEF CRestart, CInv
<1> QED
  BY <1>2, <1>3, <1>4 DEF CInv

LEMMA CDeactivateAllInv ==
  ASSUME CInv, CDeactivateAll
  PROVE  CInv'
<1>1. UNCHANGED <<cKeys, cDefault, cJob, cChecked, cAcked>>
  BY DEF CDeactivateAll
<1>2. ASSUME NEW c \in CIds PROVE CWell(cRow'[c], cChecked)
  <2>1. CWell(cRow[c], cChecked) /\ cRow'[c] = [cRow[c] EXCEPT !.active = FALSE]
    BY DEF CInv, CDeactivateAll
  <2> QED
    BY <2>1 DEF CWell, CRows
<1>3. cRow' \in [CIds -> CRows]
  <2>1. cRow' = [c \in CIds |-> cRow'[c]]
    BY DEF CDeactivateAll
  <2> QED
    BY <1>2, <2>1 DEF CWell
<1> QED
  BY <1>1, <1>2, <1>3 DEF CInv

LEMMA CInvNext == CInv /\ [CNext]_cVars => CInv'
<1> SUFFICES ASSUME CInv, [CNext]_cVars PROVE CInv'
  OBVIOUS
<1>1. CASE UNCHANGED cVars
  BY <1>1 DEF cVars, CInv
<1>2. ASSUME NEW j \in CJobs, CStep(j) PROVE CInv'
  <2>1. CASE CCall(j)
    BY <2>1, CFreeSound, CQuietStep DEF CCall, CEnd
  <2> QED
    BY <1>2, <2>1, CLoadInv, CLoadedInv, CStoreInv, CResolveDefaultInv, CSelectInv, CRotateInv,
       CCheckInv, CDeleteInv DEF CStep
<1>3. ASSUME NEW c \in CIds \cup {CNone}, CSetDefault(c) PROVE CInv'
  BY <1>3 DEF CSetDefault, CInv
<1> QED
  BY <1>1, <1>2, <1>3, CRestartInv, CBeginInv, CDeactivateAllInv DEF CNext

LEMMA CInvInit == CInit => CInv
<1> SUFFICES ASSUME CInit PROVE CInv
  OBVIOUS
<1>1. CWell(CNoRow, cChecked) /\ CJobSound(CFree, cChecked) /\ CNoRow \in CRows /\ CFree \in CJobRecord
  BY CFreeSound DEF CWell, CJobSound
<1> QED
  BY <1>1 DEF CInit, CInv, CNoRows

(* However registrations, updates, deletions and re-encryptions of pods     *)
(* with different key files interleave, what is stored of a connector can   *)
(* be used: its key version opens its secret and its endpoint answered.     *)
THEOREM ConnectorsAlwaysUsable == CSpec => []CStoredSound
<1>1. CInv => CStoredSound
  <2> SUFFICES ASSUME CInv PROVE CStoredSound
    OBVIOUS
  <2>1. CTypeOK
    BY DEF CInv, CTypeOK, CJobRecord
  <2>2. CDecryptable /\ CEndpointChecked
    BY DEF CInv, CDecryptable, CEndpointChecked, CWell
  <2> QED
    BY <2>1, <2>2 DEF CStoredSound
<1> QED
  BY <1>1, CInvInit, CInvNext, PTL DEF CSpec

(* resolve runs an operation against the named default or the only active   *)
(* connector, and never against one that was loaded inactive, whatever      *)
(* deactivation, deletion or change of the default runs beside it.          *)
THEOREM ResolutionAlwaysUsable == CSpec => []CResolvedUsable
<1>1. CInv => CResolvedUsable
  BY DEF CInv, CJobSound, CChosen, CResolvedUsable
<1> QED
  BY <1>1, CInvInit, CInvNext, PTL DEF CSpec

------------------------------------------------------------------------------
(* Format validators *)

\* One attribute that the loop finds no issue with.
FGood(s, offer, i) ==
    /\ \A j \in 1 .. i - 1 : offer[j].name # offer[i].name
    /\ offer[i].name \in FKnown(s)
    /\ FValueOk(s, offer[i])

FAttributes == [name : FNames, value : FValues]

\* The inductive invariant of a call of validateAttributes: after each turn, issues
\* were found exactly if one of the attributes so far is no good.
FInv ==
    /\ DOMAIN fRun = {"at", "schema", "offer", "next", "seen", "issues"}
    /\ fRun.at \in {"idle", "loop", "done", "refused"}
    /\ \E n \in 0 .. FMaxOffer :
         /\ fRun.offer \in [1 .. n -> FAttributes] /\ Len(fRun.offer) = n
         /\ fRun.next \in 1 .. n + 1
         /\ fRun.at = "done" => fRun.next = n + 1
    /\ fRun.seen = {fRun.offer[i].name : i \in 1 .. fRun.next - 1}
    /\ fRun.at = "loop" =>
         (fRun.issues = {} <=> \A i \in 1 .. fRun.next - 1 : FGood(fRun.schema, fRun.offer, i))
    /\ FVerdict
    /\ fRun.at = "refused" => fRun.schema \in FSchemas /\ ~FReadable(fRun.schema)

LEMMA OfferLength ==
    ASSUME NEW n \in Nat, NEW offer \in [1 .. n -> FAttributes]
    PROVE  Len(offer) = n /\ DOMAIN offer = 1 .. n
<1>1. offer \in Seq(FAttributes)  OBVIOUS
<1> QED  BY <1>1

LEMMA FormatsStart == FInit => FInv
<1> SUFFICES ASSUME FInit PROVE FInv
  OBVIOUS
<1>1. fRun = FIdle  BY DEF FInit
<1>2. fRun.offer = <<>> /\ <<>> \in [1 .. 0 -> FAttributes] /\ Len(<<>>) = 0
  BY <1>1 DEF FIdle
<1>3. fRun.at = "idle" /\ fRun.next = 1 /\ fRun.seen = {} /\ DOMAIN fRun = {"at", "schema", "offer", "next", "seen", "issues"}
  BY <1>1 DEF FIdle
<1>4. 0 \in 0 .. FMaxOffer  BY FAssumption
<1> QED  BY <1>2, <1>3, <1>4 DEF FInv, FVerdict

LEMMA BeginKeeps ==
    ASSUME NEW s \in FSchemas, NEW offer \in FOffers, FBegin(s, offer)
    PROVE  FInv'
<1>1. PICK n \in 0 .. FMaxOffer : offer \in [1 .. n -> FAttributes]
  BY DEF FOffers, FAttributes
<1>2. Len(offer) = n
  BY <1>1, OfferLength, FAssumption
<1>3. /\ fRun' = [FIdle EXCEPT !.schema = s, !.offer = offer, !.at = IF FReadable(s) THEN "loop" ELSE "refused"]
  BY DEF FBegin
<1>4. /\ DOMAIN fRun' = {"at", "schema", "offer", "next", "seen", "issues"}
      /\ fRun'.schema = s /\ fRun'.offer = offer /\ fRun'.next = 1 /\ fRun'.seen = {} /\ fRun'.issues = {}
      /\ fRun'.at = IF FReadable(s) THEN "loop" ELSE "refused"
  BY <1>3 DEF FIdle
<1>5. 1 \in 1 .. n + 1
  BY <1>1, FAssumption
<1> QED  BY <1>1, <1>2, <1>4, <1>5 DEF FInv, FVerdict

\* One turn finds an issue exactly with an attribute that is no good.
LEMMA TurnIssue ==
    ASSUME NEW s, NEW offer, NEW i \in Nat, NEW seen, seen = {offer[j].name : j \in 1 .. i - 1}
    PROVE  FEntryIssue(s, seen, offer[i]) = {} <=> FGood(s, offer, i)
BY DEF FEntryIssue, FGood

LEMMA TurnKeeps ==
    ASSUME FInv, FTurn
    PROVE  FInv'
<1>1. PICK n \in 0 .. FMaxOffer :
         /\ fRun.offer \in [1 .. n -> FAttributes] /\ Len(fRun.offer) = n
         /\ fRun.next \in 1 .. n + 1
  BY DEF FInv
<1>2. PICK k \in 1 .. n : k = fRun.next
  BY <1>1, FAssumption DEF FTurn
<1>3. PICK offer \in [1 .. n -> FAttributes] : offer = fRun.offer
  BY <1>1
<1>4. PICK s : s = fRun.schema
  OBVIOUS
<1>5. /\ DOMAIN fRun = {"at", "schema", "offer", "next", "seen", "issues"} /\ fRun.at = "loop"
      /\ fRun.seen = {offer[i].name : i \in 1 .. k - 1}
      /\ fRun.issues = {} <=> \A i \in 1 .. k - 1 : FGood(s, offer, i)
  BY <1>2, <1>3, <1>4 DEF FInv, FTurn
<1>6. fRun' = [fRun EXCEPT !.next = k + 1, !.seen = fRun.seen \cup {offer[k].name},
                  !.issues = fRun.issues \cup FEntryIssue(s, fRun.seen, offer[k])]
  BY <1>2, <1>3, <1>4 DEF FTurn
<1>7. /\ DOMAIN fRun' = {"at", "schema", "offer", "next", "seen", "issues"}
      /\ fRun'.at = "loop" /\ fRun'.schema = s /\ fRun'.offer = offer /\ fRun'.next = k + 1
      /\ fRun'.seen = fRun.seen \cup {offer[k].name}
      /\ fRun'.issues = fRun.issues \cup FEntryIssue(s, fRun.seen, offer[k])
  BY <1>3, <1>4, <1>5, <1>6
<1>8. FEntryIssue(s, fRun.seen, offer[k]) = {} <=> FGood(s, offer, k)
  <2>1. PICK seen : seen = fRun.seen
    OBVIOUS
  <2>2. k \in Nat /\ seen = {offer[j].name : j \in 1 .. k - 1}
    BY <1>5, <2>1
  <2> QED  BY <2>1, <2>2, TurnIssue
<1>9. \A i \in 1 .. k : i = k \/ i \in 1 .. k - 1
  OBVIOUS
<1>10. fRun'.seen = {offer[i].name : i \in 1 .. k}
  BY <1>5, <1>7, <1>9
<1>11. fRun'.issues = {} <=> \A i \in 1 .. k : FGood(s, offer, i)
  <2>1. fRun'.issues = {} <=> fRun.issues = {} /\ FEntryIssue(s, fRun.seen, offer[k]) = {}
    BY <1>7
  <2>2. (\A i \in 1 .. k : FGood(s, offer, i)) <=> (\A i \in 1 .. k - 1 : FGood(s, offer, i)) /\ FGood(s, offer, k)
    BY <1>9
  <2> QED  BY <1>5, <1>8, <2>1, <2>2
<1>12. k + 1 \in 1 .. n + 1 /\ (k + 1) - 1 = k
  BY FAssumption
<1>13. FVerdict'
  BY <1>7 DEF FVerdict
<1>14. \E m \in 0 .. FMaxOffer :
         /\ fRun'.offer \in [1 .. m -> FAttributes] /\ Len(fRun'.offer) = m
         /\ fRun'.next \in 1 .. m + 1
         /\ fRun'.at = "done" => fRun'.next = m + 1
  BY <1>1, <1>3, <1>7, <1>12
<1>15. fRun'.seen = {fRun'.offer[i].name : i \in 1 .. fRun'.next - 1}
  BY <1>7, <1>10, <1>12
<1>16. fRun'.issues = {} <=> \A i \in 1 .. fRun'.next - 1 : FGood(fRun'.schema, fRun'.offer, i)
  BY <1>7, <1>11, <1>12
<1>17. (fRun.issues = {} <=> \A i \in 1 .. fRun.next - 1 : FGood(fRun.schema, fRun.offer, i))'
  BY <1>16 DEF FGood, FKnown, FValueOk
<1> HIDE DEF FGood, FVerdict
<1> QED  BY <1>7, <1>13, <1>14, <1>15, <1>17 DEF FInv

\* No issue in any turn and none missing: the offer conforms as a whole.
LEMMA WholeOffer ==
    ASSUME NEW n \in Nat, NEW offer \in [1 .. n -> FAttributes], NEW s
    PROVE  FConforms(s, offer) <=>
             /\ \A i \in 1 .. n : FGood(s, offer, i)
             /\ FRequired(s) \subseteq {offer[i].name : i \in 1 .. n}
<1>1. DOMAIN offer = 1 .. n
  OBVIOUS
<1>2. ASSUME NEW i \in 1 .. n
      PROVE  FValueOk(s, offer[i]) <=>
               ((s.format # "anoncreds" /\ s.claims[offer[i].name] # "string")
                  => offer[i].value = s.claims[offer[i].name])
  BY DEF FValueOk, FMatchesClaimType
<1>3. (\A i, j \in 1 .. n : offer[i].name = offer[j].name => i = j)
        <=> \A i \in 1 .. n : \A j \in 1 .. i - 1 : offer[j].name # offer[i].name
  OBVIOUS
<1>4. (\A m \in FRequired(s) : \E i \in 1 .. n : offer[i].name = m)
        <=> FRequired(s) \subseteq {offer[i].name : i \in 1 .. n}
  <2> HIDE DEF FRequired
  <2> QED  OBVIOUS
<1> HIDE DEF FValueOk, FRequired, FKnown
<1> QED  BY <1>1, <1>2, <1>3, <1>4 DEF FConforms, FGood

LEMMA FinishKeeps ==
    ASSUME FInv, FFinish
    PROVE  FInv'
<1>1. PICK n \in 0 .. FMaxOffer :
         /\ fRun.offer \in [1 .. n -> FAttributes] /\ Len(fRun.offer) = n
         /\ fRun.next = n + 1
  BY FAssumption DEF FInv, FFinish
<1>2. PICK offer \in [1 .. n -> FAttributes] : offer = fRun.offer
  BY <1>1
<1>3. PICK s : s = fRun.schema
  OBVIOUS
<1>4. n \in Nat /\ (n + 1) - 1 = n
  BY FAssumption
<1>5. /\ DOMAIN fRun = {"at", "schema", "offer", "next", "seen", "issues"} /\ fRun.at = "loop"
      /\ fRun.seen = {offer[i].name : i \in 1 .. n}
      /\ fRun.issues = {} <=> \A i \in 1 .. n : FGood(s, offer, i)
  BY <1>1, <1>2, <1>3, <1>4 DEF FInv, FFinish
<1>6. /\ DOMAIN fRun' = {"at", "schema", "offer", "next", "seen", "issues"}
      /\ fRun'.at = "done" /\ fRun'.schema = s /\ fRun'.offer = offer /\ fRun'.next = n + 1
      /\ fRun'.seen = fRun.seen /\ fRun'.issues = fRun.issues \cup FMissing(s, fRun.seen)
  BY <1>1, <1>2, <1>3, <1>5 DEF FFinish
<1>7. FMissing(s, fRun.seen) = {} <=> FRequired(s) \subseteq fRun.seen
  <2> HIDE DEF FRequired
  <2> QED  BY DEF FMissing
<1>8. fRun'.issues = {} <=> FConforms(s, offer)
  <2>1. FConforms(s, offer) <=> /\ \A i \in 1 .. n : FGood(s, offer, i)
                                /\ FRequired(s) \subseteq fRun.seen
    BY <1>4, <1>5, WholeOffer
  <2> HIDE DEF FConforms, FGood, FMissing, FRequired
  <2> QED  BY <1>5, <1>6, <1>7, <2>1
<1>9. FVerdict'
  BY <1>6, <1>8 DEF FVerdict
<1> QED  BY <1>1, <1>2, <1>4, <1>5, <1>6, <1>9 DEF FInv

\* For schemas of any names and types and offers of any length, the one-pass loop of
\* validateAttributes finds no issue exactly when the whole offer conforms, and a
\* schema that validateSchema let in is never refused by validateAttributes.
THEOREM ValidatorsAlwaysAgree == FSpec => []FValidatorsAgree
<1>1. FInv /\ [FNext]_fRun => FInv'
  BY BeginKeeps, TurnKeeps, FinishKeeps DEF FNext, FInv, FVerdict
<1>2. ASSUME FInv PROVE FValidatorsAgree
  <2>1. FTypeOK
    BY <1>2, FAssumption DEF FInv, FTypeOK
  <2>2. ASSUME NEW s \in FSchemas, FSchemaOk(s) PROVE FReadable(s)
    <3>1. s.format \in {"anoncreds", "sd-jwt-vc", "jsonld"}
      BY DEF FSchemas, FAnonSchemas, FSdJwtSchemas, FW3cSchemas
    <3>2. CASE s.format = "anoncreds"
      BY <2>2, <3>2 DEF FSchemaOk, FAnonSchemaOk, FReadable
    <3>3. CASE s.format = "sd-jwt-vc"
      BY <2>2, <3>3 DEF FSchemaOk, FSdJwtSchemaOk, FClaimsOk, FReadable
    <3>4. CASE s.format = "jsonld"
      BY <2>2, <3>4 DEF FSchemaOk, FW3cSchemaOk, FClaimsOk, FReadable
    <3> QED  BY <3>1, <3>2, <3>3, <3>4
  <2>3. FAcceptedReadable
    BY <1>2, <2>2 DEF FInv, FAcceptedReadable
  <2> QED  BY <1>2, <2>1, <2>3 DEF FInv, FValidatorsAgree
<1> QED  BY <1>1, <1>2, FormatsStart, PTL DEF FSpec

-------------------------------------------------------------------------------
(* Keyset listings.                                                         *)

(* A set of naturals that is not empty has a least element.                 *)
LEMMA SmallestNumber ==
  ASSUME NEW T \in SUBSET Nat, T # {}
  PROVE  \E n \in T : \A m \in T : n <= m
<1> DEFINE R == OpToRel(<, Nat)
<1>1. IsWellFoundedOn(R, Nat)
  BY NatLessThanWellFounded
<1>2. \A x, y \in Nat : x < y => <<x, y>> \in R
  BY DEF OpToRel
<1> HIDE DEF R
<1>3. PICK x \in T : \A y \in T : ~ (<<y, x>> \in R)
  BY <1>1, WFMin
<1>4. ASSUME NEW y \in T PROVE x <= y
  <2>1. x \in Nat /\ y \in Nat /\ ~(y < x)
    BY <1>2, <1>3
  <2> QED
    BY <2>1
<1> QED
  BY <1>4

PRow == [at : 0 .. PMaxTime, id : PIds]
POrders == {"asc", "desc"}

(* Both directions of a listing are strict total orders of the rows.        *)
LEMMA PTotalOrder ==
  ASSUME NEW o \in POrders, NEW r \in PRow, NEW q \in PRow, NEW s \in PRow
  PROVE  /\ ~PBefore(o, r, r)
         /\ PBefore(o, r, q) /\ PBefore(o, q, s) => PBefore(o, r, s)
         /\ r = q \/ PBefore(o, r, q) \/ PBefore(o, q, r)
<1>0. PMaxTime \in Nat /\ \A i \in PIds : i \in Int
  BY PAssumption
<1>1. r.at \in Int /\ r.id \in Int /\ q.at \in Int /\ q.id \in Int /\ s.at \in Int /\ s.id \in Int
  BY <1>0 DEF PRow
<1>2. r.at = q.at /\ r.id = q.id => r = q
  BY DEF PRow
<1> QED
  BY <1>1, <1>2 DEF PBefore, PLess, POrders

(* The rows before a row, among those of a set.                             *)
PAhead(o, S, r) == {q \in S : PBefore(o, q, r)}

LEMMA PRankGrows ==
  ASSUME NEW o \in POrders, NEW S \in SUBSET PRow, IsFiniteSet(S), NEW r \in S, NEW q \in S, PBefore(o, q, r)
  PROVE  Cardinality(PAhead(o, S, q)) < Cardinality(PAhead(o, S, r))
<1>1. PAhead(o, S, q) \subseteq PAhead(o, S, r)
  BY PTotalOrder DEF PAhead
<1>2. q \in PAhead(o, S, r) /\ q \notin PAhead(o, S, q)
  BY PTotalOrder DEF PAhead
<1>3. IsFiniteSet(PAhead(o, S, r)) /\ IsFiniteSet(PAhead(o, S, q))
  <2>1. PAhead(o, S, r) \in SUBSET S /\ PAhead(o, S, q) \in SUBSET S
    BY DEF PAhead
  <2> QED
    BY <2>1, FS_Subset
<1> DEFINE A == PAhead(o, S, q)
           B == PAhead(o, S, r)
<1> HIDE DEF A, B
<1>4. A \in SUBSET B /\ A # B /\ IsFiniteSet(A) /\ IsFiniteSet(B)
  BY <1>1, <1>2, <1>3 DEF A, B
<1>5. Cardinality(A) <= Cardinality(B) /\ Cardinality(A) # Cardinality(B)
  BY <1>4, FS_Subset
<1>6. Cardinality(A) \in Nat /\ Cardinality(B) \in Nat
  BY <1>4, FS_CardinalityType
<1>7. Cardinality(A) < Cardinality(B)
  BY <1>5, <1>6
<1> QED
  BY <1>7 DEF A, B

(* A set of rows that is not empty has a first one.                         *)
LEMMA PFirstExists ==
  ASSUME NEW o \in POrders, NEW S \in SUBSET PRow, IsFiniteSet(S), NEW T \in SUBSET S, T # {}
  PROVE  \E r \in T : \A q \in T \ {r} : PBefore(o, r, q)
<1> DEFINE N == {Cardinality(PAhead(o, S, r)) : r \in T}
<1>1. N \in SUBSET Nat /\ N # {}
  <2>1. ASSUME NEW r \in T PROVE Cardinality(PAhead(o, S, r)) \in Nat
    <3>1. PAhead(o, S, r) \in SUBSET S
      BY DEF PAhead
    <3> QED
      BY <3>1, FS_Subset, FS_CardinalityType
  <2> QED
    BY <2>1
<1>2. PICK n \in N : \A m \in N : n <= m
  <2> HIDE DEF N
  <2> QED
    BY <1>1, SmallestNumber
<1>3. PICK r \in T : n = Cardinality(PAhead(o, S, r))
  OBVIOUS
<1>4. ASSUME NEW q \in T \ {r} PROVE PBefore(o, r, q)
  <2>1. CASE PBefore(o, q, r)
    <3>1. Cardinality(PAhead(o, S, q)) < Cardinality(PAhead(o, S, r))
      BY <2>1, PRankGrows
    <3>2. Cardinality(PAhead(o, S, q)) \in N
      OBVIOUS
    <3>3. Cardinality(PAhead(o, S, q)) \in Nat /\ n \in Nat
      BY <1>1, <3>2
    <3> QED
      BY <1>2, <1>3, <3>1, <3>2, <3>3
  <2> QED
    BY <2>1, PTotalOrder
<1> QED
  BY <1>4

(* ... and a last one, the first of the other direction.                    *)
LEMMA PLastExists ==
  ASSUME NEW o \in POrders, NEW S \in SUBSET PRow, IsFiniteSet(S), S # {}
  PROVE  \E r \in S : \A q \in S \ {r} : PBefore(o, q, r)
<1>1. PICK back \in POrders : back # o
  BY DEF POrders
<1>2. \A r, q \in S : PBefore(back, r, q) <=> PBefore(o, q, r)
  BY <1>1 DEF PBefore, POrders
<1>3. PICK r \in S : \A q \in S \ {r} : PBefore(back, r, q)
  BY PFirstExists
<1> QED
  BY <1>2, <1>3

(* What is taken comes before what is left.                                 *)
LEMMA PTakePrefix ==
  ASSUME NEW o \in POrders, NEW S \in SUBSET PRow, IsFiniteSet(S), NEW n \in Nat,
         NEW q \in PTake(o, S, n), NEW r \in S \ PTake(o, S, n)
  PROVE  PBefore(o, q, r)
<1>1. q \in S /\ Cardinality(PAhead(o, S, q)) < n /\ ~(Cardinality(PAhead(o, S, r)) < n)
  BY DEF PTake, PAhead
<1>2. PAhead(o, S, q) \in SUBSET S /\ PAhead(o, S, r) \in SUBSET S
  BY DEF PAhead
<1>3. Cardinality(PAhead(o, S, q)) \in Nat /\ Cardinality(PAhead(o, S, r)) \in Nat
  BY <1>2, FS_Subset, FS_CardinalityType
<1>4. CASE PBefore(o, r, q)
  <2>1. Cardinality(PAhead(o, S, r)) < Cardinality(PAhead(o, S, q))
    BY <1>1, <1>4, PRankGrows
  <2> QED
    BY <1>1, <1>3, <2>1
<1>5. q # r
  BY <1>1
<1> QED
  BY <1>1, <1>4, <1>5, PTotalOrder

(* Fewer than were asked for are all there are.                             *)
LEMMA PTakeAll ==
  ASSUME NEW o \in POrders, NEW S \in SUBSET PRow, IsFiniteSet(S), NEW n \in Nat,
         Cardinality(PTake(o, S, n)) < n
  PROVE  PTake(o, S, n) = S
<1> DEFINE T == S \ PTake(o, S, n)
<1>0. T \in SUBSET S
  OBVIOUS
<1>1. SUFFICES ASSUME T # {} PROVE FALSE
  BY DEF PTake
<1> HIDE DEF T
<1>2. PICK r \in T : \A q \in T \ {r} : PBefore(o, r, q)
  BY <1>0, <1>1, PFirstExists
<1>3. PAhead(o, S, r) \subseteq PTake(o, S, n)
  <2> SUFFICES ASSUME NEW q \in PAhead(o, S, r), q \in T PROVE FALSE
    BY DEF PAhead, T
  <2>1. PBefore(o, q, r) /\ q \in PRow /\ r \in PRow
    BY <1>0 DEF PAhead
  <2>2. q # r
    BY <2>1, PTotalOrder
  <2>3. PBefore(o, r, q)
    BY <1>2, <2>2
  <2> QED
    BY <2>1, <2>3, PTotalOrder
<1>4. PTake(o, S, n) \in SUBSET S
  BY DEF PTake
<1>5. IsFiniteSet(PTake(o, S, n))
  BY <1>4, FS_Subset
<1>6. Cardinality(PAhead(o, S, r)) <= Cardinality(PTake(o, S, n))
  BY <1>3, <1>5, FS_Subset
<1>7. Cardinality(PTake(o, S, n)) \in Nat /\ Cardinality(PAhead(o, S, r)) \in Nat
  BY <1>3, <1>5, FS_Subset, FS_CardinalityType
<1>8. Cardinality(PAhead(o, S, r)) < n
  BY <1>6, <1>7
<1>9. r \in PTake(o, S, n)
  BY <1>0, <1>8 DEF PTake, PAhead
<1> QED
  BY <1>9 DEF T

(* A set no larger than what is asked for is taken whole.                   *)
LEMMA PTakeWhole ==
  ASSUME NEW o \in POrders, NEW S \in SUBSET PRow, IsFiniteSet(S), NEW n \in Nat, Cardinality(S) <= n
  PROVE  PTake(o, S, n) = S
<1> SUFFICES ASSUME NEW r \in S PROVE Cardinality(PAhead(o, S, r)) < n
  BY DEF PTake, PAhead
<1> DEFINE A == PAhead(o, S, r)
<1>1. A \in SUBSET S /\ r \notin A
  BY PTotalOrder DEF PAhead
<1> HIDE DEF A
<1>2. Cardinality(A) <= Cardinality(S) /\ (Cardinality(S) = Cardinality(A) => S = A) /\ IsFiniteSet(A)
  BY <1>1, FS_Subset
<1>3. Cardinality(A) \in Nat /\ Cardinality(S) \in Nat
  BY <1>2, FS_CardinalityType
<1>4. Cardinality(A) < n
  BY <1>1, <1>2, <1>3
<1> QED
  BY <1>4 DEF A

(* A listing that runs: every row of its base that is still there has been  *)
(* returned or lies beyond an ascending cursor; nothing that was returned   *)
(* lies beyond a descending one.                                            *)
PAscAhead ==
  pList.order = "asc" =>
    \A r \in pList.base \cap PVisible :
      \/ r \in pList.seen
      \/ ~pList.done /\ (pList.cursor.set => PBefore("asc", pList.cursor, r))
PDescBehind ==
  pList.order = "desc" =>
    /\ pList.twice = {}
    /\ \A r \in pList.seen : pList.done \/ (pList.cursor.set /\ ~PBefore("desc", pList.cursor, r))

PShapes ==
  /\ pNow \in 0 .. PMaxTime
  /\ pRows \subseteq PRow /\ IsFiniteSet(pRows) /\ pGone \subseteq pRows
  /\ \A r \in pRows : r.at <= pNow
  /\ DOMAIN pList = {"order", "limit", "cursor", "base", "seen", "twice", "done"}
  /\ pList.order \in POrders \cup {"none"}
  /\ pList.order # "none" => pList.limit \in PLimits
  /\ pList.base \subseteq pRows /\ pList.seen \subseteq pRows /\ pList.twice \subseteq pList.seen
  /\ pList.cursor.at \in Int /\ pList.cursor.id \in Int /\ pList.cursor.set \in BOOLEAN
  /\ pList.cursor.at <= pNow
  /\ pList.done \in BOOLEAN

(* The inductive invariant of the listings.                                 *)
PInv == PShapes /\ PAscAhead /\ PDescBehind

LEMMA PInvInit == PInit => PInv
<1>1. 0 \in 0 .. PMaxTime
  BY PAssumption
<1> SUFFICES ASSUME PInit PROVE PInv
  OBVIOUS
<1>2. pNow = 0 /\ pRows = {} /\ pGone = {} /\ pList = PIdle
  BY DEF PInit
<1>3. /\ pList.order = "none" /\ pList.base = {} /\ pList.seen = {} /\ pList.twice = {} /\ pList.done \in BOOLEAN /\ ~pList.done
      /\ pList.cursor = PNoCursor
      /\ DOMAIN pList = {"order", "limit", "cursor", "base", "seen", "twice", "done"}
  BY <1>2 DEF PIdle
<1>4. PNoCursor.at = 0 /\ PNoCursor.id = 0 /\ PNoCursor.set \in BOOLEAN /\ ~PNoCursor.set
  BY DEF PNoCursor
<1> QED
  BY <1>1, <1>2, <1>3, <1>4, FS_EmptySet DEF PInv, PShapes, PAscAhead, PDescBehind

(* The cursor is cut to the millisecond: at or before the row it came from. *)
LEMMA PCursorCut ==
  ASSUME NEW r \in PRow, NEW q \in PRow
  PROVE  /\ PCursor(r).at \in Int /\ PCursor(r).id \in Int /\ PCursor(r).set \in BOOLEAN /\ PCursor(r).set /\ PCursor(r).at <= r.at
         /\ PBefore("asc", r, q) => PBefore("asc", PCursor(r), q)
         /\ q = r \/ PBefore("desc", q, r) => ~PBefore("desc", PCursor(r), q)
<1>0. PMaxTime \in Nat /\ \A i \in PIds : i \in Int
  BY PAssumption
<1>1. r.at \in Nat /\ r.id \in Int /\ q.at \in Int /\ q.id \in Int
  BY <1>0 DEF PRow
<1>2. r.at % PMicros \in Nat
  BY <1>1, PAssumption
<1>3. PCursor(r).at = r.at - (r.at % PMicros) /\ PCursor(r).id = r.id /\ PCursor(r).set \in BOOLEAN /\ PCursor(r).set
  BY DEF PCursor
<1>4. PCursor(r).at \in Int /\ PCursor(r).at <= r.at
  BY <1>1, <1>2, <1>3
<1> QED
  BY <1>1, <1>3, <1>4 DEF PBefore, PLess

(* One page: what it returns, what it leaves, and whether there is more.    *)
LEMMA PPageFacts ==
  ASSUME NEW o \in POrders, NEW S \in SUBSET PRow, IsFiniteSet(S), NEW n \in Nat \ {0},
         NEW rows, rows = PTake(o, S, n + 1), NEW items, items = PTake(o, rows, n)
  PROVE  /\ items \subseteq S
         /\ ~(Cardinality(rows) > n) => items = S
         /\ Cardinality(rows) > n =>
              /\ PLast(o, items) \in items
              /\ \A q \in items : q = PLast(o, items) \/ PBefore(o, q, PLast(o, items))
              /\ \A r \in S \ items : PBefore(o, PLast(o, items), r)
<1>1. rows \in SUBSET S /\ items \in SUBSET rows
  BY DEF PTake
<1>2. IsFiniteSet(rows) /\ IsFiniteSet(items) /\ rows \in SUBSET PRow /\ items \in SUBSET PRow
  BY <1>1, FS_Subset
<1>3. Cardinality(rows) \in Nat
  BY <1>2, FS_CardinalityType
<1>4. ASSUME ~(Cardinality(rows) > n) PROVE items = S
  <2>1. Cardinality(rows) < n + 1 /\ Cardinality(rows) <= n
    BY <1>3, <1>4
  <2>2. rows = S
    BY <2>1, PTakeAll
  <2>3. items = rows
    BY <1>2, <2>1, PTakeWhole
  <2> QED
    BY <2>2, <2>3
<1>5. ASSUME Cardinality(rows) > n
      PROVE  /\ PLast(o, items) \in items
             /\ \A q \in items : q = PLast(o, items) \/ PBefore(o, q, PLast(o, items))
             /\ \A r \in S \ items : PBefore(o, PLast(o, items), r)
  <2>1. rows # {}
    <3>1. Cardinality(rows) # 0
      BY <1>3, <1>5
    <3> QED
      BY <3>1, FS_EmptySet
  <2>2. items # {}
    <3>1. PICK r \in rows : \A q \in rows \ {r} : PBefore(o, r, q)
      BY <1>2, <2>1, PFirstExists
    <3>2. {q \in rows : PBefore(o, q, r)} = {}
      BY <1>2, <3>1, PTotalOrder
    <3>3. r \in items
      BY <3>2, FS_EmptySet DEF PTake
    <3> QED
      BY <3>3
  <2>3. \E r \in items : \A q \in items \ {r} : PBefore(o, q, r)
    BY <1>2, <2>2, PLastExists
  <2>4. PLast(o, items) \in items /\ \A q \in items \ {PLast(o, items)} : PBefore(o, q, PLast(o, items))
    BY <2>3 DEF PLast
  <2>5. ASSUME NEW r \in S \ items, NEW q \in items PROVE PBefore(o, q, r)
    <3>1. CASE r \in rows
      BY <1>2, <3>1, PTakePrefix
    <3>2. CASE r \notin rows
      <4>1. q \in rows
        BY <1>1
      <4> QED
        BY <3>2, <4>1, PTakePrefix
    <3> QED
      BY <3>1, <3>2
  <2> QED
    BY <2>4, <2>5
<1> QED
  BY <1>1, <1>4, <1>5

LEMMA PPageKeeps ==
  ASSUME PInv, PPage
  PROVE  PInv'
<1>1. PICK l : l = pList
  OBVIOUS
<1> DEFINE S     == PBeyond(l.order, l.cursor)
           rows  == PTake(l.order, S, l.limit + 1)
           items == PTake(l.order, rows, l.limit)
           more  == Cardinality(rows) > l.limit
           cursor == IF more THEN PCursor(PLast(l.order, items)) ELSE l.cursor
<1>2. /\ l.order # "none" /\ ~l.done /\ UNCHANGED <<pNow, pRows, pGone>>
      /\ pList' = [l EXCEPT !.seen = l.seen \cup items, !.twice = l.twice \cup (l.seen \cap items),
                     !.done = ~more, !.cursor = cursor]
  BY <1>1 DEF PPage
<1>3. /\ DOMAIN l = {"order", "limit", "cursor", "base", "seen", "twice", "done"}
      /\ l.order \in POrders /\ l.limit \in Nat \ {0} /\ pRows \subseteq PRow /\ IsFiniteSet(pRows)
      /\ l.base \subseteq pRows /\ l.seen \subseteq pRows /\ l.twice \subseteq l.seen
  BY <1>1, <1>2, PAssumption DEF PInv, PShapes
<1>4. S \in SUBSET PRow /\ S \subseteq PVisible /\ PVisible \subseteq pRows
  BY <1>3 DEF PBeyond, PVisible
<1>5. IsFiniteSet(S)
  BY <1>3, <1>4, FS_Subset
<1>6. PICK o \in POrders : o = l.order
  BY <1>3
<1>7. PICK n \in Nat \ {0} : n = l.limit
  BY <1>3
<1> HIDE DEF S
<1>8. /\ items \subseteq S
      /\ ~more => items = S
      /\ more => /\ PLast(o, items) \in items
                 /\ \A q \in items : q = PLast(o, items) \/ PBefore(o, q, PLast(o, items))
                 /\ \A r \in S \ items : PBefore(o, PLast(o, items), r)
  <2>1. rows = PTake(o, S, n + 1) /\ items = PTake(o, rows, n)
    BY <1>6, <1>7
  <2> HIDE DEF items, rows
  <2> QED
    BY <1>4, <1>5, <1>6, <1>7, <2>1, PPageFacts
<1>9. more \in BOOLEAN
  OBVIOUS
<1> HIDE DEF items, rows, more, cursor
<1>10. /\ DOMAIN pList' = {"order", "limit", "cursor", "base", "seen", "twice", "done"}
       /\ pList'.order = o /\ pList'.limit = n /\ pList'.base = l.base
       /\ pList'.seen = l.seen \cup items /\ pList'.twice = l.twice \cup (l.seen \cap items)
       /\ pList'.done = ~more /\ pList'.cursor = cursor
  BY <1>2, <1>3, <1>6, <1>7
<1>11. items \subseteq pRows /\ items \subseteq PRow
  BY <1>3, <1>4, <1>8
<1>12. /\ cursor.at \in Int /\ cursor.id \in Int /\ cursor.set \in BOOLEAN /\ cursor.at <= pNow
  <2>1. CASE more
    <3>1. PICK last \in PRow : last = PLast(o, items)
      BY <1>8, <1>11, <2>1
    <3>2. cursor = PCursor(last) /\ last \in pRows
      BY <1>6, <1>8, <1>11, <2>1, <3>1 DEF cursor
    <3>3. last.at <= pNow /\ pNow \in Int /\ last.at \in Int
      BY <3>2, PAssumption DEF PInv, PShapes, PRow
    <3>4. /\ PCursor(last).at \in Int /\ PCursor(last).id \in Int /\ PCursor(last).set \in BOOLEAN /\ PCursor(last).set /\ PCursor(last).at <= last.at
      BY PCursorCut
    <3> QED
      BY <3>2, <3>3, <3>4
  <2>2. CASE ~more
    BY <1>1, <2>2 DEF cursor, PInv, PShapes
  <2> QED
    BY <2>1, <2>2
<1>13. PShapes'
  <2>1. pList'.order \in POrders \cup {"none"} /\ (pList'.order # "none" => pList'.limit \in PLimits)
    BY <1>1, <1>2, <1>6, <1>7, <1>10 DEF PInv, PShapes
  <2>2. (~more) \in BOOLEAN
    BY <1>9
  <2> QED
    BY <1>2, <1>3, <1>10, <1>11, <1>12, <2>1, <2>2 DEF PInv, PShapes
<1>14. PAscAhead'
  <2> SUFFICES ASSUME o = "asc", NEW r \in l.base \cap PVisible, r \notin l.seen, r \notin items
               PROVE  more /\ (cursor.set => PBefore("asc", cursor, r))
    BY <1>2, <1>10 DEF PAscAhead, PVisible
  <2>1. l.cursor.set => PBefore("asc", l.cursor, r)
    BY <1>1, <1>2, <1>6 DEF PInv, PAscAhead
  <2>2. r \in S
    BY <1>6, <2>1 DEF S, PBeyond
  <2>3. more
    BY <1>8, <2>2
  <2>4. PICK last \in PRow : last = PLast(o, items)
    BY <1>8, <1>11, <2>3
  <2>5. PBefore("asc", last, r) /\ r \in PRow
    BY <1>3, <1>8, <2>2, <2>3, <2>4
  <2>6. PBefore("asc", PCursor(last), r)
    BY <2>5, PCursorCut
  <2>7. cursor = PCursor(last)
    BY <1>6, <2>3, <2>4 DEF cursor
  <2> QED
    BY <2>3, <2>6, <2>7
<1>15. PDescBehind'
  <2> SUFFICES ASSUME o = "desc"
               PROVE  /\ l.twice \cup (l.seen \cap items) = {}
                      /\ \A r \in l.seen \cup items : ~more \/ (cursor.set /\ ~PBefore("desc", cursor, r))
    BY <1>10 DEF PDescBehind
  <2>1. l.twice = {} /\ \A r \in l.seen : l.cursor.set /\ ~PBefore("desc", l.cursor, r)
    BY <1>1, <1>2, <1>6 DEF PInv, PDescBehind
  <2>2. \A r \in items : l.cursor.set => PBefore("desc", l.cursor, r)
    BY <1>6, <1>8 DEF S, PBeyond
  <2>3. l.seen \cap items = {}
    BY <2>1, <2>2
  <2>4. ASSUME more, NEW r \in l.seen \cup items
        PROVE  cursor.set /\ ~PBefore("desc", cursor, r)
    <3>1. PICK last \in PRow : last = PLast(o, items)
      BY <1>8, <1>11, <2>4
    <3>2. cursor = PCursor(last) /\ last \in items
      BY <1>6, <1>8, <2>4, <3>1 DEF cursor
    <3>3. r = last \/ PBefore("desc", r, last)
      <4>1. CASE r \in items
        BY <1>8, <2>4, <3>1, <4>1
      <4>2. CASE r \in l.seen
        <5>1. l.cursor.set /\ ~PBefore("desc", l.cursor, r) /\ PBefore("desc", l.cursor, last)
          BY <2>1, <2>2, <3>2, <4>2
        <5>2. l.cursor.at \in Int /\ l.cursor.id \in Int
          BY <1>1 DEF PInv, PShapes
        <5>3. r \in PRow /\ PMaxTime \in Nat /\ \A i \in PIds : i \in Int
          BY <1>3, <4>2, PAssumption
        <5>4. r.at \in Int /\ r.id \in Int /\ last.at \in Int /\ last.id \in Int
          BY <5>3 DEF PRow
        <5> QED
          BY <5>1, <5>2, <5>4 DEF PBefore, PLess
      <4> QED
        BY <4>1, <4>2
    <3>4. r \in PRow
      BY <1>3, <1>11
    <3>5. PCursor(last).set \in BOOLEAN /\ PCursor(last).set /\ ~PBefore("desc", PCursor(last), r)
      BY <3>3, <3>4, PCursorCut
    <3> QED
      BY <3>2, <3>5
  <2> QED
    BY <2>1, <2>3, <2>4
<1> QED
  BY <1>13, <1>14, <1>15 DEF PInv

LEMMA PInvNext == PInv /\ [PNext]_pVars => PInv'
<1> SUFFICES ASSUME PInv, [PNext]_pVars PROVE PInv'
  OBVIOUS
<1>1. ASSUME NEW id \in PIds, PInsert(id) PROVE PInv'
  <2>1. PICK row \in PRow : row = [at |-> pNow, id |-> id]
    BY DEF PInv, PShapes, PRow
  <2>2. pRows' = pRows \cup {row} /\ row \notin pRows /\ UNCHANGED <<pNow, pGone, pList>> /\ row.at = pNow
    BY <1>1, <2>1 DEF PInsert
  <2>3. IsFiniteSet(pRows')
    BY <2>2, FS_AddElement DEF PInv, PShapes
  <2>4. PShapes'
    BY <2>2, <2>3 DEF PInv, PShapes
  <2>5. \A r \in pList.base : r \in PVisible' => r \in PVisible
    BY <2>2 DEF PInv, PShapes, PVisible
  <2>6. PAscAhead' /\ PDescBehind'
    BY <2>2, <2>5 DEF PInv, PAscAhead, PDescBehind
  <2> QED
    BY <2>4, <2>6 DEF PInv
<1>2. ASSUME NEW r \in pRows, PRemove(r) PROVE PInv'
  <2>1. pGone' = pGone \cup {r} /\ UNCHANGED <<pNow, pRows, pList>>
    BY <1>2 DEF PRemove
  <2>2. PShapes'
    BY <2>1 DEF PInv, PShapes
  <2>3. PVisible' \subseteq PVisible
    BY <2>1 DEF PVisible
  <2>4. PAscAhead' /\ PDescBehind'
    BY <2>1, <2>3 DEF PInv, PAscAhead, PDescBehind
  <2> QED
    BY <2>2, <2>4 DEF PInv
<1>3. CASE PTick
  <2>1. pNow' = pNow + 1 /\ pNow' <= PMaxTime /\ UNCHANGED <<pRows, pGone, pList>>
    BY <1>3, PAssumption DEF PTick, PInv, PShapes
  <2>2. \A r \in pRows : r.at \in Int
    BY PAssumption DEF PInv, PShapes, PRow
  <2>3. PShapes'
    BY <2>1, <2>2, PAssumption DEF PInv, PShapes
  <2>4. PAscAhead' /\ PDescBehind'
    BY <2>1 DEF PInv, PAscAhead, PDescBehind, PVisible
  <2> QED
    BY <2>3, <2>4 DEF PInv
<1>4. ASSUME NEW o \in {"asc", "desc"}, NEW limit \in PLimits, PStart(o, limit) PROVE PInv'
  <2>1. /\ pList' = [PIdle EXCEPT !.order = o, !.limit = limit, !.base = PVisible]
        /\ UNCHANGED <<pNow, pRows, pGone>>
    BY <1>4 DEF PStart
  <2>2. /\ DOMAIN pList' = {"order", "limit", "cursor", "base", "seen", "twice", "done"}
        /\ pList'.order = o /\ pList'.limit = limit /\ pList'.base = PVisible /\ pList'.seen = {} /\ pList'.twice = {}
        /\ pList'.done \in BOOLEAN /\ ~pList'.done /\ pList'.cursor = PNoCursor
    BY <2>1 DEF PIdle
  <2>3. PNoCursor.at = 0 /\ PNoCursor.id = 0 /\ PNoCursor.set \in BOOLEAN /\ ~PNoCursor.set
    BY DEF PNoCursor
  <2>4. PVisible \subseteq pRows /\ PVisible' = PVisible
    BY <2>1 DEF PVisible
  <2>5. PShapes'
    BY <2>1, <2>2, <2>3, <2>4 DEF PInv, PShapes, POrders
  <2>6. PAscAhead' /\ PDescBehind'
    BY <2>2, <2>3 DEF PAscAhead, PDescBehind
  <2> QED
    BY <2>5, <2>6 DEF PInv
<1>5. CASE UNCHANGED pVars
  BY <1>5 DEF pVars, PInv, PShapes, PAscAhead, PDescBehind, PVisible
<1> QED
  BY <1>1, <1>2, <1>3, <1>4, <1>5, PPageKeeps DEF PNext

(* For rows, page sizes and clocks of any size, with rows inserted and      *)
(* removed between the pages: an ascending listing (findPage,               *)
(* findPageForTenant of the users) that reports has_more = false returned   *)
(* every row that was there all the while, and a descending one (the audit  *)
(* log) returns none twice, though the cursor is cut to the millisecond.    *)
THEOREM ListingsAlwaysExact == PSpec => []PListingExact
<1>1. ASSUME PInv PROVE PListingExact
  <2>1. PTypeOK
    BY <1>1 DEF PInv, PShapes, PTypeOK, PRow
  <2>2. PAscComplete
    BY <1>1 DEF PInv, PAscAhead, PAscComplete
  <2>3. PDescOnce
    BY <1>1 DEF PInv, PDescBehind, PDescOnce
  <2> QED
    BY <2>1, <2>2, <2>3 DEF PListingExact
<1> QED
  BY <1>1, PInvInit, PInvNext, PTL DEF PSpec
===============================================================================
