------------------------ MODULE CredentialDefinitions ------------------------
(***************************************************************************)
(* The credential definitions of one tenant: requests that create, change  *)
(* and deactivate them, and the issuance profiles that refer to them.      *)
(*                                                                         *)
(* Every request reads and writes in separate statements.  save() reads    *)
(* the row again and updates the columns in which the entity differs from  *)
(* it, whoever changed them.                                               *)
(***************************************************************************)
EXTENDS Integers

CONSTANTS
    DIds,        \* ids of definitions
    DNames,      \* their names
    DFormats,    \* formats of the entity: anoncreds, sd-jwt, mdl, w3c-vc
    DRequests    \* requests that may run at once

ASSUME DAssumption == DFormats \subseteq {"anoncreds", "sd-jwt", "mdl", "w3c-vc"}

VARIABLES
    dRow,     \* the table
    dReq      \* the requests

dVars == <<dRow, dReq>>

DAbsent == [there |-> FALSE, name |-> "none", format |-> "none", meta |-> 0,
            checked |-> FALSE, active |-> FALSE]
DIdle == [at |-> "idle", op |-> "none", id |-> "none", name |-> "none", format |-> "none",
          copy |-> DAbsent, found |-> DAbsent]

DInit ==
    /\ dRow = [d \in DIds |-> DAbsent]
    /\ dReq = [r \in DRequests |-> DIdle]

------------------------------------------------------------------------------
(* The registry and the index *)

\* The formats a validator is registered for, by their names in the port's enum.
DRegistered == {"anoncreds", "sd-jwt-vc", "jsonld", "mdl"}

\* toPortCredentialFormat and FormatValidatorRegistry.has: a format of the
\* entity is looked up under its own name.
DValidated(format) == format \in DRegistered

\* The mDL validator throws on every schema.
DThrows(format) == format = "mdl"

\* validateSchemaDefinition: formats without a validator pass unchecked.
DSchemaPasses(format, ok) == DValidated(format) => (~DThrows(format) /\ ok)

\* MUTANT of DIndexAllows: no unique index.
DIndexAllows_Always(rows) == TRUE

\* uq_credential_definition_active: one active row for a name and format.
DIndexAllows(rows) ==
    \A d, e \in DIds : (rows[d].active /\ rows[e].active /\ rows[d].name = rows[e].name
                          /\ rows[d].format = rows[e].format) => d = e

DFind(id) == IF dRow[id].active THEN dRow[id] ELSE DAbsent

------------------------------------------------------------------------------
(* Requests *)

DGo(r, rec) == dReq' = [dReq EXCEPT ![r] = rec]

\* create: findByTenantAndNameAndFormat, then the schema.
DCreateRead(r, name, format, schemaOk) ==
    /\ dReq[r].at = "idle"
    /\ ~\E d \in DIds : dRow[d].active /\ dRow[d].name = name /\ dRow[d].format = format
    /\ DSchemaPasses(format, schemaOk)
    /\ DGo(r, [DIdle EXCEPT !.at = "insert", !.op = "create", !.name = name, !.format = format])
    /\ UNCHANGED dRow

\* MUTANT of DCreateInsert: a deactivated row is taken for the new definition.
DCreateInsert_Revive(r, id) ==
    LET q    == dReq[r]
        rows == [dRow EXCEPT ![id] = [there |-> TRUE, name |-> q.name, format |-> q.format, meta |-> 0,
                                      checked |-> DValidated(q.format), active |-> TRUE]]
    IN  /\ q.at = "insert" /\ ~dRow[id].active
        /\ dRow' = IF DIndexAllows(rows) THEN rows ELSE dRow
        /\ DGo(r, DIdle)

\* The insert fails on the index when another create came first.
DCreateInsert(r, id) ==
    LET q    == dReq[r]
        rows == [dRow EXCEPT ![id] = [there |-> TRUE, name |-> q.name, format |-> q.format, meta |-> 0,
                                      checked |-> DValidated(q.format), active |-> TRUE]]
    IN  /\ q.at = "insert" /\ ~dRow[id].there
        /\ dRow' = IF DIndexAllows(rows) THEN rows ELSE dRow
        /\ DGo(r, DIdle)

\* update and delete: findById sees active definitions only, else 404.
DLoad(r, op, id, name) ==
    /\ dReq[r].at = "idle" /\ DFind(id) # DAbsent
    /\ DGo(r, [DIdle EXCEPT !.at = "loaded", !.op = op, !.id = id, !.name = name, !.copy = DFind(id)])
    /\ UNCHANGED dRow

\* update changes the entity's name or metadata; save() reads the row.
DSaveRead(r) ==
    LET q == dReq[r]
        e == IF q.name = "none" THEN [q.copy EXCEPT !.meta = 1 - @] ELSE [q.copy EXCEPT !.name = q.name]
    IN  /\ q.at = "loaded" /\ q.op = "update"
        /\ DGo(r, [q EXCEPT !.at = "save", !.copy = e, !.found = dRow[q.id]])
        /\ UNCHANGED dRow

\* The columns in which the entity and the row just read differ.
DDiff(entity, found, now) ==
    [f \in DOMAIN now |-> IF entity[f] = found[f] THEN now[f] ELSE entity[f]]

DSaveWrite(r) ==
    LET q    == dReq[r]
        rows == [dRow EXCEPT ![q.id] = DDiff(q.copy, q.found, @)]
    IN  /\ q.at = "save"
        /\ dRow' = IF DIndexAllows(rows) THEN rows ELSE dRow
        /\ DGo(r, DIdle)

\* delete: one statement.  The audit entries of the three operations are left to
\* the audit pipeline.
DDeactivate(r) ==
    LET q == dReq[r]
    IN  /\ q.at = "loaded" /\ q.op = "delete"
        /\ dRow' = [dRow EXCEPT ![q.id].active = FALSE]
        /\ DGo(r, DIdle)

DNext ==
    \E r \in DRequests :
        \/ \E n \in DNames, f \in DFormats, ok \in BOOLEAN : DCreateRead(r, n, f, ok)
        \/ \E d \in DIds : DCreateInsert(r, d) \/ DLoad(r, "delete", d, "none")
        \/ \E d \in DIds, n \in DNames \cup {"none"} : DLoad(r, "update", d, n)
        \/ DSaveRead(r) \/ DSaveWrite(r) \/ DDeactivate(r)

DSpec == DInit /\ [][DNext]_dVars

------------------------------------------------------------------------------
(* Properties *)

\* Rows and requests have their shapes.
DTypeOK ==
    /\ \A d \in DIds : dRow[d] = DAbsent
         \/ (dRow[d].there /\ dRow[d].name \in DNames /\ dRow[d].format \in DFormats)
    /\ \A r \in DRequests : dReq[r].at \in {"idle", "insert", "loaded", "save"}

\* A tenant never has two active definitions of one name and format, though
\* create looks before it inserts, update renames, and a save may make a
\* deactivated definition active again.
DUniqueActive ==
    \A d, e \in DIds : (d # e /\ dRow[d].active /\ dRow[e].active)
        => <<dRow[d].name, dRow[d].format>> # <<dRow[e].name, dRow[e].format>>

\* The table keeps its shape and its uniqueness under concurrent requests.
DTableSound == DTypeOK /\ DUniqueActive

\* A definition that comes back after its deactivation was brought back by an
\* update that had read it while it was active: nothing else does, and it comes
\* back with the format and the checked schema it had.
DReturnsOnlyBySave ==
    [][ \A d \in DIds : (dRow[d].there /\ ~dRow[d].active /\ dRow'[d].active)
          => /\ \E r \in DRequests : dReq[r].id = d /\ dReq[r].op = "update" /\ dReq[r].copy.active
             /\ dRow'[d].format = dRow[d].format /\ dRow'[d].checked = dRow[d].checked ]_dVars
===============================================================================
