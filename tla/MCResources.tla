----------------------------- MODULE MCResources -----------------------------
(***************************************************************************)
(* What a tenant keeps in the service, side by side: its OAuth clients,    *)
(* its connectors and their secrets, its credential definitions and the    *)
(* validators of their schemas, the listings of rows, and the audit log    *)
(* with the pods that write it.  No two of them write the same row, so a   *)
(* behaviour runs one of them, chosen at its start.                        *)
(***************************************************************************)
EXTENDS OAuthClients, Connectors, CredentialDefinitions, Formats, ListPages, AuditPipeline, TLC

VARIABLE part

\* Pods, jobs and connectors are alike.
MCSymmetry == Permutations(CPods) \cup Permutations(CJobs) \cup Permutations(CIds)

\* So are endpoints: the first one checked is a fixed one.
MCEndpointOrder == cChecked = {} \/ (CHOOSE e \in CEndpoints : TRUE) \in cChecked

Init == /\ part \in {"clients", "connectors", "definitions", "formats", "pages", "audit"}
        /\ KInit /\ (part = "clients" \/ kRow = [k \in KIds |-> KAbsent])
        /\ CInit /\ DInit /\ FInit /\ PInit /\ AInit

Next ==
  \/ part = "clients"     /\ KNext /\ UNCHANGED <<part, cVars, dVars, fRun, pVars, aVars>>
  \/ part = "connectors"  /\ CNext /\ MCEndpointOrder'
                          /\ UNCHANGED <<part, kVars, dVars, fRun, pVars, aVars>>
  \/ part = "definitions" /\ DNext /\ UNCHANGED <<part, kVars, cVars, fRun, pVars, aVars>>
  \/ part = "formats"     /\ FNext /\ UNCHANGED <<part, kVars, cVars, dVars, pVars, aVars>>
  \/ part = "pages"       /\ PNext /\ UNCHANGED <<part, kVars, cVars, dVars, fRun, aVars>>
  \/ part = "audit"       /\ ANext /\ UNCHANGED <<part, kVars, cVars, dVars, fRun, pVars>>

Spec == Init /\ [][Next]_<<part, kVars, cVars, dVars, fRun, pVars, aVars>>
===============================================================================
