----------------------------- MODULE MCPlatform -----------------------------
(***************************************************************************)
(* What must come about in the end, side by side: pending logins drained,  *)
(* expired rows of the token store purged, the agents' circuit closed      *)
(* again, audit entries settled, pods shut down and a browser's tenant     *)
(* switch finished.  No two of them write the same row, so a behaviour     *)
(* runs one of them, chosen at its start.                                  *)
(***************************************************************************)
EXTENDS UpstreamLogin, OidcStore, TractionClient, AuditPipeline, BrowserSession

VARIABLE part
vars == <<part, uVars, oVars, tVars, aVars, wVars>>

MCConfigured == [c \in OClients |-> IF c \in OPublic THEN 0 ELSE 1]

Init == /\ part \in {"upstream", "store", "traction", "audit", "browser"}
        /\ UInit /\ OInit /\ TInit /\ AInit /\ WInit

Next ==
  \/ /\ part = "upstream" /\ UNext
     /\ UNCHANGED <<part, oVars, tVars, aVars, wVars>>
  \/ /\ part = "store" /\ ONext
     /\ UNCHANGED <<part, uVars, tVars, aVars, wVars>>
  \/ /\ part = "traction" /\ TNext
     /\ UNCHANGED <<part, uVars, oVars, aVars, wVars>>
  \/ /\ part = "audit" /\ ANext
     /\ UNCHANGED <<part, uVars, oVars, tVars, wVars>>
  \/ /\ part = "browser" /\ WNext
     /\ UNCHANGED <<part, uVars, oVars, tVars, aVars>>

\* The step of one component, the others staying as they are.
UpstreamOnly(A) == part = "upstream" /\ A /\ UNCHANGED <<part, oVars, tVars, aVars, wVars>>
StoreOnly(A) == part = "store" /\ A /\ UNCHANGED <<part, uVars, tVars, aVars, wVars>>
TractionOnly(A) == part = "traction" /\ A /\ UNCHANGED <<part, uVars, oVars, aVars, wVars>>
AuditOnly(A) == part = "audit" /\ A /\ UNCHANGED <<part, uVars, oVars, tVars, wVars>>
BrowserOnly(A) == part = "browser" /\ A /\ UNCHANGED <<part, uVars, oVars, tVars, aVars>>

\* The fairness of each module, for the component that runs.
Fairness ==
  /\ WF_vars(UpstreamOnly(UPurgePending))
  /\ \A u \in UUids : WF_vars(UpstreamOnly(UFinStep(u)))
  /\ WF_vars(StoreOnly(OPurgeStart)) /\ SF_vars(StoreOnly(OPurgeBatch))
  /\ \A k \in TCalls : WF_vars(TractionOnly(TStep(k)))
  /\ WF_vars(TractionOnly(TTick))
  /\ \A e \in AQueued : /\ SF_vars(AuditOnly(\E p \in LPods : AFetch(e, p)))
                        /\ WF_vars(AuditOnly(AWork(e)))
  /\ \A p \in LPods : WF_vars(AuditOnly(AStop(p)))
  /\ WF_vars(BrowserOnly(WTokenStep))
  /\ \A r \in WRequests : WF_vars(BrowserOnly(WRequestStep(r)))

Spec == Init /\ [][Next]_vars /\ Fairness
===============================================================================
