------------------------------- MODULE MCAccess -------------------------------
(***************************************************************************)
(* Who gets in and what stops them, side by side: the federated login, the *)
(* sessions and grants of an account, the browser tab that uses them, the  *)
(* rate limits, the signing keys, and the seed and bootstrap that create   *)
(* the first users and clients.  No two of them write the same row, so a   *)
(* behaviour runs one of them, chosen at its start.                        *)
(***************************************************************************)
EXTENDS UpstreamLogin, AccountSessions, BrowserSession, RateLimit, KeyRotation, Seeding

VARIABLE part

MCLimit == [k \in RBuckets |-> 1]

\* Sessions are interchangeable, and so are accounts: the logins come in the
\* order of their numbers and the first one is of one fixed account.
MCFirstAccount == CHOOSE a \in SAccounts : TRUE
MCLoginOrder ==
  /\ \A s, t \in SSids : s < t /\ sLog[t] # "out" => sLog[s] # "out"
  /\ sOwner[1] \in {SNone, MCFirstAccount}

\* So are the interactions and the members of the federated login: the first
\* redirect is of one fixed interaction and speaks for one fixed member.
MCRedirectOrder ==
  /\ uUid[1] \in {UNone, CHOOSE u \in UUids : TRUE}
  /\ uWho[1] \in {UNone, CHOOSE m \in UUsers : TRUE}

\* bound: three logins are of one account, and come without stale saves of the
\* provider and without a force-logout.
MCSessionLoad ==
  \/ \E s \in SSids : sLog[s] = "out"
  \/ /\ \A s \in SSids : sOwner[s] = MCFirstAccount /\ sCopy[s] = SNoRow
     /\ sRevoked = {}

Init == /\ part \in {"upstream", "sessions", "browser", "limits", "keys", "seed", "bootstrap"}
        /\ UInit /\ SInit /\ WInit /\ RInit /\ JInit /\ BInit

Next ==
  \/ /\ part = "upstream" /\ UNext /\ MCRedirectOrder'
     /\ UNCHANGED <<part, sVars, wVars, rVars, jVars, bVars>>
  \/ /\ part = "sessions" /\ SNext /\ MCLoginOrder' /\ MCSessionLoad'
     /\ UNCHANGED <<part, uVars, wVars, rVars, jVars, bVars>>
  \/ /\ part = "browser" /\ WNext
     /\ UNCHANGED <<part, uVars, sVars, rVars, jVars, bVars>>
  \/ /\ part = "limits" /\ RNext
     /\ UNCHANGED <<part, uVars, sVars, wVars, jVars, bVars>>
  \/ /\ part = "keys" /\ JNext
     /\ UNCHANGED <<part, uVars, sVars, wVars, rVars, bVars>>
  \/ /\ \/ part = "seed" /\ BSeedNext
        \/ part = "bootstrap" /\ BBootNext
     /\ UNCHANGED <<part, uVars, sVars, wVars, rVars, jVars>>

Spec ==
  Init /\ [][Next]_<<part, uVars, sVars, wVars, rVars, jVars, bVars>>
===============================================================================
