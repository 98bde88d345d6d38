------------------------------- MODULE Seeding -------------------------------
(***************************************************************************)
(* The two programs that fill a new environment: the development seed,     *)
(* which every pod runs at start under an advisory lock, and the bootstrap *)
(* an operator runs, without one.                                          *)
(*                                                                         *)
(* The seed is one tenant here.  Its upserts are a read and a write each,  *)
(* committed as they go; only the lock is held by a transaction, so a pod  *)
(* that dies leaves part of the rows behind and the lock free.             *)
(***************************************************************************)
EXTENDS Integers, Sequences

CONSTANTS
    BPods,       \* pods with SEED_ON_START
    BRuns,       \* runs of the bootstrap
    BPeople,     \* identities that may sign in with the seeded address
    BMaxCrash    \* bound on the crashes and on the interventions of operators

BNobody == "nobody"

ASSUME BAssumption == BMaxCrash \in Nat /\ BNobody \notin BPods \cup BPeople

\* The order of DevSeedService.seed: each step finds a row by its key and
\* updates it or inserts one.
BSteps == <<"tenant", "user", "connector", "client", "ui", "definition", "issuance",
            "verification", "connection", "operation">>
BKinds == {BSteps[i] : i \in DOMAIN BSteps} \ {"user"}

\* What an active tenant gets in addition, to fill the pages of the interface.
BDemo == {"definition", "issuance", "verification", "connection", "operation"}

VARIABLES
    bRows,     \* number of rows of each kind
    bOff,      \* kinds whose row someone has revoked, deactivated or removed since
    bUser,     \* the seeded member
    bLock,     \* holder of the advisory lock
    bPod,      \* what each pod is doing
    bCrashes,
    bRun,      \* the runs of the bootstrap
    bAdmin,    \* the platform client: number of its secret, 0 while absent
    bMinted,   \* secrets minted so far
    bPrinted,  \* secrets shown to an operator
    bLostOne   \* a run died between saving a secret and showing it

bVars == <<bRows, bOff, bUser, bLock, bPod, bCrashes, bRun, bAdmin, bMinted, bPrinted, bLostOne>>
bSeedVars == <<bRows, bOff, bUser, bLock, bPod>>
bBootVars == <<bRun, bAdmin, bMinted, bPrinted, bLostOne>>

\* An invitation: the address and the role, and nobody's identity.
BSeedUser == [there |-> TRUE, subject |-> BNobody, role |-> "seed"]

BFresh == [at |-> "down", step |-> 1, found |-> FALSE]
BIdleRun == [at |-> "idle", found |-> FALSE, secret |-> 0]

BInit ==
    /\ bRows = [k \in BKinds |-> 0] /\ bOff = {}
    /\ bUser = [there |-> FALSE, subject |-> BNobody, role |-> "none"]
    /\ bLock = BNobody /\ bPod = [p \in BPods |-> BFresh] /\ bCrashes = 0
    /\ bRun = [r \in BRuns |-> BIdleRun] /\ bAdmin = 0 /\ bMinted = 0
    /\ bPrinted = {} /\ bLostOne = FALSE

------------------------------------------------------------------------------
(* The seed *)

\* main: shouldRunDevSeedOnStart, then run.
BStart(p) ==
    /\ bPod[p].at = "down"
    /\ bPod' = [bPod EXCEPT ![p] = [BFresh EXCEPT !.at = "waiting"]]
    /\ UNCHANGED <<bRows, bOff, bUser, bLock, bCrashes, bBootVars>>

\* MUTANT of BMayRun: no advisory lock.
BMayRun_Always(p) == TRUE

\* pg_advisory_xact_lock.
BMayRun(p) == bLock = BNobody

BAcquire(p) ==
    /\ bPod[p].at = "waiting" /\ BMayRun(p)
    /\ bLock' = p /\ bPod' = [bPod EXCEPT ![p].at = "find"]
    /\ UNCHANGED <<bRows, bOff, bUser, bCrashes, bBootVars>>

BStepOf(p) == BSteps[bPod[p].step]

\* findBySlug, findByTenant, findByClientId and the other finders.
BFind(p) ==
    /\ bPod[p].at = "find" /\ BStepOf(p) # "user"
    /\ bPod' = [bPod EXCEPT ![p].at = "write", ![p].found = bRows[BStepOf(p)] > 0]
    /\ UNCHANGED <<bRows, bOff, bUser, bLock, bCrashes, bBootVars>>

\* After the last step run ends, the lock goes and the pod listens.
BAdvance(p) ==
    IF bPod[p].step < Len(BSteps)
    THEN bPod' = [bPod EXCEPT ![p] = [at |-> "find", step |-> @.step + 1, found |-> FALSE]] /\ UNCHANGED bLock
    ELSE bPod' = [bPod EXCEPT ![p].at = "listening"] /\ bLock' = IF bLock = p THEN BNobody ELSE bLock

\* Update the row that was found, or insert one.  save() and the UPDATE by key
\* set what the seed says, whoever changed the row since it was found: a client
\* is no longer revoked, a row that is gone is inserted again.
BWrite(p, kinds) ==
    LET k == BStepOf(p)
    IN  /\ bPod[p].at = "write" /\ k \in kinds
        /\ bRows' = [bRows EXCEPT ![k] = IF bPod[p].found /\ @ > 0 THEN @ ELSE @ + 1]
        /\ bOff' = bOff \ {k}
        /\ BAdvance(p) /\ UNCHANGED <<bUser, bCrashes, bBootVars>>

BUpsertTenant(p) == BWrite(p, {"tenant"})

\* upsertConnector, upsertOAuthClient and upsertUiSpaClient: their rows are found
\* by endpoint or client id, in whatever state.
BUpsertAccess(p) == BWrite(p, {"connector", "client", "ui"})

\* A deactivated definition is not found, and a second row takes its place.
BSeedDefinitions(p) == BWrite(p, {"definition"})

BSeedProfiles(p) == BWrite(p, {"issuance", "verification"})

\* seedConnections and seedOperations; the tenant is read once more for its TTLs.
BSeedRecords(p) == BWrite(p, {"connection", "operation"})

\* An operator suspends the tenant, revokes a client or deactivates a connector,
\* whose rows stay; or a definition, a connection or an operation goes from what
\* the finders see.
BSwitchOff(k) ==
    /\ bRows[k] > 0 /\ k \notin bOff \cup {"issuance", "verification"} /\ bCrashes < BMaxCrash
    /\ bRows' = IF k \in BDemo THEN [bRows EXCEPT ![k] = @ - 1] ELSE bRows
    /\ bOff' = bOff \cup {k} /\ bCrashes' = bCrashes + 1
    /\ UNCHANGED <<bUser, bLock, bPod, bBootVars>>

\* MUTANT of BRefreshSeeded: the row is matched by its address alone and the
\* subject written back.
BRefreshSeeded_ByEmail(p) ==
    /\ bPod[p].at = "find" /\ BStepOf(p) = "user"
    /\ IF bUser.there
       THEN bUser' = [bUser EXCEPT !.role = "seed", !.subject = BNobody] /\ BAdvance(p)
       ELSE bPod' = [bPod EXCEPT ![p].at = "rename"] /\ UNCHANGED <<bUser, bLock>>
    /\ UNCHANGED <<bRows, bOff, bCrashes, bBootVars>>

\* refreshSeeded: one statement, for the row that still has the seed's subject.
BRefreshSeeded(p) ==
    /\ bPod[p].at = "find" /\ BStepOf(p) = "user"
    /\ IF bUser.there /\ bUser.subject = BNobody
       THEN bUser' = [bUser EXCEPT !.role = "seed"] /\ BAdvance(p)
       ELSE bPod' = [bPod EXCEPT ![p].at = "rename"] /\ UNCHANGED <<bUser, bLock>>
    /\ UNCHANGED <<bRows, bOff, bCrashes, bBootVars>>

\* setDisplayNameAndRole of whoever has the address, else the row is created.
BRenameOrCreate(p) ==
    /\ bPod[p].at = "rename"
    /\ bUser' = IF bUser.there THEN [bUser EXCEPT !.role = "seed"]
                ELSE BSeedUser
    /\ BAdvance(p) /\ UNCHANGED <<bRows, bOff, bCrashes, bBootVars>>

\* A person signs in: the invitation is claimed, or a member created.
BSignIn(who) ==
    /\ bRows["tenant"] > 0 /\ bUser.subject = BNobody
    /\ bUser' = [bUser EXCEPT !.there = TRUE, !.subject = who,
                   !.role = IF bUser.there THEN @ ELSE "member"]
    /\ UNCHANGED <<bRows, bOff, bLock, bPod, bCrashes, bBootVars>>

\* A pod dies, or its seed fails and the process exits; the transaction goes
\* with its connection.
BCrash(p) ==
    /\ bPod[p].at # "down" /\ bCrashes < BMaxCrash
    /\ bPod' = [bPod EXCEPT ![p] = BFresh] /\ bCrashes' = bCrashes + 1
    /\ bLock' = IF bLock = p THEN BNobody ELSE bLock
    /\ UNCHANGED <<bRows, bOff, bUser, bBootVars>>

------------------------------------------------------------------------------
(* The bootstrap *)

BGo(r, at) == bRun' = [bRun EXCEPT ![r].at = at]

\* The tenant by its slug and the UI client are found or inserted: of two first
\* runs at once the slower may fail on a unique key.
BCollide(r) ==
    /\ bRun[r].at = "idle" /\ bAdmin = 0 /\ \E q \in BRuns \ {r} : bRun[q].at # "idle"
    /\ BGo(r, "done")
    /\ UNCHANGED <<bSeedVars, bCrashes, bAdmin, bMinted, bPrinted, bLostOne>>

\* The platform client is looked for, and a secret minted unless there is one
\* and no rotation is asked for.
BMintAdmin(r, rotate) ==
    /\ bRun[r].at = "idle"
    /\ IF rotate \/ bAdmin = 0
       THEN /\ bMinted' = bMinted + 1
            /\ bRun' = [bRun EXCEPT ![r] = [at |-> "find", found |-> FALSE, secret |-> bMinted + 1]]
       ELSE BGo(r, "done") /\ UNCHANGED bMinted
    /\ UNCHANGED <<bSeedVars, bCrashes, bAdmin, bPrinted, bLostOne>>

\* upsertClient looks once more ...
BFindAdmin(r) ==
    /\ bRun[r].at = "find"
    /\ bRun' = [bRun EXCEPT ![r].at = "save", ![r].found = bAdmin # 0]
    /\ UNCHANGED <<bSeedVars, bCrashes, bAdmin, bMinted, bPrinted, bLostOne>>

\* ... and saves the hash; an insert fails if the client id is taken by now.
BSaveAdmin(r) ==
    /\ bRun[r].at = "save"
    /\ IF ~bRun[r].found /\ bAdmin # 0 THEN BGo(r, "done") /\ UNCHANGED bAdmin
       ELSE BGo(r, "print") /\ bAdmin' = bRun[r].secret
    /\ UNCHANGED <<bSeedVars, bCrashes, bMinted, bPrinted, bLostOne>>

\* The secret goes to the operator's terminal.
BPrint(r) ==
    /\ bRun[r].at = "print" /\ BGo(r, "done")
    /\ bPrinted' = bPrinted \cup {bRun[r].secret}
    /\ UNCHANGED <<bSeedVars, bCrashes, bAdmin, bMinted, bLostOne>>

\* The operator's session ends before the secret is shown.
BAbort(r) ==
    /\ bRun[r].at \in {"find", "save", "print"} /\ bCrashes < BMaxCrash
    /\ bCrashes' = bCrashes + 1 /\ BGo(r, "done")
    /\ bLostOne' = (bLostOne \/ bRun[r].at = "print")
    /\ UNCHANGED <<bSeedVars, bAdmin, bMinted, bPrinted>>

BSeedStep(p) ==
    \/ BStart(p) \/ BAcquire(p) \/ BFind(p) \/ BRefreshSeeded(p) \/ BRenameOrCreate(p)
    \/ BUpsertTenant(p) \/ BUpsertAccess(p) \/ BSeedDefinitions(p) \/ BSeedProfiles(p) \/ BSeedRecords(p)

BSeedNext ==
    \/ \E p \in BPods : BSeedStep(p) \/ BCrash(p)
    \/ \E who \in BPeople : BSignIn(who)
    \/ \E k \in BKinds : BSwitchOff(k)

BBootNext ==
    \E r \in BRuns : \/ BCollide(r) \/ \E rotate \in BOOLEAN : BMintAdmin(r, rotate)
                    \/ BFindAdmin(r) \/ BSaveAdmin(r) \/ BPrint(r) \/ BAbort(r)

BSpec == BInit /\ [][BSeedNext \/ BBootNext]_bVars

------------------------------------------------------------------------------
(* Properties *)

\* Rows, pods and runs have their shapes, and the lock is held by the pod that
\* seeds.
BTypeOK ==
    /\ \A k \in BKinds : bRows[k] \in Nat
    /\ \A p \in BPods : bPod[p].at \in {"down", "waiting", "find", "write", "rename", "listening"}
    /\ bAdmin \in 0 .. bMinted

\* Pods that start together, and die and start again halfway, never leave two
\* rows of a kind that its finder sees, though an operator changes rows between
\* a find and its write; and once a pod listens the environment is complete but
\* for what was switched off since.
BSeededOnce ==
    /\ \A k \in BKinds : bRows[k] <= 1
    /\ (\E p \in BPods : bPod[p].at = "listening")
         => bUser.there /\ \A k \in BKinds \ bOff : bRows[k] = 1

\* A seeded member whom a person has claimed by signing in stays that person's,
\* however the seed of another pod interleaves with the sign-in.
BClaimKept == [][ bUser.subject # BNobody => bUser'.subject = bUser.subject ]_bVars

\* When no run of the bootstrap is under way, the secret that is stored has been
\* shown to an operator, unless a session ended in between: so of two runs at
\* once, one secret works.
BSecretShown ==
    (bAdmin # 0 /\ \A r \in BRuns : bRun[r].at \in {"idle", "done"}) => (bAdmin \in bPrinted \/ bLostOne)

\* The environment is complete and single, and its secret is known to someone.
BEnvironmentSound == BTypeOK /\ BSeededOnce /\ BSecretShown
===============================================================================
