----------------------------- MODULE FleetProofs -----------------------------
(***************************************************************************)
(* Proofs about what pods share: the rows the development seed writes and  *)
(* the secret the bootstrap stores (Seeding), the signing keys that are    *)
(* rotated under running pods (KeyRotation), and the audit entries and     *)
(* partitions (AuditPipeline over PodLifecycle), for any number of pods,   *)
(* operators, crashes, requests and entries.                               *)
(***************************************************************************)
EXTENDS Seeding, KeyRotation, AuditPipeline, FiniteSetTheorems, SequenceTheorems, TLAPS

------------------------------------------------------------------------------
(* The seed *)

\* A step of the seed has left its mark: the member is there, or the one row of
\* its kind, or somebody switched that row off since.
BMarked(i) ==
    IF BSteps[i] = "user" THEN bUser.there
    ELSE BSteps[i] \in bOff \/ bRows[BSteps[i]] = 1

BPodTypes == [at : {"down", "waiting", "find", "write", "rename", "listening"},
              step : 1 .. Len(BSteps), found : BOOLEAN]

BShapes ==
    /\ bRows \in [BKinds -> Nat] /\ bOff \subseteq BKinds
    /\ bUser.there \in BOOLEAN
    /\ DOMAIN bUser = {"there", "subject", "role"}
    /\ ~bUser.there => bUser.subject = BNobody
    /\ bLock \in BPods \cup {BNobody}
    /\ bPod \in [BPods -> BPodTypes]

BSeeding(p) == bPod[p].at \in {"find", "write", "rename"}

\* Whoever is between its first and its last step holds the lock.
BLockHeld == \A p \in BPods : BSeeding(p) => bLock = p

\* What a pod found, or did not find, still tells what its write will meet.
BFoundHolds ==
    \A p \in BPods :
        /\ bPod[p].at = "write" => /\ BSteps[bPod[p].step] # "user"
                                   /\ ~bPod[p].found => bRows[BSteps[bPod[p].step]] = 0
        /\ bPod[p].at = "rename" => BSteps[bPod[p].step] = "user"
        /\ bPod[p].at = "waiting" => bPod[p].step = 1

BRowsSingle == \A k \in BKinds : bRows[k] <= 1

\* The steps behind a pod have left their marks.
BProgress ==
    \A p \in BPods : \A i \in 1 .. Len(BSteps) :
        /\ BSeeding(p) /\ i < bPod[p].step => BMarked(i)
        /\ bPod[p].at = "listening" => BMarked(i)

\* The inductive invariant of the seed.
BSeedInv == BShapes /\ BLockHeld /\ BFoundHolds /\ BRowsSingle /\ BProgress

\* The steps of the seed are "user" and the kinds of rows.
LEMMA SeedSteps ==
    /\ Len(BSteps) \in Nat \ {0}
    /\ DOMAIN BSteps = 1 .. Len(BSteps)
    /\ \A i \in 1 .. Len(BSteps) : BSteps[i] = "user" \/ BSteps[i] \in BKinds
    /\ "user" \notin BKinds
    /\ \A k \in BKinds : \E i \in 1 .. Len(BSteps) : BSteps[i] = k
    /\ "tenant" \in BKinds
<1>1. DOMAIN BSteps = 1 .. 10 /\ Len(BSteps) = 10  BY DEF BSteps
<1>2. BSteps[1] = "tenant"  BY DEF BSteps
<1> QED  BY <1>1, <1>2 DEF BKinds

LEMMA UserIsStep == \E i \in 1 .. Len(BSteps) : BSteps[i] = "user"
<1>1. Len(BSteps) = 10 /\ BSteps[2] = "user"  BY DEF BSteps
<1> QED  BY <1>1

LEMMA SeedStarts == BInit => BSeedInv
BY SeedSteps
   DEF BInit, BSeedInv, BShapes, BLockHeld, BFoundHolds, BRowsSingle, BProgress, BSeeding, BFresh, BPodTypes, BNobody

\* What a pod has not touched keeps the marks.
LEMMA MarksKept ==
    ASSUME BSeedInv,
           bRows' \in [BKinds -> Nat],
           \A k \in BKinds : k \in bOff \/ bRows[k] = 1 => k \in bOff' \/ bRows'[k] = 1,
           bUser.there => bUser'.there
    PROVE  \A i \in 1 .. Len(BSteps) : BMarked(i) => BMarked(i)'
BY SeedSteps DEF BMarked

\* A pod that moves on leaves a marked step behind it.
LEMMA AdvanceKeeps ==
    ASSUME BSeedInv, NEW p \in BPods, BSeeding(p), BAdvance(p), NEW s, s = bPod[p].step,
           \A i \in 1 .. Len(BSteps) : BMarked(i) => BMarked(i)',
           BMarked(s)'
    PROVE  /\ bPod' \in [BPods -> BPodTypes] /\ bLock' \in BPods \cup {BNobody}
           /\ bPod' = [bPod EXCEPT ![p] = bPod'[p]]
           /\ bPod'[p].at \in {"find", "listening"}
           /\ BLockHeld' /\ BProgress'
           /\ \A q \in BPods \ {p} : ~BSeeding(q)
<1> USE SeedSteps
<1>1. bPod \in [BPods -> BPodTypes] /\ bLock = p /\ bPod[p].step \in 1 .. Len(BSteps)
  BY DEF BSeedInv, BShapes, BLockHeld, BPodTypes
<1>2. \A q \in BPods \ {p} : ~BSeeding(q)
  BY <1>1 DEF BSeedInv, BLockHeld
<1>3. \A i \in 1 .. Len(BSteps) : i <= s => BMarked(i)'
  <2>1. \A i \in 1 .. Len(BSteps) : i < s => BMarked(i)
    BY DEF BSeedInv, BProgress
  <2> QED  BY <1>1, <2>1
<1>4. CASE bPod[p].step < Len(BSteps)
  <2>1. bPod' = [bPod EXCEPT ![p] = [at |-> "find", step |-> bPod[p].step + 1, found |-> FALSE]] /\ bLock' = bLock
    BY <1>4 DEF BAdvance
  <2>2. bPod' \in [BPods -> BPodTypes] /\ bPod'[p].at = "find" /\ bPod'[p].step = bPod[p].step + 1
    BY <1>1, <1>4, <2>1 DEF BPodTypes
  <2>3. \A q \in BPods \ {p} : bPod'[q] = bPod[q]
    BY <1>1, <2>1
  <2>4. BLockHeld'
    BY <1>1, <1>2, <2>1, <2>2, <2>3 DEF BLockHeld, BSeeding
  <2>5. ASSUME NEW q \in BPods, NEW i \in 1 .. Len(BSteps)
        PROVE  /\ BSeeding(q)' /\ i < bPod'[q].step => BMarked(i)'
               /\ bPod'[q].at = "listening" => BMarked(i)'
    <3>1. CASE q = p
      BY <1>1, <1>3, <2>2, <3>1
    <3>2. CASE q # p
      BY <1>2, <2>3, <3>2 DEF BSeeding, BSeedInv, BProgress
    <3> QED  BY <3>1, <3>2
  <2> QED  BY <1>1, <1>2, <2>1, <2>2, <2>3, <2>4, <2>5 DEF BProgress
<1>5. CASE ~(bPod[p].step < Len(BSteps))
  <2>1. bPod' = [bPod EXCEPT ![p].at = "listening"] /\ bLock' = BNobody
    BY <1>1, <1>5 DEF BAdvance
  <2>2. bPod' \in [BPods -> BPodTypes] /\ bPod'[p].at = "listening"
    BY <1>1, <2>1 DEF BPodTypes
  <2>3. \A q \in BPods \ {p} : bPod'[q] = bPod[q]
    BY <1>1, <2>1
  <2>4. BLockHeld'
    BY <1>1, <1>2, <2>1, <2>2, <2>3 DEF BLockHeld, BSeeding
  <2>5. ASSUME NEW q \in BPods, NEW i \in 1 .. Len(BSteps)
        PROVE  /\ BSeeding(q)' /\ i < bPod'[q].step => BMarked(i)'
               /\ bPod'[q].at = "listening" => BMarked(i)'
    <3>1. CASE q = p
      BY <1>1, <1>3, <1>5, <2>2, <3>1 DEF BSeeding
    <3>2. CASE q # p
      BY <1>2, <2>3, <3>2 DEF BSeeding, BSeedInv, BProgress
    <3> QED  BY <3>1, <3>2
  <2> QED  BY <1>1, <1>2, <2>1, <2>2, <2>3, <2>4, <2>5 DEF BProgress
<1> QED  BY <1>4, <1>5

\* A pod that starts waits for the lock with the first step before it.
LEMMA FreshPod ==
    /\ [BFresh EXCEPT !.at = "waiting"] \in BPodTypes
    /\ [BFresh EXCEPT !.at = "waiting"].at = "waiting"
    /\ [BFresh EXCEPT !.at = "waiting"].step = 1
<1>1. 1 \in 1 .. Len(BSteps)  BY SeedSteps
<1> DEFINE fresh == [BFresh EXCEPT !.at = "waiting"]
<1>2. DOMAIN BFresh = {"at", "step", "found"} /\ BFresh.step = 1 /\ BFresh.found = FALSE
  BY DEF BFresh
<1>3. fresh = [at |-> fresh.at, step |-> fresh.step, found |-> fresh.found]
  BY <1>2
<1>4. fresh.at = "waiting" /\ fresh.step = 1 /\ fresh.found = FALSE
  BY <1>2
<1>5. fresh \in BPodTypes
  <2> HIDE DEF fresh
  <2> QED  BY <1>1, <1>3, <1>4 DEF BPodTypes
<1> QED  BY <1>4, <1>5

\* A step of the seed of one pod.
LEMMA SeedStepKeeps ==
    ASSUME BSeedInv, NEW p \in BPods, BSeedStep(p)
    PROVE  BSeedInv'
<1> USE SeedSteps, BAssumption
<1>0. /\ bRows \in [BKinds -> Nat] /\ bPod \in [BPods -> BPodTypes] /\ bLock \in BPods \cup {BNobody}
      /\ BLockHeld /\ BFoundHolds /\ BRowsSingle /\ BProgress
  BY DEF BSeedInv, BShapes
<1>1. CASE BStart(p)
  <2> DEFINE fresh == [BFresh EXCEPT !.at = "waiting"]
  <2>0. fresh \in BPodTypes /\ fresh.at = "waiting" /\ fresh.step = 1
    BY FreshPod
  <2> HIDE DEF fresh
  <2>1. bPod' = [bPod EXCEPT ![p] = fresh]
    BY <1>1 DEF BStart, fresh
  <2>2. UNCHANGED <<bRows, bOff, bUser, bLock>>
    BY <1>1 DEF BStart
  <2>3. bPod' \in [BPods -> BPodTypes] /\ bPod'[p].at = "waiting" /\ bPod'[p].step = 1 /\ \A q \in BPods \ {p} : bPod'[q] = bPod[q]
    BY <1>0, <2>0, <2>1
  <2>4. BShapes'
    BY <2>2, <2>3 DEF BSeedInv, BShapes
  <2>5. BLockHeld' /\ BFoundHolds' /\ BRowsSingle'
    BY <1>0, <2>2, <2>3 DEF BLockHeld, BFoundHolds, BRowsSingle, BSeeding
  <2>6. BProgress'
    BY <1>0, <2>2, <2>3 DEF BProgress, BSeeding, BMarked
  <2> QED  BY <2>4, <2>5, <2>6 DEF BSeedInv
<1>2. CASE BAcquire(p)
  <2>1. bPod' = [bPod EXCEPT ![p].at = "find"] /\ bLock' = p /\ bPod[p].at = "waiting" /\ bLock = BNobody
    BY <1>2 DEF BAcquire, BMayRun
  <2>2. UNCHANGED <<bRows, bOff, bUser>>
    BY <1>2 DEF BAcquire
  <2>3. bPod' \in [BPods -> BPodTypes] /\ bPod'[p].at = "find" /\ \A q \in BPods \ {p} : bPod'[q] = bPod[q]
    BY <1>0, <2>1 DEF BPodTypes
  <2>4. BShapes'
    BY <2>1, <2>2, <2>3 DEF BSeedInv, BShapes
  <2>5. BLockHeld' /\ BFoundHolds' /\ BRowsSingle'
    BY <1>0, <2>1, <2>2, <2>3 DEF BLockHeld, BFoundHolds, BRowsSingle, BSeeding
  <2>6. bPod[p].step = 1 /\ bPod'[p].step = 1
    BY <1>0, <2>1, <2>3 DEF BFoundHolds, BPodTypes
  <2>7. BProgress'
    BY <1>0, <2>1, <2>2, <2>3, <2>6 DEF BProgress, BSeeding, BMarked
  <2> QED  BY <2>4, <2>5, <2>7 DEF BSeedInv
<1>3. CASE BFind(p)
  <2> DEFINE seen == bRows[BSteps[bPod[p].step]] > 0
  <2>1. /\ bPod' = [bPod EXCEPT ![p].at = "write", ![p].found = seen]
        /\ bPod[p].at = "find" /\ BSteps[bPod[p].step] # "user"
    BY <1>3, Zenon DEF BFind, BStepOf
  <2>2. UNCHANGED <<bRows, bOff, bUser, bLock>>
    BY <1>3 DEF BFind
  <2> HIDE DEF seen
  <2>a. seen \in BOOLEAN
    <3>1. CASE bRows[BSteps[bPod[p].step]] > 0
      <4>1. seen = TRUE  BY <3>1, Zenon DEF seen
      <4> QED  BY <4>1
    <3>2. CASE ~(bRows[BSteps[bPod[p].step]] > 0)
      <4>1. seen = FALSE  BY <3>2 DEF seen
      <4> QED  BY <4>1
    <3> QED  BY <3>1, <3>2
  <2>3. /\ bPod' \in [BPods -> BPodTypes] /\ bPod'[p].at = "write" /\ bPod'[p].step = bPod[p].step
        /\ bPod'[p].found = seen
        /\ \A q \in BPods \ {p} : bPod'[q] = bPod[q]
    BY <1>0, <2>1, <2>a DEF BPodTypes
  <2>b. ~bPod'[p].found => ~(bRows[BSteps[bPod[p].step]] > 0)
    BY <2>3, Zenon DEF seen
  <2>4. BShapes'
    BY <2>2, <2>3 DEF BSeedInv, BShapes
  <2>5. BLockHeld' /\ BRowsSingle'
    BY <1>0, <2>1, <2>2, <2>3 DEF BLockHeld, BRowsSingle, BSeeding
  <2>6. bPod[p].step \in 1 .. Len(BSteps)
    BY <1>0 DEF BPodTypes
  <2>7. BSteps[bPod[p].step] \in BKinds
    BY <2>1, <2>6
  <2>8. BFoundHolds'
    BY <1>0, <2>1, <2>2, <2>3, <2>7, <2>b DEF BFoundHolds
  <2>9. BProgress'
    BY <1>0, <2>1, <2>2, <2>3 DEF BProgress, BSeeding, BMarked
  <2> QED  BY <2>4, <2>5, <2>8, <2>9 DEF BSeedInv
<1>4. ASSUME BRefreshSeeded(p) \/ BRenameOrCreate(p)
      PROVE  BSeedInv'
  <2>1. bPod[p].step \in 1 .. Len(BSteps) /\ BSteps[bPod[p].step] = "user" /\ BSeeding(p)
    BY <1>0, <1>4 DEF BRefreshSeeded, BRenameOrCreate, BStepOf, BFoundHolds, BPodTypes, BSeeding
  <2>2. UNCHANGED <<bRows, bOff>>
    BY <1>4 DEF BRefreshSeeded, BRenameOrCreate
  <2>3. CASE bPod' = [bPod EXCEPT ![p].at = "rename"] /\ UNCHANGED <<bUser, bLock>>
    <3>1. /\ bPod' \in [BPods -> BPodTypes] /\ bPod'[p].at = "rename" /\ bPod'[p].step = bPod[p].step
          /\ \A q \in BPods \ {p} : bPod'[q] = bPod[q]
      BY <1>0, <2>3 DEF BPodTypes
    <3>2. BShapes'
      BY <2>2, <2>3, <3>1 DEF BSeedInv, BShapes
    <3>3. BLockHeld' /\ BRowsSingle' /\ BFoundHolds'
      BY <1>0, <2>1, <2>2, <2>3, <3>1 DEF BLockHeld, BRowsSingle, BSeeding, BFoundHolds
    <3>4. BProgress'
      BY <1>0, <2>1, <2>2, <2>3, <3>1 DEF BProgress, BSeeding, BMarked
    <3> QED  BY <3>2, <3>3, <3>4 DEF BSeedInv
  <2>4. CASE /\ bUser' = IF bUser.there THEN [bUser EXCEPT !.role = "seed"] ELSE BSeedUser
             /\ BAdvance(p)
    <3>1. /\ bUser'.there /\ DOMAIN bUser' = {"there", "subject", "role"} /\ bUser'.there \in BOOLEAN
      BY <2>4 DEF BSeedInv, BShapes, BSeedUser
    <3>2. \A i \in 1 .. Len(BSteps) : BMarked(i) => BMarked(i)'
      BY <1>0, <2>2, <3>1 DEF BMarked
    <3>3. PICK s \in 1 .. Len(BSteps) : s = bPod[p].step
      BY <2>1
    <3>4. BMarked(s)'
      BY <2>1, <3>1, <3>3 DEF BMarked
    <3> HIDE DEF BAdvance
    <3>5. /\ bPod' \in [BPods -> BPodTypes] /\ bLock' \in BPods \cup {BNobody}
          /\ bPod' = [bPod EXCEPT ![p] = bPod'[p]]
          /\ bPod'[p].at \in {"find", "listening"}
          /\ BLockHeld' /\ BProgress'
          /\ \A q \in BPods \ {p} : ~BSeeding(q)
      BY <2>1, <2>4, <3>2, <3>3, <3>4, AdvanceKeeps
    <3>6. BShapes' /\ BRowsSingle'
      BY <1>0, <2>2, <3>1, <3>5 DEF BSeedInv, BShapes, BRowsSingle
    <3>7. BFoundHolds'
      BY <1>0, <2>2, <3>5 DEF BFoundHolds
    <3> QED  BY <3>5, <3>6, <3>7 DEF BSeedInv
  <2>5. QED  BY <1>4, <2>3, <2>4 DEF BRefreshSeeded, BRenameOrCreate
<1>5. ASSUME NEW kinds, BWrite(p, kinds)
      PROVE  BSeedInv'
  <2>1. PICK s \in 1 .. Len(BSteps) : s = bPod[p].step
    BY <1>0 DEF BPodTypes
  <2>2. PICK k \in BKinds : k = BSteps[s]
    BY <1>0, <1>5, <2>1 DEF BWrite, BFoundHolds
  <2>3. /\ bPod[p].at = "write" /\ BAdvance(p) /\ bUser' = bUser /\ bOff' = bOff \ {k}
        /\ bRows' = [bRows EXCEPT ![k] = IF bPod[p].found /\ bRows[k] > 0 THEN bRows[k] ELSE bRows[k] + 1]
    BY <1>5, <2>1, <2>2 DEF BWrite, BStepOf
  <2>4. bRows' \in [BKinds -> Nat] /\ bRows'[k] = 1 /\ \A l \in BKinds \ {k} : bRows'[l] = bRows[l]
    BY <1>0, <2>1, <2>2, <2>3 DEF BFoundHolds, BRowsSingle
  <2>5. \A i \in 1 .. Len(BSteps) : BMarked(i) => BMarked(i)'
    BY <2>3, <2>4 DEF BMarked
  <2>6. BMarked(s)'
    BY <2>2, <2>4 DEF BMarked
  <2>7. BSeeding(p)
    BY <2>3 DEF BSeeding
  <2>8. /\ bPod' \in [BPods -> BPodTypes] /\ bLock' \in BPods \cup {BNobody}
        /\ bPod' = [bPod EXCEPT ![p] = bPod'[p]]
        /\ bPod'[p].at \in {"find", "listening"}
        /\ BLockHeld' /\ BProgress'
        /\ \A q \in BPods \ {p} : ~BSeeding(q)
    BY <2>1, <2>3, <2>5, <2>6, <2>7, AdvanceKeeps
  <2>9. BShapes' /\ BRowsSingle'
    BY <1>0, <2>3, <2>4, <2>8 DEF BSeedInv, BShapes, BRowsSingle
  <2>10. BFoundHolds'
    BY <1>0, <2>8 DEF BFoundHolds, BSeeding
  <2> QED  BY <2>8, <2>9, <2>10 DEF BSeedInv
<1> QED
  BY <1>1, <1>2, <1>3, <1>4, <1>5
     DEF BSeedStep, BUpsertTenant, BUpsertAccess, BSeedDefinitions, BSeedProfiles, BSeedRecords

LEMMA SeedCrashKeeps ==
    ASSUME BSeedInv, NEW p \in BPods, BCrash(p)
    PROVE  BSeedInv'
<1> USE SeedSteps, BAssumption
<1>0. /\ bPod \in [BPods -> BPodTypes] /\ bLock \in BPods \cup {BNobody}
      /\ BLockHeld /\ BFoundHolds /\ BRowsSingle /\ BProgress
  BY DEF BSeedInv, BShapes
<1>1. /\ bPod' = [bPod EXCEPT ![p] = [at |-> "down", step |-> 1, found |-> FALSE]]
      /\ bLock' = IF bLock = p THEN BNobody ELSE bLock
      /\ UNCHANGED <<bRows, bOff, bUser>>
  BY DEF BCrash, BFresh
<1>2. bPod' \in [BPods -> BPodTypes] /\ bPod'[p].at = "down" /\ \A q \in BPods \ {p} : bPod'[q] = bPod[q]
  BY <1>0, <1>1 DEF BPodTypes
<1>3. BShapes'
  BY <1>0, <1>1, <1>2 DEF BSeedInv, BShapes
<1>4. BLockHeld' /\ BFoundHolds' /\ BRowsSingle'
  BY <1>0, <1>1, <1>2 DEF BLockHeld, BFoundHolds, BRowsSingle, BSeeding
<1>5. BProgress'
  BY <1>0, <1>1, <1>2 DEF BProgress, BSeeding, BMarked
<1> QED  BY <1>3, <1>4, <1>5 DEF BSeedInv

\* Sign-ins and what operators switch off.
LEMMA SeedWorldKeeps ==
    ASSUME BSeedInv, (\E who \in BPeople : BSignIn(who)) \/ \E k \in BKinds : BSwitchOff(k)
    PROVE  BSeedInv'
<1> USE SeedSteps, BAssumption
<1>0. /\ bPod \in [BPods -> BPodTypes] /\ bRows \in [BKinds -> Nat]
      /\ BLockHeld /\ BFoundHolds /\ BRowsSingle /\ BProgress
  BY DEF BSeedInv, BShapes
<1>1. UNCHANGED <<bLock, bPod>>
  BY DEF BSignIn, BSwitchOff
<1>2. ASSUME NEW who \in BPeople, BSignIn(who)
      PROVE  BSeedInv'
  <2>1. UNCHANGED <<bRows, bOff>> /\ bUser'.there /\ bUser'.there \in BOOLEAN /\ DOMAIN bUser' = DOMAIN bUser
    BY <1>2 DEF BSignIn, BSeedInv, BShapes
  <2>2. BShapes'
    BY <1>1, <2>1 DEF BSeedInv, BShapes
  <2>3. BLockHeld' /\ BFoundHolds' /\ BRowsSingle'
    BY <1>0, <1>1, <2>1 DEF BLockHeld, BFoundHolds, BRowsSingle, BSeeding
  <2>4. BProgress'
    BY <1>0, <1>1, <2>1 DEF BProgress, BSeeding, BMarked
  <2> QED  BY <2>2, <2>3, <2>4 DEF BSeedInv
<1>3. ASSUME NEW k \in BKinds, BSwitchOff(k)
      PROVE  BSeedInv'
  <2>1. /\ bUser' = bUser /\ bOff' = bOff \cup {k} /\ bRows[k] > 0
        /\ bRows' = bRows \/ bRows' = [bRows EXCEPT ![k] = bRows[k] - 1]
    BY <1>3 DEF BSwitchOff
  <2>2. /\ bRows' \in [BKinds -> Nat] /\ bRows'[k] <= bRows[k]
        /\ \A l \in BKinds \ {k} : bRows'[l] = bRows[l]
    BY <1>0, <2>1
  <2>3. BShapes'
    BY <1>1, <2>1, <2>2 DEF BSeedInv, BShapes
  <2>4. BLockHeld' /\ BRowsSingle'
    BY <1>0, <1>1, <2>2 DEF BLockHeld, BRowsSingle, BSeeding
  <2>5. BFoundHolds'
    BY <1>0, <1>1, <2>1, <2>2 DEF BFoundHolds, BPodTypes
  <2>6. \A i \in 1 .. Len(BSteps) : BMarked(i) => BMarked(i)'
    BY <2>1, <2>2 DEF BMarked
  <2>7. BProgress'
    BY <1>0, <1>1, <2>6 DEF BProgress, BSeeding
  <2> QED  BY <2>3, <2>4, <2>5, <2>7 DEF BSeedInv
<1> QED  BY <1>2, <1>3

------------------------------------------------------------------------------
(* The bootstrap *)

BRunTypes == [at : {"idle", "find", "save", "print", "done"}, found : BOOLEAN, secret : Nat]

\* The inductive invariant of the bootstrap: a stored secret that no operator has
\* seen yet, nor lost, is in the hands of the run that will print it.
BBootInv ==
    /\ bMinted \in Nat /\ bAdmin \in 0 .. bMinted
    /\ bRun \in [BRuns -> BRunTypes]
    /\ \A r \in BRuns : bRun[r].at \in {"find", "save", "print"} => bRun[r].secret \in 1 .. bMinted
    /\ bAdmin # 0 => \/ bAdmin \in bPrinted \/ bLostOne
                     \/ \E r \in BRuns : bRun[r].at = "print" /\ bRun[r].secret = bAdmin

LEMMA BootStarts == BInit => BBootInv
BY DEF BInit, BBootInv, BRunTypes, BIdleRun

LEMMA BootKeeps ==
    ASSUME BBootInv, NEW r \in BRuns,
           \/ BCollide(r) \/ \E rotate \in BOOLEAN : BMintAdmin(r, rotate)
           \/ BFindAdmin(r) \/ BSaveAdmin(r) \/ BPrint(r) \/ BAbort(r)
    PROVE  BBootInv'
<1>0. bMinted \in Nat /\ bAdmin \in 0 .. bMinted /\ bRun \in [BRuns -> BRunTypes]
  BY DEF BBootInv
<1>1. ASSUME BGo(r, "done"), UNCHANGED <<bAdmin, bMinted, bPrinted, bLostOne>>, bRun[r].at # "print"
      PROVE  BBootInv'
  <2>1. /\ bRun' \in [BRuns -> BRunTypes] /\ bRun'[r].at = "done"
        /\ \A q \in BRuns \ {r} : bRun'[q] = bRun[q]
    BY <1>0, <1>1 DEF BGo, BRunTypes
  <2> QED  BY <1>1, <2>1 DEF BBootInv
<1>2. CASE BCollide(r)
  BY <1>1, <1>2 DEF BCollide
<1>3. ASSUME NEW rotate \in BOOLEAN, BMintAdmin(r, rotate)
      PROVE  BBootInv'
  <2>1. CASE rotate \/ bAdmin = 0
    <3>1. /\ bMinted' = bMinted + 1 /\ UNCHANGED <<bAdmin, bPrinted, bLostOne>> /\ bRun[r].at = "idle"
          /\ bRun' = [bRun EXCEPT ![r] = [at |-> "find", found |-> FALSE, secret |-> bMinted + 1]]
      BY <1>3, <2>1 DEF BMintAdmin
    <3>2. /\ bRun' \in [BRuns -> BRunTypes] /\ bRun'[r].at = "find" /\ bRun'[r].secret = bMinted + 1
          /\ \A q \in BRuns \ {r} : bRun'[q] = bRun[q]
      BY <1>0, <3>1 DEF BRunTypes
    <3> QED  BY <3>1, <3>2 DEF BBootInv
  <2>2. CASE ~(rotate \/ bAdmin = 0)
    BY <1>1, <1>3, <2>2 DEF BMintAdmin
  <2> QED  BY <2>1, <2>2
<1>4. CASE BFindAdmin(r)
  <2>1. /\ bRun' = [bRun EXCEPT ![r].at = "save", ![r].found = bAdmin # 0]
        /\ bRun[r].at = "find" /\ UNCHANGED <<bAdmin, bMinted, bPrinted, bLostOne>>
    BY <1>4 DEF BFindAdmin
  <2>2. (bAdmin # 0) \in BOOLEAN
    OBVIOUS
  <2>3. /\ bRun' \in [BRuns -> BRunTypes] /\ bRun'[r].at = "save" /\ bRun'[r].secret = bRun[r].secret
        /\ \A q \in BRuns \ {r} : bRun'[q] = bRun[q]
    BY <1>0, <2>1, <2>2 DEF BRunTypes
  <2> QED  BY <2>1, <2>3 DEF BBootInv
<1>5. CASE BSaveAdmin(r)
  <2>1. CASE ~bRun[r].found /\ bAdmin # 0
    BY <1>1, <1>5, <2>1 DEF BSaveAdmin
  <2>2. CASE ~(~bRun[r].found /\ bAdmin # 0)
    <3>1. BGo(r, "print") /\ bAdmin' = bRun[r].secret /\ UNCHANGED <<bMinted, bPrinted, bLostOne>> /\ bRun[r].at = "save"
      BY <1>5, <2>2 DEF BSaveAdmin
    <3>2. /\ bRun' \in [BRuns -> BRunTypes] /\ bRun'[r].at = "print" /\ bRun'[r].secret = bRun[r].secret
          /\ \A q \in BRuns \ {r} : bRun'[q] = bRun[q]
      BY <1>0, <3>1 DEF BGo, BRunTypes
    <3> QED  BY <3>1, <3>2 DEF BBootInv
  <2> QED  BY <2>1, <2>2
<1>6. CASE BPrint(r)
  <2>1. BGo(r, "done") /\ bPrinted' = bPrinted \cup {bRun[r].secret} /\ UNCHANGED <<bAdmin, bMinted, bLostOne>>
    BY <1>6 DEF BPrint
  <2>2. /\ bRun' \in [BRuns -> BRunTypes] /\ bRun'[r].at = "done"
        /\ \A q \in BRuns \ {r} : bRun'[q] = bRun[q]
    BY <1>0, <2>1 DEF BGo, BRunTypes
  <2> QED  BY <2>1, <2>2 DEF BBootInv
<1>7. CASE BAbort(r)
  <2>1. BGo(r, "done") /\ bLostOne' = (bLostOne \/ bRun[r].at = "print") /\ UNCHANGED <<bAdmin, bMinted, bPrinted>>
    BY <1>7 DEF BAbort
  <2>2. /\ bRun' \in [BRuns -> BRunTypes] /\ bRun'[r].at = "done"
        /\ \A q \in BRuns \ {r} : bRun'[q] = bRun[q]
    BY <1>0, <2>1 DEF BGo, BRunTypes
  <2> QED  BY <2>1, <2>2 DEF BBootInv
<1> QED  BY <1>2, <1>3, <1>4, <1>5, <1>6, <1>7

------------------------------------------------------------------------------
(* The environment *)

BEnvInv == BSeedInv /\ BBootInv

LEMMA EnvironmentStep == BEnvInv /\ [BSeedNext \/ BBootNext]_bVars => BEnvInv'
<1> SUFFICES ASSUME BSeedInv, BBootInv, [BSeedNext \/ BBootNext]_bVars
             PROVE  BSeedInv' /\ BBootInv'
  BY DEF BEnvInv
<1>1. ASSUME UNCHANGED bSeedVars
      PROVE  BSeedInv'
  BY <1>1 DEF bSeedVars, BSeedInv, BShapes, BLockHeld, BFoundHolds, BRowsSingle, BProgress, BSeeding, BMarked
<1>2. ASSUME UNCHANGED bBootVars
      PROVE  BBootInv'
  BY <1>2 DEF bBootVars, BBootInv
<1>3. CASE BSeedNext
  <2>1. BSeedInv'
    BY <1>3, SeedStepKeeps, SeedCrashKeeps, SeedWorldKeeps DEF BSeedNext
  <2>2. UNCHANGED bBootVars
    BY <1>3 DEF BSeedNext, BSeedStep, BStart, BAcquire, BFind, BRefreshSeeded, BRenameOrCreate, BUpsertTenant,
                BUpsertAccess, BSeedDefinitions, BSeedProfiles, BSeedRecords, BWrite, BCrash, BSignIn, BSwitchOff
  <2> QED  BY <1>2, <2>1, <2>2
<1>4. CASE BBootNext
  <2>1. BBootInv'
    BY <1>4, BootKeeps DEF BBootNext
  <2>2. UNCHANGED bSeedVars
    BY <1>4 DEF BBootNext, BCollide, BMintAdmin, BFindAdmin, BSaveAdmin, BPrint, BAbort
  <2> QED  BY <1>1, <2>1, <2>2
<1>5. CASE UNCHANGED bVars
  BY <1>1, <1>2, <1>5 DEF bVars, bSeedVars, bBootVars
<1> QED  BY <1>3, <1>4, <1>5

LEMMA EnvironmentInvariant == BSpec => []BEnvInv
<1>1. BInit => BEnvInv  BY SeedStarts, BootStarts DEF BEnvInv
<1> QED  BY <1>1, EnvironmentStep, PTL DEF BSpec

\* However many pods start together, die and start again, and whatever operators
\* switch off meanwhile, DevSeedService.seed never leaves two rows of a kind, a pod
\* listens only on a complete environment, and a stored secret of the bootstrap
\* has been shown once its runs are over.
THEOREM EnvironmentAlwaysSound == BSpec => []BEnvironmentSound
<1>1. ASSUME BEnvInv PROVE BEnvironmentSound
  <2> USE <1>1 DEF BEnvInv
  <2>1. BTypeOK
    BY DEF BTypeOK, BSeedInv, BShapes, BPodTypes, BBootInv
  <2>2. ASSUME NEW p \in BPods, bPod[p].at = "listening"
        PROVE  bUser.there /\ \A k \in BKinds \ bOff : bRows[k] = 1
    <3>1. \A i \in 1 .. Len(BSteps) : BMarked(i)
      BY <2>2 DEF BSeedInv, BProgress
    <3>2. bUser.there
      BY <3>1, UserIsStep DEF BMarked
    <3> QED  BY <3>1, <3>2, SeedSteps DEF BMarked
  <2>3. BSeededOnce
    BY <2>2 DEF BSeededOnce, BSeedInv, BRowsSingle
  <2>4. BSecretShown
    BY DEF BSecretShown, BBootInv
  <2> QED  BY <2>1, <2>3, <2>4 DEF BEnvironmentSound
<1> QED  BY <1>1, EnvironmentInvariant, PTL

\* However the seeds of any number of pods interleave with sign-ins, the member a
\* person has claimed stays that person's: no refreshSeeded and no
\* setDisplayNameAndRole gives the row another subject.
THEOREM ClaimsAlwaysKept == BSpec => BClaimKept
<1>1. ASSUME BEnvInv, [BSeedNext \/ BBootNext]_bVars
      PROVE  [bUser.subject # BNobody => bUser'.subject = bUser.subject]_bVars
  <2> SUFFICES ASSUME bUser.subject # BNobody PROVE bUser'.subject = bUser.subject
    OBVIOUS
  <2>1. bUser.there /\ bUser.there \in BOOLEAN /\ DOMAIN bUser = {"there", "subject", "role"}
    BY <1>1 DEF BEnvInv, BSeedInv, BShapes
  <2>2. bUser' = bUser \/ bUser' = [bUser EXCEPT !.role = "seed"]
    BY <1>1, <2>1
       DEF bVars, bSeedVars, BSeedNext, BBootNext, BSeedStep, BStart, BAcquire, BFind, BRefreshSeeded, BRenameOrCreate,
           BUpsertTenant, BUpsertAccess, BSeedDefinitions, BSeedProfiles, BSeedRecords, BWrite, BCrash, BSignIn,
           BSwitchOff, BCollide, BMintAdmin, BFindAdmin, BSaveAdmin, BPrint, BAbort
  <2> QED  BY <2>1, <2>2
<1> QED  BY <1>1, EnvironmentInvariant, PTL DEF BSpec, BClaimKept

------------------------------------------------------------------------------
(* Key rotation: the rollout *)

\* The four key files a rotation goes through.
JOldFile       == <<"old">>
JPublishedFile == <<"old", "new">>
JFirstFile     == <<"new", "old">>
JNewFile       == <<"new">>
JFiles == {JOldFile, JPublishedFile, JFirstFile, JNewFile}

LEMMA KeyFiles ==
    /\ JFiles \subseteq Seq(JKids)
    /\ \A f \in JFiles : f # <<>> /\ ToSet(f) \subseteq JKids /\ Head(f) \in ToSet(f)
    /\ ToSet(JOldFile) = {"old"} /\ Head(JOldFile) = "old"
    /\ ToSet(JPublishedFile) = {"old", "new"} /\ Head(JPublishedFile) = "old"
    /\ ToSet(JFirstFile) = {"old", "new"} /\ Head(JFirstFile) = "new"
    /\ ToSet(JNewFile) = {"new"} /\ Head(JNewFile) = "new"
    /\ JAppend(JOldFile) = JFirstFile
<1>1. JOldFile \in Seq(JKids) /\ JPublishedFile \in Seq(JKids) /\ JFirstFile \in Seq(JKids) /\ JNewFile \in Seq(JKids)
  BY DEF JOldFile, JPublishedFile, JFirstFile, JNewFile, JKids
<1>2. JOldFile # <<>> /\ JPublishedFile # <<>> /\ JFirstFile # <<>> /\ JNewFile # <<>>
  BY DEF JOldFile, JPublishedFile, JFirstFile, JNewFile
<1>3. ToSet(JOldFile) = {"old"} /\ Head(JOldFile) = "old"
  BY DEF JOldFile, ToSet
<1>4. ToSet(JPublishedFile) = {"old", "new"} /\ Head(JPublishedFile) = "old"
  BY DEF JPublishedFile, ToSet
<1>5. ToSet(JFirstFile) = {"old", "new"} /\ Head(JFirstFile) = "new"
  BY DEF JFirstFile, ToSet
<1>6. ToSet(JNewFile) = {"new"} /\ Head(JNewFile) = "new"
  BY DEF JNewFile, ToSet
<1>7. JAppend(JOldFile) = JFirstFile
  <2> DEFINE both == JNewFile \o JOldFile
  <2>1. both \in Seq(JKids) /\ Len(both) = 2
    BY <1>1 DEF JNewFile, JOldFile
  <2>2. both[1] = "new" /\ both[2] = "old"
    BY <1>1 DEF JNewFile, JOldFile
  <2>3. JFirstFile \in Seq(JKids) /\ Len(JFirstFile) = 2 /\ JFirstFile[1] = "new" /\ JFirstFile[2] = "old"
    BY <1>1 DEF JFirstFile
  <2> HIDE DEF both
  <2>4. both = JFirstFile
    BY <2>1, <2>2, <2>3
  <2> QED  BY <2>4 DEF JAppend, both, JNewFile
<1> QED  BY <1>1, <1>2, <1>3, <1>4, <1>5, <1>6, <1>7 DEF JFiles, JKids

\* Which file the pods come from and which they are being moved to, at each pass.
JStage(kind, pass, before, after) ==
    \/ kind = "none" /\ pass = 0 /\ before = JOldFile /\ after = JOldFile
    \/ kind = "twoDeploys" /\ pass = 1 /\ before = JOldFile /\ after = JPublishedFile
    \/ kind = "twoDeploys" /\ pass = 2 /\ before = JPublishedFile /\ after = JFirstFile
    \/ kind = "twoDeploys" /\ pass = 3 /\ before = JFirstFile /\ after = JNewFile
    \/ kind = "append" /\ pass = 1 /\ before = JOldFile /\ after = JFirstFile
    \/ kind = "append" /\ pass = 2 /\ before = JFirstFile /\ after = JNewFile
    \/ kind = "emergency" /\ pass = 1 /\ before = JOldFile /\ after = JNewFile

\* A rollout moves the pods from one file to the next, and is over when all moved.
JRollout ==
    \E before \in JFiles, after \in JFiles :
        /\ JStage(jPlan.kind, jPlan.pass, before, after)
        /\ jSecret = after
        /\ \A p \in JPods : jMem[p] \in {before, after}
        /\ jRolledAt # -1 => \A p \in JPods : jMem[p] = after

\* A pod may sign with the new key; every pod does; the old key is withdrawn.
JMaySignNew ==
    \/ jPlan.kind \in {"append", "emergency"}
    \/ jPlan.kind = "twoDeploys" /\ jPlan.pass \in {2, 3}
JNextToLast ==
    \/ jPlan.kind = "twoDeploys" /\ jPlan.pass = 2
    \/ jPlan.kind = "append" /\ jPlan.pass = 1
JSwitched == JNextToLast /\ jRolledAt # -1
JRetired ==
    \/ jPlan.kind = "twoDeploys" /\ jPlan.pass = 3
    \/ jPlan.kind = "append" /\ jPlan.pass = 2

\* What a rollout guarantees of each pod's keys.
LEMMA RolloutFacts ==
    ASSUME JRollout, NEW p \in JPods
    PROVE  /\ jMem[p] \in JFiles /\ Head(jMem[p]) \in ToSet(jMem[p]) /\ ToSet(jMem[p]) \subseteq JKids
           /\ "old" \in ToSet(jMem[p]) \/ JRetired \/ jPlan.kind = "emergency"
           /\ Head(jMem[p]) = "new" => JMaySignNew
           /\ Head(jMem[p]) = "old" => ~JSwitched /\ ~JRetired
           /\ JMaySignNew =>
                \/ "new" \in ToSet(jMem[p]) \/ jPlan.kind = "emergency"
                \/ jPlan.kind = "append" /\ jRolledAt = -1
<1>1. PICK before \in JFiles, after \in JFiles :
        /\ JStage(jPlan.kind, jPlan.pass, before, after)
        /\ jMem[p] \in {before, after}
        /\ jRolledAt # -1 => jMem[p] = after
  BY DEF JRollout
<1>2. jMem[p] \in JFiles /\ Head(jMem[p]) \in ToSet(jMem[p]) /\ ToSet(jMem[p]) \subseteq JKids
  BY <1>1, KeyFiles
<1> DEFINE m == jMem[p]
<1> HIDE DEF m
<1>3. m \in {before, after} /\ (jRolledAt # -1 => m = after)
  BY <1>1 DEF m
<1>4. "old" \in ToSet(m) \/ JRetired \/ jPlan.kind = "emergency"
  BY <1>1, <1>3, KeyFiles DEF JStage, JRetired
<1>5. Head(m) = "new" => JMaySignNew
  BY <1>1, <1>3, KeyFiles DEF JStage, JMaySignNew
<1>6. Head(m) = "old" => ~JSwitched /\ ~JRetired
  BY <1>1, <1>3, KeyFiles DEF JStage, JSwitched, JNextToLast, JRetired
<1>7. JMaySignNew =>
        \/ "new" \in ToSet(m) \/ jPlan.kind = "emergency"
        \/ jPlan.kind = "append" /\ jRolledAt = -1
  BY <1>1, <1>3, KeyFiles DEF JStage, JMaySignNew
<1> QED  BY <1>2, <1>4, <1>5, <1>6, <1>7 DEF m

------------------------------------------------------------------------------
(* Key rotation: tokens, documents and requests *)

\* A token was signed by a key that was in use, and the old key's tokens are
\* gone when the key is.
JTokenSound(t) ==
    /\ t.kid = "new" => JMaySignNew
    /\ t.exp <= jNow + JTokenTtl
    /\ t.kid = "old" /\ JSwitched => t.exp <= jRolledAt + JTokenTtl
    /\ t.kid = "old" /\ JRetired => t.exp <= jNow

\* The one gap there may be.
JGap(q) ==
    \/ jPlan.kind = "emergency"
    \/ /\ jPlan.kind = "append" /\ q.token.kid = "new"
       /\ jRolledAt = -1 \/ q.began <= jRolledAt

\* A document on its way was published after its request began, and lacks the
\* key of a live token only in the gap.
JDocSound(q) ==
    /\ \A k \in q.doc : q.began <= jServed[k]
    /\ q.token.kid \in q.doc \/ q.token.exp <= jNow \/ JGap(q)

JReqSound(q) ==
    /\ q.stage # "free" => JTokenSound(q.token)
    /\ q.began <= jNow
    /\ q.stage \in {"fetching", "served"} => jNow <= q.began + JFetchTimeout
    /\ q.stage = "served" => JDocSound(q)
    /\ q.stage = "unknownKey" /\ q.token.exp > jNow => JGap(q)
    /\ q.stage = "accepted" => jNow - jServed[q.token.kid] < JCacheTtl + JFetchTimeout

\* A cached document arrived within a fetch's timeout of its publication.
JCacheSound(c) == c.set => \A k \in c.keys : c.at <= jServed[k] + JFetchTimeout

\* jServed is up to date for every key a pod has loaded.
JServedNow == \A p \in JPods : \A k \in ToSet(jMem[p]) : jServed[k] = jNow

JTokenTypes == [kid : JKids, exp : 0 .. JMaxTime + JTokenTtl]
JCacheTypes == [keys : SUBSET JKids, at : 0 .. JMaxTime, set : BOOLEAN]
JReqTypes ==
    [stage : {"free", "fetching", "served", "accepted", "expired", "unknownKey", "failed"},
     pod : JPods, token : JTokenTypes, began : 0 .. JMaxTime, attempt : 0 .. 3, doc : SUBSET JKids]

JTypes ==
    /\ jNow \in 0 .. JMaxTime /\ jRolledAt \in -1 .. JMaxTime /\ jRolledAt <= jNow
    /\ jMem \in [JPods -> JFiles] /\ jSecret \in JFiles
    /\ jCache \in [JPods -> JCacheTypes] /\ jTokens \subseteq JTokenTypes
    /\ jReq \in [JRequests -> JReqTypes] /\ jServed \in [JKids -> -1 .. JMaxTime]
    /\ \A k \in JKids : jServed[k] <= jNow
    /\ DOMAIN jPlan = {"kind", "pass"}

\* The inductive invariant of a rotation.
JInv ==
    /\ JTypes /\ JRollout /\ JServedNow
    /\ \A t \in jTokens : JTokenSound(t)
    /\ \A r \in JRequests : JReqSound(jReq[r])
    /\ \A p \in JPods : JCacheSound(jCache[p])

LEMMA RotationConstants ==
    /\ JTokenTtl \in Nat /\ JCacheTtl \in Nat /\ JFetchTimeout \in Nat /\ JMaxTime \in Nat
    /\ JPods # {} /\ "old" \in JKids /\ "new" \in JKids
BY JAssumption DEF JKids

\* A slot that is free, and what the validation does with a request's record.
LEMMA FreeSlot ==
    /\ JFree \in JReqTypes /\ JFree.stage = "free" /\ JFree.began = 0
    /\ DOMAIN JFree = {"stage", "pod", "token", "began", "attempt", "doc"}
<1>1. (CHOOSE p \in JPods : TRUE) \in JPods
  BY RotationConstants
<1>2. JNoToken \in JTokenTypes
  BY RotationConstants DEF JNoToken, JTokenTypes
<1>3. 0 \in 0 .. JMaxTime /\ 0 \in 0 .. 3
  BY RotationConstants
<1> QED  BY <1>1, <1>2, <1>3 DEF JFree, JReqTypes

LEMMA VerdictFacts ==
    ASSUME NEW q \in JReqTypes
    PROVE  /\ JVerdict(q) \in JReqTypes /\ JVerdict(q).stage \in {"accepted", "expired"}
           /\ JVerdict(q).token = q.token /\ JVerdict(q).began = q.began
<1> QED  BY DEF JVerdict, JReqTypes

LEMMA FetchingFacts ==
    ASSUME NEW q \in JReqTypes, NEW n \in 1 .. 3, jNow \in 0 .. JMaxTime
    PROVE  /\ JFetching(q, n) \in JReqTypes /\ JFetching(q, n).stage = "fetching"
           /\ JFetching(q, n).token = q.token /\ JFetching(q, n).began = jNow
<1>1. n \in 0 .. 3  OBVIOUS
<1> QED  BY <1>1 DEF JFetching, JReqTypes

LEMMA RotationStarts == JInit => JInv
<1> SUFFICES ASSUME JInit PROVE JInv
  OBVIOUS
<1> USE RotationConstants, KeyFiles
<1>1. jSecret = JOldFile /\ jMem = [p \in JPods |-> JOldFile]
  BY DEF JInit, JOldFile
<1>2. JEmpty \in JCacheTypes /\ ~JEmpty.set
  BY DEF JEmpty, JCacheTypes
<1>3. JOldFile \in JFiles
  BY DEF JFiles
<1>4. jReq = [r \in JRequests |-> JFree] /\ jCache = [p \in JPods |-> JEmpty]
  BY DEF JInit
<1>5. jServed \in [JKids -> -1 .. JMaxTime] /\ jServed["old"] = 0 /\ \A k \in JKids : jServed[k] <= 0
  BY DEF JInit
<1>6. jNow = 0 /\ jRolledAt = 0 /\ jTokens = {} /\ jPlan = [kind |-> "none", pass |-> 0]
  BY DEF JInit
<1>7. JTypes
  BY <1>1, <1>2, <1>3, <1>4, <1>5, <1>6, FreeSlot DEF JTypes
<1>8. JRollout
  BY <1>1, <1>3, <1>6 DEF JRollout, JStage
<1>9. JServedNow
  BY <1>1, <1>5, <1>6 DEF JServedNow
<1>10. \A r \in JRequests : JReqSound(jReq[r])
  BY <1>4, <1>6, FreeSlot DEF JReqSound
<1>11. \A p \in JPods : JCacheSound(jCache[p])
  BY <1>2, <1>4 DEF JCacheSound
<1> QED  BY <1>6, <1>7, <1>8, <1>9, <1>10, <1>11 DEF JInv

\* The next pass of a plan: where the pods come from, and the file they go to.
LEMMA PassFacts ==
    ASSUME JInv, NEW kind \in DOMAIN JPasses, JUpdateSecret(kind)
    PROVE  /\ jPlan'.kind = kind /\ jPlan'.pass = jPlan.pass + 1 /\ DOMAIN jPlan' = {"kind", "pass"}
           /\ jPlan.kind \in {"none", kind} /\ jRolledAt # -1 /\ jRolledAt' = -1
           /\ \E after \in JFiles : JStage(jPlan'.kind, jPlan'.pass, jSecret, after) /\ jSecret' = after
           /\ \A p \in JPods : jMem[p] = jSecret
           /\ JRetired' => JSwitched /\ jNow >= jRolledAt + JTokenTtl
<1> USE RotationConstants, KeyFiles
<1>0. jRolledAt \in -1 .. JMaxTime
  BY DEF JInv, JTypes
<1>1. /\ jPlan' = [kind |-> kind, pass |-> jPlan.pass + 1] /\ jPlan.kind \in {"none", kind}
      /\ jPlan.pass < JPasses[kind] /\ jRolledAt # -1 /\ jRolledAt' = -1
      /\ jSecret' = JNextSecret(kind, jPlan.pass + 1)
      /\ kind # "emergency" /\ jPlan.pass = JPasses[kind] - 1 => jNow >= jRolledAt + JTokenTtl
  BY DEF JUpdateSecret
<1>2. PICK before \in JFiles, after \in JFiles :
        /\ JStage(jPlan.kind, jPlan.pass, before, after)
        /\ jSecret = after
        /\ \A p \in JPods : jMem[p] = after
  BY <1>1 DEF JInv, JRollout
<1>3. kind \in {"twoDeploys", "append", "emergency"}
  BY DEF JPasses
<1>4. JPasses["twoDeploys"] = 3 /\ JPasses["append"] = 2 /\ JPasses["emergency"] = 1
  BY DEF JPasses
<1>5. jPlan.pass \in {0, 1, 2, 3}
  BY <1>2 DEF JStage
<1>6. CASE kind = "twoDeploys"
  <2>1. /\ jPlan.pass = 0 => jSecret = JOldFile /\ jSecret' = JPublishedFile
        /\ jPlan.pass = 1 => jSecret = JPublishedFile /\ jSecret' = JFirstFile
        /\ jPlan.pass = 2 => jSecret = JFirstFile /\ jSecret' = JNewFile
    BY <1>1, <1>2, <1>6 DEF JStage, JNextSecret, JPublishedFile, JFirstFile, JNewFile
  <2>2. jPlan.pass \in {0, 1, 2}
    BY <1>1, <1>4, <1>5, <1>6
  <2>3. jPlan.pass = 2 => jPlan.kind = "twoDeploys"
    BY <1>1, <1>2, <1>6 DEF JStage
  <2>4. JRetired' => JSwitched /\ jNow >= jRolledAt + JTokenTtl
    BY <1>1, <1>4, <1>6, <2>2, <2>3 DEF JRetired, JSwitched, JNextToLast
  <2>5. \E f \in JFiles : JStage(jPlan'.kind, jPlan'.pass, jSecret, f) /\ jSecret' = f
    BY <1>1, <1>6, <2>1, <2>2 DEF JStage, JFiles
  <2> QED  BY <1>1, <1>2, <2>4, <2>5
<1>7. CASE kind = "append"
  <2>1. /\ jPlan.pass = 0 => jSecret = JOldFile /\ jSecret' = JFirstFile
        /\ jPlan.pass = 1 => jSecret = JFirstFile /\ jSecret' = JNewFile
    BY <1>1, <1>2, <1>7 DEF JStage, JNextSecret, JNewFile
  <2>2. jPlan.pass \in {0, 1}
    BY <1>1, <1>4, <1>5, <1>7
  <2>3. jPlan.pass = 1 => jPlan.kind = "append"
    BY <1>1, <1>2, <1>7 DEF JStage
  <2>4. JRetired' => JSwitched /\ jNow >= jRolledAt + JTokenTtl
    BY <1>1, <1>4, <1>7, <2>2, <2>3 DEF JRetired, JSwitched, JNextToLast
  <2>5. \E f \in JFiles : JStage(jPlan'.kind, jPlan'.pass, jSecret, f) /\ jSecret' = f
    BY <1>1, <1>7, <2>1, <2>2 DEF JStage, JFiles
  <2> QED  BY <1>1, <1>2, <2>4, <2>5
<1>8. CASE kind = "emergency"
  <2>1. jPlan.pass = 0 => jSecret = JOldFile /\ jSecret' = JNewFile
    BY <1>1, <1>2, <1>8 DEF JStage, JNextSecret, JNewFile
  <2>2. jPlan.pass = 0
    BY <1>1, <1>4, <1>5, <1>8
  <2>4. ~JRetired'
    BY <1>1, <1>8 DEF JRetired
  <2>5. \E f \in JFiles : JStage(jPlan'.kind, jPlan'.pass, jSecret, f) /\ jSecret' = f
    BY <1>1, <1>8, <2>1, <2>2 DEF JStage, JFiles
  <2> QED  BY <1>1, <1>2, <2>4, <2>5
<1> QED  BY <1>3, <1>6, <1>7, <1>8

\* What every step leaves of the clock, the plan and the rollout.
LEMMA StepFrame ==
    ASSUME JInv, JNext
    PROVE  /\ jNow' \in jNow .. jNow + 1 /\ jNow' <= JMaxTime
           /\ jRolledAt' \in {jRolledAt, -1, jNow}
           /\ jServed' \in [JKids -> -1 .. JMaxTime]
           /\ \A k \in JKids : jServed[k] <= jServed'[k] /\ jServed'[k] <= jNow'
           /\ \/ UNCHANGED jPlan
              \/ /\ \E kind \in DOMAIN JPasses : JUpdateSecret(kind)
                 /\ UNCHANGED <<jNow, jServed>> /\ jRolledAt' = -1
<1> USE RotationConstants
<1>0. jNow \in 0 .. JMaxTime /\ jServed \in [JKids -> -1 .. JMaxTime] /\ jRolledAt \in -1 .. JMaxTime
  BY DEF JInv, JTypes
<1>1. \A k \in JKids : jServed[k] \in Int /\ jServed[k] <= jNow
  BY <1>0 DEF JInv, JTypes
<1>2. CASE \E kind \in DOMAIN JPasses : JUpdateSecret(kind)
  <2>1. UNCHANGED <<jNow, jServed>> /\ jRolledAt' = -1
    BY <1>2 DEF JUpdateSecret
  <2> QED  BY <1>0, <1>1, <1>2, <2>1
<1>3. CASE \E p \in JPods : JLoadKeys(p)
  <2>1. PICK p \in JPods : JLoadKeys(p)
    BY <1>3
  <2>2. UNCHANGED <<jNow, jPlan>> /\ jRolledAt' \in {jRolledAt, jNow}
    BY <2>1 DEF JLoadKeys
  <2>3. jServed' \in [JKids -> -1 .. JMaxTime] /\ \A k \in JKids : jServed'[k] \in {jServed[k], jNow}
    BY <1>0, <2>1 DEF JLoadKeys
  <2> QED  BY <1>0, <1>1, <2>2, <2>3
<1>4. CASE JTick
  <2>1. jNow' = jNow + 1 /\ jNow < JMaxTime /\ UNCHANGED <<jPlan, jRolledAt>>
    BY <1>4 DEF JTick
  <2>2. jServed' \in [JKids -> -1 .. JMaxTime] /\ \A k \in JKids : jServed'[k] \in {jServed[k], jNow + 1}
    BY <1>0, <1>4 DEF JTick
  <2> QED  BY <1>0, <1>1, <2>1, <2>2
<1>5. ASSUME UNCHANGED <<jNow, jServed, jPlan, jRolledAt>>
      PROVE  /\ jNow' \in jNow .. jNow + 1 /\ jNow' <= JMaxTime
             /\ jRolledAt' \in {jRolledAt, -1, jNow}
             /\ jServed' \in [JKids -> -1 .. JMaxTime]
             /\ \A k \in JKids : jServed[k] <= jServed'[k] /\ jServed'[k] <= jNow'
             /\ UNCHANGED jPlan
  BY <1>0, <1>1, <1>5
<1>6. \/ \E kind \in DOMAIN JPasses : JUpdateSecret(kind)
      \/ \E p \in JPods : JLoadKeys(p)
      \/ JTick
      \/ UNCHANGED <<jNow, jServed, jPlan, jRolledAt>>
  BY DEF JNext, JIssue, JServe, JValidate, JStore, JFetchFails
<1> QED  BY <1>2, <1>3, <1>4, <1>5, <1>6

\* Tokens stay sound, whatever happens to the keys.
LEMMA TokenKept ==
    ASSUME JInv, JNext, NEW t \in JTokenTypes, JTokenSound(t)
    PROVE  JTokenSound(t)'
<1> USE RotationConstants
<1>0. /\ jNow \in 0 .. JMaxTime /\ jRolledAt \in -1 .. JMaxTime
      /\ t.kid \in JKids /\ t.exp \in Int
  BY DEF JInv, JTypes, JTokenTypes
<1>1. jNow' \in jNow .. jNow + 1 /\ jRolledAt' \in {jRolledAt, -1, jNow}
  BY StepFrame
<1>2. CASE UNCHANGED jPlan
  BY <1>0, <1>1, <1>2 DEF JTokenSound, JMaySignNew, JSwitched, JNextToLast, JRetired
<1>3. CASE \E kind \in DOMAIN JPasses : JUpdateSecret(kind)
  <2>1. PICK kind \in DOMAIN JPasses : JUpdateSecret(kind)
    BY <1>3
  <2>2. /\ jPlan'.kind = kind /\ jPlan'.pass = jPlan.pass + 1
        /\ jPlan.kind \in {"none", kind} /\ jRolledAt' = -1
        /\ JRetired' => JSwitched /\ jNow >= jRolledAt + JTokenTtl
    BY <2>1, PassFacts
  <2>3. jNow' = jNow
    BY <2>1 DEF JUpdateSecret
  <2>4. JMaySignNew => JMaySignNew'
    <3>1. CASE jPlan.kind = "twoDeploys"
      <4>1. jPlan.pass \in {0, 1, 2, 3} /\ JPasses[kind] = 3
        BY <2>2, <3>1 DEF JInv, JRollout, JStage, JPasses
      <4>2. jPlan.pass < 3
        BY <2>1, <4>1 DEF JUpdateSecret
      <4> QED  BY <2>2, <3>1, <4>1, <4>2 DEF JMaySignNew
    <3>2. CASE jPlan.kind # "twoDeploys"
      BY <2>2, <3>2 DEF JMaySignNew
    <3> QED  BY <3>1, <3>2
  <2>5. ~JSwitched'
    BY <2>2 DEF JSwitched
  <2> QED  BY <1>0, <2>2, <2>3, <2>4, <2>5 DEF JTokenSound
<1> QED  BY <1>2, <1>3, StepFrame

\* A request that a step leaves alone stays sound while the time stands still.
LEMMA RequestKept ==
    ASSUME JInv, JNext, NEW q \in JReqTypes, JReqSound(q), jNow' = jNow
    PROVE  JReqSound(q)'
<1> USE RotationConstants
<1>0. /\ jNow \in 0 .. JMaxTime /\ jRolledAt \in -1 .. JMaxTime /\ jServed \in [JKids -> -1 .. JMaxTime]
      /\ q.token \in JTokenTypes /\ q.token.kid \in JKids /\ q.token.exp \in Int /\ q.began \in Int /\ q.doc \subseteq JKids
  BY DEF JInv, JTypes, JTokenTypes, JReqTypes
<1>1. /\ jRolledAt' \in {jRolledAt, -1, jNow} /\ jServed' \in [JKids -> -1 .. JMaxTime]
      /\ \A k \in JKids : jServed[k] <= jServed'[k]
  BY StepFrame
<1>2. PICK t \in JTokenTypes : t = q.token
  BY <1>0
<1>3. JTokenSound(t) => JTokenSound(t)'
  BY TokenKept
<1>4. JGap(q) => JGap(q)'
  <2>1. jPlan.kind = "emergency" => jPlan'.kind = "emergency"
    BY PassFacts, StepFrame DEF JPasses
  <2>2. jPlan.kind = "append" => jPlan'.kind = "append"
    BY PassFacts, StepFrame DEF JPasses
  <2> QED  BY <1>0, <1>1, <2>1, <2>2 DEF JGap, JReqSound
<1>5. JDocSound(q) => JDocSound(q)'
  BY <1>0, <1>1, <1>4 DEF JDocSound
<1>6. q.stage # "free" => JTokenSound(q.token)'
  BY <1>2, <1>3 DEF JReqSound
<1> HIDE DEF JGap, JDocSound, JTokenSound
<1> QED  BY <1>0, <1>1, <1>4, <1>5, <1>6 DEF JReqSound

------------------------------------------------------------------------------
(* Key rotation: the steps *)

LEMMA RolloutStep ==
    ASSUME JInv, JNext
    PROVE  /\ JRollout' /\ jMem' \in [JPods -> JFiles] /\ jSecret' \in JFiles
           /\ DOMAIN jPlan' = {"kind", "pass"}
<1> USE RotationConstants
<1>0. jMem \in [JPods -> JFiles] /\ jSecret \in JFiles /\ DOMAIN jPlan = {"kind", "pass"} /\ JRollout /\ jNow \in Nat
  BY DEF JInv, JTypes
<1>1. ASSUME NEW kind \in DOMAIN JPasses, JUpdateSecret(kind)
      PROVE  /\ JRollout' /\ jMem' \in [JPods -> JFiles] /\ jSecret' \in JFiles
             /\ DOMAIN jPlan' = {"kind", "pass"}
  <2>1. PICK after \in JFiles : JStage(jPlan'.kind, jPlan'.pass, jSecret, after) /\ jSecret' = after
    BY <1>1, PassFacts
  <2>2. jRolledAt' = -1 /\ DOMAIN jPlan' = {"kind", "pass"} /\ \A p \in JPods : jMem[p] = jSecret
    BY <1>1, PassFacts
  <2>3. jMem' = jMem
    BY <1>1 DEF JUpdateSecret
  <2> QED  BY <1>0, <2>1, <2>2, <2>3 DEF JRollout
<1>2. ASSUME NEW p \in JPods, JLoadKeys(p)
      PROVE  /\ JRollout' /\ jMem' \in [JPods -> JFiles] /\ jSecret' \in JFiles
             /\ DOMAIN jPlan' = {"kind", "pass"}
  <2>1. PICK before \in JFiles, after \in JFiles :
          /\ JStage(jPlan.kind, jPlan.pass, before, after)
          /\ jSecret = after
          /\ \A q \in JPods : jMem[q] \in {before, after}
          /\ jRolledAt # -1 => \A q \in JPods : jMem[q] = after
    BY <1>0 DEF JRollout
  <2>2. /\ jMem' = [jMem EXCEPT ![p] = jSecret] /\ UNCHANGED <<jSecret, jPlan>>
        /\ jRolledAt' = IF \A q \in JPods \ {p} : jMem[q] = jSecret THEN jNow ELSE jRolledAt
        /\ jMem[p] # jSecret
    BY <1>2 DEF JLoadKeys
  <2>3. jMem' \in [JPods -> JFiles] /\ jMem'[p] = after /\ \A q \in JPods \ {p} : jMem'[q] = jMem[q]
    BY <1>0, <2>1, <2>2
  <2>4. jRolledAt' # -1 => \A q \in JPods : jMem'[q] = after
    BY <2>1, <2>2, <2>3
  <2> QED  BY <1>0, <2>1, <2>2, <2>3, <2>4 DEF JRollout
<1>3. CASE UNCHANGED <<jSecret, jPlan, jRolledAt, jMem>>
  BY <1>0, <1>3 DEF JRollout
<1>4. \/ \E kind \in DOMAIN JPasses : JUpdateSecret(kind)
      \/ \E p \in JPods : JLoadKeys(p)
      \/ UNCHANGED <<jSecret, jPlan, jRolledAt, jMem>>
  BY DEF JNext, JIssue, JServe, JValidate, JStore, JFetchFails, JTick
<1> QED  BY <1>1, <1>2, <1>3, <1>4

LEMMA ServedStep ==
    ASSUME JInv, JNext
    PROVE  JServedNow'
<1>0. JServedNow /\ \A p \in JPods : ToSet(jMem[p]) \subseteq JKids
  BY RolloutFacts DEF JInv
<1>1. \A p \in JPods : jMem'[p] \in JFiles
  BY RolloutStep
<1>2. \A p \in JPods : ToSet(jMem'[p]) \subseteq JKids
  BY <1>1, KeyFiles
<1>3. CASE \E p \in JPods : JLoadKeys(p)
  <2>1. /\ jServed' = [k \in JKids |-> IF \E q \in JPods : k \in ToSet(jMem'[q]) THEN jNow ELSE jServed[k]]
        /\ jNow' = jNow
    BY <1>3 DEF JLoadKeys
  <2> QED  BY <1>2, <2>1 DEF JServedNow
<1>4. CASE JTick
  <2>1. /\ jServed' = [k \in JKids |-> IF \E p \in JPods : k \in ToSet(jMem[p]) THEN jNow + 1 ELSE jServed[k]]
        /\ jNow' = jNow + 1 /\ jMem' = jMem
    BY <1>4 DEF JTick
  <2> QED  BY <1>0, <2>1 DEF JServedNow
<1>5. CASE UNCHANGED <<jNow, jMem, jServed>>
  BY <1>0, <1>5 DEF JServedNow
<1> QED
  BY <1>3, <1>4, <1>5 DEF JNext, JUpdateSecret, JIssue, JServe, JValidate, JStore, JFetchFails

LEMMA TokensStep ==
    ASSUME JInv, JNext
    PROVE  jTokens' \subseteq JTokenTypes /\ \A t \in jTokens' : JTokenSound(t)'
<1> USE RotationConstants
<1>0. jTokens \subseteq JTokenTypes /\ jNow \in 0 .. JMaxTime /\ jRolledAt \in -1 .. JMaxTime /\ \A t \in jTokens : JTokenSound(t)
  BY DEF JInv, JTypes
<1>1. \A t \in jTokens : JTokenSound(t)'
  BY <1>0, TokenKept
<1>2. CASE jTokens' \subseteq jTokens
  BY <1>0, <1>1, <1>2
<1>3. ASSUME NEW p \in JPods, JIssue(p)
      PROVE  jTokens' \subseteq JTokenTypes /\ \A t \in jTokens' : JTokenSound(t)'
  <2>1. PICK k \in JKids : k = Head(jMem[p])
    BY RolloutFacts DEF JInv
  <2>2. k \in {"old", "new"} /\ (k = "new" => JMaySignNew) /\ (k = "old" => ~JSwitched /\ ~JRetired)
    BY <2>1, RolloutFacts DEF JInv, JKids
  <2>a. jNow + JTokenTtl \in 0 .. JMaxTime + JTokenTtl
    BY <1>0
  <2>b. [kid |-> k, exp |-> jNow + JTokenTtl] \in JTokenTypes
    BY <2>a DEF JTokenTypes
  <2>3. PICK t \in JTokenTypes : t = [kid |-> k, exp |-> jNow + JTokenTtl]
    BY <2>b
  <2>4. JTokenSound(t)
    BY <1>0, <2>2, <2>3 DEF JTokenSound
  <2>5. JTokenSound(t)'
    BY <2>4, TokenKept
  <2>6. jTokens' = jTokens \cup {t}
    BY <1>3, <2>1, <2>3 DEF JIssue, JSigner
  <2> QED  BY <1>0, <1>1, <2>5, <2>6
<1>4. (\E p \in JPods : JIssue(p)) \/ jTokens' \subseteq jTokens
  BY DEF JNext, JUpdateSecret, JLoadKeys, JServe, JValidate, JStore, JFetchFails, JTick
<1> QED  BY <1>2, <1>3, <1>4

LEMMA CacheStep ==
    ASSUME JInv, JNext
    PROVE  jCache' \in [JPods -> JCacheTypes] /\ \A p \in JPods : JCacheSound(jCache[p])'
<1> USE RotationConstants
<1>0. /\ jCache \in [JPods -> JCacheTypes] /\ jNow \in 0 .. JMaxTime /\ jServed \in [JKids -> -1 .. JMaxTime]
      /\ jReq \in [JRequests -> JReqTypes]
  BY DEF JInv, JTypes
<1>1. jServed' \in [JKids -> -1 .. JMaxTime] /\ \A k \in JKids : jServed[k] <= jServed'[k]
  BY StepFrame
<1>2. ASSUME NEW c \in JCacheTypes, JCacheSound(c)
      PROVE  JCacheSound(c)'
  <2>1. c.keys \subseteq JKids /\ c.at \in Int
    BY DEF JCacheTypes
  <2> QED  BY <1>0, <1>1, <1>2, <2>1 DEF JCacheSound
<1>3. CASE UNCHANGED jCache
  <2> SUFFICES ASSUME NEW p \in JPods PROVE JCacheSound(jCache[p])'
    BY <1>0, <1>3
  <2>1. PICK c \in JCacheTypes : c = jCache[p]
    BY <1>0
  <2>2. JCacheSound(c)'
    BY <1>2, <2>1 DEF JInv
  <2> QED  BY <1>3, <2>1, <2>2
<1>4. ASSUME NEW s \in JPods, NEW new \in JCacheTypes, jCache' = [jCache EXCEPT ![s] = new], JCacheSound(new)
      PROVE  jCache' \in [JPods -> JCacheTypes] /\ \A p \in JPods : JCacheSound(jCache[p])'
  <2>1. jCache' \in [JPods -> JCacheTypes] /\ jCache'[s] = new /\ \A p \in JPods \ {s} : jCache'[p] = jCache[p]
    BY <1>0, <1>4
  <2> SUFFICES ASSUME NEW p \in JPods PROVE JCacheSound(jCache[p])'
    BY <2>1
  <2>2. PICK c \in JCacheTypes : c = jCache'[p]
    BY <2>1
  <2>3. JCacheSound(c)
    BY <1>4, <2>1, <2>2 DEF JInv
  <2>4. JCacheSound(c)'
    BY <1>2, <2>3
  <2> QED  BY <2>2, <2>4
<1>5. CASE \E p \in JPods : JLoadKeys(p)
  <2>1. PICK p \in JPods : JLoadKeys(p)
    BY <1>5
  <2>2. JEmpty \in JCacheTypes /\ JCacheSound(JEmpty)
    BY DEF JEmpty, JCacheTypes, JCacheSound
  <2> QED  BY <1>4, <2>1, <2>2 DEF JLoadKeys
<1>6. CASE \E r \in JRequests : JStore(r)
  <2>1. PICK r \in JRequests : JStore(r)
    BY <1>6
  <2>2. PICK q \in JReqTypes : q = jReq[r]
    BY <1>0
  <2>3. q.stage = "served" /\ JReqSound(q) /\ jCache' = [jCache EXCEPT ![q.pod] = JRefreshed(q)] /\ q.pod \in JPods
    BY <2>1, <2>2 DEF JStore, JInv, JReqTypes
  <2>4. q.doc \subseteq JKids /\ q.began \in Int
    BY DEF JReqTypes
  <2>5. JRefreshed(q) \in JCacheTypes /\ JRefreshed(q).keys = q.doc /\ JRefreshed(q).at = jNow
    BY <1>0, <2>4 DEF JRefreshed, JCacheTypes
  <2>6. JCacheSound(JRefreshed(q))
    BY <1>0, <2>3, <2>4, <2>5 DEF JCacheSound, JReqSound, JDocSound
  <2> HIDE DEF JCacheSound, JReqSound
  <2> QED  BY <1>4, <2>3, <2>5, <2>6
<1>7. \/ \E p \in JPods : JLoadKeys(p)
      \/ \E r \in JRequests : JStore(r)
      \/ UNCHANGED jCache
  BY DEF JNext, JUpdateSecret, JIssue, JServe, JValidate, JFetchFails, JTick
<1> QED  BY <1>3, <1>5, <1>6, <1>7

\* The verdict that a cached key leads to is on a key published recently.
LEMMA AcceptedRecently ==
    ASSUME JInv, NEW c \in JCacheTypes, JCacheSound(c), NEW kid \in JKids, JCachedKey(c, kid)
    PROVE  jNow - jServed[kid] < JCacheTtl + JFetchTimeout
<1>1. jNow \in Int /\ jServed[kid] \in Int /\ c.at \in Int
  BY DEF JInv, JTypes, JCacheTypes
<1> QED  BY <1>1, RotationConstants DEF JCacheSound, JCachedKey, JFresh

\* A request in the hands of the validation is sound in each of its outcomes.
LEMMA OutcomeSound ==
    ASSUME JInv, NEW q \in JReqTypes, JTokenSound(q.token), q.began <= jNow
    PROVE  /\ \A n \in 1 .. 3 : JReqSound(JFetching(q, n))
           /\ jNow - jServed[q.token.kid] < JCacheTtl + JFetchTimeout => JReqSound(JVerdict(q))
           /\ q.stage = "failed" => JReqSound(q)
<1> USE RotationConstants
<1>0. jNow \in 0 .. JMaxTime
  BY DEF JInv, JTypes
<1>1. ASSUME NEW n \in 1 .. 3 PROVE JReqSound(JFetching(q, n))
  <2>1. /\ JFetching(q, n).stage = "fetching" /\ JFetching(q, n).token = q.token /\ JFetching(q, n).began = jNow
    BY <1>0, FetchingFacts
  <2> QED  BY <1>0, <2>1 DEF JReqSound
<1>2. jNow - jServed[q.token.kid] < JCacheTtl + JFetchTimeout => JReqSound(JVerdict(q))
  <2>1. /\ JVerdict(q).stage \in {"accepted", "expired"}
        /\ JVerdict(q).token = q.token /\ JVerdict(q).began = q.began
    BY VerdictFacts
  <2> QED  BY <2>1 DEF JReqSound
<1>3. q.stage = "failed" => JReqSound(q)
  BY DEF JReqSound
<1> QED  BY <1>1, <1>2, <1>3

\* It is enough that the requests of the new state are sound in the old one.
LEMMA RequestsKept ==
    ASSUME JInv, JNext, jNow' = jNow, jReq' \in [JRequests -> JReqTypes],
           \A r \in JRequests : jReq'[r] = jReq[r] \/ JReqSound(jReq'[r])
    PROVE  \A r \in JRequests : JReqSound(jReq[r])'
<1> SUFFICES ASSUME NEW r \in JRequests PROVE JReqSound(jReq[r])'
  OBVIOUS
<1>1. PICK q \in JReqTypes : q = jReq'[r]
  OBVIOUS
<1>2. JReqSound(q)
  BY <1>1 DEF JInv
<1>3. JReqSound(q)'
  BY <1>2, RequestKept
<1> QED  BY <1>1, <1>3

LEMMA RequestStep ==
    ASSUME JInv, JNext, JCacheTtl # 0
    PROVE  jReq' \in [JRequests -> JReqTypes] /\ \A r \in JRequests : JReqSound(jReq[r])'
<1> USE RotationConstants
<1> DEFINE Goal == jReq' \in [JRequests -> JReqTypes] /\ \A r \in JRequests : JReqSound(jReq[r])'
<1>0. /\ jReq \in [JRequests -> JReqTypes] /\ jNow \in 0 .. JMaxTime /\ jServed \in [JKids -> -1 .. JMaxTime]
      /\ jCache \in [JPods -> JCacheTypes] /\ jTokens \subseteq JTokenTypes
  BY DEF JInv, JTypes
<1>1. ASSUME NEW r \in JRequests, NEW q \in JReqTypes, jReq' = [jReq EXCEPT ![r] = q], JReqSound(q), jNow' = jNow
      PROVE  Goal
  <2>1. jReq' \in [JRequests -> JReqTypes] /\ jReq'[r] = q /\ \A o \in JRequests \ {r} : jReq'[o] = jReq[o]
    BY <1>0, <1>1
  <2>2. \A o \in JRequests : jReq'[o] = jReq[o] \/ JReqSound(jReq'[o])
    BY <1>1, <2>1
  <2> QED  BY <1>1, <2>1, <2>2, RequestsKept
<1>2. CASE UNCHANGED <<jReq, jNow>>
  BY <1>0, <1>2, RequestsKept
<1>3. CASE \E p \in JPods : JLoadKeys(p)
  <2>1. PICK p \in JPods : JLoadKeys(p)
    BY <1>3
  <2>2. jReq' = [r \in JRequests |-> IF jReq[r].pod = p THEN JFree ELSE jReq[r]] /\ jNow' = jNow
    BY <2>1 DEF JLoadKeys
  <2>3. JReqSound(JFree)
    BY <1>0, FreeSlot DEF JReqSound
  <2>4. jReq' \in [JRequests -> JReqTypes] /\ \A r \in JRequests : jReq'[r] = jReq[r] \/ jReq'[r] = JFree
    BY <1>0, <2>2, FreeSlot
  <2>5. \A r \in JRequests : jReq'[r] = jReq[r] \/ JReqSound(jReq'[r])
    BY <2>3, <2>4
  <2> QED  BY <2>2, <2>4, <2>5, RequestsKept
<1>4. CASE JTick
  <2>1. /\ jNow' = jNow + 1 /\ UNCHANGED <<jPlan, jRolledAt>>
        /\ jReq' = [r \in JRequests |-> IF JWaits(r) THEN jReq[r] ELSE JFree]
        /\ \A r \in JRequests : JWaits(r) => jNow < jReq[r].began + JFetchTimeout
    BY <1>4 DEF JTick
  <2>2. jReq' \in [JRequests -> JReqTypes]
    BY <1>0, <2>1, FreeSlot
  <2>3. ASSUME NEW r \in JRequests, JWaits(r)
        PROVE  JReqSound(jReq[r])'
    <3>1. PICK q \in JReqTypes : q = jReq[r]
      BY <1>0
    <3>2. /\ q.token \in JTokenTypes /\ q.token.exp \in Int /\ q.began \in Int /\ q.doc \subseteq JKids
          /\ q.stage \in {"fetching", "served"} /\ JReqSound(q) /\ jNow < q.began + JFetchTimeout
      BY <2>1, <2>3, <3>1 DEF JInv, JReqTypes, JTokenTypes, JWaits
    <3>3. PICK t \in JTokenTypes : t = q.token
      BY <3>2
    <3>4. JTokenSound(t)'
      BY <3>2, <3>3, TokenKept DEF JReqSound
    <3>5. JGap(q) => JGap(q)'
      BY <2>1 DEF JGap
    <3>6. jServed' \in [JKids -> -1 .. JMaxTime] /\ \A k \in JKids : jServed[k] <= jServed'[k]
      BY StepFrame
    <3>7. q.stage = "served" => JDocSound(q)'
      BY <1>0, <2>1, <3>2, <3>5, <3>6 DEF JDocSound, JReqSound
    <3>8. JTokenSound(q.token)'
      BY <3>3, <3>4
    <3>9. JReqSound(q)'
      <4> HIDE DEF JDocSound, JTokenSound
      <4> QED  BY <1>0, <2>1, <3>2, <3>7, <3>8 DEF JReqSound
    <3>10. jReq'[r] = q
      BY <2>1, <2>3, <3>1
    <3> QED  BY <3>9, <3>10
  <2>4. ASSUME NEW r \in JRequests, ~JWaits(r)
        PROVE  JReqSound(jReq[r])'
    <3>1. jReq'[r] = JFree
      BY <2>1, <2>4
    <3>2. jReq'[r].stage = "free" /\ jReq'[r].began = 0
      BY <3>1, FreeSlot
    <3> QED  BY <1>0, <2>1, <3>2 DEF JReqSound
  <2> QED  BY <2>2, <2>3, <2>4
<1>5. ASSUME NEW r \in JRequests, NEW p \in JPods, NEW t \in jTokens, JValidate(r, p, t)
      PROVE  Goal
  <2> DEFINE req == [JFree EXCEPT !.pod = p, !.token = t, !.began = jNow]
  <2>1. t \in JTokenTypes /\ t.kid \in JKids /\ JTokenSound(t)
    BY <1>0 DEF JInv, JTokenTypes
  <2>2. req \in JReqTypes /\ req.token = t /\ req.began = jNow
    BY <1>0, <2>1, FreeSlot DEF JReqTypes
  <2>3. /\ jReq' = [jReq EXCEPT ![r] = IF JCachedKey(jCache[p], t.kid) THEN JVerdict(req) ELSE JFetching(req, 1)]
        /\ jNow' = jNow
    BY <1>5 DEF JValidate
  <2> HIDE DEF req
  <2>4. /\ JVerdict(req) \in JReqTypes /\ JFetching(req, 1) \in JReqTypes
    BY <1>0, <2>2, VerdictFacts, FetchingFacts
  <2>5. CASE JCachedKey(jCache[p], t.kid)
    <3>1. jCache[p] \in JCacheTypes /\ JCacheSound(jCache[p])
      BY <1>0 DEF JInv
    <3>2. jNow - jServed[t.kid] < JCacheTtl + JFetchTimeout
      BY <2>1, <2>5, <3>1, AcceptedRecently
    <3>3. JReqSound(JVerdict(req))
      BY <1>0, <2>1, <2>2, <3>2, OutcomeSound
    <3> QED  BY <1>1, <2>3, <2>4, <2>5, <3>3
  <2>6. CASE ~JCachedKey(jCache[p], t.kid)
    <3>1. JReqSound(JFetching(req, 1))
      BY <1>0, <2>1, <2>2, OutcomeSound
    <3> QED  BY <1>1, <2>3, <2>4, <2>6, <3>1
  <2> QED  BY <2>5, <2>6
<1>6. ASSUME NEW r \in JRequests, NEW p \in JPods, JServe(r, p)
      PROVE  Goal
  <2>1. PICK q \in JReqTypes : q = jReq[r]
    BY <1>0
  <2>2. /\ jReq' = [jReq EXCEPT ![r].stage = "served", ![r].doc = ToSet(jMem[p])] /\ jNow' = jNow
        /\ q.stage = "fetching" /\ JReqSound(q)
    BY <1>6, <2>1 DEF JServe, JInv
  <2>3. PICK doc \in SUBSET JKids : doc = ToSet(jMem[p])
    BY RolloutFacts DEF JInv
  <2> DEFINE new == [q EXCEPT !.stage = "served", !.doc = doc]
  <2>4. /\ new \in JReqTypes /\ new.stage = "served" /\ new.doc = doc /\ new.token = q.token /\ new.began = q.began
    BY DEF JReqTypes
  <2>5. jReq' = [jReq EXCEPT ![r] = new]
    BY <1>0, <2>1, <2>2, <2>3
  <2>6. q.token \in JTokenTypes /\ q.token.kid \in JKids /\ q.token.exp \in Int /\ q.began \in Int
    BY DEF JReqTypes, JTokenTypes
  <2> HIDE DEF new
  <2>7. \A k \in doc : q.began <= jServed[k]
    BY <2>2, <2>3 DEF JInv, JServedNow, JReqSound
  <2>8. q.token.kid \in doc \/ q.token.exp <= jNow \/ JGap(q)
    <3>1. JTokenSound(q.token)
      BY <2>2 DEF JReqSound
    <3>2. /\ "old" \in doc \/ JRetired \/ jPlan.kind = "emergency"
          /\ JMaySignNew => \/ "new" \in doc \/ jPlan.kind = "emergency"
                            \/ (jPlan.kind = "append" /\ jRolledAt = -1)
      BY <2>3, RolloutFacts DEF JInv
    <3> QED  BY <2>6, <3>1, <3>2 DEF JTokenSound, JGap, JKids
  <2>9. JGap(q) => JGap(new)
    BY <2>4 DEF JGap
  <2>10. JReqSound(new)
    BY <2>2, <2>4, <2>7, <2>8, <2>9 DEF JReqSound, JDocSound
  <2> QED  BY <1>1, <2>2, <2>4, <2>5, <2>10
<1>7. ASSUME NEW r \in JRequests, JStore(r)
      PROVE  Goal
  <2>1. PICK q \in JReqTypes : q = jReq[r]
    BY <1>0
  <2> DEFINE next == IF JCachedKey(JRefreshed(q), q.token.kid) THEN JVerdict(q)
                     ELSE IF q.attempt = 2 THEN JFetching(q, 3)
                     ELSE [q EXCEPT !.stage = "unknownKey"]
  <2>2. q.stage = "served" /\ JReqSound(q) /\ jReq' = [jReq EXCEPT ![r] = next] /\ jNow' = jNow
    BY <1>7, <2>1 DEF JStore, JInv
  <2>3. /\ q.doc \subseteq JKids /\ q.began \in Int /\ q.token.kid \in JKids /\ q.token.exp \in Int
        /\ JTokenSound(q.token) /\ q.began <= jNow /\ jNow <= q.began + JFetchTimeout /\ JDocSound(q)
    BY <2>2 DEF JReqTypes, JTokenTypes, JReqSound
  <2>4. JCachedKey(JRefreshed(q), q.token.kid) <=> q.token.kid \in q.doc
    BY <1>0 DEF JCachedKey, JRefreshed, JFresh
  <2>5. CASE q.token.kid \in q.doc
    <3>1. next = JVerdict(q)
      BY <2>4, <2>5
    <3>2. jNow - jServed[q.token.kid] < JCacheTtl + JFetchTimeout
      BY <1>0, <2>3, <2>5 DEF JDocSound
    <3>3. JReqSound(JVerdict(q)) /\ JVerdict(q) \in JReqTypes
      BY <2>3, <3>2, OutcomeSound, VerdictFacts
    <3> QED  BY <1>1, <2>2, <3>1, <3>3
  <2>6. CASE q.token.kid \notin q.doc /\ q.attempt = 2
    <3>1. next = JFetching(q, 3)
      BY <2>4, <2>6
    <3>2. JReqSound(JFetching(q, 3)) /\ JFetching(q, 3) \in JReqTypes
      BY <1>0, <2>3, OutcomeSound, FetchingFacts
    <3> QED  BY <1>1, <2>2, <3>1, <3>2
  <2>7. CASE q.token.kid \notin q.doc /\ q.attempt # 2
    <3> DEFINE new == [q EXCEPT !.stage = "unknownKey"]
    <3>1. next = new
      BY <2>4, <2>7
    <3>2. new \in JReqTypes /\ new.stage = "unknownKey" /\ new.token = q.token /\ new.began = q.began
      BY DEF JReqTypes
    <3> HIDE DEF new, next
    <3>3. q.token.exp > jNow => JGap(q)
      BY <1>0, <2>3, <2>7 DEF JDocSound
    <3>4. JGap(q) => JGap(new)
      BY <3>2 DEF JGap
    <3>5. JReqSound(new)
      BY <2>3, <3>2, <3>3, <3>4 DEF JReqSound
    <3> QED  BY <1>1, <2>2, <3>1, <3>2, <3>5
  <2> QED  BY <2>5, <2>6, <2>7
<1>8. ASSUME NEW r \in JRequests, JFetchFails(r)
      PROVE  Goal
  <2>1. PICK q \in JReqTypes : q = jReq[r]
    BY <1>0
  <2> DEFINE failed == [q EXCEPT !.stage = "failed"]
  <2>2. /\ q.stage \in {"fetching", "served"} /\ JReqSound(q) /\ jNow' = jNow
        /\ jReq' = [jReq EXCEPT ![r] = IF q.attempt = 1 THEN JFetching(q, 2) ELSE failed]
    BY <1>8, <2>1 DEF JFetchFails, JInv, JWaits
  <2>3. JTokenSound(q.token) /\ q.began <= jNow
    BY <2>2 DEF JReqSound
  <2>4. failed \in JReqTypes /\ failed.stage = "failed" /\ failed.token = q.token /\ failed.began = q.began
    BY DEF JReqTypes
  <2> HIDE DEF failed
  <2>5. JReqSound(failed)
    BY <2>3, <2>4, OutcomeSound
  <2>6. JReqSound(JFetching(q, 2)) /\ JFetching(q, 2) \in JReqTypes
    BY <1>0, <2>3, OutcomeSound, FetchingFacts
  <2>7. CASE q.attempt = 1
    BY <1>1, <2>2, <2>6, <2>7
  <2>8. CASE q.attempt # 1
    BY <1>1, <2>2, <2>4, <2>5, <2>8
  <2> QED  BY <2>7, <2>8
<1> HIDE DEF Goal
<1>9. CASE \E kind \in DOMAIN JPasses : JUpdateSecret(kind)
  BY <1>2, <1>9 DEF JUpdateSecret, Goal
<1>10. CASE \E p \in JPods : JIssue(p)
  BY <1>2, <1>10 DEF JIssue, Goal
<1>11. Goal
  BY <1>3, <1>4, <1>5, <1>6, <1>7, <1>8, <1>9, <1>10 DEF JNext, Goal
<1> QED  BY <1>11 DEF Goal

LEMMA RotationStep ==
    ASSUME JCacheTtl # 0
    PROVE  JInv /\ [JNext]_jVars => JInv'
<1>1. ASSUME JInv, JNext PROVE JInv'
  <2>1. /\ jNow' \in jNow .. jNow + 1 /\ jNow' <= JMaxTime /\ jRolledAt' \in {jRolledAt, -1, jNow}
        /\ jServed' \in [JKids -> -1 .. JMaxTime]
        /\ \A k \in JKids : jServed'[k] <= jNow'
    BY <1>1, StepFrame
  <2>2. jNow' \in 0 .. JMaxTime /\ jRolledAt' \in -1 .. JMaxTime /\ jRolledAt' <= jNow'
    BY <1>1, <2>1, RotationConstants DEF JInv, JTypes
  <2>3. /\ JRollout' /\ jMem' \in [JPods -> JFiles] /\ jSecret' \in JFiles
        /\ DOMAIN jPlan' = {"kind", "pass"}
    BY <1>1, RolloutStep
  <2>4. jTokens' \subseteq JTokenTypes /\ \A t \in jTokens' : JTokenSound(t)'
    BY <1>1, TokensStep
  <2>5. jCache' \in [JPods -> JCacheTypes] /\ \A p \in JPods : JCacheSound(jCache[p])'
    BY <1>1, CacheStep
  <2>6. jReq' \in [JRequests -> JReqTypes] /\ \A r \in JRequests : JReqSound(jReq[r])'
    BY <1>1, RequestStep
  <2>7. JTypes'
    BY <2>1, <2>2, <2>3, <2>4, <2>5, <2>6 DEF JTypes
  <2>8. JServedNow'
    BY <1>1, ServedStep
  <2> QED  BY <2>3, <2>4, <2>5, <2>6, <2>7, <2>8 DEF JInv
<1>2. ASSUME JInv, UNCHANGED jVars PROVE JInv'
  BY <1>2 DEF jVars, JInv, JTypes, JRollout, JServedNow, JTokenSound, JReqSound, JDocSound, JGap, JCacheSound,
              JMaySignNew, JSwitched, JNextToLast, JRetired
<1> QED  BY <1>1, <1>2

\* For any fleet, any token and cache lifetimes, any fetch timeout and any number
\* of validations, served by whatever pod and however late: a planned rotation
\* (generate-oidc-keys.mjs and the two-deploy rollout) refuses no live token outside
\* the gap of --append, and JwksCacheService accepts no key longer than the cache's
\* lifetime and a fetch's timeout after the last pod dropped it.  A cache lifetime of
\* zero, which isExpired would take, makes every key unknown and is left out.
THEOREM RotationAlwaysSound ==
    ASSUME JCacheTtl # 0
    PROVE  JSpec => []JRotationSound
<1>1. ASSUME JInv PROVE JRotationSound
  <2>1. JTypeOK
    BY <1>1, KeyFiles DEF JInv, JTypes, JTypeOK, JTokenTypes, JCacheTypes, JReqTypes
  <2>2. JNoGap
    BY <1>1 DEF JInv, JReqSound, JGap, JNoGap
  <2>3. JStalenessBounded
    BY <1>1 DEF JInv, JReqSound, JStalenessBounded
  <2> QED  BY <2>1, <2>2, <2>3 DEF JRotationSound
<1> QED  BY <1>1, RotationStarts, RotationStep, PTL DEF JSpec

-------------------------------------------------------------------------------
(* Pods and the audit pipeline.                                             *)

LJobs      == [name |-> "jobs", order |-> 1]
LTelemetry == [name |-> "telemetry", order |-> 0]

(* What a shutdown may still have before it.                                *)
LLefts == {<<>>} \cup {SubSeq(LGetParticipants, i, Len(LGetParticipants)) : i \in DOMAIN LGetParticipants}

(* pg-boss is shut down first, telemetry after it.                          *)
LEMMA LParticipantFacts ==
  /\ LGetParticipants \in [1 .. 2 -> LParticipants]
  /\ LGetParticipants[1] = LJobs /\ LGetParticipants[2] = LTelemetry
<1> DEFINE Order(s) == \A i, j \in DOMAIN s : i < j => s[i].order > s[j].order
           w == [i \in 1 .. 2 |-> IF i = 1 THEN LJobs ELSE LTelemetry]
<1>1. LParticipants = {LJobs, LTelemetry} /\ LJobs # LTelemetry
  BY DEF LParticipants, LJobs, LTelemetry
<1>2. Cardinality(LParticipants) = 2
  <2>1. IsFiniteSet({LTelemetry}) /\ Cardinality({LTelemetry}) = 1
    BY FS_Singleton
  <2>2. LParticipants = {LTelemetry} \cup {LJobs} /\ LJobs \notin {LTelemetry}
    BY <1>1
  <2> QED
    BY <2>1, <2>2, FS_AddElement
<1>3. SetToSeqs(LParticipants) = {f \in [1 .. 2 -> LParticipants] : \A i, j \in 1 .. 2 : i # j => f[i] # f[j]}
  BY <1>2 DEF SetToSeqs
<1>4. w \in SetToSeqs(LParticipants) /\ Order(w)
  <2>1. w \in [1 .. 2 -> LParticipants] /\ w[1] = LJobs /\ w[2] = LTelemetry /\ DOMAIN w = 1 .. 2
    BY <1>1
  <2>2. \A i \in 1 .. 2 : i = 1 \/ i = 2
    OBVIOUS
  <2>3. LJobs.order = 1 /\ LTelemetry.order = 0
    BY DEF LJobs, LTelemetry
  <2> HIDE DEF w
  <2>4. \A i, j \in 1 .. 2 : i # j => w[i] # w[j]
    BY <1>1, <2>1, <2>2
  <2>5. Order(w)
    BY <2>1, <2>2, <2>3
  <2> QED
    BY <1>3, <2>1, <2>4, <2>5
<1> HIDE DEF w
<1>5. LGetParticipants \in SetToSeqs(LParticipants) /\ Order(LGetParticipants)
  BY <1>4 DEF LGetParticipants
<1>6. LGetParticipants \in [1 .. 2 -> LParticipants] /\ LGetParticipants[1].order > LGetParticipants[2].order
  BY <1>3, <1>5
<1>7. \A x, y \in LParticipants : x.order > y.order => x = LJobs /\ y = LTelemetry
  BY <1>1 DEF LJobs, LTelemetry
<1> QED
  BY <1>6, <1>7

LEMMA LLeftFacts ==
  /\ <<>> \in LLefts /\ LGetParticipants \in LLefts /\ LGetParticipants # <<>>
  /\ Head(LGetParticipants).name = "jobs"
  /\ \A l \in LLefts \ {<<>>} : Tail(l) \in LLefts /\ Tail(l) # LGetParticipants
<1> DEFINE g == LGetParticipants
<1>1. g \in Seq(LParticipants) /\ Len(g) = 2 /\ DOMAIN g = 1 .. 2 /\ g[1] = LJobs
  <2>1. DOMAIN g = 1 .. 2 /\ g \in [1 .. 2 -> LParticipants] /\ g[1] = LJobs
    BY LParticipantFacts
  <2>2. g \in Seq(LParticipants)
    <3>1. 2 \in Nat /\ g \in [1 .. 2 -> LParticipants]
      BY <2>1
    <3> HIDE DEF g
    <3> QED
      BY <3>1, SeqDef
  <2> QED
    BY <2>1, <2>2, LenProperties
<1> HIDE DEF g
<1>2. LLefts = {<<>>} \cup {SubSeq(g, i, Len(g)) : i \in 1 .. 2}
  BY <1>1 DEF LLefts, g
<1>3. SubSeq(g, 1, 2) = g /\ g # <<>>
  <2>1. SubSeq(g, 1, 2) \in Seq(LParticipants) /\ Len(SubSeq(g, 1, 2)) = 2 /\ \A i \in 1 .. 2 : SubSeq(g, 1, 2)[i] = g[i]
    BY <1>1, SubSeqProperties
  <2> QED
    BY <1>1, <2>1, SeqEqual
<1>4. SubSeq(g, 2, 2) \in Seq(LParticipants) /\ Len(SubSeq(g, 2, 2)) = 1 /\ SubSeq(g, 2, 2)[1] = g[2]
  <2>1. 2 \in Int /\ \A i \in 2 .. 2 : g[i] \in LParticipants
    BY <1>1
  <2>2. /\ SubSeq(g, 2, 2) \in Seq(LParticipants) /\ Len(SubSeq(g, 2, 2)) = 2 - 2 + 1
        /\ \A i \in 1 .. 2 - 2 + 1 : SubSeq(g, 2, 2)[i] = g[2 + i - 1]
    BY <2>1, SubSeqProperties
  <2>3. 1 \in 1 .. 2 - 2 + 1 /\ 2 + 1 - 1 = 2 /\ 2 - 2 + 1 = 1
    OBVIOUS
  <2>4. SubSeq(g, 2, 2)[1] = g[2 + 1 - 1]
    BY <2>2, <2>3
  <2> QED
    BY <2>2, <2>3, <2>4
<1>5. Tail(g) \in Seq(LParticipants) /\ Len(Tail(g)) = 1 /\ Tail(g)[1] = g[2]
  <2>1. /\ Tail(g) \in Seq(LParticipants) /\ Len(Tail(g)) = Len(g) - 1
        /\ \A i \in 1 .. Len(Tail(g)) : Tail(g)[i] = g[i + 1]
    BY <1>1, <1>3, HeadTailProperties
  <2>2. Len(Tail(g)) = 1 /\ 1 \in 1 .. Len(Tail(g)) /\ 1 + 1 = 2
    BY <1>1, <2>1
  <2>3. Tail(g)[1] = g[1 + 1]
    BY <2>1, <2>2
  <2> QED
    BY <2>1, <2>2, <2>3
<1>6. Tail(g) = SubSeq(g, 2, 2)
  <2>1. \A i \in 1 .. 1 : i = 1
    OBVIOUS
  <2>2. \A i \in 1 .. Len(Tail(g)) : Tail(g)[i] = SubSeq(g, 2, 2)[i]
    BY <1>4, <1>5, <2>1
  <2> QED
    BY <1>4, <1>5, <2>2, SeqEqual
<1>7. Tail(SubSeq(g, 2, 2)) = <<>>
  <2>1. SubSeq(g, 2, 2) # <<>>
    <3> DEFINE h == SubSeq(g, 2, 2)
    <3>1. h \in Seq(LParticipants) /\ Len(h) = 1
      BY <1>4
    <3> HIDE DEF h
    <3>2. h # <<>>
      <4>1. Len(<<>>) = 0 /\ 1 # 0
        BY EmptySeq
      <4> QED
        BY <3>1, <4>1, Zenon
    <3> QED
      BY <3>2 DEF h
  <2>2. Tail(SubSeq(g, 2, 2)) \in Seq(LParticipants) /\ Len(Tail(SubSeq(g, 2, 2))) = 0
    BY <1>4, <2>1, HeadTailProperties
  <2> QED
    BY <2>2, EmptySeq
<1>8. Head(g) = LJobs /\ LJobs.name = "jobs"
  BY <1>1, <1>3, HeadTailProperties DEF LJobs
<1>9. LLefts = {<<>>, g, SubSeq(g, 2, 2)}
  BY <1>1, <1>2, <1>3
<1>10. SubSeq(g, 2, 2) # g
  BY <1>1, <1>4
<1> QED
  BY <1>3, <1>6, <1>7, <1>8, <1>9, <1>10 DEF g

(* A pod that is sound: what it says of itself, it has.                     *)
LPodRecord ==
  [at : {"down", "boss", "queues", "workers", "serving", "draining", "closing"},
   attempt : 0 .. LMaxRetries + 1, queues : 0 .. LQueueCount, left : LLefts,
   running : BOOLEAN, flag : BOOLEAN]

LPodSound(q) ==
  /\ q \in LPodRecord
  /\ q.at = "boss" => q.queues = 0
  /\ q.at = "queues" => q.running /\ q.queues < LQueueCount
  /\ q.at \in {"workers", "serving"} => q.running /\ q.queues = LQueueCount
  /\ q.at = "draining" => q.flag /\ q.left # <<>> /\ (q.running => q.left = LGetParticipants)
  /\ q.at = "closing" => ~q.running

LPodsSound == lPod \in [LPods -> LPodRecord] /\ \A p \in LPods : LPodSound(lPod[p])

LEMMA LDownSound == LPodSound(LDown)
BY LAssumption, LLeftFacts DEF LPodSound, LDown, LPodRecord

LEMMA LSetSound ==
  ASSUME LPodsSound, NEW p \in LPods, NEW q, LPodSound(q), LSet(p, q)
  PROVE  LPodsSound'
<1>1. q \in LPodRecord /\ lPod' = [lPod EXCEPT ![p] = q]
  BY DEF LPodSound, LSet
<1>2. lPod' \in [LPods -> LPodRecord]
  BY <1>1 DEF LPodsSound
<1>3. \A r \in LPods : lPod'[r] = q \/ lPod'[r] = lPod[r]
  BY <1>1 DEF LPodsSound
<1>4. \A r \in LPods : LPodSound(lPod'[r])
  BY <1>3 DEF LPodsSound
<1> QED
  BY <1>2, <1>4 DEF LPodsSound

(* Every step of a pod keeps it sound.                                      *)
LEMMA LStepSound ==
  ASSUME LPodsSound, NEW p \in LPods
  PROVE  /\ LStart(p) \/ LBoot(p) => LPodsSound'
         /\ \A ok \in BOOLEAN : LRegisterWorkers(p, ok) => LPodsSound'
         /\ LSignal(p) \/ LParticipant(p) => LPodsSound'
         /\ LClose(p) \/ LCrash(p) => LPodsSound'
<1> DEFINE pod == lPod[p]
<1>1. pod \in LPodRecord /\ LPodSound(pod)
  BY DEF LPodsSound
<1>2. /\ pod.attempt \in 0 .. LMaxRetries + 1 /\ pod.queues \in 0 .. LQueueCount /\ pod.left \in LLefts
      /\ LMaxRetries \in Nat /\ LQueueCount \in Nat \ {0}
  BY <1>1, LAssumption DEF LPodRecord
<1> HIDE DEF pod
<1>3. ASSUME LStart(p) PROVE LPodsSound'
  <2> DEFINE q == [LDown EXCEPT !.at = "boss", !.attempt = 1]
  <2>1. LDown \in LPodRecord /\ LDown.queues = 0 /\ 1 \in 0 .. LMaxRetries + 1
    BY <1>2, LDownSound DEF LPodSound, LDown
  <2>2. q \in LPodRecord /\ q.at = "boss" /\ q.queues = 0
    BY <2>1 DEF LPodRecord
  <2>3. LSet(p, q)
    BY <1>3 DEF LStart
  <2> HIDE DEF q
  <2>4. LPodSound(q)
    BY <2>2 DEF LPodSound
  <2> QED
    BY <2>3, <2>4, LSetSound
<1>4. ASSUME LSet(p, LDown) PROVE LPodsSound'
  BY <1>4, LDownSound, LSetSound
<1>5. ASSUME NEW ok \in BOOLEAN, LStartBoss(p, ok) PROVE LPodsSound'
  <2>1. CASE pod.at = "boss" /\ LSet(p, [pod EXCEPT !.at = "queues", !.running = TRUE])
    <3> DEFINE q == [pod EXCEPT !.at = "queues", !.running = TRUE]
    <3>1. q \in LPodRecord /\ q.at = "queues" /\ q.queues = pod.queues /\ q.running
      BY <1>1 DEF LPodRecord
    <3>2. LSet(p, q)
      BY <2>1
    <3>3. pod.queues = 0 /\ 0 < LQueueCount
      BY <1>1, <1>2, <2>1 DEF LPodSound
    <3> HIDE DEF q
    <3>4. LPodSound(q)
      BY <3>1, <3>3 DEF LPodSound
    <3> QED
      BY <3>2, <3>4, LSetSound
  <2>2. CASE pod.at = "boss" /\ pod.attempt <= LMaxRetries /\ LSet(p, [pod EXCEPT !.attempt = pod.attempt + 1])
    <3> DEFINE q == [pod EXCEPT !.attempt = pod.attempt + 1]
    <3>1. pod.attempt + 1 \in 0 .. LMaxRetries + 1
      BY <1>2, <2>2
    <3>2. q \in LPodRecord /\ q.at = "boss" /\ q.queues = pod.queues
      BY <1>1, <2>2, <3>1 DEF LPodRecord
    <3>3. LSet(p, q) /\ pod.queues = 0
      BY <1>1, <2>2 DEF LPodSound
    <3> HIDE DEF q
    <3>4. LPodSound(q)
      BY <3>2, <3>3 DEF LPodSound
    <3> QED
      BY <3>3, <3>4, LSetSound
  <2> QED
    BY <1>4, <1>5, <2>1, <2>2 DEF LStartBoss, pod
<1>6. ASSUME NEW ok \in BOOLEAN, LEnsureQueue(p, ok) PROVE LPodsSound'
  <2>1. CASE /\ pod.at = "queues"
             /\ \E to \in {"workers", "queues"} :
                  /\ LSet(p, [pod EXCEPT !.queues = pod.queues + 1, !.at = to])
                  /\ to = "workers" <=> pod.queues + 1 = LQueueCount
    <3>1. PICK to \in {"workers", "queues"} :
            /\ LSet(p, [pod EXCEPT !.queues = pod.queues + 1, !.at = to])
            /\ to = "workers" <=> pod.queues + 1 = LQueueCount
      BY <2>1
    <3> DEFINE q == [pod EXCEPT !.queues = pod.queues + 1, !.at = to]
    <3>2. pod.running /\ pod.queues < LQueueCount
      BY <1>1, <2>1 DEF LPodSound
    <3>3. pod.queues + 1 \in 0 .. LQueueCount
      BY <1>2, <3>2
    <3>4. q \in LPodRecord /\ q.at = to /\ q.queues = pod.queues + 1 /\ q.running = pod.running
      BY <1>1, <3>3 DEF LPodRecord
    <3>5. LSet(p, q)
      BY <3>1
    <3>6. to = "queues" => q.queues < LQueueCount
      BY <1>2, <3>1, <3>2, <3>4
    <3> HIDE DEF q
    <3>7. to = "workers" => q.queues = LQueueCount
      BY <3>1, <3>4
    <3>8. q.running
      BY <3>2, <3>4
    <3>9. LPodSound(q)
      BY <3>4, <3>6, <3>7, <3>8 DEF LPodSound
    <3> QED
      BY <3>5, <3>9, LSetSound
  <2>2. CASE ok /\ pod.queues + 1 = LQueueCount
    <3>1. pod.at = "queues" /\ LSet(p, [pod EXCEPT !.queues = pod.queues + 1, !.at = "workers"])
      BY <1>6, <2>2 DEF LEnsureQueue, pod
    <3> QED
      BY <2>1, <2>2, <3>1
  <2>3. CASE ok /\ pod.queues + 1 # LQueueCount
    <3>1. pod.at = "queues" /\ LSet(p, [pod EXCEPT !.queues = pod.queues + 1, !.at = pod.at])
      BY <1>6, <2>3 DEF LEnsureQueue, pod
    <3> QED
      BY <2>1, <2>3, <3>1
  <2>4. CASE ~ok
    BY <1>4, <1>6, <2>4 DEF LEnsureQueue
  <2> QED
    BY <2>2, <2>3, <2>4
<1>7. ASSUME NEW ok \in BOOLEAN, LRegisterWorkers(p, ok) PROVE LPodsSound'
  <2>1. CASE pod.at = "workers" /\ LSet(p, [pod EXCEPT !.at = "serving"])
    <3> DEFINE q == [pod EXCEPT !.at = "serving"]
    <3>1. q \in LPodRecord /\ q.at = "serving" /\ q.queues = pod.queues /\ q.running = pod.running
      BY <1>1 DEF LPodRecord
    <3>2. LSet(p, q) /\ pod.running /\ pod.queues = LQueueCount
      BY <1>1, <2>1 DEF LPodSound
    <3> HIDE DEF q
    <3>3. LPodSound(q)
      BY <3>1, <3>2 DEF LPodSound
    <3> QED
      BY <3>2, <3>3, LSetSound
  <2> QED
    BY <1>4, <1>7, <2>1 DEF LRegisterWorkers, pod
<1>8. ASSUME LSignal(p) PROVE LPodsSound'
  <2> DEFINE q == [pod EXCEPT !.at = "draining", !.flag = TRUE, !.left = LGetParticipants]
  <2>1. q \in LPodRecord /\ q.at = "draining" /\ q.flag /\ q.left = LGetParticipants
    BY <1>1, LLeftFacts DEF LPodRecord
  <2>2. LSet(p, q)
    BY <1>8 DEF LSignal, pod
  <2> HIDE DEF q
  <2>3. LPodSound(q)
    BY <2>1, LLeftFacts DEF LPodSound
  <2> QED
    BY <2>2, <2>3, LSetSound
<1>9. ASSUME LParticipant(p) PROVE LPodsSound'
  <2> DEFINE rest == Tail(pod.left)
             runs == IF Head(pod.left).name = "jobs" THEN FALSE ELSE pod.running
             to   == IF rest = <<>> THEN "closing" ELSE pod.at
             q    == [pod EXCEPT !.left = rest, !.running = runs, !.flag = rest # <<>>, !.at = to]
  <2>1. pod.at = "draining" /\ LSet(p, q)
    BY <1>9 DEF LParticipant, pod
  <2>2. pod.left \in LLefts \ {<<>>} /\ (pod.running => pod.left = LGetParticipants) /\ pod.running \in BOOLEAN
    BY <1>1, <1>2, <2>1 DEF LPodSound, LPodRecord
  <2>3. rest \in LLefts /\ rest # LGetParticipants
    BY <2>2, LLeftFacts
  <2>4. runs \in BOOLEAN /\ ~runs
    BY <2>2, LLeftFacts
  <2>5. to \in {"draining", "closing"} /\ (to = "draining" => rest # <<>>)
    BY <2>1
  <2> HIDE DEF rest, runs, to
  <2>6. q \in LPodRecord /\ q.left = rest /\ q.running = runs /\ q.at = to /\ q.flag = (rest # <<>>)
    BY <1>1, <2>3, <2>4, <2>5 DEF LPodRecord
  <2> HIDE DEF q
  <2>7. LPodSound(q)
    BY <2>4, <2>5, <2>6 DEF LPodSound
  <2> QED
    BY <2>1, <2>7, LSetSound
<1>10. LClose(p) \/ LCrash(p) => LPodsSound'
  BY <1>4 DEF LClose, LCrash
<1> QED
  BY <1>3, <1>5, <1>6, <1>7, <1>8, <1>9, <1>10 DEF LBoot

(* A sound pod is as PodLifecycle promises.                                 *)
LEMMA LSoundServes == LPodsSound => LTypeOK /\ LServingComplete
<1> SUFFICES ASSUME LPodsSound PROVE LTypeOK /\ LServingComplete
  OBVIOUS
<1>1. LTypeOK
  BY DEF LPodsSound, LTypeOK, LPodRecord, LLefts
<1>2. ASSUME NEW p \in LPods
      PROVE  /\ lPod[p].at = "serving" => lPod[p].running /\ lPod[p].queues = LQueueCount
             /\ LReady(p, TRUE) => lPod[p].running \/ lPod[p].at = "closing"
             /\ LHttp(p) /\ LStatus(p, TRUE) = "ok" => LCanWork(p)
  <2>1. LPodSound(lPod[p])
    BY DEF LPodsSound
  <2>2. lPod[p].at = "serving" => lPod[p].running /\ lPod[p].queues = LQueueCount
    BY <2>1 DEF LPodSound
  <2>3. LReady(p, TRUE) => lPod[p].running \/ lPod[p].at = "closing"
    BY <2>1 DEF LPodSound, LReady, LHttp
  <2>4. LStatus(p, TRUE) = "ok" => ~lPod[p].flag /\ lPod[p].running
    BY DEF LStatus
  <2>5. LHttp(p) /\ LStatus(p, TRUE) = "ok" => LCanWork(p)
    BY <2>1, <2>4 DEF LPodSound, LHttp, LCanWork
  <2> QED
    BY <2>2, <2>3, <2>5
<1> QED
  BY <1>1, <1>2 DEF LServingComplete

(* What is known of the entry of a queued change ...                        *)
AEntryRecord ==
  [at : {"none", "changed", "queued", "active", "inserted", "done", "dead", "lost"},
   pod : LPods \cup {ANobody}, tries : 0 .. ARetryLimit + 1, rows : 0 .. ARetryLimit + 1]

AQueuedSound(x) ==
  /\ x.rows <= x.tries
  /\ x.at \in {"none", "changed", "queued", "lost"} => x.tries <= ARetryLimit
  /\ x.at = "active" => x.rows < x.tries
  /\ x.at \in {"inserted", "done"} => x.rows >= 1
  /\ x.at = "dead" => x.tries = ARetryLimit + 1

(* ... and of one that commits with its change.                             *)
ADirectSound(x) == x.at \in {"none", "done"} /\ x.pod = ANobody

AEntrySound(e, x) ==
  /\ x \in AEntryRecord
  /\ e \in AQueued => AQueuedSound(x)
  /\ e \in ATransactional => ADirectSound(x)

AEntriesSound ==
  /\ aEntry \in [AQueued \cup ATransactional -> AEntryRecord]
  /\ \A e \in AQueued \cup ATransactional : AEntrySound(e, aEntry[e])

(* The months that the last complete run prepared have their partitions, as *)
(* have those that the run under way went through.                          *)
APartsSound ==
  /\ aMonth \in 0 .. AMaxMonth /\ aEnsured \in 0 .. aMonth
  /\ aParts \subseteq 0 .. AMaxMonth + AMonthsAhead
  /\ aEnsured .. aEnsured + AMonthsAhead \subseteq aParts
  /\ aMaint \in [at : {"idle", "queued", "active"}, pod : LPods \cup {ANobody},
                 start : 0 .. AMaxMonth, next : 0 .. AMaxMonth + AMonthsAhead]
  /\ aMaint.at = "active" =>
       /\ aMaint.start <= aMonth
       /\ aMaint.next \in aMaint.start .. aMaint.start + AMonthsAhead
       /\ \A m \in aMaint.start .. aMaint.start + AMonthsAhead : m < aMaint.next => m \in aParts

(* The inductive invariant of the audit pipeline.                           *)
AInv == LPodsSound /\ AEntriesSound /\ APartsSound

LEMMA AEntryStep ==
  ASSUME AEntriesSound, NEW e \in AQueued \cup ATransactional, NEW x, AEntrySound(e, x),
         aEntry' = [aEntry EXCEPT ![e] = x]
  PROVE  AEntriesSound'
<1>1. x \in AEntryRecord
  BY DEF AEntrySound
<1>2. aEntry' \in [AQueued \cup ATransactional -> AEntryRecord]
  BY <1>1 DEF AEntriesSound
<1>3. \A d \in AQueued \cup ATransactional : (d = e /\ aEntry'[d] = x) \/ aEntry'[d] = aEntry[d]
  BY DEF AEntriesSound
<1>4. \A d \in AQueued \cup ATransactional : AEntrySound(d, aEntry'[d])
  BY <1>3 DEF AEntriesSound
<1> QED
  BY <1>2, <1>4 DEF AEntriesSound

(* A delivery that failed leaves a sound entry.                             *)
LEMMA ARetriedSound ==
  ASSUME NEW x \in AEntryRecord, AQueuedSound(x)
  PROVE  ARetried(x) \in AEntryRecord /\ AQueuedSound(ARetried(x))
<1> DEFINE to == IF x.tries > ARetryLimit THEN "dead" ELSE "queued"
           y  == [x EXCEPT !.pod = ANobody, !.at = to]
<1>1. ARetryLimit \in Nat /\ x.tries \in 0 .. ARetryLimit + 1 /\ x.rows \in 0 .. ARetryLimit + 1
  BY AAssumption DEF AEntryRecord
<1>2. /\ to \in {"dead", "queued"} /\ (to = "dead" => x.tries = ARetryLimit + 1)
      /\ to = "queued" => x.tries <= ARetryLimit
  BY <1>1
<1>3. ARetried(x) = y
  BY DEF ARetried
<1> HIDE DEF to
<1>4. y \in AEntryRecord /\ y.at = to /\ y.tries = x.tries /\ y.rows = x.rows
  BY <1>2 DEF AEntryRecord
<1> HIDE DEF y
<1>5. AQueuedSound(y)
  BY <1>2, <1>4 DEF AQueuedSound
<1> QED
  BY <1>3, <1>4, <1>5

LEMMA AEntrySteps ==
  ASSUME AEntriesSound
  PROVE  /\ \A e \in DOMAIN aEntry, p \in LPods :
              AWriteInTransaction(e, p) \/ AChange(e, p) \/ AFetch(e, p) => AEntriesSound'
         /\ \A e \in AQueued : AWork(e) => AEntriesSound'
<1>1. ARetryLimit \in Nat /\ AQueued \cap ATransactional = {} /\ ANobody \notin LPods
  BY AAssumption
<1>2. DOMAIN aEntry = AQueued \cup ATransactional
  BY DEF AEntriesSound
<1>3. ASSUME NEW e \in AQueued \cup ATransactional
      PROVE  /\ aEntry[e] \in AEntryRecord
             /\ e \in AQueued => AQueuedSound(aEntry[e]) /\ e \notin ATransactional
             /\ e \in ATransactional => ADirectSound(aEntry[e]) /\ e \notin AQueued
             /\ aEntry[e].tries \in 0 .. ARetryLimit + 1 /\ aEntry[e].rows \in 0 .. ARetryLimit + 1
  BY <1>1 DEF AEntriesSound, AEntrySound, AEntryRecord
<1>4. ASSUME NEW e \in AQueued \cup ATransactional, NEW p \in LPods, AWriteInTransaction(e, p) PROVE AEntriesSound'
  <2> DEFINE x == [aEntry[e] EXCEPT !.at = "done", !.rows = 1]
  <2>1. e \in ATransactional /\ aEntry' = [aEntry EXCEPT ![e] = x]
    BY <1>2, <1>4 DEF AWriteInTransaction
  <2>2. x \in AEntryRecord /\ x.at = "done" /\ x.pod = aEntry[e].pod
    <3>1. 1 \in 0 .. ARetryLimit + 1
      BY <1>1
    <3> QED
      BY <1>3, <3>1 DEF AEntryRecord
  <2> HIDE DEF x
  <2>3. AEntrySound(e, x)
    BY <1>3, <2>1, <2>2 DEF AEntrySound, ADirectSound
  <2> QED
    BY <2>1, <2>3, AEntryStep
<1>5. ASSUME NEW e \in AQueued \cup ATransactional, NEW p \in LPods, AChange(e, p) PROVE AEntriesSound'
  <2> DEFINE x == [aEntry[e] EXCEPT !.at = "changed", !.pod = p]
  <2>1. e \in AQueued /\ aEntry[e].at = "none" /\ aEntry' = [aEntry EXCEPT ![e] = x]
    BY <1>2, <1>5 DEF AChange
  <2>2. x \in AEntryRecord /\ x.at = "changed" /\ x.tries = aEntry[e].tries /\ x.rows = aEntry[e].rows
    BY <1>3 DEF AEntryRecord
  <2> HIDE DEF x
  <2>3. AQueuedSound(x)
    BY <1>3, <2>1, <2>2 DEF AQueuedSound
  <2>4. AEntrySound(e, x)
    BY <1>3, <2>1, <2>2, <2>3 DEF AEntrySound
  <2> QED
    BY <2>1, <2>4, AEntryStep
<1>6. ASSUME NEW e \in AQueued \cup ATransactional, NEW p \in LPods, AFetch(e, p) PROVE AEntriesSound'
  <2> DEFINE x == [aEntry[e] EXCEPT !.at = "active", !.pod = p, !.tries = aEntry[e].tries + 1]
  <2>1. aEntry[e].at = "queued" /\ aEntry' = [aEntry EXCEPT ![e] = x]
    BY <1>2, <1>6 DEF AFetch
  <2>2. e \in AQueued
    BY <1>3, <2>1 DEF ADirectSound
  <2>3. aEntry[e].tries <= ARetryLimit /\ aEntry[e].rows <= aEntry[e].tries
    BY <1>3, <2>1, <2>2 DEF AQueuedSound
  <2>4. aEntry[e].tries + 1 \in 0 .. ARetryLimit + 1
    BY <1>1, <1>3, <2>3
  <2>5. x \in AEntryRecord /\ x.at = "active" /\ x.tries = aEntry[e].tries + 1 /\ x.rows = aEntry[e].rows
    BY <1>3, <2>4 DEF AEntryRecord
  <2> HIDE DEF x
  <2>6. AQueuedSound(x)
    BY <1>1, <1>3, <2>3, <2>5 DEF AQueuedSound
  <2>7. AEntrySound(e, x)
    BY <1>3, <2>2, <2>5, <2>6 DEF AEntrySound
  <2> QED
    BY <2>1, <2>7, AEntryStep
<1>7. ASSUME NEW e \in AQueued, aEntry' = [aEntry EXCEPT ![e] = ARetried(aEntry[e])] PROVE AEntriesSound'
  <2>1. ARetried(aEntry[e]) \in AEntryRecord /\ AQueuedSound(ARetried(aEntry[e]))
    BY <1>3, ARetriedSound
  <2>2. AEntrySound(e, ARetried(aEntry[e]))
    BY <1>3, <2>1 DEF AEntrySound
  <2> QED
    BY <1>7, <2>2, AEntryStep
<1>8. ASSUME NEW e \in AQueued, NEW ok \in BOOLEAN, AEnqueue(e, ok) PROVE AEntriesSound'
  <2>1. PICK to \in {"queued", "lost"} : aEntry' = [aEntry EXCEPT ![e].pod = ANobody, ![e].at = to]
    BY <1>8 DEF AEnqueue
  <2> DEFINE x == [aEntry[e] EXCEPT !.pod = ANobody, !.at = to]
  <2>2. aEntry[e].at = "changed" /\ aEntry' = [aEntry EXCEPT ![e] = x]
    BY <1>2, <1>8, <2>1 DEF AEnqueue
  <2>3. x \in AEntryRecord /\ x.at = to /\ x.tries = aEntry[e].tries /\ x.rows = aEntry[e].rows
    BY <1>3 DEF AEntryRecord
  <2> HIDE DEF x
  <2>4. AQueuedSound(x)
    BY <1>3, <2>2, <2>3 DEF AQueuedSound
  <2>5. AEntrySound(e, x)
    BY <1>3, <2>3, <2>4 DEF AEntrySound
  <2> QED
    BY <2>2, <2>5, AEntryStep
<1>9. ASSUME NEW e \in AQueued, NEW ok \in BOOLEAN, AHandle(e, ok) PROVE AEntriesSound'
  <2>1. CASE ok /\ AHasPartition
    <3> DEFINE x == [aEntry[e] EXCEPT !.at = "inserted", !.rows = aEntry[e].rows + 1]
    <3>1. aEntry[e].at = "active" /\ aEntry' = [aEntry EXCEPT ![e] = x]
      BY <1>2, <1>9, <2>1 DEF AHandle
    <3>2. aEntry[e].rows < aEntry[e].tries
      BY <1>3, <3>1 DEF AQueuedSound
    <3>3. aEntry[e].rows + 1 \in 0 .. ARetryLimit + 1
      BY <1>1, <1>3, <3>2
    <3>4. x \in AEntryRecord /\ x.at = "inserted" /\ x.tries = aEntry[e].tries /\ x.rows = aEntry[e].rows + 1
      BY <1>3, <3>3 DEF AEntryRecord
    <3> HIDE DEF x
    <3>5. AQueuedSound(x)
      BY <1>1, <1>3, <3>2, <3>4 DEF AQueuedSound
    <3>6. AEntrySound(e, x)
      BY <1>3, <3>4, <3>5 DEF AEntrySound
    <3> QED
      BY <3>1, <3>6, AEntryStep
  <2>2. CASE ~(ok /\ AHasPartition)
    <3>1. aEntry' = [aEntry EXCEPT ![e] = ARetried(aEntry[e])]
      BY <1>2, <1>9, <2>2 DEF AHandle
    <3> QED
      BY <1>7, <3>1
  <2> QED
    BY <2>1, <2>2
<1>10. ASSUME NEW e \in AQueued, NEW ok \in BOOLEAN, AComplete(e, ok) PROVE AEntriesSound'
  <2>1. CASE ok
    <3> DEFINE x == [aEntry[e] EXCEPT !.at = "done", !.pod = ANobody]
    <3>1. aEntry[e].at = "inserted" /\ aEntry' = [aEntry EXCEPT ![e] = x]
      BY <1>2, <1>10, <2>1 DEF AComplete
    <3>2. x \in AEntryRecord /\ x.at = "done" /\ x.tries = aEntry[e].tries /\ x.rows = aEntry[e].rows
      BY <1>3 DEF AEntryRecord
    <3> HIDE DEF x
    <3>3. AQueuedSound(x)
      BY <1>3, <3>1, <3>2 DEF AQueuedSound
    <3>4. AEntrySound(e, x)
      BY <1>3, <3>2, <3>3 DEF AEntrySound
    <3> QED
      BY <3>1, <3>4, AEntryStep
  <2>2. CASE ~ok
    <3>1. aEntry' = [aEntry EXCEPT ![e] = ARetried(aEntry[e])]
      BY <1>2, <1>10, <2>2 DEF AComplete
    <3> QED
      BY <1>7, <3>1
  <2> QED
    BY <2>1, <2>2
<1> QED
  BY <1>2, <1>4, <1>5, <1>6, <1>8, <1>9, <1>10 DEF AWork

(* A pod that stops or crashes leaves its entries sound.                    *)
LEMMA AAbandonSound ==
  ASSUME AEntriesSound, NEW p \in LPods, NEW lose \in BOOLEAN, AAbandon(p, lose)
  PROVE  AEntriesSound'
<1>1. DOMAIN aEntry = AQueued \cup ATransactional /\ ANobody \notin LPods /\ AQueued \cap ATransactional = {}
  BY AAssumption DEF AEntriesSound
<1>2. ASSUME NEW e \in AQueued \cup ATransactional
      PROVE  AEntrySound(e, aEntry'[e])
  <2>1. AEntrySound(e, aEntry[e]) /\ aEntry[e] \in AEntryRecord
    BY DEF AEntriesSound, AEntrySound
  <2>2. CASE aEntry'[e] = aEntry[e]
    BY <2>1, <2>2
  <2>3. ASSUME aEntry[e].pod = p PROVE e \in AQueued /\ e \notin ATransactional /\ AQueuedSound(aEntry[e])
    BY <1>1, <2>1, <2>3 DEF AEntrySound, ADirectSound
  <2>4. CASE aEntry[e].pod = p /\ aEntry'[e] = ARetried(aEntry[e])
    BY <2>1, <2>3, <2>4, ARetriedSound DEF AEntrySound
  <2>5. CASE aEntry[e].pod = p /\ aEntry[e].at = "changed" /\ aEntry'[e] = [aEntry[e] EXCEPT !.at = "lost", !.pod = ANobody]
    <3>1. PICK x : x = aEntry'[e]
      OBVIOUS
    <3>2. x \in AEntryRecord /\ x.at = "lost" /\ x.tries = aEntry[e].tries /\ x.rows = aEntry[e].rows
      BY <2>1, <2>5, <3>1 DEF AEntryRecord
    <3>3. AQueuedSound(x)
      BY <2>3, <2>5, <3>2 DEF AQueuedSound
    <3>4. AEntrySound(e, x)
      BY <2>3, <2>5, <3>2, <3>3 DEF AEntrySound
    <3> QED
      BY <3>1, <3>4
  <2> QED
    BY <1>1, <2>2, <2>4, <2>5 DEF AAbandon
<1>3. aEntry' = [e \in AQueued \cup ATransactional |-> aEntry'[e]]
  BY <1>1 DEF AAbandon
<1>4. \A e \in AQueued \cup ATransactional : aEntry'[e] \in AEntryRecord
  BY <1>2 DEF AEntrySound
<1>5. aEntry' \in [AQueued \cup ATransactional -> AEntryRecord]
  BY <1>3, <1>4
<1> QED
  BY <1>2, <1>5 DEF AEntriesSound

(* The job of the maintenance: idle or queued, or one step further.         *)
AJobRecord == [at : {"idle", "queued", "active"}, pod : LPods \cup {ANobody},
               start : 0 .. AMaxMonth, next : 0 .. AMaxMonth + AMonthsAhead]

LEMMA AJobWaits ==
  ASSUME APartsSound, UNCHANGED <<aMonth, aParts, aEnsured>>, aMaint' \in AJobRecord,
         aMaint' = aMaint \/ aMaint'.at # "active"
  PROVE  APartsSound'
BY DEF APartsSound, AJobRecord

LEMMA AIdleFacts ==
  /\ AIdle \in AJobRecord /\ AIdle.at = "idle"
  /\ [AIdle EXCEPT !.at = "queued"] \in AJobRecord /\ [AIdle EXCEPT !.at = "queued"].at = "queued"
<1>1. AMaxMonth \in Nat /\ AMonthsAhead \in Nat
  BY AAssumption
<1> QED
  BY <1>1 DEF AIdle, AJobRecord

LEMMA APartSteps ==
  ASSUME APartsSound
  PROVE  /\ ACron \/ AMonthPasses => APartsSound'
         /\ \A p \in LPods : AMaintFetch(p) => APartsSound'
         /\ \A ok \in BOOLEAN : AMaintStep(ok) => APartsSound'
<1>1. AMaxMonth \in Nat /\ AMonthsAhead \in Nat /\ aMonth \in Nat /\ aMonth <= AMaxMonth /\ aMaint \in AJobRecord
  BY AAssumption DEF APartsSound, AJobRecord
<1>2. ASSUME ACron PROVE APartsSound'
  <2>1. aMaint' = [aMaint EXCEPT !.at = "queued"] /\ UNCHANGED <<aMonth, aParts, aEnsured>>
    BY <1>2 DEF ACron
  <2>2. aMaint' \in AJobRecord /\ aMaint'.at = "queued"
    BY <1>1, <2>1 DEF AJobRecord
  <2> QED
    BY <2>1, <2>2, AJobWaits
<1>3. ASSUME AMonthPasses PROVE APartsSound'
  BY <1>1, <1>3 DEF AMonthPasses, APartsSound, AJobRecord
<1>4. ASSUME NEW p \in LPods, AMaintFetch(p) PROVE APartsSound'
  <2>1. aMaint' = [at |-> "active", pod |-> p, start |-> aMonth, next |-> aMonth] /\ UNCHANGED <<aMonth, aParts, aEnsured>>
    BY <1>4 DEF AMaintFetch
  <2>2. aMaint' \in AJobRecord /\ aMaint'.start = aMonth /\ aMaint'.next = aMonth
    BY <1>1, <2>1 DEF AJobRecord
  <2> QED
    BY <1>1, <2>1, <2>2 DEF APartsSound, AJobRecord
<1>5. ASSUME NEW ok \in BOOLEAN, AMaintStep(ok) PROVE APartsSound'
  <2>1. /\ aMaint.at = "active" /\ UNCHANGED aMonth
        /\ aMaint.start \in 0 .. aMonth /\ aMaint.next \in aMaint.start .. aMaint.start + AMonthsAhead
        /\ \A m \in aMaint.start .. aMaint.start + AMonthsAhead : m < aMaint.next => m \in aParts
    BY <1>1, <1>5 DEF AMaintStep, APartsSound, AJobRecord
  <2>2. CASE ~ok
    <3>1. aMaint' \in {AIdle, [AIdle EXCEPT !.at = "queued"]} /\ UNCHANGED <<aMonth, aParts, aEnsured>>
      BY <1>5, <2>2 DEF AMaintStep
    <3> QED
      BY <3>1, AIdleFacts, AJobWaits
  <2>3. CASE ok /\ aMaint.next + 1 \in ASpecs(aMaint.start)
    <3>1. /\ aParts' = aParts \cup ({aMaint.next} \cap ASpecs(aMaint.start)) /\ aEnsured' = aEnsured
          /\ aMaint' = [aMaint EXCEPT !.next = aMaint.next + 1]
      BY <1>5, <2>3 DEF AMaintStep
    <3>2. aParts' = aParts \cup {aMaint.next}
      BY <2>1, <3>1 DEF ASpecs
    <3>3. aMaint.next + 1 \in aMaint.start .. aMaint.start + AMonthsAhead
      BY <2>3 DEF ASpecs
    <3>4. aMaint.next + 1 \in 0 .. AMaxMonth + AMonthsAhead
      BY <1>1, <2>1, <3>3
    <3>5. aMaint' \in AJobRecord /\ aMaint'.start = aMaint.start /\ aMaint'.next = aMaint.next + 1
      BY <1>1, <3>1, <3>4 DEF AJobRecord
    <3>6. aParts' \subseteq 0 .. AMaxMonth + AMonthsAhead
      BY <1>1, <2>1, <3>2 DEF APartsSound
    <3>7. \A m \in aMaint.start .. aMaint.start + AMonthsAhead : m < aMaint.next + 1 => m \in aParts'
      BY <1>1, <2>1, <3>2
    <3> QED
      BY <1>1, <2>1, <3>1, <3>2, <3>3, <3>5, <3>6, <3>7 DEF APartsSound, AJobRecord
  <2>4. CASE ok /\ aMaint.next + 1 \notin ASpecs(aMaint.start)
    <3>1. /\ aParts' = aParts \cup ({aMaint.next} \cap ASpecs(aMaint.start)) /\ aEnsured' = aMaint.start
          /\ aMaint' = AIdle
      BY <1>5, <2>4 DEF AMaintStep
    <3>2. aParts' = aParts \cup {aMaint.next}
      BY <2>1, <3>1 DEF ASpecs
    <3>3. aMaint.next = aMaint.start + AMonthsAhead
      BY <1>1, <2>1, <2>4 DEF ASpecs
    <3>4. aParts' \subseteq 0 .. AMaxMonth + AMonthsAhead
      BY <1>1, <2>1, <3>2 DEF APartsSound
    <3>5. aEnsured' .. aEnsured' + AMonthsAhead \subseteq aParts'
      BY <1>1, <2>1, <3>1, <3>2, <3>3
    <3> QED
      BY <1>1, <2>1, <3>1, <3>4, <3>5, AIdleFacts DEF APartsSound, AJobRecord
  <2> QED
    BY <2>2, <2>3, <2>4
<1> QED
  BY <1>2, <1>3, <1>4, <1>5

LEMMA AInvInit == AInit => AInv
<1> SUFFICES ASSUME AInit PROVE AInv
  OBVIOUS
<1>1. AMaxMonth \in Nat /\ AMonthsAhead \in Nat /\ ARetryLimit \in Nat
  BY AAssumption
<1>2. LPodsSound
  <2>1. lPod = [p \in LPods |-> LDown] /\ LDown \in LPodRecord
    BY LDownSound DEF AInit, LInit, LPodSound
  <2> QED
    BY <2>1, LDownSound DEF LPodsSound
<1>3. AEntriesSound
  <2>1. ANoEntry \in AEntryRecord /\ ANoEntry.at = "none" /\ ANoEntry.pod = ANobody /\ ANoEntry.tries = 0 /\ ANoEntry.rows = 0
    BY <1>1 DEF ANoEntry, AEntryRecord
  <2>2. AQueuedSound(ANoEntry) /\ ADirectSound(ANoEntry)
    BY <1>1, <2>1 DEF AQueuedSound, ADirectSound
  <2>3. aEntry = [e \in AQueued \cup ATransactional |-> ANoEntry]
    BY DEF AInit
  <2>4. \A e \in AQueued \cup ATransactional : AEntrySound(e, ANoEntry)
    BY <2>1, <2>2 DEF AEntrySound
  <2> QED
    BY <2>1, <2>3, <2>4 DEF AEntriesSound
<1>4. APartsSound
  BY <1>1, AIdleFacts DEF AInit, APartsSound, AJobRecord
<1> QED
  BY <1>2, <1>3, <1>4 DEF AInv

LEMMA AInvStep == AInv /\ [ANext]_aVars => AInv'
<1> SUFFICES ASSUME AInv, [ANext]_aVars PROVE AInv'
  OBVIOUS
<1>1. LPodsSound /\ AEntriesSound /\ APartsSound /\ aMaint \in AJobRecord
  BY DEF AInv, APartsSound, AJobRecord
<1>2. lPod' = lPod => LPodsSound'
  BY <1>1 DEF LPodsSound
<1>3. aEntry' = aEntry => AEntriesSound'
  BY <1>1 DEF AEntriesSound
<1>4. UNCHANGED <<aMonth, aParts, aMaint, aEnsured>> => APartsSound'
  BY <1>1, AJobWaits
<1>5. ASSUME NEW p \in LPods, ABoot(p) \/ ASignal(p) \/ AClose(p) PROVE AInv'
  <2>1. LStart(p) \/ LBoot(p) \/ LSignal(p) \/ LClose(p)
    BY <1>5 DEF ABoot, ASignal, AClose
  <2>2. UNCHANGED <<aMonth, aParts, aEntry, aMaint, aEnsured>>
    BY <1>5 DEF ABoot, ASignal, AClose
  <2>3. LPodsSound'
    BY <1>1, <2>1, LStepSound
  <2> QED
    BY <1>3, <1>4, <2>2, <2>3 DEF AInv
<1>6. ASSUME NEW p \in LPods, NEW ok \in BOOLEAN, ARegister(p, ok) PROVE AInv'
  <2>1. LRegisterWorkers(p, ok) /\ UNCHANGED <<aMonth, aParts, aEntry, aEnsured>>
        /\ (aMaint' = aMaint \/ aMaint' = [aMaint EXCEPT !.at = "queued"])
    BY <1>6 DEF ARegister
  <2>2. aMaint' \in AJobRecord /\ (aMaint' = aMaint \/ aMaint'.at # "active")
    BY <1>1, <2>1 DEF AJobRecord
  <2>3. APartsSound'
    BY <1>1, <2>1, <2>2, AJobWaits
  <2>4. LPodsSound'
    BY <1>1, <2>1, LStepSound
  <2> QED
    BY <1>3, <2>1, <2>3, <2>4 DEF AInv
<1>7. ASSUME NEW p \in LPods, NEW lose \in BOOLEAN, AAbandon(p, lose), UNCHANGED <<aMonth, aParts, aEnsured>>
      PROVE  AEntriesSound' /\ APartsSound'
  <2>1. aMaint' = aMaint \/ aMaint' = [AIdle EXCEPT !.at = "queued"]
    BY <1>7 DEF AAbandon
  <2>2. APartsSound'
    BY <1>1, <1>7, <2>1, AIdleFacts, AJobWaits
  <2> QED
    BY <1>1, <1>7, <2>2, AAbandonSound
<1>8. ASSUME NEW p \in LPods, AParticipant(p) \/ ACrash(p) PROVE AInv'
  <2>1. LPodsSound'
    BY <1>1, <1>8, LStepSound DEF AParticipant, ACrash
  <2>2. UNCHANGED <<aMonth, aParts, aEnsured>> /\ (AAbandon(p, TRUE) \/ AAbandon(p, FALSE) \/ UNCHANGED <<aEntry, aMaint>>)
    BY <1>8 DEF AParticipant, ACrash
  <2>3. AEntriesSound' /\ APartsSound'
    BY <1>3, <1>4, <1>7, <2>2
  <2> QED
    BY <2>1, <2>3 DEF AInv
<1>9. ASSUME NEW p \in LPods, AMaintFetch(p) PROVE AInv'
  <2>1. UNCHANGED <<lPod, aEntry>> /\ APartsSound'
    BY <1>1, <1>9, APartSteps DEF AMaintFetch
  <2> QED
    BY <1>2, <1>3, <2>1 DEF AInv
<1>10. ASSUME NEW ok \in BOOLEAN, ACron \/ AMonthPasses \/ AMaintStep(ok) PROVE AInv'
  <2>1. UNCHANGED <<lPod, aEntry>>
    BY <1>10 DEF ACron, AMonthPasses, AMaintStep
  <2>2. APartsSound'
    BY <1>1, <1>10, APartSteps
  <2> QED
    BY <1>2, <1>3, <2>1, <2>2 DEF AInv
<1>11. ASSUME NEW e \in DOMAIN aEntry, NEW p \in LPods, AWriteInTransaction(e, p) \/ AChange(e, p) \/ AFetch(e, p) PROVE AInv'
  <2>1. UNCHANGED <<lPod, aMonth, aParts, aMaint, aEnsured>>
    BY <1>11 DEF AWriteInTransaction, AChange, AFetch
  <2>2. AEntriesSound'
    BY <1>1, <1>11, AEntrySteps
  <2> QED
    BY <1>2, <1>4, <2>1, <2>2 DEF AInv
<1>12. ASSUME NEW e \in AQueued, AWork(e) PROVE AInv'
  <2>1. UNCHANGED <<lPod, aMonth, aParts, aMaint, aEnsured>>
    BY <1>12 DEF AWork, AEnqueue, AHandle, AComplete
  <2>2. AEntriesSound'
    BY <1>1, <1>12, AEntrySteps
  <2> QED
    BY <1>2, <1>4, <2>1, <2>2 DEF AInv
<1>13. CASE UNCHANGED aVars
  BY <1>2, <1>3, <1>4, <1>13 DEF AInv, aVars
<1>14. CASE ACron \/ AMonthPasses
  <2>1. TRUE \in BOOLEAN
    OBVIOUS
  <2> QED
    BY <1>10, <1>14, <2>1
<1> QED
  BY <1>5, <1>6, <1>8, <1>9, <1>10, <1>11, <1>12, <1>13, <1>14 DEF ANext, AStop

(* A pod keeps its workers until pg-boss stops: its own steps take them     *)
(* from it only in the shutdown and the crash, those of others never.       *)
LEMMA LWorkKept ==
  ASSUME LPodsSound, NEW p \in LPods, NEW r \in LPods, LCanWork(r)
  PROVE  /\ LStart(p) \/ LBoot(p) \/ LSignal(p) \/ LClose(p) => LCanWork(r)'
         /\ \A ok \in BOOLEAN : LRegisterWorkers(p, ok) => LCanWork(r)'
         /\ LParticipant(p) => lPod[p].running \/ LCanWork(r)'
         /\ LParticipant(p) \/ LCrash(p) => r = p \/ LCanWork(r)'
<1>1. /\ lPod \in [LPods -> LPodRecord] /\ lPod[r].running
      /\ lPod[r].at \in {"serving", "draining"} /\ LPodSound(lPod[r])
  BY DEF LPodsSound, LCanWork
<1>2. ASSUME NEW q, LSet(p, q), r # p PROVE LCanWork(r)'
  <2>1. lPod'[r] = lPod[r]
    BY <1>1, <1>2 DEF LSet
  <2> QED
    BY <1>1, <2>1 DEF LCanWork
<1>3. LStart(p) \/ LBoot(p) \/ LClose(p) => r # p
  BY <1>1 DEF LStart, LBoot, LStartBoss, LEnsureQueue, LClose, LPodSound
<1>4. \A ok \in BOOLEAN : LRegisterWorkers(p, ok) => r # p
  BY <1>1 DEF LRegisterWorkers
<1>5. LStart(p) \/ LBoot(p) \/ LClose(p) => LCanWork(r)'
  BY <1>2, <1>3 DEF LStart, LBoot, LStartBoss, LEnsureQueue, LClose
<1>6. \A ok \in BOOLEAN : LRegisterWorkers(p, ok) => LCanWork(r)'
  BY <1>2, <1>4 DEF LRegisterWorkers
<1>7. LParticipant(p) \/ LCrash(p) => r = p \/ LCanWork(r)'
  BY <1>2 DEF LParticipant, LCrash
<1>8. ASSUME LSignal(p) PROVE LCanWork(r)'
  <2> DEFINE q == [lPod[p] EXCEPT !.at = "draining", !.flag = TRUE, !.left = LGetParticipants]
  <2>1. lPod' = [lPod EXCEPT ![p] = q]
    BY <1>8 DEF LSignal, LSet
  <2>2. CASE r = p
    <3>1. q.at = "draining" /\ q.running
      BY <1>1, <2>2 DEF LPodRecord
    <3>2. lPod'[r] = q
      BY <1>1, <2>1, <2>2
    <3> QED
      BY <3>1, <3>2 DEF LCanWork
  <2> QED
    BY <1>2, <1>8, <2>2 DEF LSignal
<1> QED
  BY <1>1, <1>5, <1>6, <1>7, <1>8

(* The jobs stay where they can be worked on.                               *)
LEMMA AOwnedInit == AInit => AJobsOwned
BY DEF AInit, AJobsOwned, ANoEntry, AIdle

LEMMA AOwnedStep == AInv /\ AJobsOwned /\ [ANext]_aVars => AJobsOwned'
<1> SUFFICES ASSUME AInv, AJobsOwned, [ANext]_aVars PROVE AJobsOwned'
  OBVIOUS
<1> DEFINE Works(r) == lPod'[r].running /\ lPod'[r].at \in {"serving", "draining"}
           Taken(x) == x.at \in {"active", "inserted"}
           Own(x)   == Taken(x) => x.pod \in LPods /\ LCanWork(x.pod)
           Kept(x)  == Taken(x) => x.pod \in LPods /\ Works(x.pod)
<1>1. /\ LPodsSound /\ aMaint \in AJobRecord
      /\ aEntry \in [AQueued \cup ATransactional -> AEntryRecord]
  BY DEF AInv, APartsSound, AJobRecord, AEntriesSound
<1>2. (\A e \in AQueued : Own(aEntry[e])) /\ Own(aMaint)
  BY <1>1 DEF AJobsOwned, AJobRecord
<1>3. ASSUME \A e \in AQueued : Kept(aEntry'[e]), Kept(aMaint') PROVE AJobsOwned'
  BY <1>3 DEF AJobsOwned, LCanWork
<1>4. lPod' = lPod => \A x : Own(x) => Kept(x)
  BY DEF LCanWork
<1>5. \A x \in AEntryRecord : ~Taken(ARetried(x))
  BY DEF ARetried, AEntryRecord
<1>6. \A x : ~Taken(x) => Kept(x)
  OBVIOUS
<1>7. ASSUME \A r \in LPods : LCanWork(r) => LCanWork(r)' PROVE \A x : Own(x) => Kept(x)
  BY <1>7 DEF LCanWork
<1>8. ~Taken(AIdle) /\ ~Taken([AIdle EXCEPT !.at = "queued"])
  BY DEF AIdle
<1>9. ASSUME NEW p \in LPods, LStart(p) \/ LBoot(p) \/ LSignal(p) \/ LClose(p), aEntry' = aEntry, aMaint' = aMaint
      PROVE  AJobsOwned'
  <2>1. \A r \in LPods : LCanWork(r) => LCanWork(r)'
    BY <1>1, <1>9, LWorkKept
  <2>2. \A x : Own(x) => Kept(x)
    BY <1>7, <2>1
  <2> HIDE DEF Own, Kept
  <2> QED
    BY <1>2, <1>3, <1>9, <2>2
<1>10. ASSUME NEW p \in LPods, NEW ok \in BOOLEAN, ARegister(p, ok) PROVE AJobsOwned'
  <2>1. /\ LRegisterWorkers(p, ok) /\ aEntry' = aEntry
        /\ aMaint' = aMaint \/ aMaint' = [aMaint EXCEPT !.at = "queued"]
    BY <1>10 DEF ARegister
  <2>2. \A r \in LPods : LCanWork(r) => LCanWork(r)'
    BY <1>1, <2>1, LWorkKept
  <2>3. \A x : Own(x) => Kept(x)
    BY <1>7, <2>2
  <2>4. aMaint' = aMaint \/ ~Taken(aMaint')
    BY <1>1, <2>1 DEF AJobRecord
  <2> HIDE DEF Own, Kept, Taken
  <2> QED
    BY <1>2, <1>3, <1>6, <2>1, <2>3, <2>4
<1>11. ASSUME NEW p \in LPods, NEW lose \in BOOLEAN, AAbandon(p, lose), LParticipant(p) \/ LCrash(p)
       PROVE  AJobsOwned'
  <2>1. \A r \in LPods : LCanWork(r) => r = p \/ LCanWork(r)'
    BY <1>1, <1>11, LWorkKept
  <2>2. \A x : Own(x) /\ x.pod # p => Kept(x)
    BY <2>1 DEF LCanWork
  <2>3. ASSUME NEW e \in AQueued PROVE Kept(aEntry'[e])
    <3>1. aEntry[e] \in AEntryRecord
      BY <1>1
    <3>2. \/ aEntry[e].pod # p /\ aEntry'[e] = aEntry[e]
          \/ aEntry'[e] = ARetried(aEntry[e])
          \/ aEntry[e].at = "changed" /\ aEntry'[e] \in {aEntry[e], [aEntry[e] EXCEPT !.at = "lost", !.pod = ANobody]}
      BY <1>1, <1>11 DEF AAbandon
    <3>3. \/ aEntry[e].pod # p /\ aEntry'[e] = aEntry[e]
          \/ ~Taken(aEntry'[e])
      BY <1>5, <3>1, <3>2 DEF AEntryRecord
    <3> HIDE DEF Own, Kept, Taken
    <3> QED
      BY <1>2, <1>6, <2>2, <3>3
  <2>4. aMaint' = [AIdle EXCEPT !.at = "queued"] \/ (aMaint.pod # p /\ aMaint' = aMaint)
    BY <1>11 DEF AAbandon
  <2> HIDE DEF Own, Kept, Taken
  <2>5. Kept(aMaint')
    BY <1>2, <1>6, <1>8, <2>2, <2>4
  <2> QED
    BY <1>3, <2>3, <2>5
<1>12. ASSUME NEW p \in LPods, AParticipant(p) PROVE AJobsOwned'
  <2>1. CASE lPod[p].running
    BY <1>11, <1>12, <2>1 DEF AParticipant
  <2>2. CASE ~lPod[p].running
    <3>1. LParticipant(p) /\ aEntry' = aEntry /\ aMaint' = aMaint
      BY <1>12, <2>2 DEF AParticipant
    <3>2. \A r \in LPods : LCanWork(r) => LCanWork(r)'
      BY <1>1, <2>2, <3>1, LWorkKept
    <3>3. \A x : Own(x) => Kept(x)
      BY <1>7, <3>2
    <3> HIDE DEF Own, Kept
    <3> QED
      BY <1>2, <1>3, <3>1, <3>3
  <2> QED
    BY <2>1, <2>2
<1>13. ASSUME NEW e \in AQueued \cup ATransactional, NEW x, lPod' = lPod, aMaint' = aMaint, Own(x),
              aEntry' = [aEntry EXCEPT ![e] = x]
       PROVE  AJobsOwned'
  <2>1. \A d \in AQueued : aEntry'[d] \in {x, aEntry[d]}
    BY <1>1, <1>13
  <2> HIDE DEF Own, Kept
  <2> QED
    BY <1>2, <1>3, <1>4, <1>13, <2>1
<1>14. ASSUME NEW e \in DOMAIN aEntry, NEW p \in LPods, AWriteInTransaction(e, p) \/ AChange(e, p) \/ AFetch(e, p)
       PROVE  AJobsOwned'
  <2>1. e \in AQueued \cup ATransactional /\ aEntry[e] \in AEntryRecord
    BY <1>1
  <2>2. lPod' = lPod /\ aMaint' = aMaint
    BY <1>14 DEF AWriteInTransaction, AChange, AFetch
  <2>3. CASE AWriteInTransaction(e, p)
    <3> DEFINE x == [aEntry[e] EXCEPT !.at = "done", !.rows = 1]
    <3>1. aEntry' = [aEntry EXCEPT ![e] = x] /\ Own(x)
      BY <2>1, <2>3 DEF AWriteInTransaction, AEntryRecord
    <3> QED
      BY <1>13, <2>1, <2>2, <3>1
  <2>4. CASE AChange(e, p)
    <3> DEFINE x == [aEntry[e] EXCEPT !.at = "changed", !.pod = p]
    <3>1. aEntry' = [aEntry EXCEPT ![e] = x] /\ Own(x)
      BY <2>1, <2>4 DEF AChange, AEntryRecord
    <3> QED
      BY <1>13, <2>1, <2>2, <3>1
  <2>5. CASE AFetch(e, p)
    <3> DEFINE x == [aEntry[e] EXCEPT !.at = "active", !.pod = p, !.tries = aEntry[e].tries + 1]
    <3>1. aEntry' = [aEntry EXCEPT ![e] = x] /\ LCanWork(p)
      BY <2>1, <2>5 DEF AFetch
    <3>2. x.pod = p
      BY <2>1 DEF AEntryRecord
    <3>3. Own(x)
      BY <3>1, <3>2
    <3> QED
      BY <1>13, <2>1, <2>2, <3>1, <3>3
  <2> QED
    BY <1>14, <2>3, <2>4, <2>5
<1>15. ASSUME NEW e \in AQueued, NEW ok \in BOOLEAN, AEnqueue(e, ok) \/ AHandle(e, ok) \/ AComplete(e, ok)
       PROVE  AJobsOwned'
  <2>1. aEntry[e] \in AEntryRecord /\ Own(aEntry[e])
    BY <1>1, <1>2
  <2>2. lPod' = lPod /\ aMaint' = aMaint
    BY <1>15 DEF AEnqueue, AHandle, AComplete
  <2>3. CASE AEnqueue(e, ok)
    <3>1. PICK to \in {"queued", "lost"} : aEntry' = [aEntry EXCEPT ![e].pod = ANobody, ![e].at = to]
      BY <2>3 DEF AEnqueue
    <3> DEFINE x == [aEntry[e] EXCEPT !.pod = ANobody, !.at = to]
    <3>2. aEntry' = [aEntry EXCEPT ![e] = x] /\ Own(x)
      BY <1>1, <2>1, <3>1 DEF AEntryRecord
    <3> QED
      BY <1>13, <2>2, <3>2
  <2>4. CASE AHandle(e, ok)
    <3> DEFINE x == [aEntry[e] EXCEPT !.at = "inserted", !.rows = aEntry[e].rows + 1]
    <3>1. aEntry' = [aEntry EXCEPT ![e] = x] \/ aEntry' = [aEntry EXCEPT ![e] = ARetried(aEntry[e])]
      BY <1>1, <2>4 DEF AHandle
    <3>2. x.pod = aEntry[e].pod /\ aEntry[e].at = "active"
      BY <2>1, <2>4 DEF AEntryRecord, AHandle
    <3>3. Own(x) /\ Own(ARetried(aEntry[e]))
      BY <1>5, <2>1, <3>2
    <3> QED
      BY <1>13, <2>2, <3>1, <3>3
  <2>5. CASE AComplete(e, ok)
    <3> DEFINE x == [aEntry[e] EXCEPT !.at = "done", !.pod = ANobody]
    <3>1. aEntry' = [aEntry EXCEPT ![e] = x] \/ aEntry' = [aEntry EXCEPT ![e] = ARetried(aEntry[e])]
      BY <1>1, <2>5 DEF AComplete
    <3>2. Own(x) /\ Own(ARetried(aEntry[e]))
      BY <1>5, <2>1 DEF AEntryRecord
    <3> QED
      BY <1>13, <2>2, <3>1, <3>2
  <2> QED
    BY <1>15, <2>3, <2>4, <2>5
<1>16. ASSUME lPod' = lPod, aEntry' = aEntry, Own(aMaint') PROVE AJobsOwned'
  <2> HIDE DEF Own, Kept
  <2> QED
    BY <1>2, <1>3, <1>4, <1>16
<1>17. ASSUME NEW p \in LPods, AMaintFetch(p) PROVE AJobsOwned'
  <2>1. lPod' = lPod /\ aEntry' = aEntry /\ aMaint'.pod = p /\ LCanWork(p)
    BY <1>17 DEF AMaintFetch
  <2> QED
    BY <1>16, <2>1
<1>18. ASSUME NEW ok \in BOOLEAN, AMaintStep(ok) PROVE AJobsOwned'
  <2>1. lPod' = lPod /\ aEntry' = aEntry
    BY <1>18 DEF AMaintStep
  <2>2. aMaint' \in {AIdle, [AIdle EXCEPT !.at = "queued"], [aMaint EXCEPT !.next = aMaint.next + 1]}
    BY <1>18 DEF AMaintStep
  <2>3. CASE aMaint' = [aMaint EXCEPT !.next = aMaint.next + 1]
    <3>1. aMaint'.at = aMaint.at /\ aMaint'.pod = aMaint.pod
      BY <1>1, <2>3 DEF AJobRecord
    <3>2. Own(aMaint')
      BY <1>2, <3>1
    <3> QED
      BY <1>16, <2>1, <3>2
  <2>4. CASE aMaint' # [aMaint EXCEPT !.next = aMaint.next + 1]
    <3>1. Own(aMaint')
      BY <1>8, <2>2, <2>4
    <3> QED
      BY <1>16, <2>1, <3>1
  <2> QED
    BY <2>3, <2>4
<1>19. CASE ACron \/ AMonthPasses \/ UNCHANGED aVars
  <2>1. lPod' = lPod /\ aEntry' = aEntry /\ (aMaint' = aMaint \/ aMaint' = [aMaint EXCEPT !.at = "queued"])
    BY <1>19 DEF ACron, AMonthPasses, aVars
  <2>2. aMaint' = aMaint \/ ~Taken(aMaint')
    BY <1>1, <2>1 DEF AJobRecord
  <2>3. Own(aMaint')
    BY <1>2, <2>2
  <2> QED
    BY <1>16, <2>1, <2>3
<1>20. ASSUME NEW p \in LPods, ABoot(p) \/ ASignal(p) \/ AClose(p) PROVE AJobsOwned'
  <2>1. LStart(p) \/ LBoot(p) \/ LSignal(p) \/ LClose(p)
    BY <1>20 DEF ABoot, ASignal, AClose
  <2>2. aEntry' = aEntry /\ aMaint' = aMaint
    BY <1>20 DEF ABoot, ASignal, AClose
  <2> QED
    BY <1>9, <2>1, <2>2
<1>21. ASSUME NEW p \in LPods, ACrash(p) PROVE AJobsOwned'
  BY <1>11, <1>21 DEF ACrash
<1> HIDE DEF Own, Kept, Taken
<1> QED
  BY <1>10, <1>12, <1>14, <1>15, <1>17, <1>18, <1>19, <1>20, <1>21 DEF ANext, AStop, AWork

(* For any pods, changes, retry limit and months ahead, whatever pods boot, *)
(* drain, crash and come back meanwhile: a pod that says it can work can, a *)
(* completed job has its entry in the table, no delivery writes it twice, a *)
(* dead one has used all its retries, no job is left on a pod whose workers *)
(* are gone, and the table has the partitions that the last complete run of *)
(* the maintenance prepared.                                                *)
THEOREM EntriesAlwaysKept == ASpec => []AEntriesKept
<1>1. AInv /\ AJobsOwned => AEntriesKept
  <2> SUFFICES ASSUME AInv, AJobsOwned PROVE AEntriesKept
    OBVIOUS
  <2>1. LTypeOK /\ LServingComplete
    BY LSoundServes DEF AInv
  <2>2. AMaxMonth \in Nat /\ AMonthsAhead \in Nat
    BY AAssumption
  <2>3. ATypeOK
    BY <2>1, <2>2 DEF AInv, ATypeOK, APartsSound, AEntriesSound, AEntryRecord
  <2>4. AEntryWritten
    BY DEF AInv, AEntryWritten, AEntriesSound, AEntrySound, AQueuedSound
  <2>5. APartitionAhead
    BY <2>2 DEF AInv, APartitionAhead, AHasPartition, APartsSound
  <2> QED
    BY <2>1, <2>3, <2>4, <2>5 DEF AEntriesKept
<1> QED
  BY <1>1, AInvInit, AInvStep, AOwnedInit, AOwnedStep, PTL DEF ASpec
===============================================================================
