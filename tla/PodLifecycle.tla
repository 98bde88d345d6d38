----------------------------- MODULE PodLifecycle -----------------------------
(***************************************************************************)
(* A pod from its start to its end: pg-boss started with retries           *)
(* (PgBossService), the queues ensured and the workers registered          *)
(* (JobsService and the workers' onModuleInit), requests served, the       *)
(* graceful shutdown of the registered participants, and the probes        *)
(* (HealthService).  Each call of the database or of pg-boss may fail.     *)
(***************************************************************************)
EXTENDS Integers, Sequences, SequencesExt, FiniteSets

CONSTANTS
    LPods,
    LMaxRetries,   \* maxRetries of startWithRetry
    LQueueCount    \* entries of QUEUE_DEFINITIONS

ASSUME LAssumption ==
    LPods # {} /\ LMaxRetries \in Nat /\ LQueueCount \in Nat \ {0}

VARIABLE lPod      \* pod -> where it is

\* attempt: of startWithRetry; queues: definitions ensured; left: participants
\* still to shut down; running: PgBossService.running; flag: isShuttingDown.
LDown == [at |-> "down", attempt |-> 0, queues |-> 0, left |-> <<>>,
          running |-> FALSE, flag |-> FALSE]

LInit == lPod = [p \in LPods |-> LDown]

LSet(p, q) == lPod' = [lPod EXCEPT ![p] = q]

------------------------------------------------------------------------------
(* Start *)

LStart(p) ==
    /\ lPod[p].at = "down"
    /\ LSet(p, [LDown EXCEPT !.at = "boss", !.attempt = 1])

\* startWithRetry: the start is tried again while attempt <= maxRetries.  The
\* last failure ends the process.
LStartBoss(p, ok) ==
    LET pod == lPod[p]
    IN  /\ pod.at = "boss"
        /\ LSet(p, IF ok THEN [pod EXCEPT !.at = "queues", !.running = TRUE]
                   ELSE IF pod.attempt <= LMaxRetries THEN [pod EXCEPT !.attempt = @ + 1]
                   ELSE LDown)

\* createQueuesOnce, definition by definition; a failure fails onModuleInit
\* and ends the process.
LEnsureQueue(p, ok) ==
    LET pod == lPod[p]
    IN  /\ pod.at = "queues"
        /\ LSet(p, IF ~ok THEN LDown
                   ELSE [pod EXCEPT !.queues = @ + 1,
                           !.at = IF pod.queues + 1 = LQueueCount THEN "workers" ELSE @])

\* The workers register and schedule themselves, then the pod listens.
LRegisterWorkers(p, ok) ==
    /\ lPod[p].at = "workers"
    /\ LSet(p, IF ok THEN [lPod[p] EXCEPT !.at = "serving"] ELSE LDown)

------------------------------------------------------------------------------
(* Shutdown *)

\* The participants with their order, as they register: higher goes first.
LParticipants == {[name |-> "jobs", order |-> 1], [name |-> "telemetry", order |-> 0]}
LGetParticipants ==
    CHOOSE s \in SetToSeqs(LParticipants) : \A i, j \in DOMAIN s : i < j => s[i].order > s[j].order

\* beforeApplicationShutdown sets the flag and takes the sorted participants.
LSignal(p) ==
    /\ lPod[p].at = "serving"
    /\ LSet(p, [lPod[p] EXCEPT !.at = "draining", !.flag = TRUE, !.left = LGetParticipants])

\* One participant is shut down.  Whether it fails, or telemetry times out,
\* makes no difference: the error is logged and the loop goes on.  A stop of
\* pg-boss that failed leaves it not running all the same.
LParticipant(p) ==
    LET pod  == lPod[p]
        rest == Tail(pod.left)
    IN  /\ pod.at = "draining"
        /\ LSet(p, [pod EXCEPT !.left = rest,
                      !.running = IF Head(pod.left).name = "jobs" THEN FALSE ELSE @,
                      !.flag = rest # <<>>,
                      !.at = IF rest = <<>> THEN "closing" ELSE @])

\* The HTTP server closes last, when its open requests have been answered.
LClose(p) ==
    /\ lPod[p].at = "closing"
    /\ LSet(p, LDown)

LCrash(p) ==
    /\ lPod[p].at # "down"
    /\ LSet(p, LDown)

------------------------------------------------------------------------------
(* What others see of a pod *)

\* Requests are answered until the server closes.
LHttp(p) == lPod[p].at \in {"serving", "draining", "closing"}

\* pg-boss accepts jobs from the moment it started; the pod's workers fetch
\* them once registered and until pg-boss stops.
LCanPublish(p) == lPod[p].running
LCanWork(p)    == lPod[p].running /\ lPod[p].at \in {"serving", "draining"}

\* GET /health/ready and /health/status.
LReady(p, db)  == LHttp(p) /\ ~lPod[p].flag /\ db
LStatus(p, db) == IF lPod[p].flag THEN "shutting_down"
                  ELSE IF db /\ lPod[p].running THEN "ok" ELSE "degraded"

LBoot(p) == \E ok \in BOOLEAN : LStartBoss(p, ok) \/ LEnsureQueue(p, ok)

\* The shape of a pod.
LTypeOK ==
    lPod \in [LPods -> [at : {"down", "boss", "queues", "workers", "serving", "draining",
                              "closing"},
                        attempt : 0 .. LMaxRetries + 1, queues : 0 .. LQueueCount,
                        left : {<<>>} \cup {SubSeq(LGetParticipants, i, Len(LGetParticipants)) :
                                              i \in DOMAIN LGetParticipants},
                        running : BOOLEAN, flag : BOOLEAN]]

\* A pod that answers "ok" or is ready while it serves has pg-boss running,
\* every queue and its workers: nobody is sent to a pod that could not queue
\* work, until the shutdown has ended (initializeBoss before createQueuesOnce
\* before listen; stop sets running).  The window the property leaves out is
\* between the last participant and the closing of the server: the flag is
\* reset there and readiness answers 200 again, with pg-boss stopped.
LServingComplete ==
    \A p \in LPods :
        /\ lPod[p].at = "serving" => lPod[p].running /\ lPod[p].queues = LQueueCount
        /\ LReady(p, TRUE) => lPod[p].running \/ lPod[p].at = "closing"
        /\ LHttp(p) /\ LStatus(p, TRUE) = "ok" => LCanWork(p)

\* A shutdown always comes to its end, whatever its participants do.
LShutdownEnds == \A p \in LPods : lPod[p].at = "draining" ~> lPod[p].at = "down"
===============================================================================
