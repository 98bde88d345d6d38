---------------------------- MODULE AuditPipeline ----------------------------
(***************************************************************************)
(* Audit entries from the change they describe to the partitioned table    *)
(* audit_log, over pods that start, drain and crash (PodLifecycle).        *)
(* Entries written with the caller's EntityManager commit with the change; *)
(* all others are queued after it (DomainAuditService, the interceptor)    *)
(* and written by AuditWriteWorker, which pg-boss calls at least once.     *)
(* AuditPartitionWorker keeps the monthly partitions ahead of the clock.   *)
(*                                                                         *)
(* Retries of a job are pg-boss's (external): a job whose handler fails,   *)
(* whose pod is gone or whose completion is not recorded is delivered      *)
(* again until its retries are used up.                                    *)
(***************************************************************************)
EXTENDS PodLifecycle

CONSTANTS
    ANobody,         \* no pod
    AQueued,         \* changes whose entry is queued
    ATransactional,  \* changes whose entry is written in their transaction
    AMonthsAhead,    \* AUDIT_PARTITION_MONTHS_AHEAD
    ARetryLimit,     \* retryLimit of audit.write
    AMaxMonth        \* bound on the clock

ASSUME AAssumption ==
    /\ AQueued \cap ATransactional = {} /\ ANobody \notin LPods
    /\ {AMonthsAhead, ARetryLimit, AMaxMonth} \subseteq Nat

VARIABLES
    aMonth,
    aParts,    \* months that have a partition
    aEntry,    \* change -> where its entry is
    aMaint,    \* the audit.partition-maintain job
    aEnsured   \* the month in which that job last ran to its end

aVars == <<lPod, aMonth, aParts, aEntry, aMaint, aEnsured>>

ANoEntry == [at |-> "none", pod |-> ANobody, tries |-> 0, rows |-> 0]
AIdle    == [at |-> "idle", pod |-> ANobody, start |-> 0, next |-> 0]

\* Migration 000007 creates the first partitions.
AInit ==
    /\ LInit
    /\ aMonth = 0
    /\ aParts = 0 .. AMonthsAhead
    /\ aEntry = [e \in AQueued \cup ATransactional |-> ANoEntry]
    /\ aMaint = AIdle
    /\ aEnsured = 0

------------------------------------------------------------------------------
(* Changes and their entries *)

\* An insert needs the partition of the month: there is no default partition.
AHasPartition == aMonth \in aParts

\* write(input, manager): the change commits with its entry, or not at all.
AWriteInTransaction(e, p) ==
    /\ e \in ATransactional /\ aEntry[e].at = "none" /\ LHttp(p)
    /\ AHasPartition
    /\ aEntry' = [aEntry EXCEPT ![e].at = "done", ![e].rows = 1]
    /\ UNCHANGED <<lPod, aMonth, aParts, aMaint, aEnsured>>

\* The change commits first; its entry is then to be queued.
AChange(e, p) ==
    /\ e \in AQueued /\ aEntry[e].at = "none" /\ LHttp(p)
    /\ aEntry' = [aEntry EXCEPT ![e].at = "changed", ![e].pod = p]
    /\ UNCHANGED <<lPod, aMonth, aParts, aMaint, aEnsured>>

\* DomainAuditService.emit: the job is published, or the error logged.
APublished(e, ok) == ok /\ LCanPublish(aEntry[e].pod)

\* emit and enqueueSafe: fail open, an entry that cannot be queued is dropped.
AEnqueue(e, ok) ==
    /\ aEntry[e].at = "changed"
    /\ aEntry' = [aEntry EXCEPT ![e].pod = ANobody,
                    ![e].at = IF APublished(e, ok) THEN "queued" ELSE "lost"]
    /\ UNCHANGED <<lPod, aMonth, aParts, aMaint, aEnsured>>

------------------------------------------------------------------------------
(* AuditWriteWorker *)

AFetch(e, p) ==
    /\ aEntry[e].at = "queued" /\ LCanWork(p)
    /\ aEntry' = [aEntry EXCEPT ![e].at = "active", ![e].pod = p, ![e].tries = @ + 1]
    /\ UNCHANGED <<lPod, aMonth, aParts, aMaint, aEnsured>>

\* MUTANT of ARetried: a failed delivery is forgotten.
ARetried_Dropped(entry) == [entry EXCEPT !.pod = ANobody, !.at = "lost"]

\* A delivery that did not complete: another one, or the dead-letter queue.
ARetried(entry) ==
    [entry EXCEPT !.pod = ANobody, !.at = IF entry.tries > ARetryLimit THEN "dead" ELSE "queued"]

\* MUTANT of AHandle: an insert that fails is logged and the job completed.
AHandle_Swallow(e, ok) ==
    /\ aEntry[e].at = "active"
    /\ aEntry' = [aEntry EXCEPT ![e].at = "inserted",
                    ![e].rows = IF ok /\ AHasPartition THEN @ + 1 ELSE @]
    /\ UNCHANGED <<lPod, aMonth, aParts, aMaint, aEnsured>>

\* handle: the insert, which fails without a partition or for its own reasons.
AHandle(e, ok) ==
    /\ aEntry[e].at = "active"
    /\ aEntry' = [aEntry EXCEPT ![e] = IF ok /\ AHasPartition
                                       THEN [@ EXCEPT !.at = "inserted", !.rows = aEntry[e].rows + 1]
                                       ELSE ARetried(@)]
    /\ UNCHANGED <<lPod, aMonth, aParts, aMaint, aEnsured>>

\* pg-boss marks the job completed, after the insert has committed.
AComplete(e, ok) ==
    /\ aEntry[e].at = "inserted"
    /\ aEntry' = [aEntry EXCEPT ![e] = IF ok THEN [@ EXCEPT !.at = "done", !.pod = ANobody]
                                       ELSE ARetried(@)]
    /\ UNCHANGED <<lPod, aMonth, aParts, aMaint, aEnsured>>

------------------------------------------------------------------------------
(* AuditPartitionWorker *)

\* buildMonthlyPartitionSpecs: the month of the start and those ahead of it.
ASpecs(start) == start .. start + AMonthsAhead

\* The daily schedule, which pg-boss keeps while it runs somewhere.
ACron ==
    /\ aMaint.at = "idle" /\ \E p \in LPods : LCanPublish(p)
    /\ aMaint' = [aMaint EXCEPT !.at = "queued"]
    /\ UNCHANGED <<lPod, aMonth, aParts, aEntry, aEnsured>>

AMaintFetch(p) ==
    /\ aMaint.at = "queued" /\ LCanWork(p)
    /\ aMaint' = [at |-> "active", pod |-> p, start |-> aMonth, next |-> aMonth]
    /\ UNCHANGED <<lPod, aMonth, aParts, aEntry, aEnsured>>

\* handle: one CREATE TABLE IF NOT EXISTS after the other; a failure leaves
\* those done, and the job is retried or given up.
AMaintStep(ok) ==
    LET more == aMaint.next + 1 \in ASpecs(aMaint.start)
    IN  /\ aMaint.at = "active"
        /\ IF ok
           THEN /\ aParts' = aParts \cup ({aMaint.next} \cap ASpecs(aMaint.start))
                /\ aMaint' = IF more THEN [aMaint EXCEPT !.next = @ + 1] ELSE AIdle
                /\ aEnsured' = IF more THEN aEnsured ELSE aMaint.start
           ELSE /\ aMaint' \in {AIdle, [AIdle EXCEPT !.at = "queued"]}
                /\ UNCHANGED <<aParts, aEnsured>>
        /\ UNCHANGED <<lPod, aMonth, aEntry>>

AMonthPasses ==
    /\ aMonth < AMaxMonth
    /\ aMonth' = aMonth + 1
    /\ UNCHANGED <<lPod, aParts, aEntry, aMaint, aEnsured>>

------------------------------------------------------------------------------
(* Pods *)

ABoot(p) ==
    /\ LStart(p) \/ LBoot(p)
    /\ UNCHANGED <<aMonth, aParts, aEntry, aMaint, aEnsured>>

\* AuditPartitionWorker.onModuleInit also queues a run at once.
ARegister(p, ok) ==
    /\ LRegisterWorkers(p, ok)
    /\ aMaint' = IF ok /\ aMaint.at = "idle" THEN [aMaint EXCEPT !.at = "queued"] ELSE aMaint
    /\ UNCHANGED <<aMonth, aParts, aEntry, aEnsured>>

ASignal(p) == LSignal(p) /\ UNCHANGED <<aMonth, aParts, aEntry, aMaint, aEnsured>>

\* The jobs a pod was working on are delivered again.
AAbandon(p, lose) ==
    /\ aEntry' = [e \in DOMAIN aEntry |->
                    IF aEntry[e].pod # p THEN aEntry[e]
                    ELSE IF aEntry[e].at # "changed" THEN ARetried(aEntry[e])
                    ELSE IF lose THEN [aEntry[e] EXCEPT !.at = "lost", !.pod = ANobody]
                    ELSE aEntry[e]]
    /\ aMaint' = IF aMaint.pod = p THEN [AIdle EXCEPT !.at = "queued"] ELSE aMaint

\* The participants stop; pg-boss waits for its handlers and, in the end,
\* gives up on them.
AParticipant(p) ==
    /\ LParticipant(p)
    /\ IF lPod[p].running THEN AAbandon(p, FALSE) ELSE UNCHANGED <<aEntry, aMaint>>
    /\ UNCHANGED <<aMonth, aParts, aEnsured>>

\* The server closes once its requests are answered.
AClose(p) ==
    /\ LClose(p) /\ \A e \in AQueued : aEntry[e].pod # p
    /\ UNCHANGED <<aMonth, aParts, aEntry, aMaint, aEnsured>>

\* A crash takes the entries that were not queued yet with it.
ACrash(p) ==
    /\ LCrash(p)
    /\ AAbandon(p, TRUE)
    /\ UNCHANGED <<aMonth, aParts, aEnsured>>

AWork(e) == \E ok \in BOOLEAN : AEnqueue(e, ok) \/ AHandle(e, ok) \/ AComplete(e, ok)
AStop(p) == AParticipant(p) \/ AClose(p)

ANext ==
    \/ \E p \in LPods :
         \/ ABoot(p) \/ ASignal(p) \/ AStop(p) \/ ACrash(p) \/ AMaintFetch(p)
         \/ \E ok \in BOOLEAN : ARegister(p, ok)
         \/ \E e \in DOMAIN aEntry : AChange(e, p) \/ AWriteInTransaction(e, p) \/ AFetch(e, p)
    \/ \E e \in AQueued : AWork(e)
    \/ ACron \/ AMonthPasses
    \/ \E ok \in BOOLEAN : AMaintStep(ok)

ASpec == AInit /\ [][ANext]_aVars

\* Workers poll, handlers end, and a shutdown that began goes on.
AFairness ==
    /\ \A e \in AQueued : /\ SF_aVars(\E p \in LPods : AFetch(e, p))
                          /\ WF_aVars(AWork(e))
    /\ \A p \in LPods : WF_aVars(AStop(p))

------------------------------------------------------------------------------
(* Properties *)

\* Months, entries and the job have their shapes.
ATypeOK ==
    /\ LTypeOK
    /\ aMonth \in 0 .. AMaxMonth /\ aEnsured \in 0 .. AMaxMonth
    /\ aParts \subseteq 0 .. AMaxMonth + AMonthsAhead
    /\ aEntry \in [AQueued \cup ATransactional ->
         [at : {"none", "changed", "queued", "active", "inserted", "done", "dead", "lost"},
          pod : LPods \cup {ANobody}, tries : 0 .. ARetryLimit + 1, rows : 0 .. ARetryLimit + 1]]
    /\ aMaint \in [at : {"idle", "queued", "active"}, pod : LPods \cup {ANobody},
                   start : 0 .. AMaxMonth, next : 0 .. AMaxMonth + AMonthsAhead]

\* A job is acknowledged only with its entry in the table; a redelivery may
\* write the entry again, but no delivery writes it twice; and an entry goes
\* to the dead-letter queue only when every retry was used (handle, the queue
\* definition's retryLimit), whatever pods crash, drain or restart meanwhile.
AEntryWritten ==
    \A e \in AQueued :
        /\ aEntry[e].at = "done" => aEntry[e].rows >= 1
        /\ aEntry[e].rows <= aEntry[e].tries
        /\ aEntry[e].at = "dead" => aEntry[e].tries = ARetryLimit + 1

\* The table accepts entries for as many months after the last complete run of
\* the maintenance as it prepares, also when later runs stopped half-way
\* (buildMonthlyPartitionSpecs, inclusive of its last month).
APartitionAhead == aMonth <= aEnsured + AMonthsAhead => AHasPartition

\* A job is worked on, or its maintenance run is under way, only on a pod whose
\* workers are there: the shutdown, whose first participant is the queue, and
\* the crash give back what the pod had fetched, so that no job waits for a
\* pod that has gone (PgBossService.stop, the order of the participants).
AJobsOwned ==
    /\ \A e \in AQueued : aEntry[e].at \in {"active", "inserted"} =>
                            aEntry[e].pod \in LPods /\ LCanWork(aEntry[e].pod)
    /\ aMaint.at = "active" => aMaint.pod \in LPods /\ LCanWork(aMaint.pod)

\* As long as workers come up again and again, a queued entry is written or
\* ends in the dead-letter queue; it is never forgotten.
AQueuedSettles ==
    []<>(\E p \in LPods : LCanWork(p)) =>
        \A e \in AQueued : aEntry[e].at = "queued" ~> aEntry[e].at \in {"done", "dead"}

\* An audit entry that was queued is kept: by pods that can work while they say
\* so, by a queue that gives up only after its retries and has no job on a pod
\* that is gone, and by a table with a partition for it.
AEntriesKept == ATypeOK /\ LServingComplete /\ AEntryWritten /\ AJobsOwned /\ APartitionAhead

\* Queued entries settle and pods that drain come to their end.
AQueueDrains == AQueuedSettles /\ LShutdownEnds
===============================================================================
