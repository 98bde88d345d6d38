---------------------------- MODULE MCOperation ----------------------------
(* Small instances of Operation for TLC.                                    *)
EXTENDS OperationRefinement, TLC

\* completed_viewed is shorter than completed_unviewed and pending_stale is the
\* shortest, so that an operation can outlive it in flight.
MCDefaults == [k \in TtlKeys |->
  CASE k = "completedViewed" -> 1 [] k = "completedUnviewed" -> 2
    [] k = "failedViewed" -> 2    [] k = "failedUnviewed" -> 3
    [] k = "pendingStale" -> 1]

\* No override at all; and a longer completed_viewed beside an invalid
\* failed_viewed, which falls back to the default.
NoOverride == [k \in TtlKeys |-> 0]
LongView == [NoOverride EXCEPT !["completedViewed"] = 3, !["failedViewed"] = -1]

OneConfig == {NoOverride}
TwoConfigs == {NoOverride, LongView}

\* Pollers are interchangeable.
Symmetry == Permutations(Pollers)
=============================================================================
