--------------------------- MODULE OperationContract ---------------------------
(* What the service promises of an asynchronous operation, as a client of the *)
(* API sees it: one life for each operation, whatever requests, polls and     *)
(* purges do to its row.                                                      *)

CONSTANT Operations

VARIABLES status,   \* where each operation is in its life
          viewed    \* whether its outcome has been returned to a client

contractVars == <<status, viewed>>

Outcomes == {"completed", "failed"}
InTable == {"pending", "processing"} \cup Outcomes

Init ==
  /\ status = [o \in Operations |-> "absent"]
  /\ viewed = [o \in Operations |-> FALSE]

Moves(o, from, to) == status[o] \in from /\ status'[o] \in to /\ ~viewed'[o]

\* The operation is recorded as pending, or its request ends before that.
Accept(o) == Moves(o, {"absent"}, {"pending", "gone"})

\* The agent's answer: an outcome, or the news that the exchange goes on.
Resolve(o) == Moves(o, {"pending"}, {"processing"} \cup Outcomes)

\* The pending operation expires under its request, which may still record an
\* answer, or end.
Lapse(o) == Moves(o, {"pending"}, {"lapsed"})
Return(o) == Moves(o, {"lapsed"}, {"processing", "gone"} \cup Outcomes)

\* An outcome is returned to a client for the first time.
Show(o) == /\ status[o] \in Outcomes /\ status'[o] = status[o]
           /\ ~viewed[o] /\ viewed'[o]

\* Retention ends.
Remove(o) == Moves(o, InTable, {"gone"})

Rests(o) == status'[o] = status[o] /\ viewed'[o] = viewed[o]

Move(o) == Accept(o) \/ Resolve(o) \/ Lapse(o) \/ Return(o) \/ Show(o) \/ Remove(o)

\* Operations are independent: one step may move several, as a purge does.
Next ==
  /\ status' = [o \in Operations |-> status'[o]]
  /\ viewed' = [o \in Operations |-> viewed'[o]]
  /\ \A o \in Operations : Move(o) \/ Rests(o)

Spec == Init /\ [][Next]_contractVars
=============================================================================
