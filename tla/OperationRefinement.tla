-------------------------- MODULE OperationRefinement --------------------------
(* Operation implements OperationContract.                                    *)
EXTENDS Operation

InFlight(r) == rpc[r] \in {"adapter", "transition.read", "transition.tenant",
                           "transition.load", "transition.write"}

\* The life of an operation, from its row and from where its request is.
StatusOf(o) ==
  IF Exists(o) THEN row[o].state
  ELSE IF rpc[o] \in {"idle", "create.tenant", "create.save"} THEN "absent"
  ELSE IF InFlight(o) THEN "lapsed"
  ELSE "gone"

Contract == INSTANCE OperationContract
              WITH Operations <- Requests,
                   status <- [o \in Requests |-> StatusOf(o)],
                   viewed <- [o \in Requests |-> row[o].viewedAt # Unviewed]

\* Every behaviour of the operation table, with its stale copies, first-view
\* stamps, late saves and batched purges, is a behaviour of the contract: an
\* operation is pending, then has one outcome, is shown as viewed only after it
\* has an outcome, and once gone stays gone.
ImplementsContract == Contract!Spec
=============================================================================
