-------------------------- MODULE MigrationAbstract --------------------------
(***************************************************************************)
(* What the migration orchestrator promises the front-end: the state       *)
(* machine of spec section 4.2 seen through the replies of the control     *)
(* messages.  A message is one atomic transition here; the joins that the  *)
(* handlers block in, the background threads and their results are        *)
(* hidden.  Migration implements this specification (Migration's          *)
(* ImplementsAbstract).                                                    *)
(*                                                                         *)
(* Like the code, a transfer start does not look at a transfer in flight: *)
(* it replaces it (Migration's AtMostOneTransfer finding).                 *)
(***************************************************************************)

VARIABLES
  prep,   \* Preparing: a preparation task exists
  xfer,   \* Transferring: "none", or the direction of the task to collect
  reply   \* the answer to the last message: "none", "ok" or "err"

avars == <<prep, xfer, reply>>

TypeOK ==
  /\ prep \in BOOLEAN
  /\ xfer \in {"none", "SAVE", "LOAD"}
  /\ reply \in {"none", "ok", "err"}

\* No migration activity.
Init == ~prep /\ xfer = "none" /\ reply = "none"

\* Transition 1: logging enabled with no preparation: Preparing.  (While
\* Preparing the message is a no-op.)
LogAllSet ==
  /\ ~prep
  /\ prep' /\ reply' = "none"
  /\ UNCHANGED xfer

\* Transition 2: logging disabled while Preparing: the preparation is
\* cancelled and collected.
LogAllCleared ==
  /\ prep
  /\ ~prep' /\ reply' = "none"
  /\ UNCHANGED xfer

\* Transition 3: SAVE collects the preparation; its failure is the answer
\* and nothing starts, otherwise the serializer starts.
SaveStart ==
  /\ ~prep'
  /\ \/ xfer' = "SAVE" /\ reply' = "ok"
     \/ prep /\ reply' = "err" /\ UNCHANGED xfer

\* Transition 4: LOAD cancels and collects the preparation and starts the
\* deserializer.
LoadStart ==
  /\ ~prep'
  /\ xfer' = "LOAD" /\ reply' = "ok"

\* Transition 5: the completion query collects the transfer and answers
\* its outcome ...
Check ==
  /\ xfer # "none"
  /\ xfer' = "none" /\ reply' \in {"ok", "err"}
  /\ UNCHANGED prep

\* ... and with no transfer to collect it is a protocol violation.
CheckNone ==
  /\ xfer = "none"
  /\ reply' = "err"
  /\ UNCHANGED <<prep, xfer>>

\* A phase other than STOPPED is rejected without starting anything.
Unsupported ==
  /\ reply' = "err"
  /\ UNCHANGED <<prep, xfer>>

Next ==
  \/ LogAllSet
  \/ LogAllCleared
  \/ SaveStart
  \/ LoadStart
  \/ Check
  \/ CheckNone
  \/ Unsupported

Spec == Init /\ [][Next]_avars
=============================================================================
