------------------------------ MODULE LabDomain ------------------------------
(***************************************************************************)
(* The vocabulary and the rules of the laboratory, as internal/domain      *)
(* states them: roles, the statuses of each kind of row, which status may  *)
(* follow which, and what an operation accepts as its input.               *)
(***************************************************************************)
EXTENDS TimeText

Roles == {"teacher", "student", "admin", "safety"}

RequestStatuses == {"pending", "approved", "rejected", "cancelled"}

ReservationStatuses ==
  {"held", "checked_out", "returned", "suspended", "no_show", "cancelled"}

EquipmentStatuses == {"ready", "maintenance", "offline"}

\* ReservationStatus.CanMove.
CanMove(from, to) ==
  \/ from = "held" /\ to \in {"checked_out", "cancelled", "no_show", "suspended"}
  \/ from = "checked_out" /\ to \in {"returned", "suspended"}
  \/ from = "suspended" /\ to \in {"returned", "cancelled"}

\* RequestStatus.CanMove.
RequestCanMove(from, to) ==
  \/ from = "pending" /\ to \in {"approved", "rejected", "cancelled"}
  \/ from = "approved" /\ to = "cancelled"

\* The statuses in which a reservation keeps its slot: the list in
\* HasConflictTx's query, and serialization.go's StatusIsActive.
ActiveStatuses == {"held", "checked_out", "suspended"}

\* The statuses in which the holder may be at the equipment, or come to it:
\* those SuspendReservations stops.
InUseStatuses == {"held", "checked_out"}

RequireRole(actual, allowed) == actual \in allowed

MaxQuantity == 1000

ValidateQuantity(q) == 0 < q /\ q <= MaxQuantity

MinuteBefore(t) == [t EXCEPT !.wall = @ - 60]

\* ValidateBatch, less the title and the qualification, which must only not
\* be blank.
ValidateBatch(count, w, now) ==
  /\ count > 0
  /\ ValidWindow(w)
  /\ ~ Before(w.start, MinuteBefore(now))

=============================================================================
