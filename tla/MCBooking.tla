------------------------------ MODULE MCBooking ------------------------------
(* Small instances of the booking desk for TLC.                            *)
EXTENDS Booking, TLC

CONSTANTS teacher, student, admin, filter, glue

MCRoleOf == [u \in Users |-> CASE u = teacher -> "teacher"
                               [] u = student -> "student"
                               [] u = admin -> "admin"]

MCCapacity == [e \in Equipment |-> 1]

MCQuota == [m \in Consumables |-> 3]

At(s) == [wall |-> s, frac |-> 0, zone |-> 0]

Slot(from, to) == [start |-> At(from), end |-> At(to)]

\* Two slots that overlap, and one that follows the first without a gap.
MCWindows == { Slot(100, 300), Slot(200, 400), Slot(300, 500) }

MCTwoWindows == { Slot(100, 300), Slot(200, 400) }

\* The first two slots again, the second written by a caller two hours ahead
\* of UTC: the instants still overlap, the texts no longer do.
Zoned(t, zone) == [t EXCEPT !.wall = @ + 60 * zone, !.zone = zone]

MCZonedWindows ==
  { Slot(100, 300), [start |-> Zoned(At(200), 120), end |-> Zoned(At(400), 120)] }

\* The clock before the slots, and late enough to refuse a batch whose window
\* has started and a maintenance block whose window is over.
MCReadings == { At(100), At(350) }

Symmetry == Permutations(Calls) \cup Permutations(ResIds)

=============================================================================
