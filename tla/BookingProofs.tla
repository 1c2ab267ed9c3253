---------------------------- MODULE BookingProofs ----------------------------
(***************************************************************************)
(* Theorems about the booking desk, for any number of calls, users, rows,  *)
(* windows and pieces of equipment, with faults and without.               *)
(***************************************************************************)
EXTENDS Booking, FiniteSetTheorems, SequenceTheorems, TLAPS

-----------------------------------------------------------------------------
(* The type invariant.  It is not inductive alone: a transaction writes to *)
(* the row its call read earlier, and that row must still be there.        *)

\* What a call in flight may rely on, of what it read: rows are never
\* deleted, and the guards of the reads hold of what was kept.
CallOK(k) ==
  /\ k.step = "submit" => k.row.status = "pending"
  /\ k.step = "approve" => bookings[k.booking] # None
  /\ k.step = "checkout" => res[k.res] # None /\ k.quantity > 0
  /\ k.step = "return" => res[k.res] # None /\ k.status \in {"checked_out", "suspended"}

CallsOK == \A c \in Calls : CallOK(calls[c])

TypeInv == TypeOK /\ CallsOK

\* The step of a call in flight tells what the call keeps.
LEMMA CallShapes ==
  ASSUME NEW k \in Call
  PROVE  /\ k.step = "idle" => k = Idle
         /\ k.step = "submit" => k \in SubmitCall
         /\ k.step = "approve" => k \in ApproveCall
         /\ k.step = "checkout" => k \in CheckoutCall
         /\ k.step = "return" => k \in ReturnCall
         /\ k.step = "suspend" => k \in SuspendCall
         /\ k.step = "audit" => k \in AuditCall
  BY DEF Call, Idle, SubmitCall, ApproveCall, CheckoutCall, ReturnCall, SuspendCall, AuditCall

\* No step takes back a row, so what one call does leaves the others in order.
RowsKept ==
  /\ \A b \in BookingIds : bookings[b] # None => bookings'[b] # None
  /\ \A r \in ResIds : res[r] # None => res'[r] # None

LEMMA OthersOK ==
  ASSUME TypeInv, RowsKept, NEW d \in Calls, calls'[d] = calls[d]
  PROVE  CallOK(calls[d])'
<1>1. /\ calls[d].step = "submit" => calls[d] \in SubmitCall
      /\ calls[d].step = "approve" => calls[d] \in ApproveCall
      /\ calls[d].step = "checkout" => calls[d] \in CheckoutCall
      /\ calls[d].step = "return" => calls[d] \in ReturnCall
  BY CallShapes DEF TypeInv, TypeOK
<1>2. CallOK(calls[d])
  BY DEF TypeInv, CallsOK
<1> QED
  BY <1>1, <1>2 DEF CallOK, RowsKept, ApproveCall, CheckoutCall, ReturnCall

LEMMA GotoOK ==
  ASSUME TypeInv, RowsKept, NEW c \in Calls, NEW next, Goto(c, next),
         next.step \notin {"submit", "approve", "checkout", "return"}
  PROVE  CallsOK'
<1> SUFFICES ASSUME NEW d \in Calls PROVE CallOK(calls[d])'
  BY DEF CallsOK
<1>1. CASE d = c
  BY <1>1 DEF Goto, CallOK, TypeInv, TypeOK
<1>2. CASE d # c
  BY <1>2, OthersOK DEF Goto, TypeInv, TypeOK
<1> QED BY <1>1, <1>2

\* The row an UPDATE leaves: the other columns stay.
LEMMA MovedReservation ==
  ASSUME NEW row \in Reservation, NEW status \in ReservationStatuses
  PROVE  /\ Moved(row, status) \in Reservation
         /\ Moved(row, status).status = status
         /\ Moved(row, status).version = row.version + 1
         /\ Moved(row, status).booking = row.booking
         /\ Moved(row, status).equip = row.equip
         /\ Moved(row, status).holder = row.holder
         /\ Moved(row, status).window = row.window
<1>1. Moved(row, status) \in Reservation
  <2> DEFINE moved == [row EXCEPT !.status = status]
  <2>1. moved \in Reservation /\ row.version + 1 \in Nat
    BY DEF Reservation
  <2> HIDE DEF moved
  <2>2. [moved EXCEPT !.version = row.version + 1] \in Reservation
    BY <2>1 DEF Reservation
  <2> QED BY <2>2 DEF Moved, moved
<1>2. Moved(row, status).status = status /\ Moved(row, status).version = row.version + 1
  BY DEF Moved, Reservation
<1>3. /\ Moved(row, status).booking = row.booking /\ Moved(row, status).equip = row.equip
      /\ Moved(row, status).holder = row.holder /\ Moved(row, status).window = row.window
  BY DEF Moved, Reservation
<1> QED BY <1>1, <1>2, <1>3

LEMMA MovedBooking ==
  ASSUME NEW row \in BookingRow, NEW status \in RequestStatuses
  PROVE  /\ Moved(row, status) \in BookingRow
         /\ Moved(row, status).status = status
         /\ Moved(row, status).version = row.version + 1
         /\ Moved(row, status).batch = row.batch
         /\ Moved(row, status).requester = row.requester
         /\ Moved(row, status).equip = row.equip
         /\ Moved(row, status).window = row.window
<1>1. Moved(row, status) \in BookingRow
  <2> DEFINE moved == [row EXCEPT !.status = status]
  <2>1. moved \in BookingRow /\ row.version + 1 \in Nat
    BY DEF BookingRow
  <2> HIDE DEF moved
  <2>2. [moved EXCEPT !.version = row.version + 1] \in BookingRow
    BY <2>1 DEF BookingRow
  <2> QED BY <2>2 DEF Moved, moved
<1>2. Moved(row, status).status = status /\ Moved(row, status).version = row.version + 1
  BY DEF Moved, BookingRow
<1>3. /\ Moved(row, status).batch = row.batch /\ Moved(row, status).requester = row.requester
      /\ Moved(row, status).equip = row.equip /\ Moved(row, status).window = row.window
  BY DEF Moved, BookingRow
<1> QED BY <1>1, <1>2, <1>3

LEMMA InitTypeInv == Init => TypeInv
  BY StoreAssumption
  DEF Init, TypeInv, TypeOK, CallsOK, CallOK, Idle, Call


LEMMA TypeInvStep == TypeInv /\ [Next]_vars => TypeInv'
<1> SUFFICES ASSUME TypeInv, [Next]_vars PROVE TypeInv'
  OBVIOUS
<1> USE DEF TypeInv
<1>1. ASSUME NEW c \in Calls, NEW u \in Users, NEW b \in BatchIds, NEW n \in Counts,
             NEW w \in Windows, NEW now \in Readings, CreateBatch(c, u, b, n, w, now)
      PROVE  TypeInv'
  <2>1. TypeOK'
    BY <1>1, InputAssumption
    DEF CreateBatch, GotoAudit, Goto, TypeOK, Batch, Event, AuditCall, Call
  <2>2. CallsOK'
    BY <1>1 DEF CreateBatch, GotoAudit, Goto, CallsOK, CallOK, TypeOK
  <2> QED BY <2>1, <2>2
<1>2. ASSUME NEW c \in Calls, NEW u \in Users, NEW b \in BookingIds, NEW batch \in BatchIds,
             NEW e \in Equipment, NEW w \in Windows, SubmitRead(c, u, b, batch, e, w)
      PROVE  TypeInv'
  <2>1. TypeOK'
    BY <1>2 DEF SubmitRead, Goto, TypeOK, store, BookingRow, RequestStatuses, SubmitCall, Call
  <2>2. CallsOK'
    BY <1>2 DEF SubmitRead, Goto, CallsOK, CallOK, TypeOK, store
  <2> QED BY <2>1, <2>2
<1>3. ASSUME NEW c \in Calls, SubmitInsert(c)
      PROVE  TypeInv'
  <2>0. calls[c] \in SubmitCall
    BY <1>3, CallShapes DEF SubmitInsert, TypeOK
  <2>1. TypeOK'
    <3>1. bookings' \in [BookingIds -> BookingRow \cup {None}]
      BY <1>3, <2>0 DEF SubmitInsert, TypeOK, SubmitCall
    <3>2. calls' \in [Calls -> Call]
      BY <1>3, <2>0
      DEF SubmitInsert, GotoAudit, Finish, Goto, TypeOK, SubmitCall, Event, AuditCall, Call, Idle
    <3> QED BY <1>3, <3>1, <3>2 DEF SubmitInsert, TypeOK
  <2>2. RowsKept
    BY <1>3, <2>0, NoneAssumption DEF SubmitInsert, TypeOK, RowsKept, SubmitCall
  <2>3. CallsOK'
    BY <1>3, <2>2, GotoOK DEF SubmitInsert, GotoAudit, Finish, Idle
  <2> QED BY <2>1, <2>3
<1>4. ASSUME NEW c \in Calls, NEW u \in Users, NEW b \in BookingIds, ApproveRead(c, u, b)
      PROVE  TypeInv'
  <2>1. TypeOK'
    BY <1>4 DEF ApproveRead, Goto, TypeOK, store, BookingRow, ApproveCall, Call
  <2>2. CallsOK'
    BY <1>4 DEF ApproveRead, Goto, CallsOK, CallOK, TypeOK, store
  <2> QED BY <2>1, <2>2
<1>5. ASSUME NEW c \in Calls, NEW r \in ResIds, ApproveTx(c, r)
      PROVE  TypeInv'
  <2>0. /\ calls[c] \in ApproveCall
        /\ bookings[calls[c].booking] \in BookingRow
    BY <1>5, CallShapes DEF ApproveTx, TypeOK, CallsOK, CallOK, ApproveCall
  <2>1. TypeOK'
    <3>1. bookings' \in [BookingIds -> BookingRow \cup {None}]
      BY <1>5, <2>0, MovedBooking DEF ApproveTx, TypeOK, ApproveCall, RequestStatuses
    <3>2. res' \in [ResIds -> Reservation \cup {None}]
      BY <1>5, <2>0
      DEF ApproveTx, TypeOK, ApproveCall, BookingRow, Reservation, ReservationStatuses
    <3>3. calls' \in [Calls -> Call]
      BY <1>5 DEF ApproveTx, GotoAudit, Finish, Goto, TypeOK, Event, AuditCall, Call, Idle
    <3> QED BY <1>5, <3>1, <3>2, <3>3 DEF ApproveTx, TypeOK
  <2>2. RowsKept
    <3>1. \A b \in BookingIds : bookings[b] # None => bookings'[b] # None
      BY <1>5, <2>0, MovedBooking, NoneAssumption
      DEF ApproveTx, TypeOK, ApproveCall, RequestStatuses
    <3>2. \A s \in ResIds : res[s] # None => res'[s] # None
      BY <1>5 DEF ApproveTx, CanApprove, FreshReservation, TypeOK
    <3> QED BY <3>1, <3>2 DEF RowsKept
  <2>3. CallsOK'
    BY <1>5, <2>2, GotoOK DEF ApproveTx, GotoAudit, Finish, Idle
  <2> QED BY <2>1, <2>3
<1>6. ASSUME NEW c \in Calls, NEW u \in Users, NEW r \in ResIds, NEW m \in Consumables,
             NEW q \in Quantities, CheckoutRead(c, u, r, m, q)
      PROVE  TypeInv'
  <2>0. q \in Nat \ {0}
    BY <1>6, InputAssumption DEF CheckoutRead, ValidateQuantity
  <2>1. TypeOK'
    BY <1>6, <2>0 DEF CheckoutRead, Goto, TypeOK, store, Reservation, CheckoutCall, Call
  <2>2. CallsOK'
    BY <1>6, <2>0 DEF CheckoutRead, Goto, CallsOK, CallOK, TypeOK, store
  <2> QED BY <2>1, <2>2
<1>7. ASSUME NEW c \in Calls, CheckoutTx(c)
      PROVE  TypeInv'
  <2>0. /\ calls[c] \in CheckoutCall
        /\ res[calls[c].res] \in Reservation
    BY <1>7, CallShapes DEF CheckoutTx, TypeOK, CallsOK, CallOK, CheckoutCall
  <2>1. TypeOK'
    <3>1. res' \in [ResIds -> Reservation \cup {None}]
      BY <1>7, <2>0, MovedReservation
      DEF CheckoutTx, MoveReservation, TypeOK, CheckoutCall, ReservationStatuses
    <3>2. stock' \in [Consumables -> Nat]
      BY <1>7, <2>0 DEF CheckoutTx, CanCheckout, CanConsume, TypeOK, CheckoutCall
    <3>3. taken' \in [ResIds -> [Consumables -> Nat]]
      <4> DEFINE k == calls[c]
                 row == [taken[k.res] EXCEPT ![k.consumable] = k.quantity]
      <4>1. row \in [Consumables -> Nat]
        BY <2>0 DEF TypeOK, CheckoutCall
      <4>2. taken' = taken \/ taken' = [taken EXCEPT ![k.res] = row]
        BY <1>7 DEF CheckoutTx
      <4> QED BY <2>0, <4>1, <4>2 DEF TypeOK, CheckoutCall
    <3>4. calls' \in [Calls -> Call]
      BY <1>7, <2>0
      DEF CheckoutTx, GotoAudit, Finish, Goto, TypeOK, CheckoutCall, Event, AuditCall, Call, Idle
    <3> QED BY <1>7, <3>1, <3>2, <3>3, <3>4 DEF CheckoutTx, TypeOK
  <2>2. RowsKept
    BY <1>7, <2>0, MovedReservation, NoneAssumption
    DEF CheckoutTx, MoveReservation, TypeOK, CheckoutCall, ReservationStatuses, RowsKept
  <2>3. CallsOK'
    BY <1>7, <2>2, GotoOK DEF CheckoutTx, GotoAudit, Finish, Idle
  <2> QED BY <2>1, <2>3
<1>8. ASSUME NEW c \in Calls, NEW u \in Users, NEW r \in ResIds, ReturnRead(c, u, r)
      PROVE  TypeInv'
  <2>1. TypeOK'
    BY <1>8 DEF ReturnRead, Goto, TypeOK, store, Reservation, ReturnCall, Call
  <2>2. CallsOK'
    BY <1>8 DEF ReturnRead, CanMove, Goto, CallsOK, CallOK, TypeOK, store
  <2> QED BY <2>1, <2>2
<1>9. ASSUME NEW c \in Calls, ReturnTx(c)
      PROVE  TypeInv'
  <2>0. /\ calls[c] \in ReturnCall
        /\ res[calls[c].res] \in Reservation
    BY <1>9, CallShapes DEF ReturnTx, TypeOK, CallsOK, CallOK, ReturnCall
  <2>1. TypeOK'
    <3>1. res' \in [ResIds -> Reservation \cup {None}]
      BY <1>9, <2>0, MovedReservation
      DEF ReturnTx, MoveReservation, TypeOK, ReturnCall, ReservationStatuses
    <3>2. stock' \in [Consumables -> Nat]
      BY <1>9, <2>0 DEF ReturnTx, RestoreConsumables, TypeOK, ReturnCall
    <3>3. taken' \in [ResIds -> [Consumables -> Nat]]
      BY <1>9, <2>0 DEF ReturnTx, RestoreConsumables, TypeOK, ReturnCall
    <3>4. calls' \in [Calls -> Call]
      BY <1>9, <2>0
      DEF ReturnTx, GotoAudit, Finish, Goto, TypeOK, ReturnCall, Event, AuditCall, Call, Idle
    <3> QED BY <1>9, <3>1, <3>2, <3>3, <3>4 DEF ReturnTx, TypeOK
  <2>2. RowsKept
    BY <1>9, <2>0, MovedReservation, NoneAssumption
    DEF ReturnTx, MoveReservation, TypeOK, ReturnCall, ReservationStatuses, RowsKept
  <2>3. CallsOK'
    BY <1>9, <2>2, GotoOK DEF ReturnTx, GotoAudit, Finish, Idle
  <2> QED BY <2>1, <2>3
<1>10. ASSUME NEW c \in Calls, NEW u \in Users, NEW k \in BlockIds, NEW e \in Equipment,
              NEW w \in Windows, NEW now \in Readings, AddMaintenance(c, u, k, e, w, now)
       PROVE  TypeInv'
  <2>1. TypeOK'
    BY <1>10 DEF AddMaintenance, Goto, TypeOK, Block, Event, SuspendCall, Call
  <2>2. CallsOK'
    BY <1>10 DEF AddMaintenance, Goto, CallsOK, CallOK, TypeOK
  <2> QED BY <2>1, <2>2
<1>11. ASSUME NEW c \in Calls, NEW u \in Users, NEW i \in IncidentIds, NEW e \in Equipment,
              NEW w \in Windows, ReportIncident(c, u, i, e, w)
       PROVE  TypeInv'
  <2>1. TypeOK'
    BY <1>11 DEF ReportIncident, IncidentStatuses, Goto, TypeOK, SuspendCall, Call
  <2>2. CallsOK'
    BY <1>11 DEF ReportIncident, Goto, CallsOK, CallOK, TypeOK
  <2> QED BY <2>1, <2>2
<1>12. ASSUME NEW c \in Calls, Suspend(c)
       PROVE  TypeInv'
  <2>0. calls[c] \in SuspendCall
    BY <1>12, CallShapes DEF Suspend, TypeOK
  <2>1. RowsKept
    BY <1>12, NoneAssumption
    DEF Suspend, Suspends, TypeOK, Reservation, ReservationStatuses, RowsKept
  <2>2. TypeOK'
    <3>1. res' \in [ResIds -> Reservation \cup {None}]
      <4>1. ASSUME NEW r \in ResIds, res[r] # None
            PROVE  [res[r] EXCEPT !.status = "suspended"] \in Reservation
        <5>1. res[r] \in Reservation
          BY <4>1 DEF TypeOK
        <5> QED BY <5>1 DEF Reservation, ReservationStatuses
      <4>2. res \in [ResIds -> Reservation \cup {None}]
        BY DEF TypeOK
      <4> QED BY <1>12, <4>1, <4>2 DEF Suspend, Suspends
    <3>2. calls' \in [Calls -> Call]
      BY <1>12, <2>0
      DEF Suspend, Finish, Goto, TypeOK, SuspendCall, AuditCall, Call, Idle
    <3> QED BY <1>12, <3>1, <3>2 DEF Suspend, TypeOK
  <2>3. CallsOK'
    BY <1>12, <2>1, GotoOK DEF Suspend, Finish, Idle
  <2> QED BY <2>2, <2>3
<1>13. ASSUME NEW c \in Calls, WriteAudit(c)
       PROVE  TypeInv'
  <2>0. calls[c] \in AuditCall
    BY <1>13, CallShapes DEF WriteAudit, TypeOK
  <2>1. TypeOK'
    BY <1>13, <2>0 DEF WriteAudit, Finish, Goto, TypeOK, store, AuditCall, Call
  <2>2. CallsOK'
    BY <1>13 DEF WriteAudit, Finish, Goto, CallsOK, CallOK, TypeOK, store, Idle
  <2> QED BY <2>1, <2>2
<1>14. ASSUME NEW u \in Users, NEW i \in IncidentIds, ResolveIncident(u, i)
       PROVE  TypeInv'
  BY <1>14 DEF ResolveIncident, IncidentStatuses, TypeOK, CallsOK, CallOK
<1>15. ASSUME NEW e \in Equipment, NEW s \in EquipmentStates, UpdateEquipmentStatus(e, s)
       PROVE  TypeInv'
  BY <1>15 DEF UpdateEquipmentStatus, TypeOK, CallsOK, CallOK
<1>16. ASSUME NEW c \in Calls, CallFails(c)
       PROVE  TypeInv'
  BY <1>16 DEF CallFails, Finish, Goto, TypeOK, CallsOK, CallOK, store, Idle, Call
<1>17. CASE Crash
  BY <1>17 DEF Crash, TypeOK, CallsOK, CallOK, store, Idle, Call
<1>18. CASE UNCHANGED vars
  BY <1>18 DEF vars, store, TypeOK, CallsOK, CallOK
<1> QED
  BY <1>1, <1>2, <1>3, <1>4, <1>5, <1>6, <1>7, <1>8, <1>9, <1>10, <1>11, <1>12, <1>13, <1>14,
     <1>15, <1>16, <1>17, <1>18
  DEF Next, Request, Continue

\* The database and the calls always hold rows of their types, whatever the
\* requests, their interleaving, their failures and the restarts.
THEOREM TypeCorrect == Spec => []TypeOK
<1>1. Spec => []TypeInv
  BY InitTypeInv, TypeInvStep, PTL DEF Spec
<1> QED BY <1>1, PTL DEF TypeInv

-----------------------------------------------------------------------------
(* Which steps touch bookings, reservations and consumables, and how.      *)

\* The steps that write to these tables: five transactions and statements,
\* and no others.
LEMMA DeskSteps ==
  ASSUME [Next]_vars
  PROVE  \/ UNCHANGED << bookings, res, stock, taken >>
         \/ \E c \in Calls : SubmitInsert(c)
         \/ \E c \in Calls, r \in ResIds : ApproveTx(c, r)
         \/ \E c \in Calls : CheckoutTx(c)
         \/ \E c \in Calls : ReturnTx(c)
         \/ \E c \in Calls : Suspend(c)
<1>1. ASSUME NEW c \in Calls, Request(c)
      PROVE  UNCHANGED << bookings, res, stock, taken >>
  BY <1>1 DEF Request, store, CreateBatch, SubmitRead, ApproveRead, CheckoutRead, ReturnRead,
              AddMaintenance, ReportIncident
<1>2. ASSUME NEW c \in Calls, CallFails(c) \/ WriteAudit(c)
      PROVE  UNCHANGED << bookings, res, stock, taken >>
  BY <1>2 DEF CallFails, WriteAudit, store
<1>3. ASSUME NEW u \in Users, NEW i \in IncidentIds, ResolveIncident(u, i)
      PROVE  UNCHANGED << bookings, res, stock, taken >>
  BY <1>3 DEF ResolveIncident
<1>4. ASSUME NEW e \in Equipment, NEW s \in EquipmentStates, UpdateEquipmentStatus(e, s)
      PROVE  UNCHANGED << bookings, res, stock, taken >>
  BY <1>4 DEF UpdateEquipmentStatus
<1>5. CASE Crash \/ UNCHANGED vars
  BY <1>5 DEF Crash, vars, store
<1> QED
  BY <1>1, <1>2, <1>3, <1>4, <1>5 DEF Next, Continue

\* The columns of a reservation that no statement writes.
SameRow(r) ==
  /\ res'[r] # None
  /\ res'[r].booking = res[r].booking
  /\ res'[r].equip = res[r].equip
  /\ res'[r].holder = res[r].holder
  /\ res'[r].window = res[r].window

\* A reservation that exists keeps those columns, and its status stays or
\* moves as CanMove allows: the transactions compare it with what their
\* call read, and what the call read CanMove had approved.
LEMMA RowStep ==
  ASSUME TypeInv, [Next]_vars, NEW r \in ResIds, res[r] # None
  PROVE  /\ SameRow(r)
         /\ \/ res'[r].status = res[r].status /\ res'[r].version = res[r].version
            \/ CanMove(res[r].status, res'[r].status)
<1> USE DEF TypeInv
<1>0. res[r] \in Reservation
  BY DEF TypeOK
<1>1. CASE UNCHANGED << bookings, res, stock, taken >>
  BY <1>1 DEF SameRow
<1>2. ASSUME NEW c \in Calls, SubmitInsert(c)
      PROVE  res' = res
  BY <1>2 DEF SubmitInsert
<1>3. ASSUME NEW c \in Calls, NEW s \in ResIds, ApproveTx(c, s)
      PROVE  res'[r] = res[r]
  BY <1>3 DEF ApproveTx, CanApprove, FreshReservation, TypeOK
<1>4. ASSUME NEW c \in Calls, CheckoutTx(c)
      PROVE  \/ res'[r] = res[r]
             \/ res[r].status = "held" /\ res'[r] = Moved(res[r], "checked_out")
  BY <1>4 DEF CheckoutTx, CanCheckout, ReservationMatches, MoveReservation, TypeOK
<1>5. ASSUME NEW c \in Calls, ReturnTx(c)
      PROVE  \/ res'[r] = res[r]
             \/ /\ res[r].status \in {"checked_out", "suspended"}
                /\ res'[r] = Moved(res[r], "returned")
  BY <1>5 DEF ReturnTx, ReservationMatches, MoveReservation, CallsOK, CallOK, TypeOK
<1>6. ASSUME NEW c \in Calls, Suspend(c)
      PROVE  \/ res'[r] = res[r]
             \/ /\ res[r].status \in {"held", "checked_out"}
                /\ res'[r] = [res[r] EXCEPT !.status = "suspended"]
  BY <1>6 DEF Suspend, Suspends, InUseStatuses
<1>7. CASE res'[r] = res[r]
  BY <1>7 DEF SameRow
<1>8. CASE /\ res[r].status = "held"
           /\ res'[r] = Moved(res[r], "checked_out")
  BY <1>0, <1>8, MovedReservation, NoneAssumption DEF SameRow, CanMove, ReservationStatuses
<1>9. CASE /\ res[r].status \in {"checked_out", "suspended"}
           /\ res'[r] = Moved(res[r], "returned")
  BY <1>0, <1>9, MovedReservation, NoneAssumption DEF SameRow, CanMove, ReservationStatuses
<1>10. CASE /\ res[r].status \in {"held", "checked_out"}
            /\ res'[r] = [res[r] EXCEPT !.status = "suspended"]
  <2>1. res'[r] \in Reservation
    BY <1>0, <1>10 DEF Reservation, ReservationStatuses
  <2> QED BY <1>0, <1>10, <2>1, NoneAssumption DEF SameRow, CanMove, Reservation
<1> QED
  BY DeskSteps, <1>1, <1>2, <1>3, <1>4, <1>5, <1>6, <1>7, <1>8, <1>9, <1>10

\* Only an approval makes a reservation: for its booking's equipment, holder
\* and window, and only if nothing in the tables stood against it.
LEMMA NewRow ==
  ASSUME TypeInv, [Next]_vars, NEW r \in ResIds, res[r] = None, res'[r] # None
  PROVE  \E c \in Calls :
           LET k == calls[c]
               row == bookings[k.booking]
           IN
           /\ ApproveTx(c, r)
           /\ CanApprove(k, r)
           /\ k \in ApproveCall
           /\ row \in BookingRow
           /\ res' = [res EXCEPT ![r] =
                        [booking |-> k.booking, equip |-> row.equip,
                         holder |-> row.requester, window |-> row.window,
                         status |-> "held", version |-> 1]]
<1> USE DEF TypeInv
<1>1. ~ UNCHANGED << bookings, res, stock, taken >>
  OBVIOUS
<1>2. ASSUME NEW c \in Calls, SubmitInsert(c) PROVE FALSE
  BY <1>2 DEF SubmitInsert
<1>3. ASSUME NEW c \in Calls, CheckoutTx(c) PROVE FALSE
  <2>1. calls[c] \in CheckoutCall /\ res[calls[c].res] # None
    BY <1>3, CallShapes DEF CheckoutTx, CallsOK, CallOK, TypeOK
  <2> QED BY <1>3, <2>1 DEF CheckoutTx, MoveReservation, TypeOK, CheckoutCall
<1>4. ASSUME NEW c \in Calls, ReturnTx(c) PROVE FALSE
  <2>1. calls[c] \in ReturnCall /\ res[calls[c].res] # None
    BY <1>4, CallShapes DEF ReturnTx, CallsOK, CallOK, TypeOK
  <2> QED BY <1>4, <2>1 DEF ReturnTx, MoveReservation, TypeOK, ReturnCall
<1>5. ASSUME NEW c \in Calls, Suspend(c) PROVE FALSE
  BY <1>5 DEF Suspend, Suspends
<1>6. PICK c \in Calls, s \in ResIds : ApproveTx(c, s)
  BY DeskSteps, <1>1, <1>2, <1>3, <1>4, <1>5
<1>7. /\ calls[c] \in ApproveCall
      /\ bookings[calls[c].booking] \in BookingRow
  BY <1>6, CallShapes DEF ApproveTx, CallsOK, CallOK, TypeOK, ApproveCall
<1>8. s = r /\ CanApprove(calls[c], r)
  BY <1>6 DEF ApproveTx, TypeOK
<1> QED BY <1>6, <1>7, <1>8 DEF ApproveTx

\* A request that exists stays, and only a pending one is approved.
LEMMA BookingStep ==
  ASSUME TypeInv, [Next]_vars, NEW b \in BookingIds, bookings[b] # None
  PROVE  /\ bookings'[b] # None
         /\ \/ bookings'[b] = bookings[b]
            \/ bookings[b].status = "pending" /\ bookings'[b].status = "approved"
<1>1. ASSUME NEW c \in Calls, SubmitInsert(c)
      PROVE  bookings'[b] = bookings[b]
  BY <1>1 DEF SubmitInsert, TypeInv, TypeOK
<1>2. ASSUME NEW c \in Calls, NEW r \in ResIds, ApproveTx(c, r)
      PROVE  \/ bookings'[b] = bookings[b]
             \/ /\ bookings[b].status = "pending"
                /\ bookings'[b] = Moved(bookings[b], "approved")
  BY <1>2 DEF ApproveTx, CanApprove, BookingMatches, TypeInv, TypeOK
<1>3. ASSUME NEW c \in Calls, CheckoutTx(c) \/ ReturnTx(c) \/ Suspend(c)
      PROVE  bookings' = bookings
  BY <1>3 DEF CheckoutTx, ReturnTx, Suspend
<1>4. CASE bookings'[b] = Moved(bookings[b], "approved") /\ bookings[b].status = "pending"
  BY <1>4, MovedBooking, NoneAssumption DEF TypeInv, TypeOK, RequestStatuses
<1> QED BY DeskSteps, <1>1, <1>2, <1>3, <1>4

\* The code asks CanMove of what it read; every write obeys CanMove of what is
\* there when it writes.
THEOREM StatusesFollowCanMove == Spec => StatusFollowsCanMove
<1> DEFINE Reservations ==
             \A r \in ResIds :
               res[r] # None =>
                 /\ res'[r] # None
                 /\ res'[r].status # res[r].status => CanMove(res[r].status, res'[r].status)
           Requests ==
             \A b \in BookingIds :
               bookings[b] # None =>
                 /\ bookings'[b] # None
                 /\ bookings'[b].status # bookings[b].status
                      => RequestCanMove(bookings[b].status, bookings'[b].status)
<1>1. TypeInv /\ [Next]_vars => Reservations
  BY RowStep DEF SameRow
<1>2. TypeInv /\ [Next]_vars => Requests
  BY BookingStep DEF RequestCanMove
<1>3. TypeInv /\ [Next]_vars => [Reservations /\ Requests]_vars
  BY <1>1, <1>2
<1>4. Spec => []TypeInv
  BY InitTypeInv, TypeInvStep, PTL DEF Spec
<1> QED BY <1>3, <1>4, PTL DEF Spec, StatusFollowsCanMove

-----------------------------------------------------------------------------
(* No double booking.  The queries compare texts, so what holds of every   *)
(* stored reservation is about texts; it is about instants when the texts  *)
(* of the windows sort as the instants do.                                 *)

TextDisjoint ==
  \A r, s \in ResIds :
    r # s /\ Active(r) /\ Active(s) /\ res[r].equip = res[s].equip
      => ~ SqlOverlaps(res[r].window, res[s].window)

LEMMA ActiveBefore ==
  ASSUME TypeInv, [Next]_vars, NEW r \in ResIds, res[r] # None, Active(r)'
  PROVE  Active(r) /\ res'[r].equip = res[r].equip /\ res'[r].window = res[r].window
  BY RowStep DEF Active, ActiveStatuses, CanMove, SameRow

\* The reservation an approval makes meets no active one.
LEMMA NewRowDisjoint ==
  ASSUME TypeInv, [Next]_vars, NEW r \in ResIds, NEW s \in ResIds, r # s,
         res[r] = None, Active(r)', Active(s)', res'[r].equip = res'[s].equip
  PROVE  ~ SqlOverlaps(res'[s].window, res'[r].window)
<1>1. PICK c \in Calls :
        LET k == calls[c]
            row == bookings[k.booking]
        IN
        /\ CanApprove(k, r)
        /\ res' = [res EXCEPT ![r] =
                     [booking |-> k.booking, equip |-> row.equip,
                      holder |-> row.requester, window |-> row.window,
                      status |-> "held", version |-> 1]]
  BY NewRow DEF Active
<1> DEFINE row == bookings[calls[c].booking]
<1>2. /\ res'[r].equip = row.equip
      /\ res'[r].window = row.window
      /\ res'[s] = res[s]
  BY <1>1 DEF TypeInv, TypeOK
<1>3. ~ HoldsSlot(s, row.equip, row.window)
  BY <1>1 DEF CanApprove, HasConflict
<1> QED BY <1>2, <1>3 DEF HoldsSlot, Active

LEMMA TextDisjointStep == TypeInv /\ TextDisjoint /\ [Next]_vars => TextDisjoint'
<1> SUFFICES ASSUME TypeInv, TextDisjoint, [Next]_vars,
                    NEW r \in ResIds, NEW s \in ResIds, r # s,
                    Active(r)', Active(s)', res'[r].equip = res'[s].equip
             PROVE  ~ SqlOverlaps(res'[r].window, res'[s].window)
  BY DEF TextDisjoint
<1>1. CASE res[r] # None /\ res[s] # None
  BY <1>1, ActiveBefore DEF TextDisjoint
<1>2. CASE res[s] = None
  BY <1>2, NewRowDisjoint
<1>3. CASE res[r] = None
  BY <1>3, NewRowDisjoint DEF SqlOverlaps
<1> QED BY <1>1, <1>2, <1>3

\* No two active reservations of one piece of equipment have windows whose
\* texts overlap, however approvals interleave, fail and repeat ids.  That is
\* the order of the texts only; instants need a hypothesis on the windows.
THEOREM NoTextOverlap == Spec => []TextDisjoint
<1>1. Init => TextDisjoint
  BY DEF Init, TextDisjoint, Active
<1>2. Spec => []TypeInv
  BY InitTypeInv, TypeInvStep, PTL DEF Spec
<1> QED BY <1>1, <1>2, TextDisjointStep, PTL DEF Spec

\* Whole seconds of UTC sort by text as they do by instant.
LEMMA CanonicalOrder ==
  ASSUME NEW t \in Stamp, NEW u \in Stamp,
         t.frac = 0, t.zone = 0, u.frac = 0, u.zone = 0
  PROVE  TextLess(t, u) <=> Before(t, u)
<1>1. Suffix(t) = << Zulu >> /\ Suffix(u) = << Zulu >>
  BY DEF Suffix, FracText, ZoneText, Zulu
<1>2. ~ LexLess(<< Zulu >>, << Zulu >>)
  BY DEF LexLess, Zulu
<1> QED BY <1>1, <1>2 DEF TextLess, Before, Instant, Stamp

LEMMA CanonicalOverlap ==
  ASSUME NEW v \in Window, NEW w \in Window, Canonical(v), Canonical(w)
  PROVE  SqlOverlaps(v, w) <=> Overlaps(v, w)
  BY CanonicalOrder DEF SqlOverlaps, Overlaps, Window, Canonical

\* Where every window is in whole seconds of UTC, no piece of equipment is
\* ever promised to two reservations at one instant.
THEOREM CanonicalNoDoubleBooking ==
  ASSUME \A w \in Windows : Canonical(w)
  PROVE  Spec => []NoDoubleBooking
<1>1. TypeInv /\ TextDisjoint => NoDoubleBooking
  BY CanonicalOverlap, InputAssumption
  DEF TextDisjoint, NoDoubleBooking, Active, TypeInv, TypeOK, Reservation
<1>2. Spec => []TypeInv
  BY InitTypeInv, TypeInvStep, PTL DEF Spec
<1> QED BY <1>1, <1>2, NoTextOverlap, PTL

-----------------------------------------------------------------------------
(* The same in one zone other than UTC, where fractions do no harm either. *)

\* What follows the seconds in a zone other than UTC: the sign is before the
\* point and any digit.
LEMMA ZoneForm ==
  ASSUME NEW z \in Int, z # 0
  PROVE  \E s \in {Plus, Minus}, n \in Nat : ZoneText(z) = << s, n >>
  BY DEF ZoneText

\* The fraction by its two digits, the last of them cut if it is zero.
LEMMA FracForm ==
  ASSUME NEW f \in 0..99
  PROVE  \E a \in 0..9, b \in 0..9 :
           /\ f = 10 * a + b
           /\ a = 0 /\ b = 0 => FracText(f) = << >>
           /\ b = 0 /\ a # 0 => FracText(f) = << Point, Digit(a) >>
           /\ b # 0 => FracText(f) = << Point, Digit(a), Digit(b) >>
<1> DEFINE a == f \div 10
           b == f % 10
<1>1. a \in 0..9 /\ b \in 0..9 /\ f = 10 * a + b
  OBVIOUS
<1> HIDE DEF a, b
<1>2. /\ a = 0 /\ b = 0 => FracText(f) = << >>
      /\ b = 0 /\ a # 0 => FracText(f) = << Point, Digit(a) >>
      /\ b # 0 => FracText(f) = << Point, Digit(a), Digit(b) >>
  BY <1>1 DEF FracText, a, b
<1> QED BY <1>1, <1>2

\* The suffix of a stamp by its digits, in a zone other than UTC.
Form(a, b, s, n) ==
  IF a = 0 /\ b = 0 THEN << s, n >>
  ELSE IF b = 0 THEN << Point, Digit(a), s, n >>
  ELSE << Point, Digit(a), Digit(b), s, n >>

\* A concatenation by its places.
LEMMA ConcatIs ==
  ASSUME NEW l \in Seq(Int), NEW r \in Seq(Int), NEW t \in Seq(Int),
         Len(t) = Len(l) + Len(r),
         \A i \in 1..Len(t) : t[i] = IF i <= Len(l) THEN l[i] ELSE r[i - Len(l)]
  PROVE  l \o r = t
<1>1. /\ l \o r \in Seq(Int)
      /\ Len(l \o r) = Len(l) + Len(r)
      /\ \A i \in 1..Len(l) + Len(r) : (l \o r)[i] = IF i <= Len(l) THEN l[i] ELSE r[i - Len(l)]
  BY ConcatProperties, Zenon
<1>2. Len(l \o r) = Len(t) /\ \A i \in 1..Len(l \o r) : (l \o r)[i] = t[i]
  BY <1>1
<1> QED BY <1>1, <1>2, SeqEqual, Zenon

LEMMA ConcatTwo ==
  \A w, x, s, n \in Int : << w, x >> \o << s, n >> = << w, x, s, n >>
<1> SUFFICES ASSUME NEW w \in Int, NEW x \in Int, NEW s \in Int, NEW n \in Int
             PROVE  << w, x >> \o << s, n >> = << w, x, s, n >>
  OBVIOUS
<1> DEFINE l == << w, x >>
           r == << s, n >>
           t == << w, x, s, n >>
<1>1. l \in Seq(Int) /\ r \in Seq(Int) /\ t \in Seq(Int)
  OBVIOUS
<1>2. Len(t) = Len(l) + Len(r)
  OBVIOUS
<1>3. \A i \in 1..Len(t) : t[i] = IF i <= Len(l) THEN l[i] ELSE r[i - Len(l)]
  OBVIOUS
<1> QED BY <1>1, <1>2, <1>3, ConcatIs, Zenon

LEMMA ConcatThree ==
  \A w, x, y, s, n \in Int : << w, x, y >> \o << s, n >> = << w, x, y, s, n >>
<1> SUFFICES ASSUME NEW w \in Int, NEW x \in Int, NEW y \in Int, NEW s \in Int, NEW n \in Int
             PROVE  << w, x, y >> \o << s, n >> = << w, x, y, s, n >>
  OBVIOUS
<1> DEFINE l == << w, x, y >>
           r == << s, n >>
           t == << w, x, y, s, n >>
<1>1. l \in Seq(Int) /\ r \in Seq(Int) /\ t \in Seq(Int)
  OBVIOUS
<1>2. Len(t) = Len(l) + Len(r)
  OBVIOUS
<1>3. \A i \in 1..Len(t) : t[i] = IF i <= Len(l) THEN l[i] ELSE r[i - Len(l)]
  OBVIOUS
<1> QED BY <1>1, <1>2, <1>3, ConcatIs, Zenon

\* What the offset is appended to.
LEMMA ConcatZone ==
  ASSUME NEW s \in {Plus, Minus}, NEW n \in Nat, NEW a \in 0..9, NEW b \in 0..9
  PROVE  /\ << >> \o << s, n >> = << s, n >>
         /\ << Point, Digit(a) >> \o << s, n >> = << Point, Digit(a), s, n >>
         /\ << Point, Digit(a), Digit(b) >> \o << s, n >>
              = << Point, Digit(a), Digit(b), s, n >>
<1>1. Point \in Int /\ Digit(a) \in Int /\ Digit(b) \in Int /\ s \in Int /\ n \in Int
  BY DEF Point, Digit, Plus, Minus
<1>2. << >> \o << s, n >> = << s, n >>
  OBVIOUS
<1>3. << Point, Digit(a) >> \o << s, n >> = << Point, Digit(a), s, n >>
  BY <1>1, ConcatTwo, Zenon
<1>4. << Point, Digit(a), Digit(b) >> \o << s, n >> = << Point, Digit(a), Digit(b), s, n >>
  BY <1>1, ConcatThree, SMT
<1> QED BY <1>2, <1>3, <1>4

LEMMA SuffixForm ==
  ASSUME NEW z \in Int, z # 0, NEW f \in 0..99
  PROVE  \A s \in {Plus, Minus}, n \in Nat :
           ZoneText(z) = << s, n >> =>
             \E a \in 0..9, b \in 0..9 :
               f = 10 * a + b /\ FracText(f) \o ZoneText(z) = Form(a, b, s, n)
<1> SUFFICES ASSUME NEW s \in {Plus, Minus}, NEW n \in Nat, ZoneText(z) = << s, n >>
             PROVE  \E a \in 0..9, b \in 0..9 :
                      f = 10 * a + b /\ FracText(f) \o << s, n >> = Form(a, b, s, n)
  OBVIOUS
<1>1. PICK a \in 0..9, b \in 0..9 :
           /\ f = 10 * a + b
           /\ a = 0 /\ b = 0 => FracText(f) = << >>
           /\ b = 0 /\ a # 0 => FracText(f) = << Point, Digit(a) >>
           /\ b # 0 => FracText(f) = << Point, Digit(a), Digit(b) >>
  BY FracForm
<1>2. FracText(f) \o << s, n >> = Form(a, b, s, n)
  <2>1. CASE a = 0 /\ b = 0
    <3>1. FracText(f) = << >> /\ Form(a, b, s, n) = << s, n >>
      BY <1>1, <2>1 DEF Form
    <3>2. << >> \o << s, n >> = << s, n >>
      BY ConcatZone
    <3> QED BY <3>1, <3>2, Zenon
  <2>2. CASE a # 0 /\ b = 0
    <3>1. FracText(f) = << Point, Digit(a) >> /\ Form(a, b, s, n) = << Point, Digit(a), s, n >>
      BY <1>1, <2>2, Zenon DEF Form
    <3>2. << Point, Digit(a) >> \o << s, n >> = << Point, Digit(a), s, n >>
      BY ConcatZone
    <3> QED BY <3>1, <3>2, Zenon
  <2>3. CASE b # 0
    <3>1. /\ FracText(f) = << Point, Digit(a), Digit(b) >>
          /\ Form(a, b, s, n) = << Point, Digit(a), Digit(b), s, n >>
      BY <1>1, <2>3, Zenon DEF Form
    <3>2. << Point, Digit(a), Digit(b) >> \o << s, n >> = << Point, Digit(a), Digit(b), s, n >>
      BY ConcatZone
    <3> QED BY <3>1, <3>2, Zenon
  <2> QED BY <2>1, <2>2, <2>3
<1> QED BY <1>1, <1>2

\* Such suffixes sort like the fractions: at the first place where they differ
\* there are two digits, or a digit or the point after a sign.
LEMMA FormOrder ==
  ASSUME NEW s \in {Plus, Minus}, NEW n \in Nat,
         NEW a \in 0..9, NEW b \in 0..9, NEW c \in 0..9, NEW d \in 0..9
  PROVE  LexLess(Form(a, b, s, n), Form(c, d, s, n)) <=> 10 * a + b < 10 * c + d
<1> USE DEF Form, Plus, Minus, Point, Digit
<1>1. CASE a = 0 /\ b = 0 /\ c = 0 /\ d = 0
  BY <1>1 DEF LexLess
<1>2. CASE a = 0 /\ b = 0 /\ c # 0 /\ d = 0
  BY <1>2 DEF LexLess
<1>3. CASE a = 0 /\ b = 0 /\ d # 0
  BY <1>3 DEF LexLess
<1>4. CASE a # 0 /\ b = 0 /\ c = 0 /\ d = 0
  BY <1>4 DEF LexLess
<1>5. CASE a # 0 /\ b = 0 /\ c # 0 /\ d = 0
  BY <1>5 DEF LexLess
<1>6. CASE a # 0 /\ b = 0 /\ d # 0
  BY <1>6 DEF LexLess
<1>7. CASE b # 0 /\ c = 0 /\ d = 0
  BY <1>7 DEF LexLess
<1>8. CASE b # 0 /\ c # 0 /\ d = 0
  BY <1>8 DEF LexLess
<1>9. CASE b # 0 /\ d # 0
  BY <1>9 DEF LexLess
<1> QED BY <1>1, <1>2, <1>3, <1>4, <1>5, <1>6, <1>7, <1>8, <1>9

\* So stamps in one zone other than UTC sort by text as they do by instant,
\* fractions and all.
LEMMA ZoneOrder ==
  ASSUME NEW t \in Stamp, NEW u \in Stamp, t.zone = u.zone, t.zone # 0
  PROVE  TextLess(t, u) <=> Before(t, u)
<1>1. /\ t.wall \in Int /\ t.frac \in 0..99 /\ t.zone \in Int
      /\ u.wall \in Int /\ u.frac \in 0..99 /\ u.zone \in Int
  BY DEF Stamp
<1>10. Before(t, u) <=> t.wall < u.wall \/ (t.wall = u.wall /\ t.frac < u.frac)
  <2>1. /\ Instant(t) = 100 * (t.wall - 60 * t.zone) + t.frac
        /\ Instant(u) = 100 * (u.wall - 60 * t.zone) + u.frac
    BY DEF Instant
  <2> DEFINE v == t.wall
             w == u.wall
             z == t.zone
             f == t.frac
             g == u.frac
  <2>2. v \in Int /\ w \in Int /\ z \in Int /\ f \in 0..99 /\ g \in 0..99
    BY <1>1
  <2>3. 100 * (v - 60 * z) + f < 100 * (w - 60 * z) + g <=> v < w \/ (v = w /\ f < g)
    <3> HIDE DEF v, w, z, f, g
    <3> QED BY <2>2
  <2> QED BY <2>1, <2>3, Zenon DEF Before
<1>2. PICK s \in {Plus, Minus}, n \in Nat : ZoneText(t.zone) = << s, n >>
  BY <1>1, ZoneForm
<1>3. \E a \in 0..9, b \in 0..9 :
        t.frac = 10 * a + b /\ FracText(t.frac) \o ZoneText(t.zone) = Form(a, b, s, n)
  BY <1>1, <1>2, SuffixForm, Zenon
<1>4. \E c \in 0..9, d \in 0..9 :
        u.frac = 10 * c + d /\ FracText(u.frac) \o ZoneText(u.zone) = Form(c, d, s, n)
  <2>1. u.zone # 0 /\ ZoneText(u.zone) = << s, n >>
    BY <1>2
  <2> QED BY <1>1, <2>1, SuffixForm, Zenon
<1>5. PICK a \in 0..9, b \in 0..9 : t.frac = 10 * a + b /\ Suffix(t) = Form(a, b, s, n)
  BY <1>3, Zenon DEF Suffix
<1>6. PICK c \in 0..9, d \in 0..9 : u.frac = 10 * c + d /\ Suffix(u) = Form(c, d, s, n)
  BY <1>4, Zenon DEF Suffix
<1>7. LexLess(Suffix(t), Suffix(u)) <=> 10 * a + b < 10 * c + d
  BY <1>5, <1>6, FormOrder
<1>8. LexLess(Suffix(t), Suffix(u)) <=> t.frac < u.frac
  BY <1>5, <1>6, <1>7
<1>9. TextLess(t, u) <=> t.wall < u.wall \/ (t.wall = u.wall /\ t.frac < u.frac)
  BY <1>8 DEF TextLess
<1> QED BY <1>9, <1>10

InZone(w, z) == w.start.zone = z /\ w.end.zone = z

\* Where every window is given in one and the same offset from UTC, to any
\* fraction of a second, no piece of equipment is ever promised to two
\* reservations at one instant.
THEOREM OneZoneNoDoubleBooking ==
  ASSUME NEW z \in Int \ {0}, \A w \in Windows : InZone(w, z)
  PROVE  Spec => []NoDoubleBooking
<1>1. ASSUME NEW v \in Windows, NEW w \in Windows
      PROVE  SqlOverlaps(v, w) <=> Overlaps(v, w)
  BY <1>1, ZoneOrder, InputAssumption DEF SqlOverlaps, Overlaps, Window, InZone
<1>2. TypeInv /\ TextDisjoint => NoDoubleBooking
  BY <1>1 DEF TextDisjoint, NoDoubleBooking, Active, TypeInv, TypeOK, Reservation
<1>3. Spec => []TypeInv
  BY InitTypeInv, TypeInvStep, PTL DEF Spec
<1> QED BY <1>2, <1>3, NoTextOverlap, PTL

-----------------------------------------------------------------------------
(* One reservation to an approved request.  The parts the counting needs:  *)
(* a reservation's request is approved, no two reservations share one, and *)
(* an approved request has one.                                            *)

ReservedApproved ==
  \A r \in ResIds :
    res[r] # None => /\ bookings[res[r].booking] # None
                     /\ bookings[res[r].booking].status = "approved"

RequestUnique ==
  \A r, s \in ResIds :
    res[r] # None /\ res[s] # None /\ res[r].booking = res[s].booking => r = s

ApprovedReserved ==
  \A b \in BookingIds :
    bookings[b] # None /\ bookings[b].status = "approved"
      => \E r \in ResIds : res[r] # None /\ res[r].booking = b

OnceInv == ReservedApproved /\ RequestUnique /\ ApprovedReserved

\* Steps that move no booking and make no reservation leave the parts alone.
LEMMA OnceFrame ==
  ASSUME OnceInv, bookings' = bookings,
         \A r \in ResIds : res[r] # None => SameRow(r),
         \A r \in ResIds : res'[r] # None => res[r] # None
  PROVE  OnceInv'
  BY DEF OnceInv, ReservedApproved, RequestUnique, ApprovedReserved, SameRow

LEMMA OnceInvStep == TypeInv /\ OnceInv /\ [Next]_vars => OnceInv'
<1> SUFFICES ASSUME TypeInv, OnceInv, [Next]_vars PROVE OnceInv'
  OBVIOUS
<1>0. \A r \in ResIds : res[r] # None => SameRow(r)
  BY RowStep
<1>1. CASE UNCHANGED << bookings, res, stock, taken >>
  BY <1>0, <1>1, OnceFrame
<1>2. ASSUME NEW c \in Calls, SubmitInsert(c)
      PROVE  OnceInv'
  <2>1. calls[c] \in SubmitCall /\ res' = res
    BY <1>2, CallShapes DEF SubmitInsert, TypeInv, TypeOK
  <2>2. CASE bookings' = bookings
    BY <2>1, <2>2, <1>0, OnceFrame
  <2>3. CASE bookings' # bookings
    <3> DEFINE new == calls[c].booking
    <3>1. /\ bookings[new] = None
          /\ bookings' = [bookings EXCEPT ![new] = calls[c].row]
      BY <1>2, <2>3 DEF SubmitInsert
    <3>2. \A r \in ResIds : res[r] # None => res[r].booking # new /\ res[r].booking \in BookingIds
      BY <3>1 DEF OnceInv, ReservedApproved, TypeInv, TypeOK, Reservation
    <3>3. calls[c].row.status = "pending"
      BY <2>1 DEF TypeInv, CallsOK, CallOK, SubmitCall
    <3>4. \A b \in BookingIds : b # new => bookings'[b] = bookings[b]
      BY <3>1 DEF TypeInv, TypeOK
    <3>5. bookings'[new].status = "pending"
      BY <2>1, <3>1, <3>3 DEF TypeInv, TypeOK, SubmitCall
    <3> QED
      BY <2>1, <3>2, <3>4, <3>5
      DEF OnceInv, ReservedApproved, RequestUnique, ApprovedReserved
  <2> QED BY <2>2, <2>3
<1>3. ASSUME NEW c \in Calls, NEW r \in ResIds, ApproveTx(c, r)
      PROVE  OnceInv'
  <2> DEFINE b == calls[c].booking
             row == bookings[b]
  <2>0. b \in BookingIds /\ row \in BookingRow
    BY <1>3, CallShapes DEF ApproveTx, TypeInv, CallsOK, CallOK, TypeOK, ApproveCall
  <2>1. CASE ~ CanApprove(calls[c], r)
    BY <1>0, <1>3, <2>1, OnceFrame DEF ApproveTx
  <2>2. CASE CanApprove(calls[c], r)
    <3>1. /\ res[r] = None
          /\ \A s \in ResIds : res[s] # None => res[s].booking # b
      BY <2>2 DEF CanApprove, FreshReservation
    <3>2. /\ bookings' = [bookings EXCEPT ![b] = Moved(row, "approved")]
          /\ res' = [res EXCEPT ![r] =
                       [booking |-> b, equip |-> row.equip, holder |-> row.requester,
                        window |-> row.window, status |-> "held", version |-> 1]]
      BY <1>3, <2>2 DEF ApproveTx
    <3>3. /\ bookings'[b] # None /\ bookings'[b].status = "approved"
          /\ \A d \in BookingIds : d # b => bookings'[d] = bookings[d]
      BY <2>0, <3>2, MovedBooking, NoneAssumption DEF TypeInv, TypeOK, RequestStatuses
    <3>4. /\ res'[r] # None /\ res'[r].booking = b
          /\ \A s \in ResIds : s # r => res'[s] = res[s]
      <4>1. res'[r] \in Reservation
        BY <2>0, <3>2 DEF TypeInv, TypeOK, BookingRow, Reservation, ReservationStatuses
      <4> QED BY <3>2, <4>1, NoneAssumption DEF TypeInv, TypeOK
    <3>5. \A s \in ResIds : res[s] # None => res[s].booking \in BookingIds
      BY DEF TypeInv, TypeOK, Reservation
    <3>6. ReservedApproved'
      BY <3>1, <3>3, <3>4, <3>5 DEF OnceInv, ReservedApproved
    <3>7. RequestUnique'
      BY <3>1, <3>4 DEF OnceInv, RequestUnique
    <3>8. ApprovedReserved'
      BY <3>1, <3>3, <3>4 DEF OnceInv, ApprovedReserved
    <3> QED BY <3>6, <3>7, <3>8 DEF OnceInv
  <2> QED BY <2>1, <2>2
<1>4. ASSUME NEW c \in Calls, CheckoutTx(c) \/ ReturnTx(c) \/ Suspend(c)
      PROVE  OnceInv'
  <2>1. bookings' = bookings
    BY <1>4 DEF CheckoutTx, ReturnTx, Suspend
  <2>2. \A r \in ResIds : res'[r] # None => res[r] # None
    <3> SUFFICES ASSUME NEW r \in ResIds, res'[r] # None, res[r] = None PROVE FALSE
      OBVIOUS
    <3>1. PICK d \in Calls :
            LET k == calls[d] IN
            /\ ApproveTx(d, r)
            /\ CanApprove(k, r)
            /\ k \in ApproveCall
            /\ bookings[k.booking] \in BookingRow
      BY NewRow
    <3>2. /\ bookings' = [bookings EXCEPT ![calls[d].booking] =
                            Moved(bookings[calls[d].booking], "approved")]
          /\ bookings[calls[d].booking].status = "pending"
      BY <3>1 DEF ApproveTx, CanApprove, BookingMatches
    <3>3. bookings'[calls[d].booking].status = "approved"
      BY <3>1, <3>2, MovedBooking DEF ApproveCall, TypeInv, TypeOK, RequestStatuses
    <3> QED BY <2>1, <3>2, <3>3
  <2> QED BY <1>0, <2>1, <2>2, OnceFrame
<1> QED BY DeskSteps, <1>1, <1>2, <1>3, <1>4

\* However many admins approve a request, and whatever ids the clock gives,
\* it has one reservation once it is approved and none before.
THEOREM ApprovedExactlyOnce == Spec => []ApprovedOnce
<1>1. Init => OnceInv
  BY DEF Init, OnceInv, ReservedApproved, RequestUnique, ApprovedReserved
<1>2. TypeInv /\ OnceInv => ApprovedOnce
  <2> SUFFICES ASSUME TypeInv, OnceInv, NEW b \in BookingIds
               PROVE  Cardinality({r \in ResIds : res[r] # None /\ res[r].booking = b})
                        = IF bookings[b] # None /\ bookings[b].status = "approved" THEN 1 ELSE 0
    BY DEF ApprovedOnce
  <2> DEFINE S == {r \in ResIds : res[r] # None /\ res[r].booking = b}
  <2>1. CASE bookings[b] # None /\ bookings[b].status = "approved"
    <3>1. PICK r \in ResIds : res[r] # None /\ res[r].booking = b
      BY <2>1 DEF OnceInv, ApprovedReserved
    <3>2. S = {r}
      BY <3>1 DEF OnceInv, RequestUnique
    <3> QED BY <2>1, <3>2, FS_Singleton
  <2>2. CASE ~ (bookings[b] # None /\ bookings[b].status = "approved")
    <3>1. S = {}
      BY <2>2 DEF OnceInv, ReservedApproved
    <3> QED BY <2>2, <3>1, FS_EmptySet
  <2> QED BY <2>1, <2>2
<1>3. Spec => []TypeInv
  BY InitTypeInv, TypeInvStep, PTL DEF Spec
<1> QED BY <1>1, <1>2, <1>3, OnceInvStep, PTL DEF Spec

-----------------------------------------------------------------------------
(* Refusals.  A request that is still pending has no reservation, and the  *)
(* version an approval read.                                               *)

ReadFresh ==
  \A c \in Calls :
    LET k == calls[c] IN
    k.step = "approve" /\ bookings[k.booking].status = "pending"
      => bookings[k.booking].version = k.version

\* An approval begins with a read of the request as it is.
LEMMA ApproveBegins ==
  ASSUME TypeInv, [Next]_vars, NEW c \in Calls, calls'[c].step = "approve"
  PROVE  \/ calls'[c] = calls[c]
         \/ /\ calls'[c].version = bookings[calls'[c].booking].version
            /\ bookings' = bookings
<1>0. /\ calls \in [Calls -> Call]
      /\ "approve" \notin {"idle", "submit", "audit", "checkout", "return", "suspend"}
  BY DEF TypeInv, TypeOK
<1>1. ASSUME NEW d \in Calls, NEW next, Goto(d, next), next.step # "approve"
      PROVE  calls'[c] = calls[c]
  BY <1>0, <1>1 DEF Goto
<1>2. ASSUME NEW d \in Calls, NEW u \in Users, NEW b \in BookingIds, ApproveRead(d, u, b)
      PROVE  \/ calls'[c] = calls[c]
             \/ calls'[c].version = bookings[calls'[c].booking].version /\ bookings' = bookings
  BY <1>0, <1>2 DEF ApproveRead, Goto, store
<1>3. ASSUME NEW d \in Calls, Request(d), \A u \in Users, b \in BookingIds : ~ ApproveRead(d, u, b)
      PROVE  calls'[c] = calls[c]
  BY <1>1, <1>3 DEF Request, CreateBatch, SubmitRead, CheckoutRead, ReturnRead, AddMaintenance,
                    ReportIncident, GotoAudit
<1>4. ASSUME NEW d \in Calls, NEW r \in ResIds, ApproveTx(d, r) PROVE calls'[c] = calls[c]
  BY <1>1, <1>4 DEF ApproveTx, GotoAudit, Finish, Idle
<1>5. ASSUME NEW d \in Calls, SubmitInsert(d) \/ CheckoutTx(d) \/ ReturnTx(d)
      PROVE  calls'[c] = calls[c]
  BY <1>1, <1>5 DEF SubmitInsert, CheckoutTx, ReturnTx, GotoAudit, Finish, Idle
<1>6. ASSUME NEW d \in Calls, Suspend(d) \/ WriteAudit(d) \/ CallFails(d)
      PROVE  calls'[c] = calls[c]
  BY <1>1, <1>6 DEF Suspend, WriteAudit, CallFails, Finish, Idle
<1>7. ASSUME Crash PROVE FALSE
  BY <1>7 DEF Crash, Idle
<1>8. ASSUME NEW u \in Users, NEW i \in IncidentIds, ResolveIncident(u, i)
      PROVE  calls'[c] = calls[c]
  BY <1>8 DEF ResolveIncident
<1>9. ASSUME NEW e \in Equipment, NEW s \in EquipmentStates, UpdateEquipmentStatus(e, s)
      PROVE  calls'[c] = calls[c]
  BY <1>9 DEF UpdateEquipmentStatus
<1>10. CASE UNCHANGED vars
  BY <1>10 DEF vars
<1> QED
  BY <1>2, <1>3, <1>4, <1>5, <1>6, <1>7, <1>8, <1>9, <1>10 DEF Next, Continue, Request

LEMMA ReadFreshStep == TypeInv /\ ReadFresh /\ [Next]_vars => ReadFresh'
<1> SUFFICES ASSUME TypeInv, ReadFresh, [Next]_vars, NEW c \in Calls, calls'[c].step = "approve",
                    bookings'[calls'[c].booking].status = "pending"
             PROVE  bookings'[calls'[c].booking].version = calls'[c].version
  BY DEF ReadFresh
<1>1. CASE calls'[c] = calls[c]
  <2>1. calls[c].booking \in BookingIds /\ bookings[calls[c].booking] # None
    BY <1>1, CallShapes DEF TypeInv, TypeOK, CallsOK, CallOK, ApproveCall
  <2>2. bookings'[calls[c].booking] = bookings[calls[c].booking]
    BY <1>1, <2>1, BookingStep
  <2> QED BY <1>1, <2>2 DEF ReadFresh
<1>2. CASE calls'[c].version = bookings[calls'[c].booking].version /\ bookings' = bookings
  BY <1>2
<1> QED BY <1>1, <1>2, ApproveBegins

\* Where every window is in whole seconds of UTC, no approval is refused on
\* account of a window that only touches its own, of a reservation that is
\* over, or of a request that somebody changed but did not decide.
THEOREM CanonicalRefusals ==
  ASSUME \A w \in Windows : Canonical(w)
  PROVE  Spec => []RefusedForAReason
<1>1. TypeInv /\ OnceInv /\ ReadFresh => RefusedForAReason
  <2> SUFFICES ASSUME TypeInv, OnceInv, ReadFresh, NEW c \in Calls, NEW r \in ResIds,
                      calls[c].step = "approve", ~ CanApprove(calls[c], r),
                      bookings[calls[c].booking].status = "pending", res[r] = None
               PROVE  LET row == bookings[calls[c].booking] IN
                      \/ \E s \in ResIds : /\ Active(s) /\ res[s].equip = row.equip
                                           /\ Overlaps(res[s].window, row.window)
                      \/ \E k \in BlockIds : /\ blocks[k] # None /\ blocks[k].equip = row.equip
                                             /\ Overlaps(blocks[k].window, row.window)
    BY DEF RefusedForAReason
  <2> DEFINE row == bookings[calls[c].booking]
  <2>1. row.window \in Windows
    BY CallShapes DEF TypeInv, TypeOK, CallsOK, CallOK, ApproveCall, BookingRow
  <2>2. BookingMatches(calls[c].booking, "pending", calls[c].version)
    BY DEF ReadFresh, BookingMatches
  <2>3. FreshReservation(r, calls[c].booking)
    BY DEF OnceInv, ReservedApproved, FreshReservation
  <2>4. HasConflict(row.equip, row.window) \/ HasMaintenance(row.equip, row.window)
    BY <2>2, <2>3 DEF CanApprove
  <2>5. ASSUME NEW s \in ResIds, HoldsSlot(s, row.equip, row.window)
        PROVE  /\ Active(s) /\ res[s].equip = row.equip
               /\ Overlaps(res[s].window, row.window)
    BY <2>1, <2>5, CanonicalOverlap, InputAssumption
    DEF HoldsSlot, Active, TypeInv, TypeOK, Reservation
  <2>6. ASSUME NEW k \in BlockIds, blocks[k] # None, blocks[k].equip = row.equip,
               SqlOverlaps(blocks[k].window, row.window)
        PROVE  Overlaps(blocks[k].window, row.window)
    BY <2>1, <2>6, CanonicalOverlap, InputAssumption DEF TypeInv, TypeOK, Block
  <2> QED BY <2>4, <2>5, <2>6 DEF HasConflict, HasMaintenance
<1>2. Init => TypeInv /\ OnceInv /\ ReadFresh
  BY InitTypeInv DEF Init, OnceInv, ReservedApproved, RequestUnique, ApprovedReserved,
                     ReadFresh, Idle
<1> QED BY <1>1, <1>2, TypeInvStep, OnceInvStep, ReadFreshStep, PTL DEF Spec

-----------------------------------------------------------------------------
(* The ledger of consumables.  A reservation's version tells how often its *)
(* status was written by a transaction, which is what makes the ledger     *)
(* follow from the row.                                                    *)

VersionsCount ==
  \A r \in ResIds :
    res[r] # None =>
      /\ res[r].status \in {"held", "checked_out", "suspended", "returned"}
      /\ res[r].status = "held" => res[r].version = 1
      /\ res[r].status = "checked_out" => res[r].version = 2
      /\ res[r].status = "suspended" => res[r].version \in {1, 2}

LedgerInv == VersionsCount /\ LedgerFollowsStatus /\ SingleIssue

LEMMA LedgerInvStep == TypeInv /\ LedgerInv /\ [Next]_vars => LedgerInv'
<1> SUFFICES ASSUME TypeInv, LedgerInv, [Next]_vars PROVE LedgerInv'
  OBVIOUS
<1> USE DEF TypeInv, TypeOK
\* What has to be shown of one reservation.
<1> DEFINE Counted(r) ==
             res'[r] # None =>
               /\ res'[r].status \in {"held", "checked_out", "suspended", "returned"}
               /\ res'[r].status = "held" => res'[r].version = 1
               /\ res'[r].status = "checked_out" => res'[r].version = 2
               /\ res'[r].status = "suspended" => res'[r].version \in {1, 2}
           Follows(r) == (\E m \in Consumables : taken'[r][m] > 0) <=> CheckedOutOnce(r)'
           Single(r) ==
             \A m, n \in Consumables : taken'[r][m] > 0 /\ taken'[r][n] > 0 => m = n
           Good(r) == Counted(r) /\ Follows(r) /\ Single(r)
<1>0. SUFFICES ASSUME NEW r \in ResIds PROVE Good(r)
  BY DEF LedgerInv, VersionsCount, LedgerFollowsStatus, SingleIssue
<1>1. ASSUME res'[r] = res[r], taken'[r] = taken[r]
      PROVE  Good(r)
  BY <1>1 DEF LedgerInv, VersionsCount, LedgerFollowsStatus, SingleIssue, CheckedOutOnce
<1>2. CASE UNCHANGED << bookings, res, stock, taken >>
  BY <1>1, <1>2
<1>3. ASSUME NEW c \in Calls, SubmitInsert(c)
      PROVE  Good(r)
  BY <1>1, <1>3 DEF SubmitInsert
<1>4. ASSUME NEW c \in Calls, NEW s \in ResIds, ApproveTx(c, s)
      PROVE  Good(r)
  <2>1. CASE res'[r] = res[r]
    BY <1>1, <1>4, <2>1 DEF ApproveTx
  <2>2. CASE res'[r] # res[r]
    <3>1. /\ res[r] = None
          /\ res'[r].status = "held" /\ res'[r].version = 1
          /\ taken' = taken
      BY <1>4, <2>2 DEF ApproveTx, CanApprove, FreshReservation
    <3>2. \A m \in Consumables : ~ taken[r][m] > 0
      BY <3>1 DEF LedgerInv, LedgerFollowsStatus, CheckedOutOnce
    <3> QED BY <3>1, <3>2 DEF CheckedOutOnce
  <2> QED BY <2>1, <2>2
<1>5. ASSUME NEW c \in Calls, CheckoutTx(c)
      PROVE  Good(r)
  <2> DEFINE k == calls[c]
  <2>0. k \in CheckoutCall /\ res[k.res] \in Reservation /\ k.quantity > 0
    BY <1>5, CallShapes DEF CheckoutTx, CallsOK, CallOK, CheckoutCall
  <2>1. CASE ~ CanCheckout(k) \/ r # k.res
    BY <1>1, <1>5, <2>0, <2>1 DEF CheckoutTx, MoveReservation, CheckoutCall
  <2>2. CASE CanCheckout(k) /\ r = k.res
    <3>1. res[r].status = "held" /\ res[r].version = 1 /\ res[r] # None
      BY <2>0, <2>2, NoneAssumption
      DEF CanCheckout, ReservationMatches, LedgerInv, VersionsCount
    <3>2. res'[r] = Moved(res[r], "checked_out")
      BY <1>5, <2>0, <2>2 DEF CheckoutTx, MoveReservation, CheckoutCall
    <3>3. /\ res'[r] # None
          /\ res'[r].status = "checked_out" /\ res'[r].version = 2
      BY <2>0, <2>2, <3>1, <3>2, MovedReservation, NoneAssumption DEF ReservationStatuses
    <3>4. \A m \in Consumables : ~ taken[r][m] > 0
      BY <3>1 DEF LedgerInv, LedgerFollowsStatus, CheckedOutOnce
    <3>5. taken'[r] = [taken[r] EXCEPT ![k.consumable] = k.quantity]
      BY <1>5, <2>0, <2>2 DEF CheckoutTx, CheckoutCall
    <3>6. \A m \in Consumables : taken'[r][m] > 0 <=> m = k.consumable
      BY <2>0, <3>4, <3>5 DEF CheckoutCall
    <3> QED BY <2>0, <3>3, <3>6 DEF CheckedOutOnce, CheckoutCall
  <2> QED BY <2>1, <2>2
<1>6. ASSUME NEW c \in Calls, ReturnTx(c)
      PROVE  Good(r)
  <2> DEFINE k == calls[c]
  <2>0. k \in ReturnCall /\ res[k.res] \in Reservation
    BY <1>6, CallShapes DEF ReturnTx, CallsOK, CallOK, ReturnCall
  <2>1. CASE r # k.res \/ ~ ReservationMatches(k.res, k.status, k.version)
    BY <1>1, <1>6, <2>0, <2>1 DEF ReturnTx, RestoreConsumables, MoveReservation, ReturnCall
  <2>2. CASE r = k.res /\ ReservationMatches(k.res, k.status, k.version)
    <3>1. /\ res'[r] = Moved(res[r], "returned")
          /\ taken'[r] = [m \in Consumables |-> 0]
      BY <1>6, <2>2 DEF ReturnTx, RestoreConsumables, MoveReservation
    <3>2. res'[r].status = "returned"
      BY <2>0, <2>2, <3>1, MovedReservation DEF ReservationStatuses
    <3> QED BY <3>1, <3>2 DEF CheckedOutOnce
  <2> QED BY <2>1, <2>2
<1>7. ASSUME NEW c \in Calls, Suspend(c)
      PROVE  Good(r)
  <2>1. CASE res'[r] = res[r]
    BY <1>1, <1>7, <2>1 DEF Suspend
  <2>2. CASE res'[r] # res[r]
    <3>1. /\ res[r] \in Reservation /\ res[r] # None
          /\ res[r].status \in {"held", "checked_out"}
          /\ res'[r] = [res[r] EXCEPT !.status = "suspended"]
          /\ taken' = taken
      BY <1>7, <2>2 DEF Suspend, Suspends, InUseStatuses
    <3>2. res'[r] \in Reservation
      BY <3>1 DEF Reservation, ReservationStatuses
    <3>3. /\ res'[r].status = "suspended" /\ res'[r].version = res[r].version
          /\ res'[r] # None
      BY <3>1, <3>2, NoneAssumption DEF Reservation
    <3> QED
      BY <3>1, <3>3 DEF LedgerInv, VersionsCount, LedgerFollowsStatus, SingleIssue, CheckedOutOnce
  <2> QED BY <2>1, <2>2
<1> QED BY DeskSteps, <1>2, <1>3, <1>4, <1>5, <1>6, <1>7

LEMMA LedgerInvAlways == Spec => []LedgerInv
<1>1. Init => LedgerInv
  BY DEF Init, LedgerInv, VersionsCount, LedgerFollowsStatus, SingleIssue, CheckedOutOnce
<1>2. Spec => []TypeInv
  BY InitTypeInv, TypeInvStep, PTL DEF Spec
<1> QED BY <1>1, <1>2, LedgerInvStep, PTL DEF Spec

\* Consumables are out exactly from a reservation's check-out to its return.
THEOREM LedgerCorrect == Spec => []LedgerFollowsStatus
  BY LedgerInvAlways, PTL DEF LedgerInv

\* A reservation is issued one consumable at most.
THEOREM IssuedOnce == Spec => []SingleIssue
  BY LedgerInvAlways, PTL DEF LedgerInv

=============================================================================
