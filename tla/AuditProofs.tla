------------------------------ MODULE AuditProofs ------------------------------
(***************************************************************************)
(* Theorems about the audit log and about maintenance blocks: the log is   *)
(* truthful whatever fails, and complete if nothing does; and, if nothing  *)
(* fails, no reservation can be used inside a block.                       *)
(***************************************************************************)
EXTENDS BookingProofs

-----------------------------------------------------------------------------
(* How the tables grow.                                                    *)

\* No statement deletes or changes a batch or a block.
LEMMA TablesKept ==
  ASSUME TypeInv, [Next]_vars
  PROVE  /\ \A b \in BatchIds : batches[b] # None => batches'[b] = batches[b]
         /\ \A k \in BlockIds : blocks[k] # None => blocks'[k] = blocks[k]
<1> USE DEF TypeInv, TypeOK
<1>1. ASSUME NEW c \in Calls, Request(c)
      PROVE  /\ \A b \in BatchIds : batches[b] # None => batches'[b] = batches[b]
             /\ \A k \in BlockIds : blocks[k] # None => blocks'[k] = blocks[k]
  BY <1>1 DEF Request, store, CreateBatch, SubmitRead, ApproveRead, CheckoutRead, ReturnRead,
              AddMaintenance, ReportIncident
<1>2. ASSUME NEW c \in Calls, Continue(c) \/ CallFails(c) PROVE UNCHANGED << batches, blocks >>
  BY <1>2 DEF Continue, SubmitInsert, ApproveTx, CheckoutTx, ReturnTx, Suspend, WriteAudit,
              CallFails, store
<1>3. ASSUME NEW u \in Users, NEW i \in IncidentIds, ResolveIncident(u, i)
      PROVE  UNCHANGED << batches, blocks >>
  BY <1>3 DEF ResolveIncident
<1>4. ASSUME NEW e \in Equipment, NEW s \in EquipmentStates, UpdateEquipmentStatus(e, s)
      PROVE  UNCHANGED << batches, blocks >>
  BY <1>4 DEF UpdateEquipmentStatus
<1>5. CASE Crash \/ UNCHANGED vars
  BY <1>5 DEF Crash, vars, store
<1> QED BY <1>1, <1>2, <1>3, <1>4, <1>5 DEF Next

\* A call changes by a step of its own, or because the process stops.
LEMMA OwnStep ==
  ASSUME TypeInv, [Next]_vars, NEW c \in Calls, calls'[c] # calls[c]
  PROVE  Request(c) \/ Continue(c) \/ CallFails(c) \/ Crash
<1> USE DEF TypeInv, TypeOK, GotoAudit, Goto, Finish
<1>1. ASSUME NEW d \in Calls, Request(d) \/ Continue(d) \/ CallFails(d)
      PROVE  d = c
  <2>1. ASSUME d # c, Request(d) PROVE FALSE
    BY <2>1 DEF Request, CreateBatch, SubmitRead, ApproveRead, CheckoutRead, ReturnRead,
                AddMaintenance, ReportIncident
  <2>2. ASSUME d # c, Continue(d) PROVE FALSE
    BY <2>2 DEF Continue, SubmitInsert, ApproveTx, CheckoutTx, ReturnTx, Suspend, WriteAudit
  <2>3. ASSUME d # c, CallFails(d) PROVE FALSE
    BY <2>3 DEF CallFails
  <2> QED BY <1>1, <2>1, <2>2, <2>3
<1>2. ASSUME NEW u \in Users, NEW i \in IncidentIds, ResolveIncident(u, i)
      PROVE  FALSE
  BY <1>2 DEF ResolveIncident
<1>3. ASSUME NEW e \in Equipment, NEW s \in EquipmentStates, UpdateEquipmentStatus(e, s)
      PROVE  FALSE
  BY <1>3 DEF UpdateEquipmentStatus
<1>4. ~ UNCHANGED vars
  BY DEF vars
<1> QED BY <1>1, <1>2, <1>3, <1>4 DEF Next

\* Nothing but a call's last step changes the log.
LEMMA AuditStep ==
  ASSUME [Next]_vars
  PROVE  audit' = audit \/ \E c \in Calls : WriteAudit(c)
<1>1. ASSUME NEW c \in Calls, Request(c) \/ Continue(c) \/ CallFails(c), ~ WriteAudit(c)
      PROVE  audit' = audit
  BY <1>1 DEF Request, CreateBatch, SubmitRead, ApproveRead, CheckoutRead, ReturnRead,
              AddMaintenance, ReportIncident, Continue, SubmitInsert, ApproveTx, CheckoutTx,
              ReturnTx, Suspend, CallFails
<1>2. CASE Crash \/ UNCHANGED vars
  BY <1>2 DEF Crash, vars
<1> QED BY <1>1, <1>2 DEF Next, ResolveIncident, UpdateEquipmentStatus

\* A new block is made by a call that goes on to suspend its window.
LEMMA NewBlock ==
  ASSUME TypeInv, [Next]_vars, NEW k \in BlockIds, blocks[k] = None, blocks'[k] # None
  PROVE  \E c \in Calls :
           /\ calls'[c].step = "suspend"
           /\ calls'[c].equip = blocks'[k].equip /\ calls'[c].window = blocks'[k].window
           /\ calls'[c].event = [action |-> "maintenance.create", entity |-> blocks'[k].equip]
           /\ res' = res
<1> USE DEF TypeInv, TypeOK
<1>1. ASSUME NEW c \in Calls, NEW u \in Users, NEW i \in BlockIds, NEW e \in Equipment,
             NEW w \in Windows, NEW now \in Readings, AddMaintenance(c, u, i, e, w, now)
      PROVE  /\ calls'[c].step = "suspend"
             /\ calls'[c].equip = blocks'[k].equip /\ calls'[c].window = blocks'[k].window
             /\ calls'[c].event = [action |-> "maintenance.create", entity |-> blocks'[k].equip]
             /\ res' = res
  <2>1. i = k /\ blocks'[k] = [equip |-> e, window |-> w]
    BY <1>1 DEF AddMaintenance
  <2>2. calls'[c] = [step |-> "suspend", equip |-> e, window |-> w,
                     event |-> [action |-> "maintenance.create", entity |-> e]]
    BY <1>1 DEF AddMaintenance, Goto
  <2> QED BY <1>1, <2>1, <2>2 DEF AddMaintenance
<1>2. ASSUME NEW c \in Calls, Continue(c) \/ CallFails(c)
      PROVE  FALSE
  BY <1>2 DEF Continue, SubmitInsert, ApproveTx, CheckoutTx, ReturnTx, Suspend, WriteAudit,
              CallFails, store
<1>3. ASSUME NEW c \in Calls, Request(c)
      PROVE  \E u \in Users, i \in BlockIds, e \in Equipment, w \in Windows, now \in Readings :
               AddMaintenance(c, u, i, e, w, now)
  BY <1>3 DEF Request, CreateBatch, SubmitRead, ApproveRead, CheckoutRead, ReturnRead,
              ReportIncident, store
<1>4. ~ Crash /\ ~ UNCHANGED vars
  BY DEF Crash, vars, store
<1>5. \E c \in Calls : Request(c)
  BY <1>2, <1>4 DEF Next, ResolveIncident, UpdateEquipmentStatus
<1> QED BY <1>1, <1>3, <1>5

\* A reservation's version never goes back.
LEMMA VersionStep ==
  ASSUME TypeInv, [Next]_vars, NEW r \in ResIds, res[r] # None
  PROVE  res'[r].version >= res[r].version
<1> USE DEF TypeInv
<1>0. res[r] \in Reservation /\ res[r].version \in Nat
  BY DEF TypeOK, Reservation
<1>1. ASSUME NEW c \in Calls, CheckoutTx(c) \/ ReturnTx(c)
      PROVE  \/ res'[r] = res[r]
             \/ res'[r] = Moved(res[r], "checked_out") \/ res'[r] = Moved(res[r], "returned")
  BY <1>1 DEF CheckoutTx, ReturnTx, MoveReservation, TypeOK
<1>2. ASSUME NEW c \in Calls, Suspend(c)
      PROVE  res'[r] = res[r] \/ res'[r] = [res[r] EXCEPT !.status = "suspended"]
  BY <1>2 DEF Suspend
<1>3. ASSUME NEW c \in Calls, SubmitInsert(c) \/ \E s \in ResIds : ApproveTx(c, s)
      PROVE  res'[r] = res[r]
  BY <1>3 DEF SubmitInsert, ApproveTx, CanApprove, FreshReservation, TypeOK
<1>4. CASE res'[r] = Moved(res[r], "checked_out") \/ res'[r] = Moved(res[r], "returned")
  BY <1>0, <1>4, MovedReservation DEF ReservationStatuses
<1>5. CASE res'[r] = [res[r] EXCEPT !.status = "suspended"]
  BY <1>0, <1>5 DEF Reservation
<1>6. CASE res'[r] = res[r]
  BY <1>0, <1>6
<1> QED BY DeskSteps, <1>1, <1>2, <1>3, <1>4, <1>5, <1>6

-----------------------------------------------------------------------------
(* What the log says has happened.                                         *)

\* The event a call has still to write.
Owed(c) == calls[c].step \in {"audit", "suspend"} /\ calls[c].event # None

\* A call owes an event only for what it has committed.
TruthInv == AuditTruthful /\ \A c \in Calls : Owed(c) => Happened(calls[c].event)

DeskInv == TypeInv /\ OnceInv /\ LedgerInv

LEMMA DeskInvAlways == Spec => []DeskInv
<1>1. Init => OnceInv
  BY DEF Init, OnceInv, ReservedApproved, RequestUnique, ApprovedReserved
<1>2. Spec => []TypeInv
  BY InitTypeInv, TypeInvStep, PTL DEF Spec
<1>3. Spec => []OnceInv
  BY <1>1, <1>2, OnceInvStep, PTL DEF Spec
<1> QED BY <1>2, <1>3, LedgerInvAlways, PTL DEF DeskInv

LEMMA EventShapes ==
  ASSUME NEW e \in Event
  PROVE  \/ e.action = "batch.create" /\ e.entity \in BatchIds
         \/ e.action = "booking.submit" /\ e.entity \in BookingIds
         \/ /\ e.action \in {"booking.approve", "reservation.checkout", "reservation.return"}
            /\ e.entity \in ResIds
         \/ e.action = "maintenance.create" /\ e.entity \in Equipment
  BY DEF Event

\* What has happened still shows after any step.
LEMMA HappenedStays ==
  ASSUME DeskInv, DeskInv', [Next]_vars, NEW e \in Event, Happened(e)
  PROVE  Happened(e)'
<1> DEFINE x == e.entity
<1>0. TypeInv
  BY DEF DeskInv
<1>1. CASE e.action = "batch.create" /\ x \in BatchIds
  BY <1>0, <1>1, TablesKept DEF Happened
<1>2. CASE e.action = "booking.submit" /\ x \in BookingIds
  BY <1>0, <1>2, BookingStep DEF Happened
<1>3. CASE e.action = "booking.approve" /\ x \in ResIds
  <2>1. res[x] # None
    BY <1>3 DEF Happened
  <2>2. res'[x] # None
    BY <1>0, <1>3, <2>1, RowStep DEF SameRow
  <2>3. bookings'[res'[x].booking].status = "approved"
    BY <1>3, <2>2 DEF DeskInv, OnceInv, ReservedApproved
  <2> QED BY <1>3, <2>2, <2>3 DEF Happened
<1>4. CASE e.action = "reservation.checkout" /\ x \in ResIds
  <2>1. /\ res[x] # None /\ res[x].status \in {"checked_out", "suspended", "returned"}
        /\ res[x].version > 1
    BY <1>4 DEF Happened
  <2>2. res'[x] # None /\ res'[x].status \in {"checked_out", "suspended", "returned"}
    <3>1. /\ SameRow(x)
          /\ res'[x].status = res[x].status \/ CanMove(res[x].status, res'[x].status)
      BY <1>0, <1>4, <2>1, RowStep
    <3>2. res'[x].status \in {"held", "checked_out", "suspended", "returned"}
      BY <1>4, <3>1 DEF DeskInv, LedgerInv, VersionsCount, SameRow
    <3> QED BY <2>1, <3>1, <3>2 DEF SameRow, CanMove
  <2>3. res[x].version \in Nat /\ res'[x].version \in Nat
    BY <1>4, <2>1, <2>2 DEF DeskInv, TypeInv, TypeOK, Reservation
  <2>4. res'[x].version >= res[x].version
    BY <1>0, <1>4, <2>1, VersionStep
  <2>5. res'[x].version > 1
    BY <2>1, <2>3, <2>4
  <2> QED BY <1>4, <2>2, <2>5 DEF Happened
<1>5. CASE e.action = "reservation.return" /\ x \in ResIds
  <2>1. res[x] # None /\ res[x].status = "returned"
    BY <1>5 DEF Happened
  <2>2. res'[x] # None /\ res'[x].status = "returned"
    <3>1. /\ SameRow(x)
          /\ res'[x].status = res[x].status \/ CanMove(res[x].status, res'[x].status)
      BY <1>0, <1>5, <2>1, RowStep
    <3> QED BY <2>1, <3>1 DEF SameRow, CanMove
  <2> QED BY <1>5, <2>2 DEF Happened
<1>6. CASE e.action = "maintenance.create"
  <2>1. PICK k \in BlockIds : blocks[k] # None /\ blocks[k].equip = x
    BY <1>6 DEF Happened
  <2>2. blocks'[k] = blocks[k]
    BY <1>0, <2>1, TablesKept
  <2> QED BY <1>6, <2>1, <2>2 DEF Happened
<1> QED BY <1>1, <1>2, <1>3, <1>4, <1>5, <1>6, EventShapes

\* How a call comes to owe an event it did not owe: it has just committed.
LEMMA NewEvent ==
  ASSUME TypeInv, LedgerInv, LedgerInv', [Next]_vars, NEW c \in Calls, calls'[c] # calls[c],
         NEW e \in Event, calls'[c].step \in {"audit", "suspend"}, calls'[c].event = e
  PROVE  \/ calls[c].step = "suspend" /\ calls[c].event = e
         \/ Happened(e)'
<1> USE DEF TypeInv, TypeOK, GotoAudit, Goto, Finish, Idle
<1>0. e # None
  BY NoneAssumption
<1>1. ASSUME NEW u \in Users, NEW b \in BatchIds, NEW n \in Counts, NEW w \in Windows,
             NEW now \in Readings, CreateBatch(c, u, b, n, w, now)
      PROVE  Happened(e)'
  <2>1. e = [action |-> "batch.create", entity |-> b]
    BY <1>1 DEF CreateBatch
  <2>2. batches'[b] # None
    BY <1>1, InputAssumption, NoneAssumption DEF CreateBatch, Batch
  <2> QED BY <2>1, <2>2 DEF Happened
<1>2. ASSUME NEW u \in Users, NEW k \in BlockIds, NEW eq \in Equipment, NEW w \in Windows,
             NEW now \in Readings, AddMaintenance(c, u, k, eq, w, now)
      PROVE  Happened(e)'
  <2>1. e = [action |-> "maintenance.create", entity |-> eq]
    BY <1>2 DEF AddMaintenance
  <2>2. blocks'[k] # None /\ blocks'[k].equip = eq
    BY <1>2, NoneAssumption DEF AddMaintenance, Block
  <2> QED BY <2>1, <2>2 DEF Happened
<1>3. CASE Request(c)
  BY <1>0, <1>1, <1>2, <1>3
  DEF Request, SubmitRead, ApproveRead, CheckoutRead, ReturnRead, ReportIncident
<1>4. CASE SubmitInsert(c)
  <2>1. calls[c] \in SubmitCall
    BY <1>4, CallShapes DEF SubmitInsert
  <2>2. e = [action |-> "booking.submit", entity |-> calls[c].booking]
    BY <1>4 DEF SubmitInsert
  <2>3. bookings'[calls[c].booking] = calls[c].row
    BY <1>4, <2>1 DEF SubmitInsert, SubmitCall
  <2>4. bookings'[e.entity] # None
    BY <2>1, <2>2, <2>3, NoneAssumption DEF SubmitCall
  <2> QED BY <2>2, <2>4 DEF Happened
<1>5. ASSUME NEW r \in ResIds, ApproveTx(c, r)
      PROVE  Happened(e)'
  <2> DEFINE b == calls[c].booking
  <2>1. /\ b \in BookingIds /\ bookings[b] \in BookingRow
        /\ e = [action |-> "booking.approve", entity |-> r]
        /\ bookings'[b] = Moved(bookings[b], "approved")
    BY <1>5, CallShapes DEF ApproveTx, ApproveCall, CallsOK, CallOK
  <2>2. res'[r] # None /\ res'[r].booking = b
    <3>1. res'[r].booking = b
      BY <1>5, <2>1 DEF ApproveTx
    <3>2. res'[r] \in Reservation
      BY <1>5, <2>1 DEF ApproveTx, Reservation, BookingRow, ReservationStatuses
    <3> QED BY <3>1, <3>2, NoneAssumption
  <2>3. bookings'[b].status = "approved"
    BY <2>1, MovedBooking DEF RequestStatuses
  <2> QED BY <2>1, <2>2, <2>3 DEF Happened
<1>6. CASE CheckoutTx(c)
  <2> DEFINE r == calls[c].res
  <2>1. /\ r \in ResIds /\ res[r] \in Reservation
        /\ e = [action |-> "reservation.checkout", entity |-> r]
        /\ res'[r] = Moved(res[r], "checked_out")
    BY <1>6, CallShapes DEF CheckoutTx, CheckoutCall, CallsOK, CallOK, MoveReservation
  <2>2. res'[r] \in Reservation /\ res'[r].status = "checked_out"
    BY <2>1, MovedReservation DEF ReservationStatuses
  <2>3. res'[r] # None /\ res'[r].version = 2
    BY <2>1, <2>2, NoneAssumption DEF LedgerInv, VersionsCount
  <2>4. res'[e.entity] = res'[r]
    BY <2>1
  <2> QED BY <2>1, <2>2, <2>3, <2>4 DEF Happened
<1>7. CASE ReturnTx(c)
  <2> DEFINE r == calls[c].res
  <2>1. /\ r \in ResIds /\ res[r] \in Reservation
        /\ e = [action |-> "reservation.return", entity |-> r]
        /\ res'[r] = Moved(res[r], "returned")
    BY <1>7, CallShapes DEF ReturnTx, ReturnCall, CallsOK, CallOK, MoveReservation
  <2>2. res'[r] \in Reservation /\ res'[r].status = "returned"
    BY <2>1, MovedReservation DEF ReservationStatuses
  <2> QED BY <2>1, <2>2, NoneAssumption DEF Happened
<1>8. CASE Suspend(c)
  BY <1>8 DEF Suspend
<1>9. CASE WriteAudit(c) \/ CallFails(c) \/ Crash
  BY <1>9 DEF WriteAudit, CallFails, Crash
<1>10. Request(c) \/ Continue(c) \/ CallFails(c) \/ Crash
  BY OwnStep
<1> QED BY <1>3, <1>4, <1>5, <1>6, <1>7, <1>8, <1>9, <1>10 DEF Continue

LEMMA TruthStep == DeskInv /\ DeskInv' /\ TruthInv /\ [Next]_vars => TruthInv'
<1> SUFFICES ASSUME DeskInv, DeskInv', TruthInv, [Next]_vars PROVE TruthInv'
  OBVIOUS
<1>0. TypeInv /\ LedgerInv /\ LedgerInv'
  BY DEF DeskInv
<1>1. ASSUME NEW c \in Calls, Owed(c)'
      PROVE  Happened(calls[c].event)'
  <2>1. calls'[c] \in Call /\ calls'[c].step \in {"audit", "suspend"} /\ calls'[c].event # None
    BY <1>1 DEF DeskInv, TypeInv, TypeOK, Owed
  <2>2. PICK e \in Event : e = calls'[c].event
    BY <2>1, CallShapes DEF AuditCall, SuspendCall
  <2>3. Happened(e)'
    <3>1. CASE calls[c].step \in {"suspend", "audit"} /\ calls[c].event = e
      <4>1. Happened(e)
        BY <3>1, NoneAssumption DEF TruthInv, Owed
      <4> QED BY <4>1, HappenedStays
    <3>2. CASE calls'[c] # calls[c]
      BY <1>0, <2>1, <2>2, <3>1, <3>2, NewEvent
    <3> QED BY <2>1, <2>2, <3>1, <3>2
  <2> QED BY <2>2, <2>3 DEF Happened
<1>2. ASSUME NEW e \in audit'
      PROVE  Happened(e)'
  <2>1. e \in Event
    BY DEF DeskInv, TypeInv, TypeOK
  <2>2. CASE e \in audit
    BY <2>1, <2>2, HappenedStays DEF TruthInv, AuditTruthful
  <2>3. CASE e \notin audit
    <3>1. PICK c \in Calls : WriteAudit(c)
      BY <1>2, <2>3, AuditStep
    <3>2. calls[c].step = "audit" /\ e = calls[c].event
      BY <1>2, <2>3, <3>1 DEF WriteAudit
    <3>3. Happened(e)
      BY <2>1, <3>2, NoneAssumption DEF TruthInv, Owed
    <3> QED BY <2>1, <3>3, HappenedStays
  <2> QED BY <2>2, <2>3
<1> QED BY <1>1, <1>2 DEF TruthInv, AuditTruthful

\* What the log says happened did happen, whatever failed after or before.
THEOREM LogTruthful == Spec => []AuditTruthful
<1>1. Init => TruthInv
  BY DEF Init, TruthInv, AuditTruthful, Owed, Idle
<1>2. Spec => []TruthInv
  BY <1>1, DeskInvAlways, TruthStep, PTL DEF Spec
<1> QED BY <1>2, PTL DEF TruthInv

-----------------------------------------------------------------------------
(* Where nothing fails, every mutation is in the log or about to be.       *)

InLog(e) ==
  e \in audit \/ \E c \in Calls : calls[c].step \in {"audit", "suspend"} /\ calls[c].event = e

\* A call that has committed goes on to its end.
LEMMA CommittedStep ==
  ASSUME TypeInv, ~ Faults, [Next]_vars, NEW c \in Calls,
         calls[c].step \in {"audit", "suspend"}, calls'[c] # calls[c]
  PROVE  Suspend(c) \/ WriteAudit(c)
<1>1. Request(c) \/ Continue(c) \/ CallFails(c) \/ Crash
  BY OwnStep
<1>2. ~ CallFails(c) /\ ~ Crash
  BY DEF CallFails, Crash
<1>3. Request(c) => calls[c] = Idle
  BY DEF Request, CreateBatch, SubmitRead, ApproveRead, CheckoutRead, ReturnRead,
         AddMaintenance, ReportIncident
<1>4. calls[c] # Idle
  BY DEF Idle
<1> QED
  BY <1>1, <1>2, <1>3, <1>4
  DEF Continue, SubmitInsert, ApproveTx, CheckoutTx, ReturnTx

LEMMA InLogStays ==
  ASSUME TypeInv, ~ Faults, [Next]_vars, NEW e \in Event, InLog(e)
  PROVE  InLog(e)'
<1>1. CASE e \in audit
  BY <1>1, AuditStep DEF InLog, WriteAudit
<1>2. CASE e \notin audit
  <2>1. PICK c \in Calls : calls[c].step \in {"audit", "suspend"} /\ calls[c].event = e
    BY <1>2 DEF InLog
  <2>2. CASE calls'[c] = calls[c]
    BY <2>1, <2>2 DEF InLog
  <2>3. CASE Suspend(c)
    BY <2>1, <2>3, NoneAssumption DEF Suspend, Goto, InLog, TypeInv, TypeOK
  <2>4. CASE WriteAudit(c)
    BY <2>1, <2>4 DEF WriteAudit, InLog
  <2> QED BY <2>1, <2>2, <2>3, <2>4, CommittedStep
<1> QED BY <1>1, <1>2

\* A call that owes an event keeps the log complete.
LEMMA OwedInLog ==
  ASSUME NEW c \in Calls, NEW act, NEW x,
         calls'[c].step \in {"audit", "suspend"},
         calls'[c].event = [action |-> act, entity |-> x]
  PROVE  Logged(act, x)'
  BY DEF Logged

LEMMA LoggedStays ==
  ASSUME TypeInv, ~ Faults, [Next]_vars, NEW act, NEW x,
         [action |-> act, entity |-> x] \in Event, Logged(act, x)
  PROVE  Logged(act, x)'
<1>1. InLog([action |-> act, entity |-> x])
  BY DEF Logged, InLog
<1>2. InLog([action |-> act, entity |-> x])'
  BY <1>1, InLogStays
<1> QED BY <1>2 DEF Logged, InLog

LEMMA BatchesLogged ==
  ASSUME TypeInv, ~ Faults, [Next]_vars, AuditComplete,
         NEW b \in BatchIds, batches'[b] # None
  PROVE  Logged("batch.create", b)'
<1>1. CASE batches[b] # None
  BY <1>1, LoggedStays DEF AuditComplete, Event
<1>2. CASE batches[b] = None
  <2>1. PICK c \in Calls, u \in Users, n \in Counts, w \in Windows, now \in Readings :
          CreateBatch(c, u, b, n, w, now)
    <3>1. ASSUME NEW c \in Calls, NEW u \in Users, NEW a \in BatchIds, NEW n \in Counts,
                 NEW w \in Windows, NEW now \in Readings, CreateBatch(c, u, a, n, w, now)
          PROVE  a = b
      BY <1>2, <3>1 DEF CreateBatch, TypeInv, TypeOK
    <3>2. ASSUME NEW c \in Calls, Continue(c) \/ CallFails(c)
          PROVE  FALSE
      BY <1>2, <3>2 DEF Continue, SubmitInsert, ApproveTx, CheckoutTx, ReturnTx, Suspend,
                        WriteAudit, CallFails, store
    <3>3. ASSUME NEW c \in Calls, Request(c)
          PROVE  \E u \in Users, n \in Counts, w \in Windows, now \in Readings :
                   CreateBatch(c, u, b, n, w, now)
      BY <1>2, <3>1, <3>3 DEF Request, SubmitRead, ApproveRead, CheckoutRead, ReturnRead,
                              AddMaintenance, ReportIncident, store
    <3>4. ~ Crash /\ ~ UNCHANGED vars
      BY <1>2 DEF Crash, vars, store
    <3> QED BY <1>2, <3>2, <3>3, <3>4 DEF Next, ResolveIncident, UpdateEquipmentStatus
  <2>2. calls'[c] = [step |-> "audit", event |-> [action |-> "batch.create", entity |-> b]]
    BY <2>1 DEF CreateBatch, GotoAudit, Goto, TypeInv, TypeOK
  <2> QED BY <2>2, OwedInLog
<1> QED BY <1>1, <1>2

LEMMA BookingsLogged ==
  ASSUME TypeInv, ~ Faults, [Next]_vars, AuditComplete,
         NEW b \in BookingIds, bookings'[b] # None
  PROVE  Logged("booking.submit", b)'
<1>1. CASE bookings[b] # None
  BY <1>1, LoggedStays DEF AuditComplete, Event
<1>2. CASE bookings[b] = None
  <2>1. ASSUME NEW c \in Calls, SubmitInsert(c)
        PROVE  calls'[c] = [step |-> "audit",
                            event |-> [action |-> "booking.submit", entity |-> b]]
    <3>1. calls[c].booking = b /\ GotoAudit(c, "booking.submit", calls[c].booking)
      BY <1>2, <2>1 DEF SubmitInsert, TypeInv, TypeOK
    <3> QED BY <3>1 DEF GotoAudit, Goto, TypeInv, TypeOK
  <2>2. ASSUME NEW c \in Calls, NEW r \in ResIds, ApproveTx(c, r)
        PROVE  FALSE
    <3>1. calls[c].booking # b
      BY <1>2, <2>2 DEF ApproveTx, TypeInv, CallsOK, CallOK
    <3> QED BY <1>2, <2>2, <3>1 DEF ApproveTx, TypeInv, TypeOK
  <2>3. \E c \in Calls : SubmitInsert(c)
    BY <1>2, <2>2, DeskSteps DEF CheckoutTx, ReturnTx, Suspend
  <2> QED BY <2>1, <2>3, OwedInLog
<1> QED BY <1>1, <1>2

LEMMA BlocksLogged ==
  ASSUME TypeInv, ~ Faults, [Next]_vars, AuditComplete,
         NEW k \in BlockIds, blocks'[k] # None
  PROVE  Logged("maintenance.create", blocks[k].equip)'
<1>1. CASE blocks[k] # None
  <2>1. blocks'[k] = blocks[k] /\ blocks[k].equip \in Equipment
    BY <1>1, TablesKept DEF TypeInv, TypeOK, Block
  <2>2. PICK x \in Equipment : x = blocks[k].equip
    BY <2>1
  <2>3. Logged("maintenance.create", x)'
    BY <1>1, <2>2, LoggedStays DEF AuditComplete, Event
  <2> QED BY <2>1, <2>2, <2>3 DEF Logged
<1>2. CASE blocks[k] = None
  <2>1. PICK c \in Calls : /\ calls'[c].step = "suspend"
                           /\ calls'[c].event = [action |-> "maintenance.create",
                                                 entity |-> blocks'[k].equip]
    BY <1>2, NewBlock
  <2> QED BY <2>1 DEF Logged
<1> QED BY <1>1, <1>2

LEMMA ReservationsLogged ==
  ASSUME TypeInv, LedgerInv, ~ Faults, [Next]_vars, AuditComplete,
         NEW r \in ResIds, res'[r] # None
  PROVE  /\ Logged("booking.approve", r)'
         /\ CheckedOutOnce(r)' => Logged("reservation.checkout", r)'
         /\ res'[r].status = "returned" => Logged("reservation.return", r)'
<1> USE DEF TypeInv, TypeOK
<1>0. /\ [action |-> "booking.approve", entity |-> r] \in Event
      /\ [action |-> "reservation.checkout", entity |-> r] \in Event
      /\ [action |-> "reservation.return", entity |-> r] \in Event
  BY DEF Event
<1>1. CASE res[r] = None
  <2>1. PICK c \in Calls :
          /\ ApproveTx(c, r) /\ CanApprove(calls[c], r)
          /\ res' = [res EXCEPT ![r] =
                      [booking |-> calls[c].booking, equip |-> bookings[calls[c].booking].equip,
                       holder |-> bookings[calls[c].booking].requester,
                       window |-> bookings[calls[c].booking].window,
                       status |-> "held", version |-> 1]]
    BY <1>1, NewRow
  <2>2. calls'[c] = [step |-> "audit", event |-> [action |-> "booking.approve", entity |-> r]]
    BY <2>1 DEF ApproveTx, GotoAudit, Goto
  <2>3. Logged("booking.approve", r)'
    <3>1. /\ calls'[c].step = "audit"
          /\ calls'[c].event = [action |-> "booking.approve", entity |-> r]
      BY <2>2
    <3> QED BY <3>1, OwedInLog
  <2>4. res'[r].status = "held"
    BY <2>1
  <2> QED BY <2>3, <2>4 DEF CheckedOutOnce
<1>2. CASE res[r] # None
  <2>1. Logged("booking.approve", r)'
    BY <1>0, <1>2, LoggedStays DEF AuditComplete
  <2>2. CASE CheckedOutOnce(r)' = CheckedOutOnce(r) /\ res'[r].status = res[r].status
    BY <1>0, <1>2, <2>1, <2>2, LoggedStays DEF AuditComplete
  <2>3. ASSUME NEW c \in Calls, CheckoutTx(c), res'[r] # res[r]
        PROVE  Logged("reservation.checkout", r)' /\ res'[r].status # "returned"
    <3>1. /\ calls[c].res = r
          /\ res[r] \in Reservation
          /\ res'[r] = Moved(res[r], "checked_out")
          /\ calls'[c] = [step |-> "audit",
                          event |-> [action |-> "reservation.checkout", entity |-> r]]
      BY <1>2, <2>3 DEF CheckoutTx, MoveReservation, GotoAudit, Goto
    <3>2. res'[r].status = "checked_out"
      BY <3>1, MovedReservation DEF ReservationStatuses
    <3>3. /\ calls'[c].step = "audit"
          /\ calls'[c].event = [action |-> "reservation.checkout", entity |-> r]
      BY <3>1
    <3>4. Logged("reservation.checkout", r)'
      BY <3>3, OwedInLog
    <3> QED BY <3>2, <3>4
  <2>4. ASSUME NEW c \in Calls, ReturnTx(c), res'[r] # res[r]
        PROVE  Logged("reservation.return", r)' /\ ~ CheckedOutOnce(r)'
    <3>1. /\ calls[c].res = r
          /\ res[r] \in Reservation
          /\ res'[r] = Moved(res[r], "returned")
          /\ calls'[c] = [step |-> "audit",
                          event |-> [action |-> "reservation.return", entity |-> r]]
      BY <1>2, <2>4 DEF ReturnTx, MoveReservation, GotoAudit, Goto
    <3>2. res'[r].status = "returned"
      BY <3>1, MovedReservation DEF ReservationStatuses
    <3>3. /\ calls'[c].step = "audit"
          /\ calls'[c].event = [action |-> "reservation.return", entity |-> r]
      BY <3>1
    <3>4. Logged("reservation.return", r)'
      BY <3>3, OwedInLog
    <3> QED BY <3>2, <3>4 DEF CheckedOutOnce
  <2>5. ASSUME NEW c \in Calls, Suspend(c), res'[r] # res[r]
        PROVE  /\ res'[r].status = "suspended"
               /\ CheckedOutOnce(r)' => CheckedOutOnce(r)
    <3>1. /\ res[r].status \in {"held", "checked_out"}
          /\ res[r] \in Reservation
          /\ res'[r] = [res[r] EXCEPT !.status = "suspended"]
      BY <1>2, <2>5 DEF Suspend, Suspends, InUseStatuses
    <3>2. res'[r].status = "suspended" /\ res'[r].version = res[r].version
      BY <3>1 DEF Reservation
    <3> QED BY <1>2, <3>1, <3>2 DEF CheckedOutOnce, LedgerInv, VersionsCount
  <2>6. CASE res'[r] = res[r]
    BY <2>2, <2>6 DEF CheckedOutOnce
  <2>7. CheckedOutOnce(r) => Logged("reservation.checkout", r)'
    BY <1>0, <1>2, LoggedStays DEF AuditComplete
  <2>8. ASSUME NEW c \in Calls, SubmitInsert(c) \/ \E s \in ResIds : ApproveTx(c, s)
        PROVE  res'[r] = res[r]
    BY <1>2, <2>8 DEF SubmitInsert, ApproveTx, CanApprove, FreshReservation
  <2> QED BY <2>1, <2>3, <2>4, <2>5, <2>6, <2>7, <2>8, DeskSteps
<1> QED BY <1>1, <1>2

\* Where nothing fails, every mutation leaves its event.
THEOREM LogComplete ==
  ASSUME ~ Faults
  PROVE  Spec => []AuditComplete
<1>1. Init => AuditComplete
  BY DEF Init, AuditComplete
<1>2. DeskInv /\ DeskInv' /\ AuditComplete /\ [Next]_vars => AuditComplete'
  <2> SUFFICES ASSUME DeskInv, DeskInv', AuditComplete, [Next]_vars PROVE AuditComplete'
    OBVIOUS
  <2> USE DEF DeskInv
  <2> QED
    BY BatchesLogged, BookingsLogged, BlocksLogged, ReservationsLogged DEF AuditComplete
<1> QED BY <1>1, <1>2, DeskInvAlways, PTL DEF Spec

-----------------------------------------------------------------------------
(* Where nothing fails, a block's window is kept clear.                    *)

LEMMA ClashSymmetric ==
  ASSUME NEW v, NEW w
  PROVE  SqlOverlaps(v, w) <=> SqlOverlaps(w, v)
  BY DEF SqlOverlaps

\* No reservation is in use inside a block, save one whose suspension is on
\* its way: the approval looks for blocks in its transaction, and the block is
\* inserted before the suspension looks for reservations.
THEOREM BlockedSlotKeptClear ==
  ASSUME ~ Faults
  PROVE  Spec => []BlockedSlotNotInUse
<1>1. Init => BlockedSlotNotInUse
  BY DEF Init, BlockedSlotNotInUse, InUseUnder
<1>2. TypeInv /\ BlockedSlotNotInUse /\ [Next]_vars => BlockedSlotNotInUse'
  <2> SUFFICES ASSUME TypeInv, BlockedSlotNotInUse, [Next]_vars,
                      NEW r \in ResIds, NEW k \in BlockIds, InUseUnder(r, k)'
               PROVE  \E c \in Calls : /\ calls'[c].step = "suspend"
                                       /\ calls'[c].equip = blocks'[k].equip
                                       /\ calls'[c].window = blocks'[k].window
    BY DEF BlockedSlotNotInUse
  <2>0. /\ blocks'[k] # None /\ res'[r] # None
        /\ res'[r].equip = blocks'[k].equip
        /\ res'[r].status \in {"held", "checked_out"}
        /\ SqlOverlaps(res'[r].window, blocks'[k].window)
    BY DEF InUseUnder, SqlOverlaps
  <2>1. CASE blocks[k] = None
    BY <2>0, <2>1, NewBlock
  <2>2. CASE blocks[k] # None /\ res[r] = None
    <3>1. PICK c \in Calls :
            LET row == bookings[calls[c].booking] IN
            /\ ApproveTx(c, r) /\ CanApprove(calls[c], r)
            /\ res'[r].equip = row.equip /\ res'[r].window = row.window
      BY <2>0, <2>2, NewRow DEF TypeInv, TypeOK
    <3>2. blocks'[k] = blocks[k]
      BY <2>2, TablesKept
    <3> QED BY <2>0, <2>2, <3>1, <3>2, ClashSymmetric DEF CanApprove, HasMaintenance
  <2>3. CASE blocks[k] # None /\ res[r] # None
    <3>1. blocks'[k] = blocks[k]
      BY <2>3, TablesKept
    <3>2. /\ SameRow(r)
          /\ res'[r].status = res[r].status \/ CanMove(res[r].status, res'[r].status)
      BY <2>3, RowStep
    <3>3. InUseUnder(r, k)
      BY <2>0, <2>3, <3>1, <3>2 DEF InUseUnder, SameRow, CanMove
    <3>4. PICK c \in Calls : /\ calls[c].step = "suspend"
                             /\ calls[c].equip = blocks[k].equip
                             /\ calls[c].window = blocks[k].window
      BY <3>3 DEF BlockedSlotNotInUse
    <3>5. CASE calls'[c] = calls[c]
      BY <3>1, <3>4, <3>5
    <3>6. CASE calls'[c] # calls[c]
      <4>1. Suspend(c)
        BY <3>4, <3>6, CommittedStep DEF WriteAudit
      <4>2. Suspends(r, calls[c].equip, calls[c].window)
        BY <3>3, <3>4 DEF Suspends, InUseUnder, InUseStatuses
      <4>3. res[r] \in Reservation /\ res'[r] = [res[r] EXCEPT !.status = "suspended"]
        BY <2>3, <4>1, <4>2 DEF Suspend, TypeInv, TypeOK
      <4>4. res'[r].status = "suspended"
        BY <4>3 DEF Reservation
      <4> QED BY <2>0, <4>4
    <3> QED BY <3>5, <3>6
  <2> QED BY <2>1, <2>2, <2>3
<1>3. Spec => []TypeInv
  BY InitTypeInv, TypeInvStep, PTL DEF Spec
<1> QED BY <1>1, <1>2, <1>3, PTL DEF Spec

=============================================================================
