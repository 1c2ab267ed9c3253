------------------------------- MODULE Booking -------------------------------
(***************************************************************************)
(* The booking desk: internal/service on top of internal/repository.       *)
(*                                                                         *)
(* The database has one connection (SetMaxOpenConns(1)), so a statement    *)
(* outside a transaction, and a whole transaction, is one atomic step;     *)
(* between two such steps of one request every other request may run.  A   *)
(* request in flight is a call c: calls[c] says which database access it   *)
(* makes next and what it keeps, in memory, from those it has made.        *)
(*                                                                         *)
(* Reads of rows no statement ever changes (the batch of a booking, the    *)
(* window of a reservation) are merged with the read they follow.  A       *)
(* request the code refuses before its first write changes nothing and is  *)
(* not a step.                                                             *)
(***************************************************************************)
EXTENDS LabDomain, FiniteSets, Functions

CONSTANTS
  Calls,         \* requests that can be in flight at once
  Users, RoleOf, \* the users table: who there is, and each one's role
  BatchIds, BookingIds, ResIds, BlockIds, IncidentIds,  \* primary keys
  Counts,        \* the student counts a batch is submitted with
  Equipment, Capacity,  \* the equipment table, and each row's capacity
  EquipmentStates,      \* the statuses equipment takes on
  Windows,       \* the time windows callers submit
  Readings,      \* what the clock may read
  Consumables, Quota,   \* the consumables table: what there is, and how much
  Quantities,    \* the quantities callers ask for at check-out
  Faults,        \* TRUE: database accesses may fail, the process may crash
  None           \* no such row

ASSUME UsersAssumption ==
  /\ RoleOf \in [Users -> Roles]
ASSUME StoreAssumption ==
  /\ Capacity \in [Equipment -> Nat \ {0}]
  /\ EquipmentStates \subseteq EquipmentStatuses /\ "ready" \in EquipmentStates
  /\ Quota \in [Consumables -> Nat]
\* A reservation's id is made of the clock's nanoseconds, an int64.
ASSUME KeysAssumption ==
  /\ IsFiniteSet(ResIds)
ASSUME InputAssumption ==
  /\ Counts \subseteq Int /\ Quantities \subseteq Int
  /\ Windows \subseteq Window /\ Readings \subseteq Stamp
  /\ Faults \in BOOLEAN

VARIABLES
  batches,    \* course_batches, by id
  equipment,  \* the status of each piece of equipment
  bookings,   \* booking_requests, by id
  res,        \* reservations, by id
  stock,      \* consumables.available
  taken,      \* reservation_consumables: quantity by reservation and
              \* consumable, 0 where there is no row
  blocks,     \* maintenance_blocks, by id; all of them stay active
  incidents,  \* incidents.status, by id
  audit,      \* the events in audit_events
  calls       \* the requests in flight

store == << batches, equipment, bookings, res, stock, taken, blocks, incidents >>
vars  == << store, audit, calls >>

-----------------------------------------------------------------------------
(* Rows.                                                                   *)

Batch == [teacher: Users, count: Int]

BookingRow ==
  [batch: BatchIds, requester: Users, equip: Equipment, window: Windows,
   status: RequestStatuses, version: Nat]

Reservation ==
  [booking: BookingIds, equip: Equipment, holder: Users, window: Windows,
   status: ReservationStatuses, version: Nat]

Block == [equip: Equipment, window: Windows]

\* An incident's row is its status: nothing reads the rest of it.
IncidentStatuses == {"open", "resolved"}

\* What the book of reservations keeps of a reservation.
BookEntry == [equip: Equipment, window: Windows, state: ReservationStatuses]

\* An audit event: what was done to which entity.  Whether a log entry names
\* a batch, a booking, a reservation or a piece of equipment follows from
\* its action.
Event ==
       [action: {"batch.create"}, entity: BatchIds]
  \cup [action: {"booking.submit"}, entity: BookingIds]
  \cup [action: {"booking.approve", "reservation.checkout", "reservation.return"},
        entity: ResIds]
  \cup [action: {"maintenance.create"}, entity: Equipment]

ASSUME NoneAssumption ==
  None \notin Batch \cup BookingRow \cup Reservation \cup Block \cup BookEntry
                \cup Event \cup IncidentStatuses

(* What a call in flight keeps, by the database access it makes next.      *)

Idle == [step |-> "idle"]

SubmitCall   == [step: {"submit"}, booking: BookingIds, row: BookingRow]
ApproveCall  == [step: {"approve"}, booking: BookingIds, version: Nat]
CheckoutCall == [step: {"checkout"}, res: ResIds, version: Nat,
                 consumable: Consumables, quantity: Nat]
ReturnCall   == [step: {"return"}, res: ResIds, status: ReservationStatuses,
                 version: Nat]
SuspendCall  == [step: {"suspend"}, equip: Equipment, window: Windows,
                 event: Event \cup {None}]
AuditCall    == [step: {"audit"}, event: Event]

Call == {Idle} \cup SubmitCall \cup ApproveCall \cup CheckoutCall
          \cup ReturnCall \cup SuspendCall \cup AuditCall

TypeOK ==
  /\ batches \in [BatchIds -> Batch \cup {None}]
  /\ equipment \in [Equipment -> EquipmentStates]
  /\ bookings \in [BookingIds -> BookingRow \cup {None}]
  /\ res \in [ResIds -> Reservation \cup {None}]
  /\ stock \in [Consumables -> Nat]
  /\ taken \in [ResIds -> [Consumables -> Nat]]
  /\ blocks \in [BlockIds -> Block \cup {None}]
  /\ incidents \in [IncidentIds -> IncidentStatuses \cup {None}]
  /\ audit \subseteq Event
  /\ calls \in [Calls -> Call]

\* The database as seed leaves it: users, equipment and consumables.
Init ==
  /\ batches = [b \in BatchIds |-> None]
  /\ equipment = [e \in Equipment |-> "ready"]
  /\ bookings = [b \in BookingIds |-> None]
  /\ res = [r \in ResIds |-> None]
  /\ stock = Quota
  /\ taken = [r \in ResIds |-> [m \in Consumables |-> 0]]
  /\ blocks = [k \in BlockIds |-> None]
  /\ incidents = [i \in IncidentIds |-> None]
  /\ audit = {}
  /\ calls = [c \in Calls |-> Idle]

Goto(c, next) == calls' = [calls EXCEPT ![c] = next]

\* The call writes its audit event next, the last thing every one of them does.
GotoAudit(c, act, entity) ==
  Goto(c, [step |-> "audit", event |-> [action |-> act, entity |-> entity]])

\* The call ends: done, or refused by the database and rolled back.
Finish(c) == Goto(c, Idle)


-----------------------------------------------------------------------------
(* Batches.                                                                *)

CreateBatch(c, u, b, count, w, now) ==
  /\ calls[c] = Idle
  /\ RequireRole(RoleOf[u], {"teacher", "admin"})
  /\ ValidateBatch(count, w, now)
  /\ batches[b] = None
  /\ batches' = [batches EXCEPT ![b] = [teacher |-> u, count |-> count]]
  /\ GotoAudit(c, "batch.create", b)
  /\ UNCHANGED << equipment, bookings, res, stock, taken, blocks, incidents, audit >>

-----------------------------------------------------------------------------
(* Booking requests.                                                       *)

\* A teacher books for a batch of their own, a student for any.
MaySubmit(u, batch) ==
  /\ RequireRole(RoleOf[u], {"teacher", "student"})
  /\ batches[batch] # None
  /\ RoleOf[u] = "teacher" => batches[batch].teacher = u

\* SubmitBooking up to its insert.  Its window is taken as it comes.  Of its
\* consumable and quantity nothing is kept or looked at again, once a quantity
\* below zero is refused; they are left out.
SubmitRead(c, u, b, batch, e, w) ==
  /\ calls[c] = Idle
  /\ MaySubmit(u, batch)
  /\ equipment[e] = "ready"
  /\ Goto(c, [step |-> "submit", booking |-> b,
              row |-> [batch |-> batch, requester |-> u, equip |-> e, window |-> w,
                       status |-> "pending", version |-> 1]])
  /\ UNCHANGED << store, audit >>

SubmitInsert(c) ==
  LET k == calls[c] IN
  /\ k.step = "submit"
  /\ \/ /\ bookings[k.booking] = None
        /\ bookings' = [bookings EXCEPT ![k.booking] = k.row]
        /\ GotoAudit(c, "booking.submit", k.booking)
     \/ /\ bookings[k.booking] # None
        /\ Finish(c)
        /\ UNCHANGED bookings
  /\ UNCHANGED << batches, equipment, res, stock, taken, blocks, incidents, audit >>

-----------------------------------------------------------------------------
(* Approval.                                                               *)

\* Faulty variant: a suspended reservation gives up its slot.
HoldsSlotInUse(r, e, w) ==
  /\ res[r] # None
  /\ res[r].equip = e
  /\ res[r].status \in InUseStatuses
  /\ SqlOverlaps(res[r].window, w)

HoldsSlot(r, e, w) ==
  /\ res[r] # None
  /\ res[r].equip = e
  /\ res[r].status \in ActiveStatuses
  /\ SqlOverlaps(res[r].window, w)

HasConflict(e, w) == \E r \in ResIds : HoldsSlot(r, e, w)

HasMaintenance(e, w) ==
  \E k \in BlockIds :
    blocks[k] # None /\ blocks[k].equip = e /\ SqlOverlaps(blocks[k].window, w)

\* SetBookingStatusTx and SetReservationStatusTx: the SET clause of both.
Moved(row, status) ==
  LET moved == [row EXCEPT !.status = status] IN [moved EXCEPT !.version = row.version + 1]

\* SetBookingStatusTx's WHERE clause.
BookingMatches(b, status, version) ==
  bookings[b].status = status /\ bookings[b].version = version

\* Faulty variant: an id the clock repeats replaces the row that has it.
FreshRequest(r, b) ==
  \A s \in ResIds : res[s] # None => res[s].booking # b

\* The two keys of reservations: the id and the request's.
FreshReservation(r, b) ==
  /\ res[r] = None
  /\ \A s \in ResIds : res[s] # None => res[s].booking # b

ApproveRead(c, u, b) ==
  /\ calls[c] = Idle
  /\ RequireRole(RoleOf[u], {"admin"})
  /\ bookings[b] # None
  /\ batches[bookings[b].batch].count > 0
  /\ Goto(c, [step |-> "approve", booking |-> b, version |-> bookings[b].version])
  /\ UNCHANGED << store, audit >>

\* Faulty variant: maintenance is looked up before the transaction, not in it.
CanApproveUnblocked(k, r) ==
  LET row == bookings[k.booking] IN
  /\ ~ HasConflict(row.equip, row.window)
  /\ BookingMatches(k.booking, "pending", k.version)
  /\ FreshReservation(r, k.booking)

CanApprove(k, r) ==
  LET row == bookings[k.booking] IN
  /\ ~ HasConflict(row.equip, row.window)
  /\ ~ HasMaintenance(row.equip, row.window)
  /\ BookingMatches(k.booking, "pending", k.version)
  /\ FreshReservation(r, k.booking)

\* The approval's transaction.  r is the id the clock gives the reservation;
\* the clock may give any, even one it gave before.
ApproveTx(c, r) ==
  LET k == calls[c]
      row == bookings[k.booking]
  IN
  /\ k.step = "approve"
  /\ \/ /\ CanApprove(k, r)
        /\ bookings' = [bookings EXCEPT ![k.booking] = Moved(row, "approved")]
        /\ res' = [res EXCEPT ![r] =
                     [booking |-> k.booking, equip |-> row.equip,
                      holder |-> row.requester, window |-> row.window,
                      status |-> "held", version |-> 1]]
        /\ GotoAudit(c, "booking.approve", r)
     \/ /\ ~ CanApprove(k, r)
        /\ Finish(c)
        /\ UNCHANGED << bookings, res >>
  /\ UNCHANGED << batches, equipment, stock, taken, blocks, incidents, audit >>

-----------------------------------------------------------------------------
(* Check-out and return.                                                   *)

MayUse(u, r) == u = res[r].holder \/ RoleOf[u] = "admin"

\* SetReservationStatusTx's WHERE clause, and the whole update.
ReservationMatches(r, status, version) ==
  res[r].status = status /\ res[r].version = version

MoveReservation(r, status) == res' = [res EXCEPT ![r] = Moved(res[r], status)]

CheckoutRead(c, u, r, m, q) ==
  /\ calls[c] = Idle
  /\ res[r] # None
  /\ MayUse(u, r)
  /\ CanMove(res[r].status, "checked_out")
  /\ ValidateQuantity(q)
  /\ Goto(c, [step |-> "checkout", res |-> r, version |-> res[r].version,
              consumable |-> m, quantity |-> q])
  /\ UNCHANGED << store, audit >>

\* Faulty variant: the quantity is not compared with what is left.
CanConsumeAny(r, m, q) == taken[r][m] = 0

\* ConsumeTx succeeds: enough is left, and no row for this consumable yet.
CanConsume(r, m, q) == q <= stock[m] /\ taken[r][m] = 0

\* Faulty variant: the status read before the transaction is trusted in it.
CanCheckoutStale(k) == CanConsume(k.res, k.consumable, k.quantity)

CanCheckout(k) ==
  /\ CanConsume(k.res, k.consumable, k.quantity)
  /\ ReservationMatches(k.res, "held", k.version)

CheckoutTx(c) ==
  LET k == calls[c] IN
  /\ k.step = "checkout"
  /\ \/ /\ CanCheckout(k)
        /\ stock' = [stock EXCEPT ![k.consumable] = @ - k.quantity]
        /\ taken' = [taken EXCEPT ![k.res][k.consumable] = k.quantity]
        /\ MoveReservation(k.res, "checked_out")
        /\ GotoAudit(c, "reservation.checkout", k.res)
     \/ /\ ~ CanCheckout(k)
        /\ Finish(c)
        /\ UNCHANGED << res, stock, taken >>
  /\ UNCHANGED << batches, equipment, bookings, blocks, incidents, audit >>

ReturnRead(c, u, r) ==
  /\ calls[c] = Idle
  /\ res[r] # None
  /\ MayUse(u, r)
  /\ CanMove(res[r].status, "returned")
  /\ Goto(c, [step |-> "return", res |-> r, status |-> res[r].status,
              version |-> res[r].version])
  /\ UNCHANGED << store, audit >>

\* Faulty variant: the rows stay, what they took goes back again and again.
RestoreConsumablesKeepingRows(r) ==
  /\ stock' = [m \in Consumables |-> stock[m] + taken[r][m]]
  /\ UNCHANGED taken

\* RestoreConsumablesTx: what the reservation took goes back, its rows go.
RestoreConsumables(r) ==
  /\ stock' = [m \in Consumables |-> stock[m] + taken[r][m]]
  /\ taken' = [taken EXCEPT ![r] = [m \in Consumables |-> 0]]

\* Faulty variant: the restore is not in the transaction of the status.
ReturnInTwoSteps(c) ==
  LET k == calls[c] IN
  /\ k.step = "return"
  /\ RestoreConsumables(k.res)
  /\ \/ /\ ReservationMatches(k.res, k.status, k.version)
        /\ MoveReservation(k.res, "returned")
        /\ GotoAudit(c, "reservation.return", k.res)
     \/ /\ ~ ReservationMatches(k.res, k.status, k.version)
        /\ Finish(c)
        /\ UNCHANGED res
  /\ UNCHANGED << batches, equipment, bookings, blocks, incidents, audit >>

ReturnTx(c) ==
  LET k == calls[c] IN
  /\ k.step = "return"
  /\ \/ /\ ReservationMatches(k.res, k.status, k.version)
        /\ RestoreConsumables(k.res)
        /\ MoveReservation(k.res, "returned")
        /\ GotoAudit(c, "reservation.return", k.res)
     \/ /\ ~ ReservationMatches(k.res, k.status, k.version)
        /\ Finish(c)
        /\ UNCHANGED << res, stock, taken >>
  /\ UNCHANGED << batches, equipment, bookings, blocks, incidents, audit >>

-----------------------------------------------------------------------------
(* Maintenance and incidents: an insert, and then, in a statement of its   *)
(* own, the suspension of the reservations it hits.                        *)

AddMaintenance(c, u, k, e, w, now) ==
  /\ calls[c] = Idle
  /\ RequireRole(RoleOf[u], {"admin", "safety"})
  /\ ~ Before(w.end, now)
  /\ blocks[k] = None
  /\ blocks' = [blocks EXCEPT ![k] = [equip |-> e, window |-> w]]
  /\ Goto(c, [step |-> "suspend", equip |-> e, window |-> w,
              event |-> [action |-> "maintenance.create", entity |-> e]])
  /\ UNCHANGED << batches, equipment, bookings, res, stock, taken, incidents, audit >>

\* An incident must name a reservation that exists (a foreign key); the
\* equipment and the window to suspend come from the caller beside it.
ReportIncident(c, u, i, e, w) ==
  /\ calls[c] = Idle
  /\ RequireRole(RoleOf[u], {"safety", "admin"})
  /\ \E r \in ResIds : res[r] # None
  /\ incidents[i] = None
  /\ incidents' = [incidents EXCEPT ![i] = "open"]
  /\ Goto(c, [step |-> "suspend", equip |-> e, window |-> w, event |-> None])
  /\ UNCHANGED << batches, equipment, bookings, res, stock, taken, blocks, audit >>

\* Faulty variants: the statement has no list of statuses; it has only held.
SuspendsAny(r, e, w) ==
  res[r] # None /\ res[r].equip = e /\ SqlOverlaps(res[r].window, w)

SuspendsHeld(r, e, w) ==
  SuspendsAny(r, e, w) /\ res[r].status = "held"

\* SuspendReservations' WHERE clause.
Suspends(r, e, w) ==
  /\ res[r] # None
  /\ res[r].equip = e
  /\ res[r].status \in InUseStatuses
  /\ SqlOverlaps(res[r].window, w)

\* The suspension leaves the version as it was.  A maintenance call then
\* writes its audit event, an incident's call ends.
Suspend(c) ==
  LET k == calls[c] IN
  /\ k.step = "suspend"
  /\ res' = [r \in ResIds |-> IF Suspends(r, k.equip, k.window)
                              THEN [res[r] EXCEPT !.status = "suspended"]
                              ELSE res[r]]
  /\ IF k.event = None THEN Finish(c) ELSE Goto(c, [step |-> "audit", event |-> k.event])
  /\ UNCHANGED << batches, equipment, bookings, stock, taken, blocks, incidents, audit >>

ResolveIncident(u, i) ==
  /\ RequireRole(RoleOf[u], {"safety", "admin"})
  /\ incidents[i] = "open"
  /\ incidents' = [incidents EXCEPT ![i] = "resolved"]
  /\ UNCHANGED << batches, equipment, bookings, res, stock, taken, blocks, audit, calls >>

-----------------------------------------------------------------------------
(* What every call ends with, and what can happen to it instead.           *)

\* Faulty variant: the log is written through a buffer that keeps one event.
WriteAuditOver(c) ==
  /\ calls[c].step = "audit"
  /\ audit' = {calls[c].event}
  /\ Finish(c)
  /\ UNCHANGED store

WriteAudit(c) ==
  /\ calls[c].step = "audit"
  /\ audit' = audit \cup {calls[c].event}
  /\ Finish(c)
  /\ UNCHANGED store

\* The repository's UpdateEquipmentStatus; no request of the service makes it.
UpdateEquipmentStatus(e, status) ==
  /\ equipment[e] # status
  /\ equipment' = [equipment EXCEPT ![e] = status]
  /\ UNCHANGED << batches, bookings, res, stock, taken, blocks, incidents, audit, calls >>

\* A call's next access fails: its context is cancelled (the client has
\* gone), or the database returns an error.  A transaction is rolled back.
CallFails(c) ==
  /\ Faults
  /\ calls[c] # Idle
  /\ Finish(c)
  /\ UNCHANGED << store, audit >>

\* The process stops and starts again: only the database is left.
Crash ==
  /\ Faults
  /\ \E c \in Calls : calls[c] # Idle
  /\ calls' = [c \in Calls |-> Idle]
  /\ UNCHANGED << store, audit >>

Request(c) ==
  \/ \E u \in Users, b \in BatchIds, n \in Counts, w \in Windows, now \in Readings :
       CreateBatch(c, u, b, n, w, now)
  \/ \E u \in Users, b \in BookingIds, batch \in BatchIds, e \in Equipment, w \in Windows :
       SubmitRead(c, u, b, batch, e, w)
  \/ \E u \in Users, b \in BookingIds : ApproveRead(c, u, b)
  \/ \E u \in Users, r \in ResIds, m \in Consumables, q \in Quantities :
       CheckoutRead(c, u, r, m, q)
  \/ \E u \in Users, r \in ResIds : ReturnRead(c, u, r)
  \/ \E u \in Users, k \in BlockIds, e \in Equipment, w \in Windows, now \in Readings :
       AddMaintenance(c, u, k, e, w, now)
  \/ \E u \in Users, i \in IncidentIds, e \in Equipment, w \in Windows :
       ReportIncident(c, u, i, e, w)

Continue(c) ==
  \/ SubmitInsert(c)
  \/ \E r \in ResIds : ApproveTx(c, r)
  \/ CheckoutTx(c)
  \/ ReturnTx(c)
  \/ Suspend(c)
  \/ WriteAudit(c)

Next ==
  \/ \E c \in Calls : Request(c) \/ Continue(c) \/ CallFails(c)
  \/ \E u \in Users, i \in IncidentIds : ResolveIncident(u, i)
  \/ \E e \in Equipment, s \in EquipmentStates : UpdateEquipmentStatus(e, s)
  \/ Crash

Spec == Init /\ [][Next]_vars

\* A handler that has started goes on to its end.
FairSpec == Spec /\ \A c \in Calls : WF_vars(Continue(c))


-----------------------------------------------------------------------------
(* Properties.                                                             *)

Active(r) == res[r] # None /\ res[r].status \in ActiveStatuses

\* No piece of equipment is promised to two reservations at one instant,
\* whichever approvals race: the conflict query and the insert are one
\* transaction (ApproveBooking, HasConflictTx).
NoDoubleBooking ==
  \A r, s \in ResIds :
    r # s /\ Active(r) /\ Active(s) /\ res[r].equip = res[s].equip
      => ~ Overlaps(res[r].window, res[s].window)

\* No approval is refused without a reason.  What stands in its way is a
\* decision already made, a reservation that has the id, or a reservation or
\* a block of the same machine that shares an instant with the request: not
\* one that it only touches (domain_test.go, "touch after"), nor one that was
\* returned; and a request that is still pending is as its call read it.
RefusedForAReason ==
  \A c \in Calls, r \in ResIds :
    calls[c].step = "approve" /\ ~ CanApprove(calls[c], r) =>
      LET row == bookings[calls[c].booking] IN
      \/ row.status # "pending"
      \/ res[r] # None
      \/ \E s \in ResIds :
           Active(s) /\ res[s].equip = row.equip /\ Overlaps(res[s].window, row.window)
      \/ \E k \in BlockIds :
           /\ blocks[k] # None /\ blocks[k].equip = row.equip
           /\ Overlaps(blocks[k].window, row.window)

\* An approved request has one reservation, any other has none: two admins
\* who read the same pending request, or a clock that gives one id twice,
\* make neither a second reservation nor an approval without one.
ApprovedOnce ==
  \A b \in BookingIds :
    Cardinality({r \in ResIds : res[r] # None /\ res[r].booking = b})
      = IF bookings[b] # None /\ bookings[b].status = "approved" THEN 1 ELSE 0

\* What is on the shelf and what reservations have out is what there was,
\* through check-outs, returns, races between them and their rollbacks.
StockConserved ==
  \A m \in Consumables :
    stock[m] + SumFunction([r \in ResIds |-> taken[r][m]]) = Quota[m]

\* A reservation's version counts its check-out and its return, so a
\* suspended one tells by it whether it was checked out first.
CheckedOutOnce(r) ==
  /\ res[r] # None
  /\ res[r].status \in {"checked_out", "suspended"}
  /\ res[r].version = 2

\* A reservation has consumables out exactly from its check-out to its
\* return, whatever suspends it between: none is returned with some still
\* out, none is stripped of them by a return that was rolled back.
LedgerFollowsStatus ==
  \A r \in ResIds : (\E m \in Consumables : taken[r][m] > 0) <=> CheckedOutOnce(r)

\* One reservation is issued one consumable at most: two check-outs that both
\* read it as held do not both commit.
SingleIssue ==
  \A r \in ResIds : \A m, n \in Consumables : taken[r][m] > 0 /\ taken[r][n] > 0 => m = n

\* A row's status changes only as its type's CanMove has it, though the
\* UPDATE statements do not ask it: no step revives a returned reservation,
\* hands out a suspended one or approves a request again; and no row goes.
StatusFollowsCanMove ==
  [][/\ \A r \in ResIds :
          res[r] # None =>
            /\ res'[r] # None
            /\ res'[r].status # res[r].status => CanMove(res[r].status, res'[r].status)
     /\ \A b \in BookingIds :
          bookings[b] # None =>
            /\ bookings'[b] # None
            /\ bookings'[b].status # bookings[b].status
                 => RequestCanMove(bookings[b].status, bookings'[b].status)]_vars

\* What the log says happened did happen, and still shows in the row: a
\* rolled-back operation leaves no event, with faults or without.
Happened(event) ==
  LET x == event.entity IN
  CASE event.action = "batch.create" -> batches[x] # None
    [] event.action = "booking.submit" -> bookings[x] # None
    [] event.action = "booking.approve" ->
         res[x] # None /\ bookings[res[x].booking].status = "approved"
    [] event.action = "reservation.checkout" ->
         res[x] # None /\ res[x].status \in {"checked_out", "suspended", "returned"}
                       /\ res[x].version > 1
    [] event.action = "reservation.return" -> res[x] # None /\ res[x].status = "returned"
    [] event.action = "maintenance.create" ->
         \E k \in BlockIds : blocks[k] # None /\ blocks[k].equip = x

AuditTruthful == \A event \in audit : Happened(event)

\* The event is in the log, or a call in flight has it still to write.
Logged(act, entity) ==
  LET event == [action |-> act, entity |-> entity] IN
  \/ event \in audit
  \/ \E c \in Calls :
       calls[c].step \in {"audit", "suspend"} /\ calls[c].event = event

\* Every mutation is in the log once its request is over (README: "Every
\* mutation ... creates an audit event").  Incidents, which the service never
\* audits, and the suspensions a maintenance block causes have no event.
AuditComplete ==
  /\ \A b \in BatchIds : batches[b] # None => Logged("batch.create", b)
  /\ \A b \in BookingIds : bookings[b] # None => Logged("booking.submit", b)
  /\ \A r \in ResIds : res[r] # None =>
       /\ Logged("booking.approve", r)
       /\ CheckedOutOnce(r) => Logged("reservation.checkout", r)
       /\ res[r].status = "returned" => Logged("reservation.return", r)
  /\ \A k \in BlockIds : blocks[k] # None => Logged("maintenance.create", blocks[k].equip)

\* Block k's equipment may be in use by r within the block's window.
InUseUnder(r, k) ==
  /\ blocks[k] # None /\ res[r] # None
  /\ res[r].equip = blocks[k].equip
  /\ res[r].status \in {"held", "checked_out"}
  /\ SqlOverlaps(res[r].window, blocks[k].window)

\* No reservation can be used inside a maintenance block, except until the
\* request that made the block has suspended it: an approval that races the
\* block either sees it or is seen by the suspension (AddMaintenance's order
\* of insert and update).
BlockedSlotNotInUse ==
  \A r \in ResIds, k \in BlockIds :
    InUseUnder(r, k) =>
      \E c \in Calls : /\ calls[c].step = "suspend"
                       /\ calls[c].equip = blocks[k].equip
                       /\ calls[c].window = blocks[k].window

\* A block that is made clears its window for good, if its request goes on.
BlockClears ==
  \A k \in BlockIds :
    blocks[k] # None ~> [](\A r \in ResIds : ~ InUseUnder(r, k))

-----------------------------------------------------------------------------
(* What the documentation says and the code does not do.                   *)

\* README: "Administrators approve requests while capacity ... [is] checked".
CapacityRespected ==
  \A b \in BookingIds :
    bookings[b] # None /\ bookings[b].status = "approved"
      => batches[bookings[b].batch].count <= Capacity[bookings[b].equip]

\* README: "Every mutation ... creates an audit event", for approvals, when
\* nothing is in flight any more.
ApprovalLogged ==
  \A r \in ResIds :
    res[r] # None /\ (\A c \in Calls : calls[c] = Idle)
      => [action |-> "booking.approve", entity |-> r] \in audit

\* service_test.go: a maintenance block leaves what it overlaps suspended.
BlockSuspends ==
  \A r \in ResIds, k \in BlockIds :
    InUseUnder(r, k) => \E c \in Calls : calls[c] # Idle

-----------------------------------------------------------------------------
(* The desk implements the book of reservations.                           *)

Entry(r) ==
  IF res[r] = None THEN None
  ELSE [equip |-> res[r].equip, window |-> res[r].window, state |-> res[r].status]

Book == INSTANCE ReservationBook WITH
  Slots <- ResIds,
  Clash <- SqlOverlaps,
  slots <- [r \in ResIds |-> Entry(r)],
  shelf <- stock,
  issued <- taken,
  closed <- {blocks[k] : k \in {i \in BlockIds : blocks[i] # None}}

\* Every step of the desk is one operation of the book or none: the split of
\* a request into a read, a transaction and a log entry cannot be seen.
ImplementsBook == Book!Spec

=============================================================================
