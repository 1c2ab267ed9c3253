------------------------------ MODULE HttpServer ------------------------------
(***************************************************************************)
(* The HTTP server: internal/httpapi puts the sessions in front of the     *)
(* booking desk.  A request passes the middleware, which authenticates it, *)
(* then its handler, which calls one method of the service, and is         *)
(* answered.  This module composes Sessions and Booking; c is a request in *)
(* both.  Of the desk's methods only three have a route.                   *)
(*                                                                         *)
(* A body that does not decode, or that the service refuses before its     *)
(* first write, is answered without a step of the desk.  Only a 201 or 202 *)
(* answer is kept for a moment; after any other the request is gone.       *)
(***************************************************************************)
EXTENDS Sessions

CONSTANTS  \* of Booking
  RoleOf, BatchIds, BookingIds, ResIds, BlockIds, IncidentIds, Counts, Equipment,
  Capacity, EquipmentStates, Windows, Readings, Consumables, Quota, Quantities, Faults

VARIABLES
  batches, equipment, bookings, res, stock, taken, blocks, incidents, audit, calls,  \* of Booking
  http  \* where each request is

Desk == INSTANCE Booking

\* What Booking assumes.
ASSUME DeskAssumption ==
  /\ RoleOf \in [Users -> Desk!Roles]
  /\ Capacity \in [Equipment -> Nat \ {0}]
  /\ EquipmentStates \subseteq Desk!EquipmentStatuses /\ "ready" \in EquipmentStates
  /\ Quota \in [Consumables -> Nat]
  /\ IsFiniteSet(ResIds)
  /\ Counts \subseteq Int /\ Quantities \subseteq Int
  /\ Windows \subseteq Desk!Window /\ Readings \subseteq Desk!Stamp
  /\ Faults \in BOOLEAN
  /\ None \notin Desk!Batch \cup Desk!BookingRow \cup Desk!Reservation \cup Desk!Block
                \cup Desk!BookEntry \cup Desk!Event \cup Desk!IncidentStatuses

rows    == << batches, equipment, bookings, res, stock, taken, blocks, incidents, audit >>
desk    == << rows, calls >>
webVars == << desk, authVars, http >>

\* The routes that reach the database.
Ops == {"login", "equipment", "batches", "bookings", "reservations", "maintenance"}

Gone == [step |-> "gone"]
Entities == BatchIds \cup BookingIds \cup Equipment

Web ==
       {Gone}
  \cup [step: {"arrived"}, op: Ops]
  \cup [step: {"serving"}, op: Ops, entity: Entities]
  \cup [step: {"done"}, op: Ops, entity: Entities, user: Users]

WebTypeOK == Desk!TypeOK /\ AuthTypeOK /\ http \in [Calls -> Web]

WebInit == Desk!Init /\ AuthInit /\ http = [c \in Calls |-> Gone]

GotoWeb(c, next) == http' = [http EXCEPT ![c] = next]
Leave(c) == GotoWeb(c, Gone)

-----------------------------------------------------------------------------
(* The middleware.                                                         *)

ReceiveLogin(c, u) ==
  /\ http[c] = Gone
  /\ Login(c, u)
  /\ GotoWeb(c, [step |-> "arrived", op |-> "login"])
  /\ UNCHANGED desk

Receive(c, op, t) ==
  /\ http[c] = Gone
  /\ op # "login"
  /\ Present(c, t)
  /\ GotoWeb(c, [step |-> "arrived", op |-> op])
  /\ UNCHANGED desk

Authenticate(c) ==
  /\ http[c].step = "arrived"
  /\ Advance(c)
  /\ UNCHANGED << desk, http >>

Unauthorized(c) ==
  /\ http[c].step = "arrived"
  /\ auth[c].step = "refused"
  /\ Depart(c)
  /\ Leave(c)
  /\ UNCHANGED desk

-----------------------------------------------------------------------------
(* The handlers.                                                           *)

ServeFor(c, entity) ==
  /\ GotoWeb(c, [step |-> "serving", op |-> http[c].op, entity |-> entity])
  /\ UNCHANGED authVars

PostBatch(c, u) ==
  /\ http[c].op = "batches"
  /\ \E b \in BatchIds, n \in Counts, w \in Windows, t \in Readings :
       Desk!CreateBatch(c, u, b, n, w, t) /\ ServeFor(c, b)

PostBooking(c, u) ==
  /\ http[c].op = "bookings"
  /\ \E b \in BookingIds, x \in BatchIds, e \in Equipment, w \in Windows :
       Desk!SubmitRead(c, u, b, x, e, w) /\ ServeFor(c, b)

\* What the middleware of the maintenance route asks, before the service does.
Require(u) == Desk!RequireRole(RoleOf[u], {"admin", "safety"})

PostMaintenance(c, u) ==
  /\ http[c].op = "maintenance"
  /\ Require(u)
  /\ \E k \in BlockIds, e \in Equipment, w \in Windows, t \in Readings :
       Desk!AddMaintenance(c, u, k, e, w, t) /\ ServeFor(c, e)

Post(c, u) == PostBatch(c, u) \/ PostBooking(c, u) \/ PostMaintenance(c, u)

Authenticated(c) == http[c].step = "arrived" /\ auth[c].step = "in"

\* Faulty variant: the handler takes the user from the request's body.
HandlePostAs(c) == Authenticated(c) /\ \E u \in Users : Post(c, u)

\* A POST that the service takes on, with the user the middleware found.
HandlePost(c) == Authenticated(c) /\ Post(c, auth[c].user)

Answer(c) ==
  /\ Leave(c)
  /\ Depart(c)
  /\ UNCHANGED desk

\* What is answered at once: a login that succeeded, the list of equipment, a
\* POST that is refused.
HandleOther(c) ==
  /\ Authenticated(c)
  /\ http[c].op # "reservations"
  /\ Answer(c)

\* The pattern of this route matches the bare path only, which then is taken
\* for the id: no method is called that would find a reservation by it.
HandleReservation(c) ==
  /\ Authenticated(c)
  /\ http[c].op = "reservations"
  /\ Answer(c)

\* Faulty variant: the handler answers 2xx whatever the service returns.
ServeBlindly(c) ==
  /\ http[c].step = "serving"
  /\ Desk!Continue(c)
  /\ IF calls'[c] # Desk!Idle THEN UNCHANGED << authVars, http >>
     ELSE /\ GotoWeb(c, [step |-> "done", op |-> http[c].op,
                         entity |-> http[c].entity, user |-> auth[c].user])
          /\ Depart(c)

\* The service goes on.  It succeeds with its audit event; a call that ends
\* before it was refused by the database.
Serve(c) ==
  /\ http[c].step = "serving"
  /\ Desk!Continue(c)
  /\ \/ /\ calls'[c] # Desk!Idle
        /\ UNCHANGED << authVars, http >>
     \/ /\ calls'[c] = Desk!Idle
        /\ Depart(c)
        /\ IF calls[c].step = "audit"
             THEN GotoWeb(c, [step |-> "done", op |-> http[c].op,
                              entity |-> http[c].entity, user |-> auth[c].user])
             ELSE Leave(c)

Close(c) ==
  /\ http[c].step = "done"
  /\ Leave(c)
  /\ UNCHANGED << desk, authVars >>

-----------------------------------------------------------------------------
(* Failures.                                                               *)

\* The client has gone, or the database returns an error: the access the
\* request makes next fails, and with it the request.
RequestFails(c) ==
  /\ Faults
  /\ \/ http[c].step = "serving" /\ Desk!CallFails(c)
     \/ http[c].step = "arrived" /\ UNCHANGED desk
  /\ Abandon(c)
  /\ Leave(c)

Restart ==
  /\ Faults
  /\ \E c \in Calls : http[c] # Gone
  /\ calls' = [c \in Calls |-> Desk!Idle]
  /\ AbandonAll
  /\ http' = [c \in Calls |-> Gone]
  /\ UNCHANGED rows

Progress(c) ==
  \/ Authenticate(c) \/ Unauthorized(c)
  \/ HandlePost(c) \/ HandleOther(c) \/ HandleReservation(c)
  \/ Serve(c) \/ Close(c)

WebNext ==
  \/ \E c \in Calls : \/ \E u \in Users : ReceiveLogin(c, u)
                      \/ \E op \in Ops, t \in Tokens \cup {None} : Receive(c, op, t)
                      \/ Progress(c) \/ RequestFails(c)
  \/ Restart
  \/ /\ (\E t \in Tokens : Logout(t)) \/ RecoverExpiredSessions \/ Tick
     /\ UNCHANGED << desk, http >>

WebSpec == WebInit /\ [][WebNext]_webVars

-----------------------------------------------------------------------------
(* Properties.                                                             *)

LoggedIn(u) == \E t \in Tokens : sessions[t] # None /\ sessions[t].user = u

\* Every row was put there by somebody who logged in and whose role may: the
\* user a handler works for is the one the middleware found, however requests
\* and sessions interleave.
RowsAuthorised ==
  /\ \A b \in BatchIds : batches[b] # None =>
       LoggedIn(batches[b].teacher) /\ RoleOf[batches[b].teacher] \in {"teacher", "admin"}
  /\ \A b \in BookingIds : bookings[b] # None =>
       LoggedIn(bookings[b].requester) /\ RoleOf[bookings[b].requester] \in {"teacher", "student"}
  /\ (\E k \in BlockIds : blocks[k] # None) =>
       \E u \in Users : LoggedIn(u) /\ RoleOf[u] \in {"admin", "safety"}

\* A request that is answered 201 or 202 has made its row, of this very user,
\* and logged it, whoever else tried to make the same one.
DoneIsDone ==
  \A c \in Calls :
    LET a == http[c] IN
    a.step = "done" =>
      CASE a.op = "batches" -> /\ batches[a.entity] # None /\ batches[a.entity].teacher = a.user
                               /\ [action |-> "batch.create", entity |-> a.entity] \in audit
        [] a.op = "bookings" -> /\ bookings[a.entity] # None
                                /\ bookings[a.entity].requester = a.user
                                /\ [action |-> "booking.submit", entity |-> a.entity] \in audit
        [] a.op = "maintenance" -> /\ \E k \in BlockIds : blocks[k] # None /\ blocks[k].equip = a.entity
                                   /\ [action |-> "maintenance.create", entity |-> a.entity] \in audit

=============================================================================
