------------------------------ MODULE HttpProofs ------------------------------
(***************************************************************************)
(* The HTTP server implements the sessions and the booking desk it is      *)
(* composed of: what holds of either holds of both behind the server.      *)
(***************************************************************************)
EXTENDS HttpServer, SessionsProofs

\* A step of the server is one of the sessions, or leaves them alone.
LEMMA SessionsStep == [WebNext]_webVars => [AuthNext]_authVars
<1> SUFFICES ASSUME [WebNext]_webVars PROVE [AuthNext]_authVars
  OBVIOUS
<1>1. ASSUME NEW c \in Calls, NEW u \in Users, ReceiveLogin(c, u) PROVE AuthNext
  BY <1>1 DEF ReceiveLogin, AuthNext
<1>2. ASSUME NEW c \in Calls, NEW op \in Ops, NEW t \in Tokens \cup {None}, Receive(c, op, t)
      PROVE  AuthNext
  BY <1>2 DEF Receive, AuthNext
<1>3. ASSUME NEW c \in Calls, Progress(c) PROVE [AuthNext]_authVars
  <2>1. Advance(c) \/ Depart(c) \/ UNCHANGED authVars
    BY <1>3 DEF Progress, Authenticate, Unauthorized, HandlePost, Post, PostBatch, PostBooking,
                PostMaintenance, ServeFor, HandleOther, HandleReservation, Answer, Serve, Close
  <2> QED BY <2>1 DEF AuthNext
<1>4. ASSUME NEW c \in Calls, RequestFails(c) PROVE AuthNext
  BY <1>4 DEF RequestFails, AuthNext
<1>5. Restart => AuthNext
  BY DEF Restart, AuthNext
<1>6. (\E t \in Tokens : Logout(t)) \/ RecoverExpiredSessions \/ Tick => AuthNext
  BY DEF AuthNext
<1>7. UNCHANGED webVars => UNCHANGED authVars
  BY DEF webVars
<1> QED BY <1>1, <1>2, <1>3, <1>4, <1>5, <1>6, <1>7 DEF WebNext

\* The server implements the sessions.
THEOREM ServerUsesSessions == WebSpec => AuthSpec
  BY SessionsStep, PTL DEF WebSpec, WebInit, AuthSpec

\* No request is served, and no login answered, under a token that was no good.
THEOREM ServesNoDeadSession == WebSpec => []NoDeadSession
  BY ServerUsesSessions, NobodyUnderDeadSession, PTL

\* Nor does the recovery end a session under the server that could be used.
THEOREM ServerRecoverySpares == WebSpec => RecoverySpares
  BY ServerUsesSessions, RecoveryEndsNoLiveSession

\* The desk's calls are a function of the calls there may be.
CallsShape == calls = [c \in Calls |-> calls[c]]

LEMMA DeskCalls ==
  ASSUME CallsShape, NEW c \in Calls,
         Desk!Request(c) \/ Desk!Continue(c) \/ Desk!CallFails(c)
  PROVE  CallsShape'
<1>1. ASSUME NEW k, calls' = [calls EXCEPT ![c] = k] PROVE CallsShape'
  BY <1>1 DEF CallsShape
<1>2. \E k : calls' = [calls EXCEPT ![c] = k]
  <2>1. CASE Desk!Request(c)
    BY <2>1 DEF Desk!Request, Desk!CreateBatch, Desk!SubmitRead, Desk!ApproveRead,
                Desk!CheckoutRead, Desk!ReturnRead, Desk!AddMaintenance, Desk!ReportIncident,
                Desk!GotoAudit, Desk!Goto, Desk!Finish
  <2>2. CASE Desk!Continue(c)
    BY <2>2 DEF Desk!Continue, Desk!SubmitInsert, Desk!ApproveTx, Desk!CheckoutTx, Desk!ReturnTx,
                Desk!Suspend, Desk!WriteAudit, Desk!GotoAudit, Desk!Goto, Desk!Finish
  <2>3. CASE Desk!CallFails(c)
    BY <2>3 DEF Desk!CallFails, Desk!Goto, Desk!Finish
  <2> QED BY <2>1, <2>2, <2>3
<1> QED BY <1>1, <1>2

\* A step of the server is one of the desk, or leaves it alone.
LEMMA DeskStep == AuthTypeOK /\ CallsShape /\ [WebNext]_webVars => [Desk!Next]_(Desk!vars) /\ CallsShape'
<1> SUFFICES ASSUME AuthTypeOK, CallsShape, [WebNext]_webVars PROVE [Desk!Next]_(Desk!vars) /\ CallsShape'
  OBVIOUS
<1>1. ASSUME UNCHANGED desk PROVE UNCHANGED Desk!vars /\ CallsShape'
  BY <1>1 DEF desk, rows, Desk!vars, Desk!store, CallsShape
<1>2. ASSUME NEW c \in Calls, Desk!Request(c) \/ Desk!Continue(c) \/ Desk!CallFails(c)
      PROVE  Desk!Next /\ CallsShape'
  BY <1>2, DeskCalls DEF Desk!Next
<1>3. ASSUME NEW c \in Calls, HandlePost(c) PROVE Desk!Request(c)
  <2>1. auth[c].user \in Users
    BY <1>3, StepShape, SessionsAssumption DEF HandlePost, Authenticated, AuthTypeOK
  <2> QED BY <1>3, <2>1 DEF HandlePost, Post, PostBatch, PostBooking, PostMaintenance, Desk!Request
<1>4. ASSUME NEW c \in Calls, Progress(c)
      PROVE  Desk!Request(c) \/ Desk!Continue(c) \/ UNCHANGED desk
  BY <1>3, <1>4 DEF Progress, Authenticate, Unauthorized, HandleOther, HandleReservation, Answer,
                       Serve, Close
<1>5. ASSUME NEW c \in Calls, RequestFails(c) PROVE Desk!CallFails(c) \/ UNCHANGED desk
  BY <1>5 DEF RequestFails
<1>6. ASSUME Restart PROVE [Desk!Next]_(Desk!vars) /\ CallsShape'
  <2>1. CallsShape' /\ UNCHANGED << Desk!store, audit >>
    BY <1>6 DEF Restart, CallsShape, rows, Desk!store
  <2>2. CASE \E c \in Calls : calls[c] # Desk!Idle
    BY <1>6, <2>1, <2>2 DEF Restart, Desk!Next, Desk!Crash
  <2>3. CASE \A c \in Calls : calls[c] = Desk!Idle
    BY <1>6, <2>1, <2>3 DEF Restart, CallsShape, Desk!vars
  <2> QED BY <2>1, <2>2, <2>3
<1>7. ASSUME NEW c \in Calls, \E u \in Users : ReceiveLogin(c, u) PROVE UNCHANGED desk
  BY <1>7 DEF ReceiveLogin
<1>8. ASSUME NEW c \in Calls, \E op \in Ops, t \in Tokens \cup {None} : Receive(c, op, t)
      PROVE  UNCHANGED desk
  BY <1>8 DEF Receive
<1>9. UNCHANGED webVars => UNCHANGED desk
  BY DEF webVars
<1> QED BY <1>1, <1>2, <1>4, <1>5, <1>6, <1>7, <1>8, <1>9 DEF WebNext

\* The server implements the booking desk.
THEOREM ServerUsesDesk == WebSpec => Desk!Spec
<1>1. Desk!Init => CallsShape
  BY DEF Desk!Init, CallsShape
<1>2. WebSpec => []AuthTypeOK
  BY ServerUsesSessions, NobodyUnderDeadSession, PTL
<1> QED BY <1>1, <1>2, DeskStep, PTL DEF WebSpec, WebInit, Desk!Spec

-----------------------------------------------------------------------------
(* What is proved of the desk holds behind the server.                     *)

DeskProofs == INSTANCE AuditProofs

LEMMA DeskAssumptions ==
  /\ DeskProofs!UsersAssumption /\ DeskProofs!StoreAssumption /\ DeskProofs!KeysAssumption
  /\ DeskProofs!InputAssumption /\ DeskProofs!NoneAssumption
<1>1. DeskProofs!UsersAssumption
  BY DeskAssumption DEF Desk!Roles, DeskProofs!Roles
<1>2. DeskProofs!StoreAssumption
  BY DeskAssumption DEF Desk!EquipmentStatuses, DeskProofs!EquipmentStatuses
<1>3. DeskProofs!KeysAssumption
  BY DeskAssumption DEF IsFiniteSet, DeskProofs!IsFiniteSet
<1>4. DeskProofs!InputAssumption
  BY DeskAssumption DEF Desk!Window, DeskProofs!Window, Desk!Stamp, DeskProofs!Stamp
<1>5. DeskProofs!NoneAssumption
  BY DeskAssumption
  DEF Desk!Batch, DeskProofs!Batch, Desk!BookingRow, DeskProofs!BookingRow,
      Desk!Reservation, DeskProofs!Reservation, Desk!Block, DeskProofs!Block,
      Desk!BookEntry, DeskProofs!BookEntry, Desk!Event, DeskProofs!Event,
      Desk!IncidentStatuses, DeskProofs!IncidentStatuses,
      Desk!ReservationStatuses, DeskProofs!ReservationStatuses,
      Desk!RequestStatuses, DeskProofs!RequestStatuses
<1> QED BY <1>1, <1>2, <1>3, <1>4, <1>5

\* The desk of the server and the desk of the theorems are the same: one
\* definition of Booking under two names each, down to the text of a stamp.
LEMMA SameDesk == Desk!Spec <=> DeskProofs!Spec
  BY PTL
  DEF Desk!Spec, DeskProofs!Spec, Desk!Init, DeskProofs!Init, Desk!Next,
      DeskProofs!Next, Desk!Idle, DeskProofs!Idle, Desk!Request,
      DeskProofs!Request, Desk!Continue, DeskProofs!Continue, Desk!CallFails,
      DeskProofs!CallFails, Desk!ResolveIncident, DeskProofs!ResolveIncident,
      Desk!UpdateEquipmentStatus, DeskProofs!UpdateEquipmentStatus, Desk!Crash,
      DeskProofs!Crash, Desk!CreateBatch, DeskProofs!CreateBatch,
      Desk!SubmitRead, DeskProofs!SubmitRead, Desk!ApproveRead,
      DeskProofs!ApproveRead, Desk!CheckoutRead, DeskProofs!CheckoutRead,
      Desk!ReturnRead, DeskProofs!ReturnRead, Desk!AddMaintenance,
      DeskProofs!AddMaintenance, Desk!ReportIncident, DeskProofs!ReportIncident,
      Desk!SubmitInsert, DeskProofs!SubmitInsert, Desk!ApproveTx,
      DeskProofs!ApproveTx, Desk!CheckoutTx, DeskProofs!CheckoutTx,
      Desk!ReturnTx, DeskProofs!ReturnTx, Desk!Suspend, DeskProofs!Suspend,
      Desk!WriteAudit, DeskProofs!WriteAudit, Desk!Finish, DeskProofs!Finish,
      Desk!store, DeskProofs!store, Desk!RequireRole, DeskProofs!RequireRole,
      Desk!ValidateBatch, DeskProofs!ValidateBatch, Desk!GotoAudit,
      DeskProofs!GotoAudit, Desk!MaySubmit, DeskProofs!MaySubmit, Desk!Goto,
      DeskProofs!Goto, Desk!MayUse, DeskProofs!MayUse, Desk!CanMove,
      DeskProofs!CanMove, Desk!ValidateQuantity, DeskProofs!ValidateQuantity,
      Desk!Before, DeskProofs!Before, Desk!CanApprove, DeskProofs!CanApprove,
      Desk!Moved, DeskProofs!Moved, Desk!CanCheckout, DeskProofs!CanCheckout,
      Desk!MoveReservation, DeskProofs!MoveReservation, Desk!ReservationMatches,
      DeskProofs!ReservationMatches, Desk!RestoreConsumables,
      DeskProofs!RestoreConsumables, Desk!Suspends, DeskProofs!Suspends,
      Desk!ValidWindow, DeskProofs!ValidWindow, Desk!MinuteBefore,
      DeskProofs!MinuteBefore, Desk!MaxQuantity, DeskProofs!MaxQuantity,
      Desk!Instant, DeskProofs!Instant, Desk!HasConflict,
      DeskProofs!HasConflict, Desk!HasMaintenance, DeskProofs!HasMaintenance,
      Desk!BookingMatches, DeskProofs!BookingMatches, Desk!FreshReservation,
      DeskProofs!FreshReservation, Desk!CanConsume, DeskProofs!CanConsume,
      Desk!InUseStatuses, DeskProofs!InUseStatuses, Desk!SqlOverlaps,
      DeskProofs!SqlOverlaps, Desk!HoldsSlot, DeskProofs!HoldsSlot,
      Desk!TextLess, DeskProofs!TextLess, Desk!ActiveStatuses,
      DeskProofs!ActiveStatuses, Desk!LexLess, DeskProofs!LexLess, Desk!Suffix,
      DeskProofs!Suffix, Desk!FracText, DeskProofs!FracText, Desk!ZoneText,
      DeskProofs!ZoneText, Desk!Point, DeskProofs!Point, Desk!Digit,
      DeskProofs!Digit, Desk!Zulu, DeskProofs!Zulu, Desk!Plus, DeskProofs!Plus,
      Desk!Minus, DeskProofs!Minus, Desk!vars, DeskProofs!vars

\* The desk's tables and calls have their types behind the server.
LEMMA DeskTypeCorrect == WebSpec => []Desk!TypeOK
<1>1. DeskProofs!TypeOK <=> Desk!TypeOK
  BY DEF Desk!TypeOK, DeskProofs!TypeOK, Desk!Batch, DeskProofs!Batch,
         Desk!BookingRow, DeskProofs!BookingRow, Desk!Reservation,
         DeskProofs!Reservation, Desk!Block, DeskProofs!Block, Desk!Event,
         DeskProofs!Event, Desk!IncidentStatuses, DeskProofs!IncidentStatuses,
         Desk!Idle, DeskProofs!Idle, Desk!SubmitCall, DeskProofs!SubmitCall,
         Desk!ApproveCall, DeskProofs!ApproveCall, Desk!CheckoutCall,
         DeskProofs!CheckoutCall, Desk!ReturnCall, DeskProofs!ReturnCall,
         Desk!SuspendCall, DeskProofs!SuspendCall, Desk!AuditCall,
         DeskProofs!AuditCall, Desk!Call, DeskProofs!Call,
         Desk!ReservationStatuses, DeskProofs!ReservationStatuses,
         Desk!RequestStatuses, DeskProofs!RequestStatuses
<1> QED BY <1>1, SameDesk, DeskAssumptions, DeskProofs!TypeCorrect, ServerUsesDesk, PTL

\* What the log says happened did happen, behind the server too.
THEOREM ServerLogTruthful == WebSpec => []Desk!AuditTruthful
<1>1. DeskProofs!AuditTruthful <=> Desk!AuditTruthful
  BY DEF Desk!AuditTruthful, DeskProofs!AuditTruthful, Desk!Happened,
         DeskProofs!Happened
<1> QED BY <1>1, SameDesk, DeskAssumptions, DeskProofs!LogTruthful, ServerUsesDesk, PTL

\* Every mutation a request makes is in the log or about to be, if nothing
\* fails.
THEOREM ServerLogComplete ==
  ASSUME ~ Faults
  PROVE  WebSpec => []Desk!AuditComplete
<1>1. DeskProofs!AuditComplete <=> Desk!AuditComplete
  BY DEF Desk!AuditComplete, DeskProofs!AuditComplete, Desk!Logged,
         DeskProofs!Logged, Desk!CheckedOutOnce, DeskProofs!CheckedOutOnce
<1>2. DeskProofs!Spec => []DeskProofs!AuditComplete
  BY DeskAssumptions, DeskProofs!LogComplete
<1> QED BY <1>1, <1>2, SameDesk, ServerUsesDesk, PTL

-----------------------------------------------------------------------------
(* Rows, requests and answers.  What the server says of a row it made is   *)
(* what the desk wrote, in the name of the user of the session.            *)

\* The tables the server writes to, and what it keeps of each request.
Shapes ==
  /\ batches = [b \in BatchIds |-> batches[b]]
  /\ bookings = [b \in BookingIds |-> bookings[b]]
  /\ blocks = [k \in BlockIds |-> blocks[k]]
  /\ calls = [c \in Calls |-> calls[c]]
  /\ http = [c \in Calls |-> http[c]]

MadeBatch(b, u) == b \in BatchIds /\ batches[b] # None /\ batches[b].teacher = u
MadeBooking(b, u) == b \in BookingIds /\ bookings[b] # None /\ bookings[b].requester = u
MadeBlock(e) == \E k \in BlockIds : blocks[k] # None /\ blocks[k].equip = e

EventOf(act, x) == [action |-> act, entity |-> x]

\* What has been done for a request that is served, and what is left to do.
BatchServed(k, h, u) ==
  /\ h.op = "batches"
  /\ MadeBatch(h.entity, u)
  /\ k.step = "audit" /\ k.event = EventOf("batch.create", h.entity)

BookingServed(k, h, u) ==
  /\ h.op = "bookings"
  /\ \/ /\ k.step = "submit" /\ k.booking = h.entity /\ h.entity \in BookingIds
        /\ k.row \in Desk!BookingRow /\ k.row.requester = u
        /\ RoleOf[u] \in {"teacher", "student"}
     \/ /\ k.step = "audit" /\ k.event = EventOf("booking.submit", h.entity)
        /\ MadeBooking(h.entity, u)

MaintenanceServed(k, h) ==
  /\ h.op = "maintenance"
  /\ MadeBlock(h.entity)
  /\ k.step \in {"suspend", "audit"} /\ k.event = EventOf("maintenance.create", h.entity)
  /\ k.event # None

Served(c) ==
  LET k == calls[c]
      h == http[c]
      u == auth[c].user
  IN
  /\ auth[c].step = "in"
  /\ BatchServed(k, h, u) \/ BookingServed(k, h, u) \/ MaintenanceServed(k, h)

\* What an answer of 201 or 202 says.
Done(h) ==
  \/ /\ h.op = "batches" /\ MadeBatch(h.entity, h.user)
     /\ EventOf("batch.create", h.entity) \in audit
  \/ /\ h.op = "bookings" /\ MadeBooking(h.entity, h.user)
     /\ EventOf("booking.submit", h.entity) \in audit
  \/ /\ h.op = "maintenance" /\ MadeBlock(h.entity)
     /\ EventOf("maintenance.create", h.entity) \in audit

RequestOK(c) ==
  /\ http[c].step \in {"gone", "arrived", "serving", "done"}
  /\ http[c].step # "serving" => calls[c] = Desk!Idle
  /\ http[c].step = "serving" => Served(c)
  /\ http[c].step = "done" => Done(http[c])

WebInv == Shapes /\ RowsAuthorised /\ \A c \in Calls : RequestOK(c)

\* What a step of one request leaves alone.
Apart(c) ==
  /\ Shapes'
  /\ \A d \in Calls : d # c =>
       calls'[d] = calls[d] /\ http'[d] = http[d] /\ auth'[d] = auth[d]

\* What no step of the server undoes.
Lasting ==
  /\ \A b \in BatchIds : batches[b] # None => batches'[b] = batches[b]
  /\ \A b \in BookingIds : bookings[b] # None => bookings'[b] = bookings[b]
  /\ \A k \in BlockIds : blocks[k] # None => blocks'[k] = blocks[k]
  /\ audit \subseteq audit'
  /\ \A u : LoggedIn(u) => LoggedIn(u)'

LEMMA LoggedInStays ==
  ASSUME IInv, IInv', [AuthNext]_authVars
  PROVE  \A u : LoggedIn(u) => LoggedIn(u)'
<1>1. SUFFICES ASSUME NEW t \in Tokens, sessions[t] # None
               PROVE  sessions'[t] # None /\ sessions'[t].user = sessions[t].user
  BY DEF LoggedIn
<1>0. sessions \in [Tokens -> Session \cup {None}] /\ sessions[t] \in Session
  BY <1>1 DEF IInv, AuthTypeOK
<1>2. ASSUME NEW T \in SUBSET Tokens, sessions' = Revoked(T)
      PROVE  sessions'[t] # None /\ sessions'[t].user = sessions[t].user
  <2>1. sessions'[t] \in Session /\ sessions'[t].user = sessions[t].user
    BY <1>0, <1>2 DEF Revoked, Session
  <2> QED BY <2>1, NoSession
<1>3. ASSUME NEW c \in Calls, NEW s \in Tokens, CreateSession(c, s)
      PROVE  sessions'[t] = sessions[t]
  BY <1>0, <1>1, <1>3, SessionsAssumption DEF CreateSession, Issued, IInv, AuthTypeOK
<1>4. CASE sessions' = sessions
  BY <1>1, <1>4
<1> QED
  BY <1>1, <1>2, <1>3, <1>4
  DEF AuthNext, authVars, Login, Present, Advance, FindSession, CheckExpiry, Depart, Abandon,
      AbandonAll, Logout, RecoverExpiredSessions, Tick

\* Whoever is let in has logged in.
LEMMA InLoggedIn ==
  ASSUME IInv, NEW c \in Calls, auth[c].step = "in"
  PROVE  auth[c].user \in Users /\ LoggedIn(auth[c].user)
<1>1. auth[c] \in Step /\ CallerOK(auth[c])
  BY DEF IInv, AuthTypeOK
<1>2. auth[c].ticket.token \in Tokens
  BY <1>1, StepShape DEF CallerOK, Issued, Ticket
<1> QED BY <1>1, <1>2, StepShape, SessionsAssumption DEF CallerOK, Issued, LoggedIn

\* A step of one request is apart from every other.
LEMMA StepsApart ==
  ASSUME IInv, Shapes, NEW c \in Calls,
         \/ \E u \in Users : ReceiveLogin(c, u)
         \/ \E op \in Ops, t \in Tokens \cup {None} : Receive(c, op, t)
         \/ Progress(c) \/ RequestFails(c)
  PROVE  Apart(c)
<1> USE DEF Shapes
<1>0. auth = [d \in Calls |-> auth[d]]
  BY DEF IInv, AuthTypeOK
<1>1. ASSUME NEW a, Enter(c, a) PROVE \A d \in Calls : d # c => auth'[d] = auth[d]
  BY <1>0, <1>1 DEF Enter
<1>2. ASSUME NEW h, GotoWeb(c, h)
      PROVE  /\ http' = [d \in Calls |-> http'[d]]
             /\ \A d \in Calls : d # c => http'[d] = http[d]
  BY <1>2 DEF GotoWeb
<1>3. ASSUME NEW k, Desk!Goto(c, k)
      PROVE  /\ calls' = [d \in Calls |-> calls'[d]]
             /\ \A d \in Calls : d # c => calls'[d] = calls[d]
  BY <1>3 DEF Desk!Goto
<1>4. UNCHANGED desk => UNCHANGED << batches, bookings, blocks, calls >>
  BY DEF desk, rows
<1>5. UNCHANGED authVars => UNCHANGED auth
  BY DEF authVars
<1>6. ASSUME NEW u \in Users, ReceiveLogin(c, u) PROVE Apart(c)
  <2>1. \E a : Enter(c, a)
    BY <1>6 DEF ReceiveLogin, Login, Refuse
  <2> QED BY <1>1, <1>2, <1>4, <1>6, <2>1 DEF ReceiveLogin, Apart
<1>7. ASSUME NEW op \in Ops, NEW t \in Tokens \cup {None}, Receive(c, op, t) PROVE Apart(c)
  <2>1. \E a : Enter(c, a)
    BY <1>7 DEF Receive, Present
  <2> QED BY <1>1, <1>2, <1>4, <1>7, <2>1 DEF Receive, Apart
<1>8. CASE Authenticate(c)
  <2>1. \E a : Enter(c, a)
    BY <1>8 DEF Authenticate, Advance, CreateSession, FindSession, CheckExpiry, Refuse
  <2> QED BY <1>1, <1>4, <1>8, <2>1 DEF Authenticate, Apart
<1>9. CASE Unauthorized(c) \/ HandleOther(c) \/ HandleReservation(c)
  <2>1. (\E a : Enter(c, a)) /\ (\E h : GotoWeb(c, h)) /\ UNCHANGED desk
    BY <1>9 DEF Unauthorized, HandleOther, HandleReservation, Answer, Depart, Leave
  <2> QED BY <1>1, <1>2, <1>4, <2>1 DEF Apart
<1>10. CASE HandlePost(c)
  <2>1. UNCHANGED authVars /\ \E h : GotoWeb(c, h)
    BY <1>10 DEF HandlePost, Post, PostBatch, PostBooking, PostMaintenance, ServeFor
  <2>2. (\E k : Desk!Goto(c, k)) /\ (Shapes' <=> calls' = [d \in Calls |-> calls'[d]]
                                                  /\ http' = [d \in Calls |-> http'[d]])
    BY <1>10 DEF HandlePost, Post, PostBatch, PostBooking, PostMaintenance, Desk!CreateBatch,
                 Desk!SubmitRead, Desk!AddMaintenance, Desk!GotoAudit, Desk!store
  <2> QED BY <1>1, <1>2, <1>3, <1>5, <2>1, <2>2 DEF Apart
<1>11. CASE Serve(c)
  <2>1. UNCHANGED << authVars, http >> \/ ((\E a : Enter(c, a)) /\ (\E h : GotoWeb(c, h)))
    BY <1>11 DEF Serve, Depart, Leave
  <2>2. /\ \E k : Desk!Goto(c, k)
        /\ bookings' = [b \in BookingIds |-> bookings'[b]]
        /\ batches' = batches /\ blocks' = blocks
    BY <1>11 DEF Serve, Desk!Continue, Desk!SubmitInsert, Desk!ApproveTx, Desk!CheckoutTx,
                 Desk!ReturnTx, Desk!Suspend, Desk!WriteAudit, Desk!GotoAudit, Desk!Finish,
                 Desk!store
  <2> QED BY <1>1, <1>2, <1>3, <1>5, <2>1, <2>2 DEF Apart
<1>12. CASE Close(c)
  BY <1>2, <1>4, <1>5, <1>12 DEF Close, Leave, Apart
<1>13. CASE RequestFails(c)
  <2>1. (\E a : Enter(c, a)) /\ (\E h : GotoWeb(c, h))
    BY <1>13 DEF RequestFails, Abandon, Leave
  <2>2. /\ (\E k : Desk!Goto(c, k)) \/ calls' = calls
        /\ bookings' = bookings /\ batches' = batches /\ blocks' = blocks
    BY <1>4, <1>13 DEF RequestFails, Desk!CallFails, Desk!Finish, Desk!store
  <2> QED BY <1>1, <1>2, <1>3, <2>1, <2>2 DEF Apart
<1> QED BY <1>6, <1>7, <1>8, <1>9, <1>10, <1>11, <1>12, <1>13 DEF Progress

\* The access a request makes next is one its handler started.
LEMMA ServedStep ==
  ASSUME WebInv, NEW c \in Calls, http[c].step = "serving"
  PROVE  /\ Served(c)
         /\ calls[c].step \in {"submit", "suspend", "audit"}
         /\ calls[c].step = "submit" => BookingServed(calls[c], http[c], auth[c].user)
         /\ calls[c].step = "suspend" => MaintenanceServed(calls[c], http[c])
  BY DEF WebInv, RequestOK, Served, BatchServed, BookingServed, MaintenanceServed

\* The four ways a step of Serve goes.
LEMMA ServeCases ==
  ASSUME WebInv, NEW c \in Calls, Serve(c)
  PROVE  Desk!SubmitInsert(c) \/ Desk!Suspend(c) \/ Desk!WriteAudit(c)
  BY ServedStep
  DEF Serve, Desk!Continue, Desk!ApproveTx, Desk!CheckoutTx, Desk!ReturnTx

LEMMA RowsLast ==
  ASSUME WebInv, [WebNext]_webVars
  PROVE  /\ \A b \in BatchIds : batches[b] # None => batches'[b] = batches[b]
         /\ \A b \in BookingIds : bookings[b] # None => bookings'[b] = bookings[b]
         /\ \A k \in BlockIds : blocks[k] # None => blocks'[k] = blocks[k]
         /\ audit \subseteq audit'
<1> USE DEF WebInv, Shapes
<1>1. CASE UNCHANGED rows
  BY <1>1 DEF rows
<1>2. ASSUME NEW c \in Calls, HandlePost(c)
      PROVE  /\ \A b \in BatchIds : batches[b] # None => batches'[b] = batches[b]
             /\ \A k \in BlockIds : blocks[k] # None => blocks'[k] = blocks[k]
             /\ UNCHANGED << bookings, audit >>
  <2>1. CASE PostBatch(c, auth[c].user)
    BY <2>1 DEF PostBatch, Desk!CreateBatch
  <2>2. CASE PostBooking(c, auth[c].user)
    BY <2>2 DEF PostBooking, Desk!SubmitRead, Desk!store
  <2>3. CASE PostMaintenance(c, auth[c].user)
    BY <2>3 DEF PostMaintenance, Desk!AddMaintenance
  <2> QED BY <1>2, <2>1, <2>2, <2>3 DEF HandlePost, Post
<1>3. ASSUME NEW c \in Calls, Serve(c)
      PROVE  /\ \A b \in BookingIds : bookings[b] # None => bookings'[b] = bookings[b]
             /\ UNCHANGED << batches, blocks >>
             /\ audit \subseteq audit'
  BY <1>3, ServeCases DEF Desk!SubmitInsert, Desk!Suspend, Desk!WriteAudit, Desk!store
<1>4. ASSUME NEW c \in Calls, Progress(c), ~ HandlePost(c), ~ Serve(c)
      PROVE  UNCHANGED rows
  BY <1>4 DEF Progress, Authenticate, Unauthorized, HandleOther, HandleReservation, Answer, Close,
              desk
<1>5. ASSUME NEW c \in Calls, RequestFails(c)
      PROVE  UNCHANGED rows
  BY <1>5 DEF RequestFails, Desk!CallFails, Desk!store, rows, desk
<1>6. ASSUME NEW c \in Calls, \/ \E u \in Users : ReceiveLogin(c, u)
                              \/ \E op \in Ops, t \in Tokens \cup {None} : Receive(c, op, t)
      PROVE  UNCHANGED rows
  BY <1>6 DEF ReceiveLogin, Receive, desk
<1>7. CASE Restart \/ UNCHANGED webVars \/ UNCHANGED << desk, http >>
  BY <1>7 DEF Restart, webVars, desk, rows
<1> QED BY <1>1, <1>2, <1>3, <1>4, <1>5, <1>6, <1>7 DEF WebNext

LEMMA LastingStep ==
  ASSUME IInv, IInv', WebInv, [WebNext]_webVars
  PROVE  Lasting
  BY RowsLast, LoggedInStays, SessionsStep DEF Lasting

\* What one request does leaves the others in order.
LEMMA OtherRequests ==
  ASSUME WebInv, Lasting, NEW d \in Calls,
         calls'[d] = calls[d], http'[d] = http[d], auth'[d] = auth[d]
  PROVE  RequestOK(d)'
<1>1. RequestOK(d)
  BY DEF WebInv
<1>2. \A b, u : MadeBatch(b, u) => MadeBatch(b, u)'
  BY DEF Lasting, MadeBatch
<1>3. \A b, u : MadeBooking(b, u) => MadeBooking(b, u)'
  BY DEF Lasting, MadeBooking
<1>4. \A e : MadeBlock(e) => MadeBlock(e)'
  BY DEF Lasting, MadeBlock
<1>5. Served(d) => Served(d)'
  BY <1>2, <1>3, <1>4 DEF Served, BatchServed, BookingServed, MaintenanceServed
<1>6. Done(http[d]) => Done(http[d])'
  BY <1>2, <1>3, <1>4 DEF Done, Lasting
<1> QED BY <1>1, <1>5, <1>6 DEF RequestOK

\* None is no row.
LEMMA RowsAreRows ==
  /\ \A r \in Desk!Batch : r # None
  /\ \A r \in Desk!BookingRow : r # None
  /\ \A r \in Desk!Block : r # None
  /\ \A r \in Desk!Event : r # None
  BY DeskAssumption

\* A handler that takes a request on does it for the user of its session.
LEMMA PostOK ==
  ASSUME IInv, WebInv, Lasting, NEW c \in Calls, HandlePost(c)
  PROVE  RequestOK(c)' /\ RowsAuthorised'
<1> DEFINE u == auth[c].user
<1> USE DEF WebInv, Shapes
<1>0. auth[c].step = "in" /\ auth' = auth /\ sessions' = sessions /\ u \in Users /\ LoggedIn(u)
  BY InLoggedIn DEF HandlePost, Authenticated, Post, PostBatch, PostBooking, PostMaintenance,
                    ServeFor, authVars
<1>1. \A v \in Users : LoggedIn(v)' <=> LoggedIn(v)
  BY <1>0 DEF LoggedIn
<1>2. CASE PostBatch(c, u)
  <2>1. PICK b \in BatchIds, n \in Counts, w \in Windows, t \in Readings :
          Desk!CreateBatch(c, u, b, n, w, t) /\ ServeFor(c, b)
    BY <1>2 DEF PostBatch
  <2>2. /\ batches'[b] = [teacher |-> u, count |-> n]
        /\ \A x \in BatchIds : x # b => batches'[x] = batches[x]
        /\ RoleOf[u] \in {"teacher", "admin"}
        /\ UNCHANGED << bookings, blocks >>
    BY <2>1 DEF Desk!CreateBatch, Desk!RequireRole
  <2>3. batches'[b] # None
    BY <1>0, <2>2, DeskAssumption, RowsAreRows DEF Desk!Batch
  <2>4. /\ calls'[c] = [step |-> "audit", event |-> EventOf("batch.create", b)]
        /\ http'[c] = [step |-> "serving", op |-> "batches", entity |-> b]
    BY <1>2, <2>1 DEF Desk!CreateBatch, Desk!GotoAudit, Desk!Goto, ServeFor, GotoWeb, EventOf,
                      PostBatch
  <2>5. MadeBatch(b, u)'
    BY <1>0, <2>2, <2>3 DEF MadeBatch
  <2>6. RequestOK(c)'
    BY <1>0, <2>4, <2>5 DEF RequestOK, Served, BatchServed, MadeBatch
  <2>7. RowsAuthorised'
    BY <1>0, <1>1, <2>2 DEF RowsAuthorised, LoggedIn
  <2> QED BY <2>6, <2>7
<1>3. CASE PostBooking(c, u)
  <2>1. PICK b \in BookingIds, x \in BatchIds, e \in Equipment, w \in Windows :
          Desk!SubmitRead(c, u, b, x, e, w) /\ ServeFor(c, b)
    BY <1>3 DEF PostBooking
  <2> DEFINE row == [batch |-> x, requester |-> u, equip |-> e, window |-> w,
                     status |-> "pending", version |-> 1]
  <2>2. /\ calls'[c] = [step |-> "submit", booking |-> b, row |-> row]
        /\ http'[c] = [step |-> "serving", op |-> "bookings", entity |-> b]
    BY <1>3, <2>1 DEF Desk!SubmitRead, Desk!Goto, ServeFor, GotoWeb, PostBooking
  <2>3. row \in Desk!BookingRow
    BY <1>0 DEF Desk!BookingRow, Desk!RequestStatuses
  <2>4. RoleOf[u] \in {"teacher", "student"} /\ UNCHANGED << batches, bookings, blocks >>
    BY <2>1 DEF Desk!SubmitRead, Desk!MaySubmit, Desk!RequireRole, Desk!store
  <2>5. RequestOK(c)'
    BY <1>0, <2>2, <2>3, <2>4 DEF RequestOK, Served, BookingServed
  <2>6. RowsAuthorised'
    BY <1>0, <2>4 DEF RowsAuthorised, LoggedIn
  <2> QED BY <2>5, <2>6
<1>4. CASE PostMaintenance(c, u)
  <2>1. PICK k \in BlockIds, e \in Equipment, w \in Windows, t \in Readings :
          Desk!AddMaintenance(c, u, k, e, w, t) /\ ServeFor(c, e)
    BY <1>4 DEF PostMaintenance
  <2>2. /\ blocks'[k] = [equip |-> e, window |-> w]
        /\ RoleOf[u] \in {"admin", "safety"}
        /\ UNCHANGED << batches, bookings >>
    BY <2>1 DEF Desk!AddMaintenance, Desk!RequireRole
  <2>3. blocks'[k] # None
    BY <2>2, RowsAreRows DEF Desk!Block
  <2>4. /\ calls'[c] = [step |-> "suspend", equip |-> e, window |-> w,
                        event |-> EventOf("maintenance.create", e)]
        /\ http'[c] = [step |-> "serving", op |-> "maintenance", entity |-> e]
    BY <1>4, <2>1 DEF Desk!AddMaintenance, Desk!Goto, ServeFor, GotoWeb, EventOf, PostMaintenance
  <2>5. EventOf("maintenance.create", e) # None
    BY RowsAreRows DEF EventOf, Desk!Event
  <2>6. RequestOK(c)'
    BY <1>0, <2>2, <2>3, <2>4, <2>5 DEF RequestOK, Served, MaintenanceServed, MadeBlock
  <2>7. RowsAuthorised'
    BY <1>0, <1>1, <2>2 DEF RowsAuthorised, LoggedIn
  <2> QED BY <2>6, <2>7
<1> QED BY <1>2, <1>3, <1>4 DEF HandlePost, Post

\* Going on, a request does for that user what it was taken on for, and is
\* answered 2xx after its event only.
LEMMA ServeOK ==
  ASSUME IInv, WebInv, Lasting, NEW c \in Calls, Serve(c)
  PROVE  RequestOK(c)' /\ RowsAuthorised'
<1> USE DEF WebInv, Shapes
<1>u. PICK u : u = auth[c].user
  OBVIOUS
<1>0. /\ http[c].step = "serving" /\ auth[c].step = "in" /\ sessions' = sessions
      /\ u \in Users /\ LoggedIn(u)
  BY <1>u, ServedStep, InLoggedIn DEF Serve, Served, authVars, Depart
<1>1. \A v \in Users : LoggedIn(v)' <=> LoggedIn(v)
  BY <1>0 DEF LoggedIn
<1>2. /\ calls'[c] # Desk!Idle => UNCHANGED << auth, http >>
      /\ calls'[c] = Desk!Idle /\ calls[c].step # "audit" => http'[c] = Gone
      /\ calls'[c] = Desk!Idle /\ calls[c].step = "audit" =>
           http'[c] = [step |-> "done", op |-> http[c].op, entity |-> http[c].entity, user |-> u]
  BY <1>u DEF Serve, GotoWeb, Leave, authVars
<1>3. ASSUME calls'[c] = Desk!Idle, calls[c].step # "audit" PROVE RequestOK(c)'
  BY <1>2, <1>3 DEF RequestOK, Gone
<1>4. CASE Desk!SubmitInsert(c)
  <2>0. PICK k : k = calls[c]
    OBVIOUS
  <2>1. /\ k.step = "submit" /\ BookingServed(k, http[c], u)
        /\ UNCHANGED << batches, blocks >>
    BY <1>u, <1>0, <1>4, <2>0, ServedStep DEF Desk!SubmitInsert
  <2>2. CASE bookings' = [bookings EXCEPT ![k.booking] = k.row]
             /\ Desk!GotoAudit(c, "booking.submit", k.booking)
    <3>1. /\ bookings'[k.booking] = k.row /\ k.row # None
          /\ \A b \in BookingIds : b # k.booking => bookings'[b] = bookings[b]
      BY <2>1, <2>2, RowsAreRows DEF BookingServed
    <3>2. calls'[c] = [step |-> "audit", event |-> EventOf("booking.submit", k.booking)]
      BY <2>2 DEF Desk!GotoAudit, Desk!Goto, EventOf
    <3>3. calls'[c] # Desk!Idle
      BY <3>2 DEF Desk!Idle
    <3>4. MadeBooking(k.booking, u)'
      BY <1>2, <2>1, <3>1, <3>3 DEF MadeBooking, BookingServed
    <3>5. RequestOK(c)'
      <4>1. BookingServed(calls[c], http[c], u)'
        BY <1>2, <2>1, <3>2, <3>3, <3>4 DEF BookingServed, MadeBooking
      <4>2. Served(c)' /\ http'[c].step = "serving"
        BY <1>u, <1>0, <1>2, <3>3, <4>1 DEF Served, BookingServed, MadeBooking
      <4> QED BY <4>2 DEF RequestOK
    <3>6. RowsAuthorised'
      BY <1>0, <1>1, <2>1, <3>1 DEF RowsAuthorised, BookingServed, LoggedIn
    <3> QED BY <3>5, <3>6
  <2>3. CASE Desk!Finish(c) /\ UNCHANGED bookings
    <3>1. calls'[c] = Desk!Idle
      BY <2>3 DEF Desk!Finish, Desk!Goto
    <3>2. RowsAuthorised'
      BY <1>0, <2>1, <2>3 DEF RowsAuthorised, LoggedIn
    <3> QED BY <1>3, <2>0, <2>1, <3>1, <3>2
  <2> QED BY <1>4, <2>0, <2>2, <2>3 DEF Desk!SubmitInsert
<1>5. CASE Desk!Suspend(c)
  <2>1. MaintenanceServed(calls[c], http[c]) /\ UNCHANGED << batches, bookings, blocks >>
    BY <1>0, <1>5, ServedStep DEF Desk!Suspend
  <2>2. calls'[c] = [step |-> "audit", event |-> calls[c].event]
    BY <1>5, <2>1 DEF Desk!Suspend, Desk!Goto, MaintenanceServed
  <2>3. calls'[c] # Desk!Idle
    BY <2>2 DEF Desk!Idle
  <2>4. RequestOK(c)'
    BY <1>u, <1>0, <1>2, <2>1, <2>2, <2>3 DEF RequestOK, Served, MaintenanceServed, MadeBlock
  <2>5. RowsAuthorised'
    BY <1>0, <2>1 DEF RowsAuthorised, LoggedIn
  <2> QED BY <2>4, <2>5
<1>6. CASE Desk!WriteAudit(c)
  <2>1. /\ calls[c].step = "audit" /\ calls[c].event \in audit'
        /\ calls'[c] = Desk!Idle
        /\ UNCHANGED << batches, bookings, blocks >>
    BY <1>6 DEF Desk!WriteAudit, Desk!Finish, Desk!Goto, Desk!store
  <2>2. Served(c)
    BY <1>0, ServedStep
  <2>3. PICK h : /\ h = [step |-> "done", op |-> http[c].op, entity |-> http[c].entity, user |-> u]
                 /\ http'[c] = h
    BY <1>2, <2>1
  <2>4. Done(h)'
    BY <1>u, <2>1, <2>2, <2>3 DEF Done, Served, BatchServed, BookingServed, MaintenanceServed, MadeBatch,
                      MadeBooking, MadeBlock
  <2>5. RequestOK(c)'
    BY <2>1, <2>3, <2>4 DEF RequestOK, Done, MadeBatch, MadeBooking, MadeBlock
  <2>6. RowsAuthorised'
    BY <1>0, <2>1 DEF RowsAuthorised, LoggedIn
  <2> QED BY <2>5, <2>6
<1> QED BY <1>4, <1>5, <1>6, ServeCases

LEMMA WebInvStep == IInv /\ IInv' /\ WebInv /\ [WebNext]_webVars => WebInv'
<1> SUFFICES ASSUME IInv, IInv', WebInv, [WebNext]_webVars PROVE WebInv'
  OBVIOUS
<1>0. Lasting
  BY LastingStep
<1>1. ASSUME UNCHANGED << batches, bookings, blocks >> PROVE RowsAuthorised'
  BY <1>0, <1>1 DEF WebInv, RowsAuthorised, Lasting
<1>2. ASSUME NEW c \in Calls, Apart(c), RequestOK(c)', RowsAuthorised' PROVE WebInv'
  BY <1>0, <1>2, OtherRequests DEF Apart, WebInv
<1>3. ASSUME NEW c \in Calls, HandlePost(c) \/ Serve(c) PROVE WebInv'
  <2>1. Apart(c)
    BY <1>3, StepsApart DEF WebInv, Progress
  <2> QED BY <1>0, <1>2, <1>3, <2>1, PostOK, ServeOK
<1>4. ASSUME NEW c \in Calls,
             \/ \E u \in Users : ReceiveLogin(c, u)
             \/ \E op \in Ops, t \in Tokens \cup {None} : Receive(c, op, t)
      PROVE  WebInv'
  <2>1. Apart(c)
    BY <1>4, StepsApart DEF WebInv
  <2>2. UNCHANGED << batches, bookings, blocks, calls >> /\ http'[c].step = "arrived"
        /\ http[c].step = "gone"
    BY <1>4 DEF ReceiveLogin, Receive, desk, rows, GotoWeb, WebInv, Shapes, Gone
  <2>3. RequestOK(c)'
    BY <2>2 DEF RequestOK, WebInv
  <2> QED BY <1>1, <1>2, <2>1, <2>2, <2>3
<1>5. ASSUME NEW c \in Calls, Authenticate(c) PROVE WebInv'
  <2>1. Apart(c)
    BY <1>5, StepsApart DEF WebInv, Progress
  <2>2. UNCHANGED << batches, bookings, blocks, calls, http >> /\ http[c].step = "arrived"
    BY <1>5 DEF Authenticate, desk, rows
  <2>3. RequestOK(c)'
    BY <2>2 DEF RequestOK, WebInv
  <2> QED BY <1>1, <1>2, <2>1, <2>2, <2>3
<1>6. ASSUME NEW c \in Calls,
             Unauthorized(c) \/ HandleOther(c) \/ HandleReservation(c) \/ Close(c)
      PROVE  WebInv'
  <2>1. Apart(c)
    BY <1>6, StepsApart DEF WebInv, Progress
  <2>2. UNCHANGED << batches, bookings, blocks, calls >> /\ http'[c].step = "gone"
        /\ http[c].step # "serving"
    BY <1>6 DEF Unauthorized, HandleOther, HandleReservation, Authenticated, Answer, Close, Leave,
                GotoWeb, Gone, desk, rows, WebInv, Shapes
  <2>3. RequestOK(c)'
    BY <2>2 DEF RequestOK, WebInv
  <2> QED BY <1>1, <1>2, <2>1, <2>2, <2>3
<1>7. ASSUME NEW c \in Calls, RequestFails(c) PROVE WebInv'
  <2>1. Apart(c)
    BY <1>7, StepsApart DEF WebInv
  <2>2. UNCHANGED << batches, bookings, blocks >> /\ http'[c].step = "gone"
    BY <1>7 DEF RequestFails, Desk!CallFails, Desk!store, desk, rows, Leave, GotoWeb, Gone, WebInv,
                Shapes
  <2>3. calls'[c] = Desk!Idle
    BY <1>7 DEF RequestFails, Desk!CallFails, Desk!Finish, Desk!Goto, desk, WebInv, RequestOK,
                Shapes
  <2>4. RequestOK(c)'
    BY <2>2, <2>3 DEF RequestOK
  <2> QED BY <1>1, <1>2, <2>1, <2>2, <2>4
<1>8. CASE Restart
  <2>1. UNCHANGED << batches, bookings, blocks >> /\ Shapes'
        /\ \A c \in Calls : calls'[c] = Desk!Idle /\ http'[c].step = "gone"
    BY <1>8 DEF Restart, rows, Gone, WebInv, Shapes
  <2> QED BY <1>1, <2>1 DEF WebInv, RequestOK
<1>9. CASE \/ /\ (\E t \in Tokens : Logout(t)) \/ RecoverExpiredSessions \/ Tick
              /\ UNCHANGED << desk, http >>
           \/ UNCHANGED webVars
  <2>1. UNCHANGED << auth, http, calls, batches, bookings, blocks >>
    BY <1>9 DEF Logout, RecoverExpiredSessions, Tick, webVars, authVars, desk, rows
  <2>2. \A c \in Calls : RequestOK(c)'
    BY <1>0, <2>1, OtherRequests
  <2> QED BY <1>1, <2>1, <2>2 DEF WebInv, Shapes
<1> QED BY <1>3, <1>4, <1>5, <1>6, <1>7, <1>8, <1>9 DEF WebNext, Progress

LEMMA WebInvAlways == WebSpec => []WebInv
<1>1. WebInit => WebInv
  BY DEF WebInit, Desk!Init, WebInv, Shapes, RowsAuthorised, RequestOK, Gone
<1>2. AuthSpec => []IInv
  BY InitIInv, InvStep, PTL DEF AuthSpec
<1> QED BY <1>1, <1>2, ServerUsesSessions, WebInvStep, PTL DEF WebSpec

\* Every row was made for somebody who had logged in, and whose role may.
THEOREM RowsMadeByUsers == WebSpec => []RowsAuthorised
  BY WebInvAlways, PTL DEF WebInv

\* An answer of 201 or 202 is true.
THEOREM AnswersAreTrue == WebSpec => []DoneIsDone
<1>1. WebInv => DoneIsDone
  BY DEF WebInv, RequestOK, DoneIsDone, Done, MadeBatch, MadeBooking, MadeBlock, EventOf
<1> QED BY <1>1, WebInvAlways, PTL

-----------------------------------------------------------------------------
(* The type invariant of the server.                                       *)

LEMMA WebIs ==
  /\ Gone \in Web
  /\ \A op \in Ops : [step |-> "arrived", op |-> op] \in Web
  /\ \A op \in Ops, x \in Entities : [step |-> "serving", op |-> op, entity |-> x] \in Web
  /\ \A op \in Ops, x \in Entities, u \in Users :
       [step |-> "done", op |-> op, entity |-> x, user |-> u] \in Web
  BY DEF Web

LEMMA WebShape ==
  ASSUME NEW h \in Web
  PROVE  /\ h.step \in {"arrived", "serving"} => h.op \in Ops
         /\ h.step = "serving" => h.entity \in Entities
  BY DEF Web, Gone

HttpOK == http \in [Calls -> Web]

LEMMA HttpStep == IInv /\ WebInv /\ HttpOK /\ [WebNext]_webVars => HttpOK'
<1> SUFFICES ASSUME IInv, WebInv, HttpOK, [WebNext]_webVars PROVE HttpOK'
  OBVIOUS
\* A step writes what has the type, or nothing.
<1>1. ASSUME NEW c \in Calls, NEW next \in Web, GotoWeb(c, next) PROVE HttpOK'
  BY <1>1 DEF HttpOK, GotoWeb
<1>2. ASSUME NEW c \in Calls, Leave(c) PROVE HttpOK'
  BY <1>1, <1>2, WebIs DEF Leave
<1>3. ASSUME UNCHANGED http PROVE HttpOK'
  BY <1>3 DEF HttpOK
\* The user the middleware found is one of the table.
<1>4. ASSUME NEW c \in Calls, auth[c].step = "in" PROVE auth[c].user \in Users
  BY <1>4, StepShape, SessionsAssumption DEF IInv, AuthTypeOK
<1>5. ASSUME NEW c \in Calls, NEW u \in Users, ReceiveLogin(c, u) PROVE HttpOK'
  BY <1>1, <1>5, WebIs DEF ReceiveLogin, Ops
<1>6. ASSUME NEW c \in Calls, NEW op \in Ops, NEW t \in Tokens \cup {None}, Receive(c, op, t)
      PROVE  HttpOK'
  BY <1>1, <1>6, WebIs DEF Receive
<1>7. ASSUME NEW c \in Calls, HandlePost(c) PROVE HttpOK'
  <2>1. http[c].op \in Ops
    BY <1>7, WebShape DEF HandlePost, Authenticated, HttpOK
  <2>2. PICK x \in Entities : ServeFor(c, x)
    BY <1>7 DEF HandlePost, Post, PostBatch, PostBooking, PostMaintenance, Entities
  <2> QED BY <1>1, <2>1, <2>2, WebIs DEF ServeFor
<1>8. ASSUME NEW c \in Calls, Serve(c) PROVE HttpOK'
  <2>1. http[c].op \in Ops /\ http[c].entity \in Entities
    BY <1>8, WebShape DEF Serve, HttpOK
  <2>2. auth[c].user \in Users
    BY <1>4, <1>8 DEF Serve, WebInv, RequestOK, Served
  <2>3. CASE UNCHANGED http
    BY <1>3, <2>3
  <2>4. CASE Leave(c)
    BY <1>2, <2>4
  <2>5. CASE GotoWeb(c, [step |-> "done", op |-> http[c].op,
                         entity |-> http[c].entity, user |-> auth[c].user])
    BY <1>1, <2>1, <2>2, <2>5, WebIs
  <2> QED BY <1>8, <2>3, <2>4, <2>5 DEF Serve
<1>9. ASSUME NEW c \in Calls,
             Authenticate(c) \/ Unauthorized(c) \/ HandleOther(c) \/ HandleReservation(c)
               \/ Close(c) \/ RequestFails(c)
      PROVE  HttpOK'
  BY <1>2, <1>3, <1>9
  DEF Authenticate, Unauthorized, HandleOther, HandleReservation, Answer, Close, RequestFails
<1>10. CASE Restart
  BY <1>10, WebIs DEF Restart, HttpOK
<1>11. CASE UNCHANGED webVars \/ UNCHANGED << desk, http >>
  BY <1>3, <1>11 DEF webVars
<1> QED
  BY <1>5, <1>6, <1>7, <1>8, <1>9, <1>10, <1>11 DEF WebNext, Progress

\* The desk's, the sessions' and the requests' state have their types.
THEOREM WebTypeCorrect == WebSpec => []WebTypeOK
<1>1. WebInit => HttpOK
  BY WebIs DEF WebInit, HttpOK
<1>2. AuthSpec => []IInv
  BY InitIInv, InvStep, PTL DEF AuthSpec
<1>3. WebSpec => []HttpOK
  BY <1>1, <1>2, ServerUsesSessions, WebInvAlways, HttpStep, PTL DEF WebSpec
<1>4. WebSpec => []AuthTypeOK
  BY ServerUsesSessions, NobodyUnderDeadSession, PTL
<1> QED BY <1>3, <1>4, DeskTypeCorrect, PTL DEF WebTypeOK, HttpOK

=============================================================================
