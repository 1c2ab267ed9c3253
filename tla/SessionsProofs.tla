---------------------------- MODULE SessionsProofs ----------------------------
(***************************************************************************)
(* Theorems about the sessions, for any number of callers, users and       *)
(* tokens, any life time of a session and any clock that only advances.    *)
(***************************************************************************)
EXTENDS Sessions, TLAPS

\* What the row of a token and the clock tell of a caller at each step.
CallerOK(a) ==
  /\ a.step \in {"find", "check", "in"} => a.ticket.token = None \/ Issued(a.ticket.token)
  /\ a.step = "find" /\ a.ticket.dead => Dead(a.ticket.token)
  /\ a.step \in {"check", "in"} => Issued(a.ticket.token) /\ a.user = sessions[a.ticket.token].user
  /\ a.step = "check" /\ a.ticket.dead => a.expires <= clock
  /\ a.step = "in" => ~ a.ticket.dead

\* A row that is there keeps its user and its times, and a token that is no
\* good never becomes good again.
IInv == AuthTypeOK /\ \A c \in Calls : CallerOK(auth[c])

RowsKept ==
  /\ clock <= clock'
  /\ \A t \in Tokens :
       sessions[t] # None =>
         /\ sessions'[t] # None
         /\ sessions'[t].user = sessions[t].user
         /\ sessions'[t].expires = sessions[t].expires
         /\ sessions[t].revoked => sessions'[t].revoked

\* The step tells what a caller keeps.
LEMMA StepShape ==
  ASSUME NEW a \in Step
  PROVE  /\ a.step \in {"out", "refused", "create", "find", "check", "in"}
         /\ a.step = "create" => a.user \in Enabled /\ a.created \in Nat
         /\ a.step \in {"find", "check", "in"} => a.ticket \in Ticket
         /\ a.step \in {"check", "in"} => a.user \in Enabled
         /\ a.step = "check" => a.expires \in Int
  BY DEF Step

LEMMA StepIs ==
  /\ \A s \in {"out", "refused"} : [step |-> s] \in Step
  /\ \A u \in Enabled, n \in Nat : [step |-> "create", user |-> u, created |-> n] \in Step
  /\ \A k \in Ticket : [step |-> "find", ticket |-> k] \in Step
  /\ \A k \in Ticket, u \in Enabled, e \in Int :
       [step |-> "check", ticket |-> k, user |-> u, expires |-> e] \in Step
  /\ \A k \in Ticket, u \in Enabled : [step |-> "in", ticket |-> k, user |-> u] \in Step
  BY DEF Step

\* What others do to the rows and the clock leaves a caller in order.
LEMMA OthersOK ==
  ASSUME AuthTypeOK, AuthTypeOK', RowsKept, NEW a \in Step, CallerOK(a)
  PROVE  CallerOK(a)'
<1>1. ASSUME NEW t \in Tokens, Issued(t)
      PROVE  Issued(t)' /\ sessions'[t].user = sessions[t].user /\ (Dead(t) => Dead(t)')
  <2>1. sessions[t] \in Session /\ sessions'[t] \in Session
    BY <1>1, NoSession DEF AuthTypeOK, RowsKept, Issued
  <2> QED BY <1>1, <2>1 DEF Issued, Dead, Expired, RowsKept, AuthTypeOK, Session
<1>2. ~ Issued(None) /\ Dead(None)'
  BY DEF Issued, Dead
<1>3. a.step \in {"find", "check", "in"} => a.ticket.token \in Tokens \cup {None}
  BY StepShape DEF Ticket
<1>4. a.step = "check" => a.expires \in Int
  BY StepShape
<1>5. clock \in Nat /\ clock' \in Nat
  BY DEF AuthTypeOK
<1> QED BY <1>1, <1>2, <1>3, <1>4, <1>5 DEF CallerOK, RowsKept

LEMMA InitIInv == AuthInit => IInv
  BY DEF AuthInit, IInv, AuthTypeOK, CallerOK, Step

\* A step that moves one caller, and writes no row.
LEMMA EnterOK ==
  ASSUME IInv, NEW c \in Calls, NEW a \in Step, Enter(c, a), CallerOK(a),
         UNCHANGED << clock, sessions >>
  PROVE  IInv'
<1>1. AuthTypeOK'
  BY DEF IInv, AuthTypeOK, Enter
<1>2. ASSUME NEW d \in Calls PROVE CallerOK(auth[d])'
  <2>1. CallerOK(auth'[d])
    BY DEF IInv, AuthTypeOK, Enter
  <2> QED BY <2>1 DEF CallerOK, Issued, Dead, Expired
<1> QED BY <1>1, <1>2 DEF IInv

\* A step that moves no caller, and keeps the rows.
LEMMA RowsOK ==
  ASSUME IInv, AuthTypeOK', RowsKept, UNCHANGED auth
  PROVE  IInv'
<1>1. ASSUME NEW c \in Calls PROVE CallerOK(auth[c])'
  <2>1. CallerOK(auth[c]) /\ auth[c] \in Step /\ AuthTypeOK
    BY DEF IInv, AuthTypeOK
  <2>2. (auth[c])' = auth[c]
    OBVIOUS
  <2> QED BY <2>1, <2>2, OthersOK DEF CallerOK
<1> QED BY <1>1 DEF IInv

LEMMA RevokedOK ==
  ASSUME IInv, NEW T \in SUBSET Tokens, \A t \in T : sessions[t] # None,
         sessions' = Revoked(T), UNCHANGED << clock, auth >>
  PROVE  IInv'
<1>1. ASSUME NEW t \in Tokens
      PROVE  /\ sessions'[t] \in Session \cup {None}
             /\ t \notin T => sessions'[t] = sessions[t]
             /\ t \in T => /\ sessions'[t] \in Session /\ sessions'[t].revoked
                           /\ sessions'[t].user = sessions[t].user
                           /\ sessions'[t].expires = sessions[t].expires
  BY DEF IInv, AuthTypeOK, Revoked, Session
<1>2. AuthTypeOK'
  BY <1>1 DEF IInv, AuthTypeOK, Revoked
<1>3. RowsKept
  BY <1>1, NoSession DEF RowsKept, IInv, AuthTypeOK
<1> QED BY <1>2, <1>3, RowsOK

LEMMA InvStep == IInv /\ [AuthNext]_authVars => IInv'
<1> SUFFICES ASSUME IInv, [AuthNext]_authVars PROVE IInv'
  OBVIOUS
<1> USE SessionsAssumption
<1>0. AuthTypeOK /\ \A c \in Calls : auth[c] \in Step /\ CallerOK(auth[c])
  BY DEF IInv, AuthTypeOK
<1>1. ASSUME NEW c \in Calls, NEW u \in Users, Login(c, u) PROVE IInv'
  <2>1. CASE u \in Enabled /\ Enter(c, [step |-> "create", user |-> u, created |-> clock])
    BY <1>0, <1>1, <2>1, StepIs, EnterOK DEF Login, CallerOK, AuthTypeOK
  <2>2. CASE Refuse(c)
    BY <1>1, <2>2, StepIs, EnterOK DEF Login, Refuse, CallerOK
  <2> QED BY <1>1, <2>1, <2>2 DEF Login
<1>2. ASSUME NEW c \in Calls, NEW t \in Tokens \cup {None}, Present(c, t) PROVE IInv'
  <2> DEFINE a == [step |-> "find", ticket |-> [token |-> t, dead |-> Dead(t)]]
  <2>1. [token |-> t, dead |-> Dead(t)] \in Ticket
    <3>1. Dead(t) \in BOOLEAN
      <4>1. CASE Issued(t)
        <5>1. t \in Tokens /\ sessions[t] \in Session
          BY <1>0, <4>1 DEF Issued, AuthTypeOK
        <5>2. sessions[t].revoked \in BOOLEAN
          BY <5>1 DEF Session
        <5> QED BY <5>2 DEF Dead, Expired
      <4> QED BY <4>1 DEF Dead
    <3> QED BY <3>1 DEF Ticket
  <2>2. a \in Step
    BY <2>1, StepIs
  <2>3. CallerOK(a)
    BY <1>2 DEF Present, CallerOK
  <2> QED BY <1>2, <2>2, <2>3, EnterOK DEF Present
<1>3. ASSUME NEW c \in Calls, NEW t \in Tokens, CreateSession(c, t) PROVE IInv'
  <2> DEFINE a == auth[c]
             row == [user |-> a.user, created |-> a.created, expires |-> a.created + TTL,
                     revoked |-> FALSE]
             b == [step |-> "in", ticket |-> [token |-> t, dead |-> FALSE], user |-> a.user]
  <2>1. CASE Refuse(c) /\ UNCHANGED sessions
    BY <1>3, <2>1, StepIs, EnterOK DEF CreateSession, Refuse, CallerOK
  <2>2. CASE sessions' = [sessions EXCEPT ![t] = row] /\ Enter(c, b)
    <3>1. row \in Session /\ a.user \in Enabled /\ clock' = clock
      BY <1>0, <1>3, StepShape DEF CreateSession, Session
    <3>2. [token |-> t, dead |-> FALSE] \in Ticket
      BY DEF Ticket
    <3>3. b \in Step
      BY <3>1, <3>2, StepIs
    <3>4. AuthTypeOK'
      BY <1>0, <2>2, <3>1, <3>3 DEF AuthTypeOK, Enter
    <3>5. RowsKept
      BY <1>0, <1>3, <2>2, <3>1 DEF CreateSession, Issued, RowsKept, AuthTypeOK
    <3>6. ASSUME NEW d \in Calls PROVE CallerOK(auth[d])'
      <4>1. CASE d = c
        <5>1. auth'[d] = b /\ sessions'[t] = row /\ t # None
          BY <1>0, <2>2, <4>1 DEF Enter, AuthTypeOK
        <5>2. Issued(t)'
          BY <3>1, <5>1, NoSession DEF Issued
        <5> QED BY <5>1, <5>2 DEF CallerOK
      <4>2. CASE d # c
        <5>1. auth'[d] = auth[d]
          BY <1>0, <2>2, <4>2 DEF Enter, AuthTypeOK
        <5> QED BY <1>0, <3>4, <3>5, <5>1, OthersOK DEF CallerOK
      <4> QED BY <4>1, <4>2
    <3> QED BY <3>4, <3>6 DEF IInv
  <2> QED BY <1>3, <2>1, <2>2 DEF CreateSession
<1>4. ASSUME NEW c \in Calls, FindSession(c) PROVE IInv'
  <2> DEFINE k == auth[c].ticket
             row == sessions[k.token]
             a == [step |-> "check", ticket |-> k, user |-> row.user, expires |-> row.expires]
  <2>1. auth[c].step = "find" /\ k \in Ticket /\ CallerOK(auth[c])
    BY <1>0, <1>4, StepShape DEF FindSession
  <2>2. CASE Refuse(c)
    BY <1>4, <2>2, StepIs, EnterOK DEF FindSession, Refuse, CallerOK
  <2>3. CASE Issued(k.token) /\ ~ row.revoked /\ Enter(c, a)
    <3>1. row \in Session /\ row.user \in Enabled /\ row.expires \in Int
      BY <1>0, <2>1, <2>3 DEF Issued, AuthTypeOK, Session, Ticket
    <3>2. a \in Step
      BY <2>1, <3>1, StepIs
    <3>3. k.dead => row.expires <= clock
      BY <2>1, <2>3 DEF CallerOK, Dead, Expired
    <3>4. CallerOK(a)
      BY <2>3, <3>3 DEF CallerOK
    <3> QED BY <1>4, <2>3, <3>2, <3>4, EnterOK DEF FindSession
  <2> QED BY <1>4, <2>2, <2>3 DEF FindSession
<1>5. ASSUME NEW c \in Calls, CheckExpiry(c) PROVE IInv'
  <2> DEFINE a == auth[c]
             b == [step |-> "in", ticket |-> a.ticket, user |-> a.user]
  <2>1. /\ a.step = "check" /\ a.ticket \in Ticket /\ a.user \in Enabled /\ a.expires \in Int
        /\ CallerOK(a)
    BY <1>0, <1>5, StepShape DEF CheckExpiry
  <2>2. CASE Refuse(c)
    BY <1>5, <2>2, StepIs, EnterOK DEF CheckExpiry, Refuse, CallerOK
  <2>3. CASE a.expires > clock /\ Enter(c, b)
    <3>1. b \in Step
      BY <2>1, StepIs
    <3>2. ~ a.ticket.dead
      BY <1>0, <2>1, <2>3 DEF CallerOK, AuthTypeOK
    <3>3. CallerOK(b)
      BY <2>1, <3>2 DEF CallerOK
    <3> QED BY <1>5, <2>3, <3>1, <3>3, EnterOK DEF CheckExpiry
  <2> QED BY <1>5, <2>2, <2>3 DEF CheckExpiry
<1>6. ASSUME NEW c \in Calls, Depart(c) \/ Abandon(c) PROVE IInv'
  BY <1>6, StepIs, EnterOK DEF Depart, Abandon, CallerOK
<1>7. ASSUME NEW t \in Tokens, Logout(t) PROVE IInv'
  BY <1>7, RevokedOK DEF Logout, Issued
<1>8. CASE RecoverExpiredSessions
  <2> DEFINE past == {t \in Tokens : Issued(t) /\ ~ sessions[t].revoked /\ PastByText(t)}
  <2>1. past \in SUBSET Tokens /\ \A t \in past : sessions[t] # None
    BY DEF Issued
  <2> QED BY <1>8, <2>1, RevokedOK DEF RecoverExpiredSessions
<1>9. CASE Tick
  <2>1. AuthTypeOK' /\ RowsKept
    BY <1>0, <1>9 DEF Tick, AuthTypeOK, RowsKept
  <2> QED BY <1>9, <2>1, RowsOK DEF Tick
<1>10. CASE AbandonAll
  BY <1>0, <1>10 DEF AbandonAll, IInv, AuthTypeOK, CallerOK, Step
<1>11. CASE UNCHANGED authVars
  BY <1>0, <1>11, RowsOK DEF authVars, RowsKept, AuthTypeOK
<1> QED
  BY <1>1, <1>2, <1>3, <1>4, <1>5, <1>6, <1>7, <1>8, <1>9, <1>10, <1>11 DEF AuthNext, Advance

\* Sessions and callers have their types, and nobody is in under a token that
\* was no good when it was presented, or as a user it was not issued to.
THEOREM NobodyUnderDeadSession == AuthSpec => [](AuthTypeOK /\ NoDeadSession)
<1>1. IInv => AuthTypeOK /\ NoDeadSession
  BY DEF IInv, CallerOK, NoDeadSession
<1> QED BY InitIInv, InvStep, <1>1, PTL DEF AuthSpec

\* The text of datetime('now') sorts before that of a session that has not
\* expired: the recovery ends none that could be used.
THEOREM RecoveryEndsNoLiveSession == AuthSpec => RecoverySpares
<1>1. ASSUME NEW a \in Int, NEW b \in Nat, NEW d \in Nat \ {0}, a \div d < b \div d
      PROVE  a <= b
  BY <1>1
<1>2. ASSUME IInv, RecoverExpiredSessions, NEW t \in Tokens, sessions'[t] # sessions[t]
      PROVE  Expired(t)
  <2>1. Issued(t) /\ PastByText(t)
    BY <1>2 DEF RecoverExpiredSessions, Revoked
  <2>2. sessions[t].expires \in Int /\ clock \in Nat
    BY <1>2, <2>1 DEF IInv, AuthTypeOK, Issued, Session
  <2> QED BY <1>1, <2>1, <2>2, SessionsAssumption DEF PastByText, Expired
<1>3. IInv => [RecoverExpiredSessions =>
                 \A t \in Tokens : sessions'[t] # sessions[t] => Expired(t)]_authVars
  BY <1>2
<1> QED BY InitIInv, InvStep, <1>3, PTL DEF AuthSpec, RecoverySpares

=============================================================================
