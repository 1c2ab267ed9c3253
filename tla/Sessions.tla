------------------------------- MODULE Sessions -------------------------------
(***************************************************************************)
(* Sessions: internal/auth's Service over the sessions table.              *)
(*                                                                         *)
(* A caller c is in at most one method, Login or Authenticate; auth[c]     *)
(* says which access to the database or the clock comes next and what the  *)
(* method keeps.  Between two of them others log in, log out, revoke what  *)
(* has expired, and time passes.                                           *)
(*                                                                         *)
(* Time is counted in ticks, Day of them a day.  The clock only advances,  *)
(* and the program and SQLite read the same one.  The users table does not *)
(* change.                                                                 *)
(***************************************************************************)
EXTENDS Integers, FiniteSets

CONSTANTS
  Calls,     \* callers that can be in a method at once
  Users,     \* the users table
  Enabled,   \* the users whose row is active
  Tokens,    \* the tokens rand.Read gives, no two of them equal
  TTL,       \* how long a session lasts; SESSION_TTL may be negative
  Day,       \* ticks in a day
  LastTime,  \* bound: the clock stops here
  None       \* no row; as a token, none that was ever issued

ASSUME SessionsAssumption ==
  /\ Enabled \subseteq Users /\ None \notin Tokens
  /\ TTL \in Int /\ Day \in Nat \ {0} /\ LastTime \in Nat

VARIABLES
  clock,     \* what the clock reads
  sessions,  \* the row of each token
  auth       \* where each caller is

authVars == << clock, sessions, auth >>

\* A row's id is made of the nanoseconds of its creation; its token is kept as
\* a hash, which is as good as the token.
Session == [user: Enabled, created: Nat, expires: Int, revoked: BOOLEAN]

ASSUME NoSession == None \notin Session

\* dead is no part of the program: the token was no good when it was presented.
Ticket == [token: Tokens \cup {None}, dead: BOOLEAN]

Step ==
       [step: {"out", "refused"}]
  \cup [step: {"create"}, user: Enabled, created: Nat]
  \cup [step: {"find"}, ticket: Ticket]
  \cup [step: {"check"}, ticket: Ticket, user: Enabled, expires: Int]
  \cup [step: {"in"}, ticket: Ticket, user: Enabled]

AuthTypeOK ==
  /\ clock \in Nat
  /\ sessions \in [Tokens -> Session \cup {None}]
  /\ auth \in [Calls -> Step]

AuthInit ==
  /\ clock = 0
  /\ sessions = [t \in Tokens |-> None]
  /\ auth = [c \in Calls |-> [step |-> "out"]]

Issued(t) == t # None /\ sessions[t] # None
Expired(t) == sessions[t].expires <= clock
Dead(t) == ~ Issued(t) \/ sessions[t].revoked \/ Expired(t)

Enter(c, next) == auth' = [auth EXCEPT ![c] = next]
Refuse(c) == Enter(c, [step |-> "refused"])

-----------------------------------------------------------------------------
(* Login.                                                                  *)

\* Bound: no login starts that would find no token left.
TokensLeft ==
  Cardinality({t \in Tokens : ~ Issued(t)}) > Cardinality({c \in Calls : auth[c].step = "create"})

\* Faulty variant: the row's active flag is not looked at.
LoginAny(c, u) ==
  /\ auth[c].step = "out"
  /\ \/ /\ TokensLeft
        /\ Enter(c, [step |-> "create", user |-> u, created |-> clock])
     \/ Refuse(c)
  /\ UNCHANGED << clock, sessions >>

\* FindUserByEmail and the password: an active user is found, or the login is
\* refused.  The token and the clock's reading are taken right after it.
Login(c, u) ==
  /\ auth[c].step = "out"
  /\ \/ /\ u \in Enabled
        /\ TokensLeft
        /\ Enter(c, [step |-> "create", user |-> u, created |-> clock])
     \/ Refuse(c)
  /\ UNCHANGED << clock, sessions >>

\* The insert; it fails if another login read the same instant.
CreateSession(c, t) ==
  LET a == auth[c] IN
  /\ a.step = "create"
  /\ ~ Issued(t)
  /\ \/ /\ \E s \in Tokens : Issued(s) /\ sessions[s].created = a.created
        /\ Refuse(c)
        /\ UNCHANGED sessions
     \/ /\ \A s \in Tokens : Issued(s) => sessions[s].created # a.created
        /\ sessions' = [sessions EXCEPT ![t] = [user |-> a.user, created |-> a.created,
                          expires |-> a.created + TTL, revoked |-> FALSE]]
        /\ Enter(c, [step |-> "in", ticket |-> [token |-> t, dead |-> FALSE], user |-> a.user])
  /\ UNCHANGED clock

-----------------------------------------------------------------------------
(* Authenticate: the row is found first, the clock read after it.          *)

Present(c, t) ==
  /\ auth[c].step = "out"
  /\ t = None \/ Issued(t)
  /\ Enter(c, [step |-> "find", ticket |-> [token |-> t, dead |-> Dead(t)]])
  /\ UNCHANGED << clock, sessions >>

\* Faulty variant: the query has no "revoked_at IS NULL".
FindAnySession(c) ==
  LET k == auth[c].ticket
      row == sessions[k.token]
  IN
  /\ auth[c].step = "find"
  /\ IF Issued(k.token)
       THEN Enter(c, [step |-> "check", ticket |-> k, user |-> row.user, expires |-> row.expires])
       ELSE Refuse(c)
  /\ UNCHANGED << clock, sessions >>

FindSession(c) ==
  LET k == auth[c].ticket
      row == sessions[k.token]
  IN
  /\ auth[c].step = "find"
  /\ IF Issued(k.token) /\ ~ row.revoked
       THEN Enter(c, [step |-> "check", ticket |-> k, user |-> row.user, expires |-> row.expires])
       ELSE Refuse(c)
  /\ UNCHANGED << clock, sessions >>

\* Faulty variant: an expiry at this instant is taken as one to come.
CheckExpiryLate(c) ==
  LET a == auth[c] IN
  /\ a.step = "check"
  /\ IF a.expires < clock THEN Refuse(c)
     ELSE Enter(c, [step |-> "in", ticket |-> a.ticket, user |-> a.user])
  /\ UNCHANGED << clock, sessions >>

CheckExpiry(c) ==
  LET a == auth[c] IN
  /\ a.step = "check"
  /\ IF a.expires > clock
       THEN Enter(c, [step |-> "in", ticket |-> a.ticket, user |-> a.user])
       ELSE Refuse(c)
  /\ UNCHANGED << clock, sessions >>

\* The caller has done what it wanted to know its user for.
Depart(c) ==
  /\ auth[c].step \in {"in", "refused"}
  /\ Enter(c, [step |-> "out"])
  /\ UNCHANGED << clock, sessions >>

\* The caller goes away, or an access of its method fails.
Abandon(c) ==
  /\ auth[c].step # "out"
  /\ Enter(c, [step |-> "out"])
  /\ UNCHANGED << clock, sessions >>

\* The process stops, and with it every method.
AbandonAll ==
  /\ auth' = [c \in Calls |-> [step |-> "out"]]
  /\ UNCHANGED << clock, sessions >>

-----------------------------------------------------------------------------
(* What ends sessions.                                                     *)

Revoked(T) == [t \in Tokens |-> IF t \in T THEN [sessions[t] EXCEPT !.revoked = TRUE]
                                ELSE sessions[t]]

Logout(t) ==
  /\ Issued(t) /\ ~ sessions[t].revoked
  /\ sessions' = Revoked({t})
  /\ UNCHANGED << clock, auth >>

\* Faulty variant: the dates alone are compared.
PastByDate(t) == sessions[t].expires \div Day <= clock \div Day

\* "expires_at <= datetime('now')", as texts: the dates decide, and on one
\* date the "T" of the stored text comes after the space of datetime's, so
\* what expired today is not yet past.
PastByText(t) == sessions[t].expires \div Day < clock \div Day

RecoverExpiredSessions ==
  LET past == {t \in Tokens : Issued(t) /\ ~ sessions[t].revoked /\ PastByText(t)} IN
  /\ past # {}
  /\ sessions' = Revoked(past)
  /\ UNCHANGED << clock, auth >>

Tick ==
  /\ clock < LastTime
  /\ clock' = clock + 1
  /\ UNCHANGED << sessions, auth >>

Advance(c) == (\E t \in Tokens : CreateSession(c, t)) \/ FindSession(c) \/ CheckExpiry(c)

AuthNext ==
  \/ \E c \in Calls : \/ \E u \in Users : Login(c, u)
                      \/ \E t \in Tokens \cup {None} : Present(c, t)
                      \/ Advance(c) \/ Depart(c) \/ Abandon(c)
  \/ \E t \in Tokens : Logout(t)
  \/ RecoverExpiredSessions \/ Tick \/ AbandonAll

AuthSpec == AuthInit /\ [][AuthNext]_authVars

-----------------------------------------------------------------------------
(* Properties.                                                             *)

\* Whoever is let in presented a token that was good at that moment, and is
\* taken for the user it was issued to: a token that was revoked, by a logout
\* or by the recovery, or had expired when it was presented lets nobody in,
\* however the clock and other calls move between the query and the check.
NoDeadSession ==
  \A c \in Calls :
    auth[c].step = "in" =>
      /\ ~ auth[c].ticket.dead
      /\ auth[c].user = sessions[auth[c].ticket.token].user

\* The recovery ends no session that could still be used, though it compares
\* texts of two formats.
RecoverySpares ==
  [][RecoverExpiredSessions => \A t \in Tokens : sessions'[t] # sessions[t] => Expired(t)]_authVars

=============================================================================
