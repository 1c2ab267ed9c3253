----------------------------- MODULE Idempotency -----------------------------
(***************************************************************************)
(* internal/service's Idempotency, called through its Retry.               *)
(*                                                                         *)
(* A call c retries Do with one key and one payload; calls[c] says where   *)
(* it is.  The mutex is held from the lookup to the return of the          *)
(* function, so a lookup that decides the call, and a lookup that leads to *)
(* the function, are each one step.  The function may fail, before it has  *)
(* had its effect or after; the process may stop, and the map with it,     *)
(* while the effects stay.                                                 *)
(***************************************************************************)
EXTENDS Integers

CONSTANTS
  Calls,     \* callers
  Keys,      \* the keys callers use
  NoKey,     \* the empty key
  Payloads,  \* the payloads; their digests are as good as they
  Attempts,  \* how often Retry runs its function
  None       \* no payload, nobody

\* Retry raises a number of attempts below one to one.
ASSUME IdempotencyAssumption ==
  /\ NoKey \notin Keys
  /\ None \notin Payloads /\ None \notin Calls
  /\ Attempts \in Nat \ {0}

VARIABLES
  values,  \* the map, from key to payload
  mutex,   \* who holds it
  calls,   \* where each call is
  done,    \* the effects there ever were, by key and payload
  good     \* of each key, the effects of functions that returned nil, in this
           \* process; two stand for more

vars == << values, mutex, calls, done, good >>

Steps == {"enter", "run", "store", "delay", "nil", "error"}

Idle == [step |-> "idle"]

TypeOK ==
  /\ values \in [Keys -> Payloads \cup {None}]
  /\ mutex \in Calls \cup {None}
  /\ calls \in [Calls -> {Idle} \cup [step: Steps, key: Keys \cup {NoKey}, payload: Payloads,
                                      try: 1..Attempts]]
  /\ done \subseteq [key: Keys \cup {NoKey}, payload: Payloads]
  /\ good \in [Keys -> 0..2]

Init ==
  /\ values = [k \in Keys |-> None]
  /\ mutex = None
  /\ calls = [c \in Calls |-> Idle]
  /\ done = {}
  /\ good = [k \in Keys |-> 0]

-----------------------------------------------------------------------------
(* Retry.                                                                  *)

Goto(c, step) == calls' = [calls EXCEPT ![c].step = step]

Begin(c, k, p) ==
  /\ calls[c] = Idle
  /\ calls' = [calls EXCEPT ![c] = [step |-> "enter", key |-> k, payload |-> p, try |-> 1]]
  /\ UNCHANGED << values, mutex, done, good >>

\* Faulty variant: one attempt too many.
FailOnce(c) == Goto(c, IF calls[c].try <= Attempts THEN "delay" ELSE "error")

\* The function Retry runs has returned an error.
Fail(c) == Goto(c, IF calls[c].try < Attempts THEN "delay" ELSE "error")

\* The delay is over, or the caller's context is cancelled during it.
Delay(c) ==
  /\ calls[c].step = "delay"
  /\ \/ calls' = [calls EXCEPT ![c].step = "enter", ![c].try = @ + 1]
     \/ Goto(c, "error")
  /\ UNCHANGED << values, mutex, done, good >>

Leave(c) ==
  /\ calls[c].step \in {"nil", "error"}
  /\ calls' = [calls EXCEPT ![c] = Idle]
  /\ UNCHANGED << values, mutex, done, good >>

-----------------------------------------------------------------------------
(* Do.                                                                     *)

\* With the empty key, the function runs and nothing else happens.
EnterFree(c) ==
  /\ calls[c].step = "enter" /\ calls[c].key = NoKey
  /\ Goto(c, "run")
  /\ UNCHANGED << values, mutex, done, good >>

\* Faulty variants: the payloads are not compared; the mutex is held for the
\* lookup only.
EnterAny(c) ==
  /\ calls[c].step = "enter" /\ calls[c].key # NoKey
  /\ mutex = None
  /\ IF values[calls[c].key] # None
       THEN Goto(c, "nil") /\ UNCHANGED mutex
       ELSE Goto(c, "run") /\ mutex' = c
  /\ UNCHANGED << values, done, good >>

EnterUnlocked(c) ==
  LET old == IF calls[c].key = NoKey THEN None ELSE values[calls[c].key] IN
  /\ calls[c].step = "enter" /\ calls[c].key # NoKey
  /\ CASE old = None             -> Goto(c, "run")
       [] old = calls[c].payload -> Goto(c, "nil")
       [] OTHER                  -> Fail(c)
  /\ UNCHANGED << values, mutex, done, good >>

Enter(c) ==
  LET old == values[calls[c].key] IN
  /\ calls[c].step = "enter" /\ calls[c].key # NoKey
  /\ mutex = None
  /\ \/ old = None /\ Goto(c, "run") /\ mutex' = c
     \/ old = calls[c].payload /\ Goto(c, "nil") /\ UNCHANGED mutex
     \/ old \notin {None, calls[c].payload} /\ Fail(c) /\ UNCHANGED mutex
  /\ UNCHANGED << values, done, good >>

Unlock(c) == mutex' = IF mutex = c THEN None ELSE mutex

Effect(c) == done' = done \cup {[key |-> calls[c].key, payload |-> calls[c].payload]}

Succeed(c) ==
  LET k == calls[c].key IN
  /\ Effect(c)
  /\ IF k = NoKey THEN Goto(c, "nil") /\ UNCHANGED good
     ELSE /\ Goto(c, "store")
          /\ good' = [good EXCEPT ![k] = IF @ < 2 THEN @ + 1 ELSE 2]
  /\ UNCHANGED << values, mutex >>

\* Faulty variant: an error returns past the unlock.
RunKeepsMutex(c) ==
  /\ calls[c].step = "run"
  /\ \/ Succeed(c)
     \/ Fail(c) /\ (Effect(c) \/ UNCHANGED done) /\ UNCHANGED << values, mutex, good >>

\* The function: it has its effect and returns nil, or it returns an error,
\* with or without the effect.
Run(c) ==
  /\ calls[c].step = "run"
  /\ \/ Succeed(c)
     \/ /\ Fail(c)
        /\ Effect(c) \/ UNCHANGED done
        /\ Unlock(c)
        /\ UNCHANGED << values, good >>

Store(c) ==
  /\ calls[c].step = "store"
  /\ values' = [values EXCEPT ![calls[c].key] = calls[c].payload]
  /\ Goto(c, "nil")
  /\ Unlock(c)
  /\ UNCHANGED << done, good >>

\* The process stops; the next one starts with an empty map.
Restart ==
  /\ values' = [k \in Keys |-> None]
  /\ mutex' = None
  /\ calls' = [c \in Calls |-> Idle]
  /\ good' = [k \in Keys |-> 0]
  /\ UNCHANGED done

Advance(c) == EnterFree(c) \/ Run(c) \/ Store(c) \/ Delay(c)

Next ==
  \/ \E c \in Calls :
       \/ \E k \in Keys \cup {NoKey}, p \in Payloads : Begin(c, k, p)
       \/ Enter(c) \/ Advance(c) \/ Leave(c)
  \/ Restart

Spec == Init /\ [][Next]_vars

\* Functions return, delays end, and who waits for the mutex gets it once it
\* is free often enough: Go's mutex starves nobody.
FairSpec == Spec /\ \A c \in Calls : WF_vars(Advance(c)) /\ SF_vars(Enter(c))

-----------------------------------------------------------------------------
(* Properties.                                                             *)

\* While the process lives, the function of a key takes effect and succeeds
\* once at most, however many callers bring it at once and retry.
OnceByKey == \A k \in Keys : good[k] <= 1

\* Who is answered nil has had the effect of the payload it brought, its own
\* or that of a call with the same key; so no two payloads are ever both
\* answered nil under one key.
NilMeansDone ==
  \A c \in Calls :
    calls[c].step = "nil" =>
      /\ [key |-> calls[c].key, payload |-> calls[c].payload] \in done
      /\ calls[c].key # NoKey => values[calls[c].key] = calls[c].payload

\* Every call is answered, or dies with the process.
CallsEnd ==
  \A c \in Calls :
    calls[c].step \notin {"idle", "nil", "error"} ~> calls[c].step \in {"idle", "nil", "error"}

-----------------------------------------------------------------------------
(* The calls implement the promise of the keys.                            *)

Storing(k) == {c \in Calls : calls[c].step = "store" /\ calls[c].key = k}

\* A key is kept from the success of its function on, before it is stored.
Kept(k) == IF Storing(k) = {} THEN values[k] ELSE calls[CHOOSE c \in Storing(k) : TRUE].payload

Shown == [s \in Steps |-> IF s \in {"store", "nil"} THEN "nil"
                          ELSE IF s = "error" THEN "error" ELSE "asks"]

Asked(c) ==
  IF calls[c] = Idle THEN Idle
  ELSE [step |-> Shown[calls[c].step], key |-> calls[c].key, payload |-> calls[c].payload]

Promise == INSTANCE IdempotentKeys WITH
  kept <- [k \in Keys |-> Kept(k)],
  asks <- [c \in Calls |-> Asked(c)],
  effects <- done

\* However many callers race and retry, and whenever functions fail or the
\* process stops, the key, the effect and the answer appear to come at once,
\* and nothing is done, not even by a try that fails, under a key that is kept.
ImplementsPromise == Promise!Spec

=============================================================================
