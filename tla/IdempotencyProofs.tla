-------------------------- MODULE IdempotencyProofs --------------------------
(***************************************************************************)
(* Theorems about the idempotency keys, for any number of callers, keys,   *)
(* payloads and attempts, and however often the process restarts; and that *)
(* the calls implement the promise of the keys.                            *)
(***************************************************************************)
EXTENDS Idempotency, TLAPS

Keyed(c) == calls[c].step \in {"run", "store"} /\ calls[c].key # NoKey

\* Whoever is between lookup and return holds the mutex.
HolderInv == \A c \in Calls : Keyed(c) => mutex = c

\* What the holder found is still so: no payload is kept under its key, and
\* nothing but its own function has succeeded.
LookupInv ==
  \A c \in Calls :
    /\ Keyed(c) => values[calls[c].key] = None
    /\ Keyed(c) /\ calls[c].step = "run" => good[calls[c].key] = 0
    /\ calls[c].step = "store" =>
         /\ calls[c].key # NoKey
         /\ good[calls[c].key] = 1
         /\ [key |-> calls[c].key, payload |-> calls[c].payload] \in done

\* A success is in the map, or with the one call that will put it there.
SuccessInv ==
  \A k \in Keys :
    /\ good[k] \in {0, 1}
    /\ good[k] = 1 /\ values[k] = None =>
         \E c \in Calls : calls[c].step = "store" /\ calls[c].key = k

ValuesInv ==
  \A k \in Keys : values[k] # None => [key |-> k, payload |-> values[k]] \in done

\* Retry waits only before an attempt it may make.
TryInv == \A c \in Calls : calls[c].step = "delay" => calls[c].try < Attempts

IInv == TypeOK /\ TryInv /\ HolderInv /\ LookupInv /\ SuccessInv /\ ValuesInv /\ NilMeansDone

\* What a call looks like by its step.
LEMMA CallShape ==
  ASSUME TypeOK, NEW c \in Calls, calls[c].step # "idle"
  PROVE  calls[c] \in [step: Steps, key: Keys \cup {NoKey}, payload: Payloads, try: 1..Attempts]
  BY DEF TypeOK, Idle

\* A call that only moves on is still a call.
LEMMA GotoShape ==
  ASSUME TypeOK, NEW c \in Calls, calls[c].step # "idle", NEW s \in Steps, Goto(c, s)
  PROVE  /\ calls' \in [Calls -> {Idle} \cup [step: Steps, key: Keys \cup {NoKey},
                                             payload: Payloads, try: 1..Attempts]]
         /\ calls'[c].step = s /\ calls'[c].key = calls[c].key /\ calls'[c].payload = calls[c].payload
         /\ calls'[c].try = calls[c].try
         /\ \A d \in Calls : d # c => calls'[d] = calls[d]
<1>1. calls[c] \in [step: Steps, key: Keys \cup {NoKey}, payload: Payloads, try: 1..Attempts]
  BY CallShape
<1>2. calls' = [calls EXCEPT ![c] = [calls[c] EXCEPT !.step = s]]
  BY DEF Goto
<1> QED BY <1>1, <1>2 DEF TypeOK

LEMMA FailGoto ==
  ASSUME NEW c \in Calls, Fail(c)
  PROVE  \E s \in {"delay", "error"} : Goto(c, s) /\ (s = "delay" => calls[c].try < Attempts)
  BY DEF Fail

LEMMA InitIInv == Init => IInv
<1> SUFFICES ASSUME Init PROVE IInv
  OBVIOUS
<1>1. TypeOK
  BY DEF Init, TypeOK
<1>2. \A c \in Calls : calls[c].step = "idle"
  BY DEF Init, Idle
<1>3. SuccessInv /\ ValuesInv
  BY DEF Init, SuccessInv, ValuesInv
<1> QED BY <1>1, <1>2, <1>3 DEF IInv, HolderInv, Keyed, LookupInv, NilMeansDone, TryInv

\* A step that changes neither map nor counters, and leaves the call it moves
\* outside the function, keeps the invariant.
LEMMA QuietStep ==
  ASSUME IInv, TypeOK', NEW c \in Calls,
         \A d \in Calls : d # c => calls'[d] = calls[d],
         calls[c].step # "store",
         calls'[c].step \in {"idle", "enter", "run", "delay", "error"},
         calls'[c].step = "run" => calls'[c].key = NoKey,
         calls'[c].step = "delay" => calls'[c].try < Attempts,
         UNCHANGED << values, good >>, done \subseteq done',
         \A d \in Calls : d # c /\ mutex = d => mutex' = d
  PROVE  IInv'
<1> USE DEF IInv
<1>1. HolderInv' /\ LookupInv'
  BY DEF HolderInv, LookupInv, Keyed
<1>2. SuccessInv' /\ ValuesInv'
  BY DEF SuccessInv, ValuesInv
<1>3. NilMeansDone' /\ TryInv'
  BY DEF NilMeansDone, TryInv
<1> QED BY <1>1, <1>2, <1>3

LEMMA Step == IInv /\ [Next]_vars => IInv'
<1> SUFFICES ASSUME IInv, [Next]_vars PROVE IInv'
  OBVIOUS
<1> USE IdempotencyAssumption
<1>0. TypeOK
  BY DEF IInv
<1>1. ASSUME NEW c \in Calls, NEW k \in Keys \cup {NoKey}, NEW p \in Payloads, Begin(c, k, p)
      PROVE  IInv'
  <2>1. calls' = [calls EXCEPT ![c] = [step |-> "enter", key |-> k, payload |-> p, try |-> 1]]
    BY <1>1 DEF Begin
  <2>2. TypeOK'
    BY <1>0, <1>1, <2>1 DEF Begin, TypeOK, Steps
  <2>3. calls'[c].step = "enter" /\ calls[c].step = "idle"
    BY <1>0, <1>1, <2>1 DEF Begin, TypeOK, Idle
  <2> QED BY <1>0, <1>1, <2>1, <2>2, <2>3, QuietStep DEF Begin, TypeOK
<1>2. ASSUME NEW c \in Calls, Enter(c) PROVE IInv'
  <2> DEFINE old == values[calls[c].key]
  <2>0. calls[c].step = "enter" /\ calls[c].key \in Keys /\ calls[c].payload \in Payloads
    BY <1>0, <1>2, CallShape DEF Enter
  <2>1. CASE old = None /\ Goto(c, "run") /\ mutex' = c
    <3>1. TypeOK'
      BY <1>0, <1>2, <2>0, <2>1, GotoShape DEF Enter, TypeOK, Steps
    <3>2. /\ calls'[c].step = "run" /\ calls'[c].key = calls[c].key
          /\ \A d \in Calls : d # c => calls'[d] = calls[d]
      BY <1>0, <2>0, <2>1, GotoShape DEF Steps
    <3>3. mutex = None /\ UNCHANGED << values, done, good >>
      BY <1>2 DEF Enter
    <3>4. \A d \in Calls : ~ Keyed(d)
      BY <3>3 DEF IInv, HolderInv
    <3>5. good[calls[c].key] = 0
      BY <2>0, <2>1, <3>3, <3>4 DEF IInv, SuccessInv, LookupInv, Keyed
    <3>6. HolderInv'
      BY <2>1, <3>2, <3>4 DEF HolderInv, Keyed
    <3>7. LookupInv'
      BY <2>1, <3>2, <3>3, <3>5 DEF IInv, LookupInv, Keyed
    <3>8. SuccessInv' /\ ValuesInv'
      BY <2>0, <3>2, <3>3 DEF IInv, SuccessInv, ValuesInv
    <3>9. NilMeansDone' /\ TryInv'
      BY <3>2, <3>3 DEF IInv, NilMeansDone, TryInv
    <3> QED BY <3>1, <3>6, <3>7, <3>8, <3>9 DEF IInv
  <2>2. CASE old = calls[c].payload /\ Goto(c, "nil") /\ UNCHANGED mutex
    <3>1. TypeOK'
      BY <1>0, <1>2, <2>0, <2>2, GotoShape DEF Enter, TypeOK, Steps
    <3>2. /\ calls'[c].step = "nil" /\ calls'[c].key = calls[c].key
          /\ calls'[c].payload = calls[c].payload
          /\ \A d \in Calls : d # c => calls'[d] = calls[d]
      BY <1>0, <2>0, <2>2, GotoShape DEF Steps
    <3>3. UNCHANGED << values, done, good, mutex >>
      BY <1>2, <2>2 DEF Enter
    <3>4. HolderInv' /\ LookupInv'
      BY <3>2, <3>3 DEF IInv, HolderInv, LookupInv, Keyed
    <3>5. SuccessInv' /\ ValuesInv'
      BY <2>0, <3>2, <3>3 DEF IInv, SuccessInv, ValuesInv
    <3>6. NilMeansDone' /\ TryInv'
      BY <2>0, <2>2, <3>2, <3>3 DEF IInv, NilMeansDone, ValuesInv, TryInv
    <3> QED BY <3>1, <3>4, <3>5, <3>6 DEF IInv
  <2>3. CASE Fail(c) /\ UNCHANGED mutex
    <3>1. PICK s \in {"delay", "error"} : Goto(c, s) /\ (s = "delay" => calls[c].try < Attempts)
      BY <2>3, FailGoto
    <3>2. TypeOK'
      BY <1>0, <1>2, <2>0, <2>3, <3>1, GotoShape DEF Enter, TypeOK, Steps
    <3> QED BY <1>0, <1>2, <2>0, <2>3, <3>1, <3>2, GotoShape, QuietStep DEF Enter, Steps
  <2> QED BY <1>2, <2>1, <2>2, <2>3 DEF Enter
<1>3. ASSUME NEW c \in Calls, EnterFree(c) PROVE IInv'
  <2>1. calls[c].step = "enter" /\ calls[c].key = NoKey /\ Goto(c, "run")
    BY <1>3 DEF EnterFree
  <2>2. TypeOK'
    BY <1>0, <1>3, <2>1, GotoShape DEF EnterFree, TypeOK, Steps
  <2> QED BY <1>0, <1>3, <2>1, <2>2, GotoShape, QuietStep DEF EnterFree, Steps
<1>4. ASSUME NEW c \in Calls, Run(c) PROVE IInv'
  <2> DEFINE k == calls[c].key
  <2>0. calls[c].step = "run" /\ k \in Keys \cup {NoKey} /\ calls[c].payload \in Payloads
    BY <1>0, <1>4, CallShape DEF Run
  <2>1. CASE Succeed(c) /\ k = NoKey
    <3>1. Goto(c, "nil") /\ Effect(c) /\ UNCHANGED << values, good, mutex >>
      BY <2>1 DEF Succeed
    <3>2. TypeOK'
      BY <1>0, <2>0, <3>1, GotoShape DEF TypeOK, Steps, Effect
    <3>3. /\ calls'[c].step = "nil" /\ calls'[c].key = NoKey /\ calls'[c].payload = calls[c].payload
          /\ \A d \in Calls : d # c => calls'[d] = calls[d]
      BY <1>0, <2>0, <2>1, <3>1, GotoShape DEF Steps
    <3>4. HolderInv' /\ LookupInv'
      BY <3>1, <3>3 DEF IInv, HolderInv, LookupInv, Keyed, Effect
    <3>5. SuccessInv' /\ ValuesInv'
      BY <2>0, <3>1, <3>3 DEF IInv, SuccessInv, ValuesInv, Effect
    <3>6. NilMeansDone' /\ TryInv'
      BY <2>1, <3>1, <3>3 DEF IInv, NilMeansDone, Effect, TryInv
    <3> QED BY <3>2, <3>4, <3>5, <3>6 DEF IInv
  <2>2. CASE Succeed(c) /\ k # NoKey
    <3>0. k \in Keys /\ good[k] = 0 /\ mutex = c /\ values[k] = None
      BY <2>0, <2>2 DEF IInv, LookupInv, HolderInv, Keyed
    <3>1. Goto(c, "store") /\ Effect(c) /\ UNCHANGED << values, mutex >>
      BY <2>2 DEF Succeed
    <3>2. good' = [good EXCEPT ![k] = 1]
      BY <2>2, <3>0 DEF Succeed
    <3>3. TypeOK'
      <4>1. good' \in [Keys -> 0..2]
        BY <1>0, <3>0, <3>2 DEF TypeOK
      <4>2. done' \subseteq [key: Keys \cup {NoKey}, payload: Payloads]
        BY <1>0, <2>0, <3>1 DEF TypeOK, Effect
      <4>3. calls' \in [Calls -> {Idle} \cup [step: Steps, key: Keys \cup {NoKey},
                                              payload: Payloads, try: 1..Attempts]]
        BY <1>0, <2>0, <3>1, GotoShape DEF Steps
      <4> QED BY <1>0, <3>1, <4>1, <4>2, <4>3 DEF TypeOK
    <3>4. /\ calls'[c].step = "store" /\ calls'[c].key = k /\ calls'[c].payload = calls[c].payload
          /\ \A d \in Calls : d # c => calls'[d] = calls[d]
      BY <1>0, <2>0, <3>1, GotoShape DEF Steps
    <3>5. \A d \in Calls : d # c => ~ Keyed(d) /\ ~ Keyed(d)'
      BY <3>0, <3>4 DEF IInv, HolderInv, Keyed
    <3>6. good'[k] = 1 /\ \A j \in Keys : j # k => good'[j] = good[j]
      BY <1>0, <3>0, <3>2 DEF TypeOK
    <3>7. HolderInv'
      BY <3>0, <3>1, <3>5 DEF HolderInv
    <3>8. LookupInv'
      BY <2>2, <3>0, <3>1, <3>4, <3>5, <3>6 DEF IInv, LookupInv, Keyed, Effect
    <3>9. SuccessInv' /\ ValuesInv'
      BY <2>0, <3>1, <3>4, <3>6 DEF IInv, SuccessInv, ValuesInv, Effect
    <3>10. NilMeansDone' /\ TryInv'
      BY <3>1, <3>4 DEF IInv, NilMeansDone, Effect, TryInv
    <3> QED BY <3>3, <3>7, <3>8, <3>9, <3>10 DEF IInv
  <2>3. CASE /\ Fail(c) /\ (Effect(c) \/ UNCHANGED done)
             /\ Unlock(c) /\ UNCHANGED << values, good >>
    <3>1. PICK s \in {"delay", "error"} : Goto(c, s) /\ (s = "delay" => calls[c].try < Attempts)
      BY <2>3, FailGoto
    <3>2. TypeOK'
      BY <1>0, <2>0, <2>3, <3>1, GotoShape DEF TypeOK, Steps, Effect, Unlock
    <3>3. done \subseteq done' /\ \A d \in Calls : d # c /\ mutex = d => mutex' = d
      BY <2>3 DEF Effect, Unlock
    <3> QED BY <1>0, <2>0, <2>3, <3>1, <3>2, <3>3, GotoShape, QuietStep DEF Steps
  <2> QED BY <1>4, <2>1, <2>2, <2>3 DEF Run
<1>5. ASSUME NEW c \in Calls, Store(c) PROVE IInv'
  <2> DEFINE k == calls[c].key
  <2>0. /\ calls[c].step = "store" /\ k \in Keys /\ calls[c].payload \in Payloads
        /\ mutex = c /\ good[k] = 1 /\ values[k] = None
        /\ [key |-> k, payload |-> calls[c].payload] \in done
    BY <1>0, <1>5, CallShape DEF Store, IInv, LookupInv, HolderInv, Keyed
  <2>1. /\ Goto(c, "nil") /\ UNCHANGED << done, good >>
        /\ values' = [values EXCEPT ![k] = calls[c].payload]
    BY <1>5 DEF Store
  <2>2. mutex' = None
    BY <1>5, <2>0 DEF Store, Unlock
  <2>3. TypeOK'
    BY <1>0, <2>0, <2>1, <2>2, GotoShape DEF TypeOK, Steps
  <2>4. /\ calls'[c].step = "nil" /\ calls'[c].key = k /\ calls'[c].payload = calls[c].payload
        /\ \A d \in Calls : d # c => calls'[d] = calls[d]
    BY <1>0, <2>0, <2>1, GotoShape DEF Steps
  <2>5. \A d \in Calls : ~ Keyed(d)' /\ calls'[d].step # "store"
    BY <2>0, <2>4 DEF IInv, HolderInv, LookupInv, Keyed
  <2>6. values'[k] = calls[c].payload /\ \A j \in Keys : j # k => values'[j] = values[j]
    BY <1>0, <2>0, <2>1 DEF TypeOK
  <2>7. HolderInv' /\ LookupInv'
    BY <2>5 DEF HolderInv, LookupInv, Keyed
  <2>8. ValuesInv'
    BY <2>0, <2>1, <2>6 DEF IInv, ValuesInv
  <2>9. SuccessInv' /\ TryInv'
    BY <2>0, <2>1, <2>4, <2>6 DEF IInv, SuccessInv, TryInv
  <2>10. NilMeansDone'
    <3> SUFFICES ASSUME NEW d \in Calls, calls'[d].step = "nil"
                 PROVE  /\ [key |-> calls'[d].key, payload |-> calls'[d].payload] \in done'
                        /\ calls'[d].key # NoKey => values'[calls'[d].key] = calls'[d].payload
      BY DEF NilMeansDone
    <3>1. CASE d = c
      BY <2>0, <2>1, <2>4, <2>6, <3>1
    <3>2. CASE d # c
      <4>1. calls'[d] = calls[d] /\ calls[d].step = "nil" /\ calls[d] \in
              [step: Steps, key: Keys \cup {NoKey}, payload: Payloads, try: 1..Attempts]
        BY <1>0, <2>4, <3>2, CallShape
      <4>2. /\ [key |-> calls[d].key, payload |-> calls[d].payload] \in done
            /\ calls[d].key # NoKey => values[calls[d].key] = calls[d].payload
        BY <4>1 DEF IInv, NilMeansDone
      <4>3. calls[d].key # k
        BY <2>0, <4>1, <4>2
      <4> QED BY <2>1, <2>6, <4>1, <4>2, <4>3
    <3> QED BY <3>1, <3>2
  <2> QED BY <2>3, <2>7, <2>8, <2>9, <2>10 DEF IInv
<1>6. ASSUME NEW c \in Calls, Delay(c) PROVE IInv'
  <2>1. calls[c].step = "delay" /\ UNCHANGED << values, mutex, done, good >>
    BY <1>6 DEF Delay
  <2>2. CASE Goto(c, "error")
    <3>1. TypeOK'
      BY <1>0, <2>1, <2>2, GotoShape DEF TypeOK, Steps
    <3> QED BY <1>0, <2>1, <2>2, <3>1, GotoShape, QuietStep DEF Steps
  <2>3. CASE calls' = [calls EXCEPT ![c].step = "enter", ![c].try = @ + 1]
    <3>1. /\ calls[c] \in [step: Steps, key: Keys \cup {NoKey}, payload: Payloads, try: 1..Attempts]
          /\ calls[c].try < Attempts
      BY <1>0, <2>1, CallShape DEF IInv, TryInv
    <3>2. calls' = [calls EXCEPT ![c] = [step |-> "enter", key |-> calls[c].key,
                                         payload |-> calls[c].payload, try |-> calls[c].try + 1]]
      BY <1>0, <2>3, <3>1 DEF TypeOK
    <3>3. TypeOK' /\ calls'[c].step = "enter"
      BY <1>0, <2>1, <3>1, <3>2 DEF TypeOK, Steps
    <3> QED BY <1>0, <2>1, <3>2, <3>3, QuietStep DEF TypeOK
  <2> QED BY <1>6, <2>2, <2>3 DEF Delay
<1>7. ASSUME NEW c \in Calls, Leave(c) PROVE IInv'
  <2>1. calls' = [calls EXCEPT ![c] = Idle] /\ calls[c].step \in {"nil", "error"}
    BY <1>7 DEF Leave
  <2>2. TypeOK' /\ calls'[c].step = "idle"
    BY <1>0, <1>7, <2>1 DEF Leave, TypeOK, Idle
  <2> QED BY <1>0, <1>7, <2>1, <2>2, QuietStep DEF Leave, TypeOK
<1>8. CASE Restart
  <2>1. TypeOK' /\ \A c \in Calls : calls'[c].step = "idle"
    BY <1>0, <1>8 DEF Restart, TypeOK, Idle
  <2>2. SuccessInv' /\ ValuesInv'
    BY <1>8 DEF Restart, SuccessInv, ValuesInv
  <2> QED BY <2>1, <2>2 DEF IInv, HolderInv, Keyed, LookupInv, NilMeansDone, TryInv
<1>9. CASE UNCHANGED vars
  BY <1>9 DEF vars, IInv, TypeOK, HolderInv, Keyed, LookupInv, SuccessInv, ValuesInv, NilMeansDone, TryInv
<1> QED BY <1>1, <1>2, <1>3, <1>4, <1>5, <1>6, <1>7, <1>8, <1>9 DEF Next, Advance

LEMMA Invariant == Spec => []IInv
  BY InitIInv, Step, PTL DEF Spec

\* No call makes more attempts than Retry allows.
THEOREM TypeCorrect == Spec => []TypeOK
<1>1. IInv => TypeOK
  BY DEF IInv
<1> QED BY Invariant, <1>1, PTL

\* However many callers bring a key at once, its function succeeds once in the
\* life of a process.
THEOREM EffectOncePerKey == Spec => []OnceByKey
<1>1. IInv => OnceByKey
  BY DEF IInv, SuccessInv, OnceByKey
<1> QED BY Invariant, <1>1, PTL

\* A nil answer means that the payload brought has had its effect, and that it
\* is the one the key stands for.
THEOREM NilIsTrue == Spec => []NilMeansDone
<1>1. IInv => NilMeansDone
  BY DEF IInv
<1> QED BY Invariant, <1>1, PTL

-----------------------------------------------------------------------------
(* The calls implement the promise of the keys.                            *)

\* The key of a success that is not stored yet is kept for its payload: there
\* is one such call, the holder of the mutex.
LEMMA KeptIs ==
  ASSUME IInv, NEW k \in Keys
  PROVE  /\ Storing(k) = {} => Kept(k) = values[k]
         /\ \A c \in Storing(k) : Kept(k) = calls[c].payload
<1>1. \A c, d \in Storing(k) : c = d
  BY DEF IInv, HolderInv, LookupInv, Keyed, Storing
<1>2. ASSUME NEW c \in Storing(k) PROVE Kept(k) = calls[c].payload
  <2>1. (CHOOSE d \in Storing(k) : TRUE) \in Storing(k)
    BY <1>2
  <2>2. (CHOOSE d \in Storing(k) : TRUE) = c
    BY <1>1, <2>1
  <2> QED BY <2>2 DEF Kept
<1> QED BY <1>2 DEF Kept

LEMMA KeptNext ==
  ASSUME IInv', NEW k \in Keys
  PROVE  /\ Storing(k)' = {} => Kept(k)' = values'[k]
         /\ \A c \in Storing(k)' : Kept(k)' = calls'[c].payload
<1>1. \A c, d \in Storing(k)' : c = d
  BY DEF IInv, HolderInv, LookupInv, Keyed, Storing
<1>2. ASSUME NEW c \in Storing(k)' PROVE Kept(k)' = calls'[c].payload
  <2>1. (CHOOSE d \in Storing(k)' : TRUE) \in Storing(k)'
    BY <1>2
  <2>2. (CHOOSE d \in Storing(k)' : TRUE) = c
    BY <1>1, <2>1
  <2> QED BY <2>2 DEF Kept
<1> QED BY <1>2 DEF Kept

\* A step that stores nothing and lets no function succeed keeps no key.
LEMMA KeptStays ==
  ASSUME IInv, IInv', NEW c \in Calls, \A d \in Calls : d # c => calls'[d] = calls[d],
         calls[c].step # "store", calls'[c].step # "store", UNCHANGED values
  PROVE  UNCHANGED [k \in Keys |-> Kept(k)]
<1> SUFFICES ASSUME NEW k \in Keys PROVE Kept(k)' = Kept(k)
  OBVIOUS
<1>1. Storing(k)' = Storing(k) /\ c \notin Storing(k) /\ Storing(k) \subseteq Calls
  BY DEF Storing
<1>2. CASE Storing(k) = {}
  BY <1>1, <1>2, KeptIs, KeptNext
<1>3. CASE Storing(k) # {}
  <2>1. PICK d \in Storing(k) : TRUE
    BY <1>3
  <2>2. calls'[d] = calls[d]
    BY <1>1, <2>1
  <2> QED BY <1>1, <2>1, <2>2, KeptIs, KeptNext
<1> QED BY <1>2, <1>3

\* While a key is found free by the holder of the mutex, it is.
LEMMA RunsFree ==
  ASSUME IInv, NEW c \in Calls, calls[c].step = "run", calls[c].key # NoKey
  PROVE  calls[c].key \in Keys /\ Storing(calls[c].key) = {} /\ Kept(calls[c].key) = None
<1>1. calls[c].key \in Keys
  BY CallShape DEF IInv
<1>2. Storing(calls[c].key) = {}
  <2> SUFFICES ASSUME NEW d \in Storing(calls[c].key) PROVE FALSE
    OBVIOUS
  <2>1. d \in Calls /\ calls[d].step = "store"
    BY DEF Storing
  <2> QED BY <2>1 DEF IInv, HolderInv, LookupInv, Keyed
<1>3. values[calls[c].key] = None
  BY DEF IInv, LookupInv, Keyed
<1> QED BY <1>1, <1>2, <1>3, KeptIs

LEMMA ShownIs ==
  /\ Shown["enter"] = "asks" /\ Shown["run"] = "asks" /\ Shown["delay"] = "asks"
  /\ Shown["store"] = "nil" /\ Shown["nil"] = "nil" /\ Shown["error"] = "error"
  BY DEF Shown, Steps

Asks == [c \in Calls |-> Asked(c)]

\* A call that is not idle shows its step, key and payload.
LEMMA AskedIs ==
  ASSUME NEW c \in Calls, calls[c].step # "idle"
  PROVE  Asked(c) = [step |-> Shown[calls[c].step], key |-> calls[c].key, payload |-> calls[c].payload]
  BY DEF Asked, Idle

LEMMA AskedNext ==
  ASSUME NEW c \in Calls, calls'[c].step # "idle"
  PROVE  Asked(c)' = [step |-> Shown[calls'[c].step], key |-> calls'[c].key, payload |-> calls'[c].payload]
  BY DEF Asked, Idle, Shown

\* A call that goes on, and nothing else that callers see.
LEMMA GotoAnswers ==
  ASSUME IInv, NEW c \in Calls, calls[c].step \in {"enter", "run", "delay"},
         NEW s \in Steps, calls'[c].step = s, calls'[c].key = calls[c].key,
         calls'[c].payload = calls[c].payload,
         \A d \in Calls : d # c => calls'[d] = calls[d]
  PROVE  Promise!Answer(c, Shown[s])
<1>1. /\ Asks[c] = [step |-> "asks", key |-> calls[c].key, payload |-> calls[c].payload]
      /\ Asked(c)' = [step |-> Shown[s], key |-> calls[c].key, payload |-> calls[c].payload]
  BY AskedIs, AskedNext, ShownIs DEF Asks, Steps
<1>2. \A d \in Calls : d # c => Asked(d)' = Asked(d)
  BY DEF Asked
<1>3. [step |-> Shown[s], key |-> Asks[c].key, payload |-> Asks[c].payload] = Asked(c)'
  BY <1>1
<1>4. Asks' = [Asks EXCEPT ![c] = Asked(c)']
  BY <1>2 DEF Asks
<1>5. Asks[c].step = "asks"
  BY <1>1
<1>6. /\ Asks[c].step = "asks"
      /\ Asks' = [Asks EXCEPT ![c] = [step |-> Shown[s], key |-> Asks[c].key, payload |-> Asks[c].payload]]
  BY <1>3, <1>4, <1>5
<1> QED BY <1>6 DEF Promise!Answer, Asks


\* The same, if no function succeeds: no key is kept by it.
LEMMA Moves ==
  ASSUME IInv, IInv', NEW c \in Calls, calls[c].step \in {"enter", "run", "delay"},
         NEW s \in Steps \ {"store"}, calls'[c].step = s, calls'[c].key = calls[c].key,
         calls'[c].payload = calls[c].payload,
         \A d \in Calls : d # c => calls'[d] = calls[d], UNCHANGED values
  PROVE  Promise!Answer(c, Shown[s]) /\ UNCHANGED [k \in Keys |-> Kept(k)]
<1>1. Promise!Answer(c, Shown[s])
  BY GotoAnswers
<1>2. UNCHANGED [k \in Keys |-> Kept(k)]
  BY KeptStays
<1> QED BY <1>1, <1>2

\* The same, if the call is not answered and has no effect: nobody sees it.
LEMMA Waits ==
  ASSUME IInv, IInv', NEW c \in Calls, calls[c].step \in {"enter", "run", "delay"},
         NEW s \in {"enter", "run", "delay"}, calls'[c].step = s, calls'[c].key = calls[c].key,
         calls'[c].payload = calls[c].payload,
         \A d \in Calls : d # c => calls'[d] = calls[d], UNCHANGED << values, done >>
  PROVE  UNCHANGED Promise!keys
<1>1. Asked(c)' = Asked(c)
  BY AskedIs, AskedNext, ShownIs
<1>2. UNCHANGED Asks
  BY <1>1 DEF Asks, Asked
<1>3. UNCHANGED [k \in Keys |-> Kept(k)]
  BY KeptStays
<1> QED BY <1>2, <1>3 DEF Promise!keys, Asks

LEMMA AsksIs ==
  ASSUME NEW c \in Calls, calls[c].step # "idle"
  PROVE  Asks[c].key = calls[c].key /\ Asks[c].payload = calls[c].payload
  BY AskedIs DEF Asks

LEMMA BeginAsks ==
  ASSUME IInv, IInv', NEW c \in Calls, NEW k \in Keys \cup {NoKey}, NEW p \in Payloads, Begin(c, k, p)
  PROVE  Promise!Ask(c, k, p)
<1>1. /\ calls[c] = Idle /\ calls[c].step = "idle"
      /\ calls'[c] = [step |-> "enter", key |-> k, payload |-> p, try |-> 1]
      /\ \A d \in Calls : d # c => calls'[d] = calls[d]
      /\ UNCHANGED << values, done >>
  BY DEF Begin, IInv, TypeOK, Idle
<1>2. UNCHANGED [j \in Keys |-> Kept(j)]
  BY <1>1, KeptStays
<1>3. Asks[c] = Promise!Idle
  BY <1>1 DEF Asks, Asked, Idle, Promise!Idle
<1>4. Asked(c)' = [step |-> "asks", key |-> k, payload |-> p]
  BY <1>1, AskedNext, ShownIs
<1>5. Asks' = [Asks EXCEPT ![c] = Asked(c)']
  BY <1>1 DEF Asks, Asked
<1>6. Asks' = [Asks EXCEPT ![c] = [step |-> "asks", key |-> k, payload |-> p]]
  BY <1>4, <1>5
<1> QED BY <1>1, <1>2, <1>3, <1>6 DEF Promise!Ask, Asks

\* A failure that had no effect.
LEMMA FailRefuses ==
  ASSUME IInv, IInv', NEW c \in Calls, calls[c].step \in {"enter", "run"}, Fail(c),
         UNCHANGED << values, done >>
  PROVE  Promise!Refuse(c) \/ UNCHANGED Promise!keys
<1>1. PICK s \in {"delay", "error"} : Goto(c, s)
  BY FailGoto
<1>2. /\ s \in Steps \ {"store"} /\ TypeOK
      /\ calls'[c].step = s /\ calls'[c].key = calls[c].key /\ calls'[c].payload = calls[c].payload
      /\ \A d \in Calls : d # c => calls'[d] = calls[d]
  BY <1>1, GotoShape DEF IInv, Steps
<1>3. CASE s = "delay"
  BY <1>2, <1>3, Waits
<1>4. CASE s = "error"
  <2>1. Promise!Answer(c, "error") /\ UNCHANGED [k \in Keys |-> Kept(k)]
    BY <1>2, <1>4, Moves, ShownIs
  <2> QED BY <2>1 DEF Promise!Refuse
<1> QED BY <1>3, <1>4

\* A failure that had its effect.
LEMMA FailSlips ==
  ASSUME IInv, IInv', NEW c \in Calls, calls[c].step = "run", Fail(c), Effect(c), UNCHANGED values
  PROVE  Promise!Slip(c)
<1>1. PICK s \in {"delay", "error"} : Goto(c, s)
  BY FailGoto
<1>2. /\ s \in Steps \ {"store"} /\ TypeOK
      /\ calls'[c].step = s /\ calls'[c].key = calls[c].key /\ calls'[c].payload = calls[c].payload
      /\ \A d \in Calls : d # c => calls'[d] = calls[d]
  BY <1>1, GotoShape DEF IInv, Steps
<1>3. Promise!Answer(c, Shown[s]) /\ UNCHANGED [k \in Keys |-> Kept(k)]
  BY <1>2, Moves
<1>4. Shown[s] \in {"asks", "error"}
  BY <1>1, ShownIs
<1>5. Promise!Free(c) /\ Promise!Effect(c)
  BY AsksIs, RunsFree DEF Promise!Free, Promise!Effect, Effect, Asks
<1> QED BY <1>3, <1>4, <1>5 DEF Promise!Slip

LEMMA EnterMoves ==
  ASSUME IInv, IInv', NEW c \in Calls, Enter(c)
  PROVE  Promise!Agree(c) \/ Promise!Refuse(c) \/ UNCHANGED Promise!keys
<1> DEFINE k == calls[c].key
<1>1. /\ calls[c].step = "enter" /\ k # NoKey /\ mutex = None /\ UNCHANGED << values, done >>
      /\ TypeOK
  BY DEF Enter, IInv
<1>2. k \in Keys
  BY <1>1, CallShape
<1>3. CASE Goto(c, "run")
  BY <1>1, <1>3, GotoShape, Waits DEF Steps
<1>4. CASE Fail(c)
  BY <1>1, <1>4, FailRefuses
<1>5. CASE values[k] = calls[c].payload /\ Goto(c, "nil")
  <2>1. Promise!Answer(c, "nil") /\ UNCHANGED [j \in Keys |-> Kept(j)]
    BY <1>1, <1>5, GotoShape, Moves, ShownIs DEF Steps
  <2>2. Storing(k) = {}
    BY <1>1, IdempotencyAssumption DEF Storing, IInv, HolderInv, LookupInv, Keyed
  <2>3. Kept(k) = calls[c].payload
    BY <1>2, <1>5, <2>2, KeptIs
  <2>4. Asks[c].key = k /\ Asks[c].payload = calls[c].payload
    BY <1>1, AsksIs
  <2> QED BY <1>1, <1>2, <2>1, <2>3, <2>4 DEF Promise!Agree, Asks
<1> QED BY <1>3, <1>4, <1>5 DEF Enter

\* The success of the function: to callers, the answer and the key's payload
\* are there at once.
LEMMA SucceedDoes ==
  ASSUME IInv, IInv', NEW c \in Calls, calls[c].step = "run", Succeed(c)
  PROVE  Promise!Do(c)
<1>0. PICK k \in Keys \cup {NoKey} : k = calls[c].key
  BY CallShape DEF IInv
<1>1. /\ TypeOK /\ Effect(c) /\ UNCHANGED values
      /\ Asks[c].key = k /\ Asks[c].payload = calls[c].payload
  BY <1>0, AsksIs DEF IInv, Succeed
<1>2. Promise!Free(c) /\ Promise!Effect(c)
  <2>1. k # NoKey => k \in Keys /\ Kept(k) = None
    BY <1>0, RunsFree
  <2>2. Promise!Free(c)
    BY <1>1, <2>1 DEF Promise!Free, Asks
  <2>3. Promise!Effect(c)
    BY <1>0, <1>1 DEF Promise!Effect, Effect, Asks
  <2> QED BY <2>2, <2>3
<1>3. CASE k = NoKey
  <2>1. Goto(c, "nil")
    BY <1>0, <1>3 DEF Succeed
  <2>2. Promise!Answer(c, "nil") /\ UNCHANGED [j \in Keys |-> Kept(j)]
    BY <1>1, <2>1, GotoShape, Moves, ShownIs DEF Steps
  <2> QED BY <1>1, <1>2, <1>3, <2>2 DEF Promise!Do, Asks
<1>4. CASE k # NoKey
  <2>1. Goto(c, "store") /\ k \in Keys /\ Storing(k) = {}
    BY <1>0, <1>4, RunsFree DEF Succeed
  <2>2. /\ calls'[c].step = "store" /\ calls'[c].key = k /\ calls'[c].payload = calls[c].payload
        /\ \A d \in Calls : d # c => calls'[d] = calls[d]
    BY <1>0, <1>1, <2>1, GotoShape DEF Steps
  <2>3. Promise!Answer(c, "nil")
    BY <1>0, <2>2, GotoAnswers, ShownIs DEF Steps
  <2>4. Kept(k)' = calls[c].payload
    <3>1. c \in Storing(k)'
      BY <2>2 DEF Storing
    <3> QED BY <2>1, <2>2, <3>1, KeptNext
  <2>5. ASSUME NEW j \in Keys, j # k PROVE Kept(j)' = Kept(j)
    <3>1. Storing(j)' = Storing(j) /\ \A d \in Storing(j) : calls'[d] = calls[d]
      BY <1>0, <2>2, <2>5 DEF Storing
    <3>2. CASE Storing(j) = {}
      BY <1>1, <3>1, <3>2, KeptIs, KeptNext
    <3>3. CASE Storing(j) # {}
      <4>1. PICK d \in Storing(j) : TRUE
        BY <3>3
      <4> QED BY <3>1, <4>1, KeptIs, KeptNext
    <3> QED BY <3>2, <3>3
  <2>6. [j \in Keys |-> Kept(j)]' = [[j \in Keys |-> Kept(j)] EXCEPT ![k] = Asks[c].payload]
    BY <1>1, <2>1, <2>4, <2>5, Zenon
  <2> QED BY <1>1, <1>2, <1>4, <2>3, <2>6 DEF Promise!Do, Asks
<1> QED BY <1>3, <1>4

\* The entry in the map changes nothing for callers.
LEMMA StoreIdles ==
  ASSUME IInv, IInv', NEW c \in Calls, Store(c)
  PROVE  UNCHANGED Promise!keys
<1> DEFINE k == calls[c].key
<1>1. /\ TypeOK /\ calls[c].step = "store" /\ Goto(c, "nil") /\ UNCHANGED done
      /\ values' = [values EXCEPT ![k] = calls[c].payload]
  BY DEF IInv, Store
<1>2. /\ calls'[c].step = "nil" /\ calls'[c].key = k /\ calls'[c].payload = calls[c].payload
      /\ \A d \in Calls : d # c => calls'[d] = calls[d]
  BY <1>1, GotoShape DEF Steps
<1>3. Asked(c)' = Asked(c)
  BY <1>1, <1>2, AskedIs, AskedNext, ShownIs
<1>4. UNCHANGED Asks
  BY <1>2, <1>3 DEF Asks, Asked
<1>5. /\ k \in Keys /\ c \in Storing(k)
      /\ \A d \in Calls : calls[d].step = "store" => d = c
  BY <1>1, CallShape DEF IInv, HolderInv, LookupInv, Keyed, Storing
<1>6. ASSUME NEW j \in Keys PROVE Kept(j)' = Kept(j)
  <2>1. Storing(j)' = {}
    BY <1>2, <1>5 DEF Storing
  <2>2. Kept(j)' = values'[j]
    BY <2>1, KeptNext
  <2>3. CASE j = k
    BY <1>1, <1>5, <2>2, <2>3, KeptIs DEF TypeOK
  <2>4. CASE j # k
    <3>1. Storing(j) = {}
      <4>1. c \notin Storing(j)
        BY <2>4 DEF Storing
      <4> QED BY <1>5, <4>1 DEF Storing
    <3> QED BY <1>1, <2>2, <2>4, <3>1, KeptIs DEF TypeOK
  <2> QED BY <2>3, <2>4
<1> QED BY <1>1, <1>4, <1>6 DEF Promise!keys, Asks

LEMMA DelayMoves ==
  ASSUME IInv, IInv', NEW c \in Calls, Delay(c)
  PROVE  Promise!Refuse(c) \/ UNCHANGED Promise!keys
<1>1. TypeOK /\ calls[c].step = "delay" /\ UNCHANGED << values, done >>
  BY DEF IInv, Delay
<1>2. CASE Goto(c, "error")
  <2>1. Promise!Answer(c, "error") /\ UNCHANGED [k \in Keys |-> Kept(k)]
    BY <1>1, <1>2, GotoShape, Moves, ShownIs DEF Steps
  <2> QED BY <1>1, <2>1 DEF Promise!Refuse
<1>3. CASE calls' = [calls EXCEPT ![c].step = "enter", ![c].try = @ + 1]
  <2>1. calls[c] \in [step: Steps, key: Keys \cup {NoKey}, payload: Payloads, try: 1..Attempts]
    BY <1>1, CallShape
  <2>2. /\ calls'[c].step = "enter" /\ calls'[c].key = calls[c].key
        /\ calls'[c].payload = calls[c].payload
        /\ \A d \in Calls : d # c => calls'[d] = calls[d]
    BY <1>1, <1>3, <2>1 DEF TypeOK
  <2> QED BY <1>1, <2>2, Waits
<1> QED BY <1>2, <1>3 DEF Delay

LEMMA LeaveLeaves ==
  ASSUME IInv, IInv', NEW c \in Calls, Leave(c)
  PROVE  Promise!Leave(c)
<1>1. /\ calls[c].step \in {"nil", "error"} /\ UNCHANGED << values, done >>
      /\ calls'[c] = Idle /\ \A d \in Calls : d # c => calls'[d] = calls[d]
  BY DEF IInv, TypeOK, Leave
<1>2. UNCHANGED [k \in Keys |-> Kept(k)]
  BY <1>1, KeptStays DEF Idle
<1>3. Asks[c].step \in {"nil", "error"}
  BY <1>1, AskedIs, ShownIs DEF Asks
<1>4. Asks' = [Asks EXCEPT ![c] = Promise!Idle]
  BY <1>1 DEF Asks, Asked, Idle, Promise!Idle
<1> QED BY <1>1, <1>2, <1>3, <1>4 DEF Promise!Leave, Asks

LEMMA RestartRestarts ==
  ASSUME IInv, IInv', Restart
  PROVE  Promise!Restart
<1>1. [c \in Calls |-> Asked(c)]' = [c \in Calls |-> Promise!Idle]
  BY DEF Restart, Asked, Idle, Promise!Idle
<1>2. ASSUME NEW k \in Keys PROVE Kept(k)' = None
  <2>1. Storing(k)' = {} /\ values'[k] = None
    BY DEF Restart, Storing, Idle
  <2> QED BY <2>1, KeptNext
<1> QED BY <1>1, <1>2 DEF Restart, Promise!Restart

LEMMA PromiseStep == IInv /\ IInv' /\ [Next]_vars => [Promise!Next]_(Promise!keys)
<1> SUFFICES ASSUME IInv, IInv', [Next]_vars PROVE [Promise!Next]_(Promise!keys)
  OBVIOUS
<1>1. ASSUME NEW c \in Calls, NEW k \in Keys \cup {NoKey}, NEW p \in Payloads, Begin(c, k, p)
      PROVE  [Promise!Next]_(Promise!keys)
  BY <1>1, BeginAsks DEF Promise!Next
<1>2. ASSUME NEW c \in Calls, Enter(c) PROVE [Promise!Next]_(Promise!keys)
  BY <1>2, EnterMoves DEF Promise!Next
<1>3. ASSUME NEW c \in Calls, EnterFree(c) PROVE [Promise!Next]_(Promise!keys)
  <2>1. /\ TypeOK /\ calls[c].step = "enter" /\ Goto(c, "run") /\ UNCHANGED << values, done >>
    BY <1>3 DEF EnterFree, IInv
  <2> QED BY <2>1, GotoShape, Waits DEF Steps
<1>4. ASSUME NEW c \in Calls, Run(c) PROVE [Promise!Next]_(Promise!keys)
  <2>1. calls[c].step = "run"
    BY <1>4 DEF Run
  <2>2. CASE Succeed(c)
    BY <2>1, <2>2, SucceedDoes DEF Promise!Next
  <2>3. CASE Fail(c) /\ Effect(c) /\ UNCHANGED values
    BY <2>1, <2>3, FailSlips DEF Promise!Next
  <2>4. CASE Fail(c) /\ UNCHANGED << values, done >>
    BY <2>1, <2>4, FailRefuses DEF Promise!Next
  <2> QED BY <1>4, <2>2, <2>3, <2>4 DEF Run
<1>5. ASSUME NEW c \in Calls, Store(c) PROVE [Promise!Next]_(Promise!keys)
  BY <1>5, StoreIdles
<1>6. ASSUME NEW c \in Calls, Delay(c) PROVE [Promise!Next]_(Promise!keys)
  BY <1>6, DelayMoves DEF Promise!Next
<1>7. ASSUME NEW c \in Calls, Leave(c) PROVE [Promise!Next]_(Promise!keys)
  BY <1>7, LeaveLeaves DEF Promise!Next
<1>8. CASE Restart
  BY <1>8, RestartRestarts DEF Promise!Next
<1>9. CASE UNCHANGED vars
  BY <1>9 DEF vars, Promise!keys, Asked, Kept, Storing
<1> QED BY <1>1, <1>2, <1>3, <1>4, <1>5, <1>6, <1>7, <1>8, <1>9 DEF Next, Advance

LEMMA PromiseInit == Init => Promise!Init
<1> SUFFICES ASSUME Init PROVE Promise!Init
  OBVIOUS
<1>1. \A c \in Calls : Asked(c) = Promise!Idle
  BY DEF Init, Asked, Idle, Promise!Idle
<1>2. \A k \in Keys : Kept(k) = None
  <2>1. IInv
    BY InitIInv
  <2>2. \A k \in Keys : Storing(k) = {} /\ values[k] = None
    BY DEF Init, Storing, Idle
  <2> QED BY <2>1, <2>2, KeptIs
<1> QED BY <1>1, <1>2 DEF Init, Promise!Init

\* However callers race, retry and die, the key, the effect and the answer come
\* at once, and nothing is done under a key that is kept.
THEOREM CallsImplementPromise == Spec => ImplementsPromise
  BY Invariant, PromiseInit, PromiseStep, PTL DEF Spec, ImplementsPromise, Promise!Spec

=============================================================================
