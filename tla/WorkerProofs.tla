----------------------------- MODULE WorkerProofs -----------------------------
(***************************************************************************)
(* Theorems about the worker queue, for any number of jobs and workers,    *)
(* any size of the channel and any number of attempts; and that the queue  *)
(* implements the board of jobs.                                           *)
(***************************************************************************)
EXTENDS WorkerQueue, FiniteSetTheorems, TLAPS

Queued(j) == \E i \in 1..Len(queue) : queue[i] = j
Held(j) == \E w \in Workers : holds[w] = j

\* A job has one place as long as it is accepted, and none before and after.
PlaceInv ==
  /\ \A i, k \in 1..Len(queue) : queue[i] = queue[k] => i = k
  /\ \A w, v \in Workers : holds[w] # None /\ holds[w] = holds[v] => w = v
  /\ \A i \in 1..Len(queue), w \in Workers : holds[w] # queue[i]
  /\ \A j \in Jobs : fate[j] = "accepted" <=> Queued(j) \/ Held(j)
  /\ \A w \in Workers : holds[w] # None <=> at[w] \in {"attempt", "wait"}

\* A job in the channel was never tried, one about to be tried may be.
TryInv ==
  /\ \A j \in Jobs : fate[j] = "new" \/ Queued(j) => tries[j] = 0
  /\ \A w \in Workers : at[w] = "attempt" => tries[holds[w]] < MaxAttempts

IInv == TypeOK /\ OneLiveWorker /\ PlaceInv /\ TryInv /\ GivenUpForAReason

LEMMA InitIInv == Init => IInv
<1> SUFFICES ASSUME Init PROVE IInv
  OBVIOUS
<1> USE QueueAssumption DEF Init
<1>1. TypeOK
  <2>1. queue \in Seq(Jobs) /\ Len(queue) <= Size
    OBVIOUS
  <2>2. 0 \in 0..MaxAttempts
    OBVIOUS
  <2>3. tries \in [Jobs -> 0..MaxAttempts] /\ fate \in [Jobs -> Fates]
    BY <2>2 DEF Fates
  <2>4. /\ at \in [Workers -> {"unborn", "select", "attempt", "wait", "done"}]
        /\ holds \in [Workers -> Jobs \cup {None}] /\ live \in [Workers -> BOOLEAN]
    OBVIOUS
  <2> QED BY <2>1, <2>3, <2>4 DEF TypeOK
<1>2. OneLiveWorker /\ PlaceInv
  BY DEF OneLiveWorker, PlaceInv, Queued, Held
<1>3. TryInv /\ GivenUpForAReason
  BY DEF TryInv, GivenUpForAReason, Queued
<1> QED BY <1>1, <1>2, <1>3 DEF IInv

\* What holding a job tells of it.
LEMMA Holder ==
  ASSUME IInv, NEW w \in Workers, at[w] \in {"attempt", "wait"}
  PROVE  /\ holds[w] \in Jobs /\ fate[holds[w]] = "accepted"
         /\ \A v \in Workers : v # w => holds[v] # holds[w]
         /\ ~ Queued(holds[w])
<1>1. holds[w] # None /\ holds[w] \in Jobs
  BY DEF IInv, PlaceInv, TypeOK
<1> QED BY <1>1 DEF IInv, PlaceInv, Queued, Held

LEMMA LiveStep == TypeOK /\ OneLiveWorker /\ [Next]_vars => OneLiveWorker'
<1> SUFFICES ASSUME TypeOK, OneLiveWorker, [Next]_vars PROVE OneLiveWorker'
  OBVIOUS
<1>1. ASSUME NEW w \in Workers \ {Direct}, RegistryStart(w) PROVE OneLiveWorker'
  BY <1>1 DEF RegistryStart, Spawn, OneLiveWorker, TypeOK
<1>2. CASE RegistryStop
  BY <1>2, QueueAssumption DEF RegistryStop, OneLiveWorker, TypeOK
<1>3. CASE CancelParent
  BY <1>3 DEF CancelParent, OneLiveWorker
<1>4. ASSUME NEW w \in Workers, Work(w) PROVE OneLiveWorker'
  <2>1. UNCHANGED << live, owner, running >> /\ at[w] # "unborn"
    BY <1>4 DEF Work, Take, Leave, Attempt, DelayEnds, DelayCancelled
  <2>2. \A v \in Workers : v # w => at'[v] = at[v]
    BY <1>4 DEF Work, Take, Leave, Depart, Attempt, DelayEnds, DelayCancelled, Settle, TypeOK
  <2> QED BY <2>1, <2>2 DEF OneLiveWorker
<1>5. CASE \E j \in Jobs : Submit(j)
  BY <1>5 DEF Submit, OneLiveWorker
<1>6. CASE StopCloses \/ StopGoesOn \/ UNCHANGED vars
  BY <1>6 DEF StopCloses, StopGoesOn, StopWaits, DoneWakes, StopReturns, vars, OneLiveWorker
<1>7. CASE QueueStart
  <2>1. /\ UNCHANGED << owner, running >>
        /\ \A v \in Workers \ {Direct} : at'[v] = at[v] /\ live'[v] = live[v]
    BY <1>7, QueueAssumption DEF QueueStart, Spawn, TypeOK
  <2> QED BY <2>1 DEF OneLiveWorker
<1> QED BY <1>1, <1>2, <1>3, <1>4, <1>5, <1>6, <1>7 DEF Next

LEMMA TypeStep == IInv /\ [Next]_vars => TypeOK'
<1> SUFFICES ASSUME IInv, [Next]_vars PROVE TypeOK'
  OBVIOUS
<1> USE QueueAssumption
<1>0. TypeOK
  BY DEF IInv
<1>1. ASSUME NEW j \in Jobs, Submit(j) PROVE TypeOK'
  <2>1. CASE closed
    BY <1>0, <1>1, <2>1 DEF Submit, TypeOK
  <2>2. CASE ~ closed
    <3>1. /\ Len(queue) < Size /\ queue' = Append(queue, j)
          /\ fate' = [fate EXCEPT ![j] = "accepted"]
          /\ UNCHANGED << closed, at, holds, live, parent, owner, running, stop, tries, panicked >>
      BY <1>1, <2>2 DEF Submit
    <3>2. queue' \in Seq(Jobs) /\ Len(queue') <= Size
      BY <1>0, <3>1 DEF TypeOK
    <3>3. fate' \in [Jobs -> Fates]
      BY <1>0, <3>1 DEF TypeOK, Fates
    <3> QED BY <1>0, <3>1, <3>2, <3>3 DEF TypeOK
  <2> QED BY <2>1, <2>2
<1>2. ASSUME NEW w \in Workers, Take(w) PROVE TypeOK'
  BY <1>0, <1>2 DEF Take, TypeOK
<1>3. ASSUME NEW w \in Workers, Attempt(w) PROVE TypeOK'
  <2>1. holds[w] \in Jobs /\ tries[holds[w]] + 1 \in 0..MaxAttempts
    <3>1. holds[w] \in Jobs /\ tries[holds[w]] < MaxAttempts
      BY <1>3, Holder DEF Attempt, IInv, TryInv
    <3> QED BY <1>0, <3>1 DEF TypeOK
  <2>2. tries' \in [Jobs -> 0..MaxAttempts]
    BY <1>0, <1>3, <2>1 DEF Attempt, TypeOK
  <2> QED BY <1>0, <1>3, <2>1, <2>2 DEF Attempt, Settle, TypeOK, Fates
<1>4. ASSUME NEW w \in Workers, DelayEnds(w) \/ DelayCancelled(w) PROVE TypeOK'
  BY <1>0, <1>4 DEF DelayEnds, DelayCancelled, Settle, TypeOK, Fates
<1>5. ASSUME NEW w \in Workers, Leave(w) \/ RegistryStart(w) \/ QueueStart PROVE TypeOK'
  BY <1>0, <1>5 DEF Leave, Depart, RegistryStart, QueueStart, Spawn, TypeOK
<1>6. CASE StopCloses \/ StopGoesOn
  BY <1>0, <1>6 DEF StopCloses, StopGoesOn, StopWaits, DoneWakes, StopReturns, TypeOK
<1>7. CASE RegistryStop \/ CancelParent
  BY <1>0, <1>7 DEF RegistryStop, CancelParent, TypeOK
<1>8. CASE UNCHANGED vars
  BY <1>0, <1>8 DEF vars, TypeOK
<1> QED BY <1>1, <1>2, <1>3, <1>4, <1>5, <1>6, <1>7, <1>8 DEF Next, Work

\* The workers that were cancelled stay so.
LEMMA CancelledStay ==
  ASSUME TypeOK, [Next]_vars, NEW w \in Workers, at[w] # "unborn", ~ live[w]
  PROVE  at'[w] # "unborn" /\ ~ live'[w]
<1>1. CASE QueueStart \/ \E v \in Workers : RegistryStart(v)
  BY <1>1 DEF QueueStart, RegistryStart, Spawn, TypeOK
<1>2. CASE RegistryStop \/ CancelParent
  BY <1>2 DEF RegistryStop, CancelParent, TypeOK
<1>3. CASE \E v \in Workers : Work(v)
  BY <1>3 DEF Work, Take, Leave, Depart, Attempt, DelayEnds, DelayCancelled, Settle, TypeOK
<1>4. CASE \E j \in Jobs : Submit(j)
  BY <1>4 DEF Submit
<1>5. CASE StopCloses \/ StopGoesOn \/ UNCHANGED vars
  BY <1>5 DEF StopCloses, StopGoesOn, StopWaits, DoneWakes, StopReturns, vars
<1> QED BY <1>1, <1>2, <1>3, <1>4, <1>5 DEF Next

\* A worker done with its job leaves it without a place.
LEMMA SettleStep ==
  ASSUME IInv, NEW w \in Workers, at[w] \in {"attempt", "wait"},
         NEW f \in Settled, Settle(w, f), UNCHANGED queue,
         f = "exhausted" => tries'[holds[w]] = MaxAttempts,
         f = "abandoned" => ~ live'[w],
         tries' \in [Jobs -> 0..MaxAttempts],
         \A j \in Jobs : j # holds[w] => tries'[j] = tries[j],
         \A v \in Workers : at[v] # "unborn" /\ ~ live[v] => at'[v] # "unborn" /\ ~ live'[v]
  PROVE  PlaceInv' /\ TryInv' /\ GivenUpForAReason'
<1>0. TypeOK /\ PlaceInv
  BY DEF IInv
<1>h. PICK h \in Jobs : h = holds[w]   \* a constant: priming leaves it alone
  BY Holder
<1>1. /\ fate[h] = "accepted" /\ ~ Queued(h)
      /\ \A v \in Workers : v # w => holds[v] # h
  BY <1>h, Holder
<1>2. /\ fate'[h] = f /\ \A j \in Jobs : j # h => fate'[j] = fate[j]
      /\ holds'[w] = None /\ \A v \in Workers : v # w => holds'[v] = holds[v]
      /\ at'[w] = "select" /\ \A v \in Workers : v # w => at'[v] = at[v]
  BY <1>0, <1>h DEF Settle, TypeOK
<1>3. \A j \in Jobs : Queued(j)' <=> Queued(j)
  BY DEF Queued
<1>4. ~ Held(h)' /\ \A j \in Jobs : j # h => (Held(j)' <=> Held(j))
  <2>1. h # None
    BY <1>1, QueueAssumption
  <2>2. \A v \in Workers : holds'[v] # h
    BY <1>1, <1>2, <2>1
  <2>3. \A j \in Jobs, v \in Workers : j # h => (holds'[v] = j <=> holds[v] = j)
    <3> SUFFICES ASSUME NEW j \in Jobs, NEW v \in Workers, j # h
                 PROVE  holds'[v] = j <=> holds[v] = j
      OBVIOUS
    <3>1. j # None
      BY QueueAssumption
    <3> QED BY <1>h, <1>2, <3>1
  <2>4. Held(h)' <=> \E v \in Workers : holds'[v] = h
    BY DEF Held
  <2> QED BY <2>2, <2>3, <2>4 DEF Held
<1>5. PlaceInv'
  <2>1. /\ \A i, k \in 1..Len(queue') : queue'[i] = queue'[k] => i = k
        /\ \A i \in 1..Len(queue'), v \in Workers : holds'[v] # queue'[i]
    <3>1. \A i \in 1..Len(queue) : queue[i] # None
      BY <1>0, QueueAssumption DEF TypeOK
    <3> QED BY <1>0, <1>2, <3>1 DEF PlaceInv
  <2>2. /\ \A v, u \in Workers : holds'[v] # None /\ holds'[v] = holds'[u] => v = u
        /\ \A v \in Workers : holds'[v] # None <=> at'[v] \in {"attempt", "wait"}
    BY <1>0, <1>2 DEF PlaceInv
  <2>3. \A j \in Jobs : fate'[j] = "accepted" <=> Queued(j)' \/ Held(j)'
    BY <1>0, <1>1, <1>2, <1>3, <1>4 DEF PlaceInv, Settled
  <2> QED BY <2>1, <2>2, <2>3 DEF PlaceInv
<1>6. TryInv'
  <2>1. \A j \in Jobs : fate'[j] = "new" \/ Queued(j)' => tries'[j] = 0
    BY <1>h, <1>1, <1>2, <1>3 DEF IInv, TryInv, Settled
  <2>2. ASSUME NEW v \in Workers, at'[v] = "attempt" PROVE tries'[holds'[v]] < MaxAttempts
    <3>1. v # w /\ at[v] = "attempt" /\ holds'[v] = holds[v]
      BY <1>2, <2>2
    <3>2. holds[v] \in Jobs /\ holds[v] # h /\ tries[holds[v]] < MaxAttempts
      BY <1>1, <3>1, Holder DEF IInv, TryInv
    <3> QED BY <1>h, <3>1, <3>2
  <2> QED BY <2>1, <2>2 DEF TryInv
<1>7. GivenUpForAReason'
  <2>1. \A j \in Jobs : tries'[j] <= MaxAttempts
    BY QueueAssumption
  <2>2. \A j \in Jobs : fate'[j] = "exhausted" => tries'[j] = MaxAttempts
    BY <1>h, <1>2 DEF IInv, GivenUpForAReason
  <2>3. \A j \in Jobs : fate'[j] = "abandoned" => \E v \in Workers : at'[v] # "unborn" /\ ~ live'[v]
    BY <1>2 DEF IInv, GivenUpForAReason
  <2> QED BY <2>1, <2>2, <2>3 DEF GivenUpForAReason
<1> QED BY <1>5, <1>6, <1>7

\* A step that moves no job and tries none.
LEMMA IdleStep ==
  ASSUME IInv, [Next]_vars, UNCHANGED << queue, holds, tries, fate >>,
         \A w \in Workers : /\ at'[w] = "attempt" => at[w] = "attempt"
                            /\ at'[w] \in {"attempt", "wait"} <=> at[w] \in {"attempt", "wait"}
  PROVE  PlaceInv' /\ TryInv' /\ GivenUpForAReason'
<1>1. PlaceInv'
  BY DEF IInv, PlaceInv, Queued, Held
<1>2. TryInv'
  BY DEF IInv, TryInv, Queued
<1>3. GivenUpForAReason'
  BY CancelledStay DEF IInv, GivenUpForAReason
<1> QED BY <1>1, <1>2, <1>3

LEMMA Step == IInv /\ [Next]_vars => IInv'
<1> SUFFICES ASSUME IInv, [Next]_vars PROVE PlaceInv' /\ TryInv' /\ GivenUpForAReason'
  BY TypeStep, LiveStep DEF IInv
<1> USE QueueAssumption
<1>0. TypeOK /\ PlaceInv /\ TryInv
  BY DEF IInv
<1>a. \A v \in Workers : at[v] # "unborn" /\ ~ live[v] => at'[v] # "unborn" /\ ~ live'[v]
  BY <1>0, CancelledStay
<1>1. ASSUME NEW j \in Jobs, Submit(j) PROVE PlaceInv' /\ TryInv' /\ GivenUpForAReason'
  <2>1. CASE closed
    BY <1>1, <2>1, IdleStep DEF Submit
  <2>2. CASE ~ closed
    <3>1. /\ queue' = Append(queue, j) /\ UNCHANGED << holds, tries, at, live >>
          /\ fate[j] = "new" /\ fate' = [fate EXCEPT ![j] = "accepted"]
      BY <1>1, <2>2 DEF Submit
    <3>2. /\ Len(queue') = Len(queue) + 1 /\ queue'[Len(queue) + 1] = j /\ Len(queue) \in Nat
          /\ \A i \in 1..Len(queue) : queue'[i] = queue[i]
      BY <1>0, <3>1 DEF TypeOK
    <3>3. ~ Queued(j) /\ ~ Held(j) /\ tries[j] = 0
      BY <1>0, <3>1 DEF PlaceInv, TryInv
    <3>4. \A k \in Jobs : (Queued(k)' <=> Queued(k) \/ k = j) /\ (Held(k)' <=> Held(k))
      BY <3>1, <3>2 DEF Queued, Held
    <3>5. fate'[j] = "accepted" /\ \A k \in Jobs : k # j => fate'[k] = fate[k]
      BY <1>0, <3>1 DEF TypeOK
    <3>6. PlaceInv'
      <4>1. \A i, k \in 1..Len(queue') : queue'[i] = queue'[k] => i = k
        BY <1>0, <3>2, <3>3 DEF PlaceInv, Queued
      <4>2. \A i \in 1..Len(queue'), w \in Workers : holds'[w] # queue'[i]
        BY <1>0, <3>1, <3>2, <3>3 DEF PlaceInv, Held
      <4>3. \A k \in Jobs : fate'[k] = "accepted" <=> Queued(k)' \/ Held(k)'
        BY <1>0, <3>4, <3>5 DEF PlaceInv
      <4> QED BY <1>0, <3>1, <4>1, <4>2, <4>3 DEF PlaceInv
    <3>7. TryInv'
      BY <1>0, <3>1, <3>3, <3>4, <3>5 DEF TryInv
    <3>8. GivenUpForAReason'
      BY <3>1, <3>5 DEF IInv, GivenUpForAReason
    <3> QED BY <3>6, <3>7, <3>8
  <2> QED BY <2>1, <2>2
<1>2. ASSUME NEW w \in Workers, Take(w) PROVE PlaceInv' /\ TryInv' /\ GivenUpForAReason'
  <2>0. PICK j \in Jobs : j = Head(queue)
    BY <1>0, <1>2 DEF Take, TypeOK
  <2>1. /\ at[w] = "select" /\ queue # << >> /\ queue' = Tail(queue)
        /\ holds' = [holds EXCEPT ![w] = j] /\ at' = [at EXCEPT ![w] = "attempt"]
        /\ UNCHANGED << tries, fate, live >>
    BY <1>2, <2>0 DEF Take
  <2>2. /\ Len(queue) \in Nat \ {0} /\ Len(queue') = Len(queue) - 1 /\ j = queue[1]
        /\ \A i \in 1..Len(queue') : queue'[i] = queue[i + 1]
    BY <1>0, <2>0, <2>1 DEF TypeOK
  <2>3. holds[w] = None
    BY <1>0, <2>1 DEF PlaceInv
  <2>4. /\ holds'[w] = j /\ \A v \in Workers : v # w => holds'[v] = holds[v]
        /\ at'[w] = "attempt" /\ \A v \in Workers : v # w => at'[v] = at[v]
    BY <1>0, <2>1 DEF TypeOK
  <2>5. Queued(j) /\ ~ Held(j) /\ tries[j] = 0
    BY <1>0, <2>2 DEF PlaceInv, TryInv, Queued, Held
  <2>6. \A i \in 1..Len(queue') : i + 1 \in 1..Len(queue) /\ queue'[i] # j
    BY <1>0, <2>2 DEF PlaceInv
  <2>7. \A k \in Jobs : k # j => (Queued(k)' <=> Queued(k)) /\ (Held(k)' <=> Held(k))
    <3> SUFFICES ASSUME NEW k \in Jobs, k # j
                 PROVE  (Queued(k)' <=> Queued(k)) /\ (Held(k)' <=> Held(k))
      OBVIOUS
    <3>1. Queued(k)' => Queued(k)
      BY <2>2, <2>6 DEF Queued
    <3>2. ASSUME NEW i \in 1..Len(queue), queue[i] = k PROVE Queued(k)'
      <4>1. i # 1 /\ i - 1 \in 1..Len(queue')
        BY <2>2, <3>2
      <4>2. queue'[i - 1] = k
        BY <2>2, <3>2, <4>1
      <4> QED BY <4>1, <4>2 DEF Queued
    <3>3. Held(k)' <=> Held(k)
      BY <2>3, <2>4 DEF Held
    <3> QED BY <3>1, <3>2, <3>3 DEF Queued
  <2>8. ~ Queued(j)' /\ Held(j)'
    BY <2>4, <2>6 DEF Queued, Held
  <2>9. PlaceInv'
    <3>1. \A i, k \in 1..Len(queue') : queue'[i] = queue'[k] => i = k
      BY <1>0, <2>2, <2>6 DEF PlaceInv
    <3>2. \A i \in 1..Len(queue'), v \in Workers : holds'[v] # queue'[i]
      BY <1>0, <2>2, <2>4, <2>6 DEF PlaceInv
    <3>3. \A v, u \in Workers : holds'[v] # None /\ holds'[v] = holds'[u] => v = u
      BY <1>0, <2>4, <2>5 DEF PlaceInv, Held
    <3>4. \A v \in Workers : holds'[v] # None <=> at'[v] \in {"attempt", "wait"}
      BY <1>0, <2>2, <2>4 DEF PlaceInv
    <3>5. \A k \in Jobs : fate'[k] = "accepted" <=> Queued(k)' \/ Held(k)'
      BY <1>0, <2>1, <2>2, <2>5, <2>7, <2>8 DEF PlaceInv
    <3> QED BY <3>1, <3>2, <3>3, <3>4, <3>5 DEF PlaceInv
  <2>10. TryInv'
    BY <1>0, <2>1, <2>2, <2>4, <2>5, <2>7, <2>8 DEF TryInv, PlaceInv
  <2>11. GivenUpForAReason'
    BY <1>a, <2>1, <2>4 DEF IInv, GivenUpForAReason
  <2> QED BY <2>9, <2>10, <2>11
<1>3. ASSUME NEW w \in Workers, Attempt(w) PROVE PlaceInv' /\ TryInv' /\ GivenUpForAReason'
  <2>1. /\ at[w] = "attempt" /\ UNCHANGED << queue, live >>
        /\ tries' = [tries EXCEPT ![holds[w]] = @ + 1]
    BY <1>3 DEF Attempt
  <2>2. /\ holds[w] \in Jobs /\ tries[holds[w]] < MaxAttempts
        /\ \A v \in Workers : v # w => holds[v] # holds[w]
        /\ fate[holds[w]] = "accepted" /\ ~ Queued(holds[w])
    BY <1>0, <2>1, Holder DEF TryInv
  <2>3. tries' \in [Jobs -> 0..MaxAttempts] /\ \A j \in Jobs : j # holds[w] => tries'[j] = tries[j]
    BY <1>0, <2>1, <2>2 DEF TypeOK
  <2>4. CASE Settle(w, "succeeded")
    BY <1>a, <2>1, <2>3, <2>4, SettleStep DEF Settled
  <2>5. CASE at' = [at EXCEPT ![w] = "wait"] /\ UNCHANGED << holds, fate >>
    <3>1. at'[w] = "wait" /\ \A v \in Workers : v # w => at'[v] = at[v]
      BY <1>0, <2>5 DEF TypeOK
    <3>2. PlaceInv'
      BY <1>0, <2>1, <2>5, <3>1 DEF PlaceInv, Queued, Held
    <3>3. TryInv'
      <4>1. \A j \in Jobs : fate'[j] = "new" \/ Queued(j)' => tries'[j] = 0
        BY <1>0, <2>1, <2>2, <2>3, <2>5 DEF TryInv, Queued
      <4>2. \A v \in Workers : at'[v] = "attempt" => tries'[holds'[v]] < MaxAttempts
        BY <1>0, <2>2, <2>3, <2>5, <3>1, Holder DEF TryInv
      <4> QED BY <4>1, <4>2 DEF TryInv
    <3>4. GivenUpForAReason'
      BY <1>a, <2>2, <2>3, <2>5, QueueAssumption DEF IInv, GivenUpForAReason
    <3> QED BY <3>2, <3>3, <3>4
  <2> QED BY <1>3, <2>4, <2>5 DEF Attempt
<1>4. ASSUME NEW w \in Workers, DelayEnds(w) PROVE PlaceInv' /\ TryInv' /\ GivenUpForAReason'
  <2>1. at[w] = "wait" /\ UNCHANGED << queue, live, tries >>
    BY <1>4 DEF DelayEnds
  <2>2. holds[w] \in Jobs /\ tries \in [Jobs -> 0..MaxAttempts]
    BY <1>0, <2>1, Holder DEF TypeOK
  <2>3. CASE /\ tries[holds[w]] < MaxAttempts
             /\ at' = [at EXCEPT ![w] = "attempt"] /\ UNCHANGED << holds, fate >>
    <3>1. at'[w] = "attempt" /\ \A v \in Workers : v # w => at'[v] = at[v]
      BY <1>0, <2>3 DEF TypeOK
    <3>2. PlaceInv'
      BY <1>0, <2>1, <2>3, <3>1 DEF PlaceInv, Queued, Held
    <3>3. TryInv'
      BY <1>0, <2>1, <2>3, <3>1 DEF TryInv, Queued
    <3>4. GivenUpForAReason'
      BY <1>a, <2>1, <2>3 DEF IInv, GivenUpForAReason
    <3> QED BY <3>2, <3>3, <3>4
  <2>4. CASE ~ (tries[holds[w]] < MaxAttempts) /\ Settle(w, "exhausted")
    <3>1. tries'[holds[w]] = MaxAttempts
      BY <2>1, <2>2, <2>4
    <3> QED BY <1>a, <2>1, <2>2, <2>4, <3>1, SettleStep DEF Settled
  <2> QED BY <1>4, <2>3, <2>4 DEF DelayEnds
<1>5. ASSUME NEW w \in Workers, DelayCancelled(w) PROVE PlaceInv' /\ TryInv' /\ GivenUpForAReason'
  <2>1. /\ at[w] = "wait" /\ UNCHANGED << queue, live, tries >> /\ ~ live[w]
        /\ Settle(w, "abandoned")
    BY <1>5 DEF DelayCancelled
  <2> QED BY <1>0, <1>a, <2>1, SettleStep DEF Settled, TypeOK
<1>6. ASSUME NEW w \in Workers, Leave(w) \/ RegistryStart(w) \/ QueueStart
      PROVE  PlaceInv' /\ TryInv' /\ GivenUpForAReason'
  <2>1. /\ UNCHANGED << queue, holds, tries, fate >>
        /\ \A v \in Workers : \/ at'[v] = at[v]
                              \/ at[v] \in {"select", "unborn"} /\ at'[v] \in {"done", "select"}
    BY <1>0, <1>6 DEF Leave, Depart, RegistryStart, QueueStart, Spawn, TypeOK
  <2> QED BY <2>1, IdleStep
<1>7. CASE StopCloses \/ StopGoesOn \/ RegistryStop \/ CancelParent \/ UNCHANGED vars
  <2>1. UNCHANGED << queue, holds, tries, fate, at >>
    BY <1>7 DEF StopCloses, StopGoesOn, StopWaits, DoneWakes, StopReturns,
                RegistryStop, CancelParent, vars
  <2> QED BY <2>1, IdleStep
<1> QED BY <1>1, <1>2, <1>3, <1>4, <1>5, <1>6, <1>7 DEF Next, Work

LEMMA Invariant == Spec => []IInv
  BY InitIInv, Step, PTL DEF Spec

\* No job is run more often than the queue allows, nor the channel overfilled.
THEOREM TypeCorrect == Spec => []TypeOK
<1>1. IInv => TypeOK
  BY DEF IInv
<1> QED BY Invariant, <1>1, PTL

\* Of the workers the Registry started, it controls the one that is not
\* cancelled.
THEOREM RegistryControls == Spec => []OneLiveWorker
<1>1. IInv => OneLiveWorker
  BY DEF IInv
<1> QED BY Invariant, <1>1, PTL

\* No job is given up before its last attempt but by a cancelled worker.
THEOREM JobsGivenUpForAReason == Spec => []GivenUpForAReason
<1>1. IInv => GivenUpForAReason
  BY DEF IInv
<1> QED BY Invariant, <1>1, PTL

\* An accepted job is in one place, any other in none.
THEOREM JobsHaveOnePlace == Spec => []OnePlace
<1>1. IInv => OnePlace
  <2> SUFFICES ASSUME IInv, NEW j \in Jobs
               PROVE  Cardinality({i \in 1..Len(queue) : queue[i] = j})
                        + Cardinality({w \in Workers : holds[w] = j})
                        = IF fate[j] = "accepted" THEN 1 ELSE 0
    BY DEF OnePlace
  <2> DEFINE Q == {i \in 1..Len(queue) : queue[i] = j}
             H == {w \in Workers : holds[w] = j}
  <2>1. j # None
    BY QueueAssumption
  <2>2. IF Queued(j) THEN Cardinality(Q) = 1 ELSE Cardinality(Q) = 0
    <3>1. CASE Queued(j)
      <4>1. PICK i \in 1..Len(queue) : queue[i] = j
        BY <3>1 DEF Queued
      <4>2. Q = {i}
        BY <4>1 DEF IInv, PlaceInv
      <4> QED BY <3>1, <4>2, FS_Singleton
    <3>2. CASE ~ Queued(j)
      <4>1. Q = {}
        BY <3>2 DEF Queued
      <4> QED BY <3>2, <4>1, FS_EmptySet
    <3> QED BY <3>1, <3>2
  <2>3. IF Held(j) THEN Cardinality(H) = 1 ELSE Cardinality(H) = 0
    <3>1. CASE Held(j)
      <4>1. PICK w \in Workers : holds[w] = j
        BY <3>1 DEF Held
      <4>2. H = {w}
        BY <2>1, <4>1 DEF IInv, PlaceInv
      <4> QED BY <3>1, <4>2, FS_Singleton
    <3>2. CASE ~ Held(j)
      <4>1. H = {}
        BY <3>2 DEF Held
      <4> QED BY <3>2, <4>1, FS_EmptySet
    <3> QED BY <3>1, <3>2
  <2>4. ~ (Queued(j) /\ Held(j))
    BY DEF IInv, PlaceInv, Queued, Held
  <2>5. fate[j] = "accepted" <=> Queued(j) \/ Held(j)
    BY DEF IInv, PlaceInv
  <2> QED BY <2>2, <2>3, <2>4, <2>5
<1> QED BY Invariant, <1>1, PTL

-----------------------------------------------------------------------------
(* Stop drains.  A worker that was never cancelled leaves its loop only    *)
(* when the channel is closed and empty, and then it stays so.             *)

DrainInv == \A w \in Workers : at[w] = "done" /\ live[w] => closed /\ queue = << >>

LEMMA DrainStep == TypeOK /\ DrainInv /\ [Next]_vars => DrainInv'
<1> SUFFICES ASSUME TypeOK, DrainInv, [Next]_vars PROVE DrainInv'
  OBVIOUS
<1>1. ASSUME NEW j \in Jobs, Submit(j) PROVE DrainInv'
  <2>1. UNCHANGED << at, live, closed >> /\ (closed => queue' = queue)
    BY <1>1 DEF Submit
  <2> QED BY <2>1 DEF DrainInv
<1>2. ASSUME NEW w \in Workers, Take(w) PROVE DrainInv'
  <2>1. /\ queue # << >> /\ UNCHANGED << live, closed >>
        /\ at'[w] = "attempt" /\ \A v \in Workers : v # w => at'[v] = at[v]
    BY <1>2 DEF Take, TypeOK
  <2> QED BY <2>1 DEF DrainInv
<1>3. ASSUME NEW w \in Workers, Leave(w) PROVE DrainInv'
  <2>1. /\ ~ live[w] \/ (closed /\ queue = << >>)
        /\ UNCHANGED << queue, live, closed >> /\ \A v \in Workers : v # w => at'[v] = at[v]
    BY <1>3 DEF Leave, Depart, TypeOK
  <2> QED BY <2>1 DEF DrainInv
<1>4. ASSUME NEW w \in Workers, Attempt(w) \/ DelayEnds(w) \/ DelayCancelled(w) PROVE DrainInv'
  <2>1. /\ at'[w] # "done" /\ \A v \in Workers : v # w => at'[v] = at[v]
        /\ UNCHANGED << queue, live, closed >>
    BY <1>4 DEF Attempt, DelayEnds, DelayCancelled, Settle, TypeOK
  <2> QED BY <2>1 DEF DrainInv
<1>5. ASSUME NEW w \in Workers, RegistryStart(w) \/ QueueStart PROVE DrainInv'
  <2>1. UNCHANGED << queue, closed >> /\ \E v \in Workers : Spawn(v)
    BY <1>5, QueueAssumption DEF RegistryStart, QueueStart
  <2>2. \A v \in Workers : at'[v] = "select" \/ (at'[v] = at[v] /\ live'[v] = live[v])
    BY <2>1 DEF Spawn, TypeOK
  <2> QED BY <2>1, <2>2 DEF DrainInv
<1>6. CASE RegistryStop \/ CancelParent
  <2>1. UNCHANGED << at, queue, closed >> /\ \A v \in Workers : live'[v] => live[v]
    BY <1>6 DEF RegistryStop, CancelParent, TypeOK
  <2> QED BY <2>1 DEF DrainInv
<1>7. CASE StopCloses \/ StopGoesOn \/ UNCHANGED vars
  <2>1. UNCHANGED << at, queue, live >> /\ (closed => closed')
    BY <1>7 DEF StopCloses, StopGoesOn, StopWaits, DoneWakes, StopReturns, vars
  <2> QED BY <2>1 DEF DrainInv
<1> QED BY <1>1, <1>2, <1>3, <1>4, <1>5, <1>6, <1>7, QueueAssumption DEF Next, Work

\* A Stop that returned, with one worker that was never cancelled, left no
\* accepted job behind.
THEOREM StopDrainsQueue == Spec => []StopDrains
<1>1. Init => DrainInv
  BY DEF Init, DrainInv
<1>2. IInv /\ DrainInv => StopDrains
  <2> SUFFICES ASSUME IInv, DrainInv, \A w \in Workers : at[w] \in {"unborn", "done"},
                      NEW v \in Workers, at[v] = "done", live[v], NEW j \in Jobs
               PROVE  fate[j] # "accepted"
    BY DEF StopDrains, AllGone
  <2>1. ~ Queued(j)
    BY DEF DrainInv, Queued
  <2>2. ~ Held(j)
    BY QueueAssumption DEF IInv, PlaceInv, Held
  <2> QED BY <2>1, <2>2 DEF IInv, PlaceInv
<1>3. IInv => TypeOK
  BY DEF IInv
<1> QED BY Invariant, <1>1, <1>2, <1>3, DrainStep, PTL DEF Spec

-----------------------------------------------------------------------------
(* The queue implements the board of jobs.                                 *)

\* A worker delays only after a run.
WaitInv == \A w \in Workers : at[w] = "wait" => tries[holds[w]] > 0

LEMMA WaitStep == IInv /\ WaitInv /\ [Next]_vars => WaitInv'
<1> SUFFICES ASSUME IInv, WaitInv, [Next]_vars PROVE WaitInv'
  OBVIOUS
<1>0. TypeOK /\ PlaceInv
  BY DEF IInv
<1>1. ASSUME UNCHANGED << holds, tries >>, \A w \in Workers : at'[w] = "wait" => at[w] = "wait"
      PROVE  WaitInv'
  BY <1>1 DEF WaitInv
<1>2. ASSUME NEW w \in Workers, Take(w) \/ Leave(w) \/ RegistryStart(w) \/ QueueStart PROVE WaitInv'
  <2>1. /\ tries' = tries
        /\ \A v \in Workers : at'[v] = "wait" => at[v] = "wait" /\ holds'[v] = holds[v]
    BY <1>0, <1>2 DEF Take, Leave, Depart, RegistryStart, QueueStart, Spawn, TypeOK
  <2> QED BY <2>1 DEF WaitInv
<1>3. ASSUME NEW w \in Workers, Attempt(w) PROVE WaitInv'
  <2>1. /\ holds[w] \in Jobs /\ tries[holds[w]] \in Nat
        /\ \A v \in Workers : v # w => holds[v] # holds[w]
    BY <1>0, <1>3, Holder DEF Attempt, TypeOK
  <2>2. /\ tries'[holds[w]] = tries[holds[w]] + 1
        /\ \A j \in Jobs : j # holds[w] => tries'[j] = tries[j]
    BY <1>0, <1>3, <2>1 DEF Attempt, TypeOK
  <2>3. SUFFICES ASSUME NEW v \in Workers, at'[v] = "wait" PROVE tries'[holds'[v]] > 0
    BY DEF WaitInv
  <2>4. CASE v = w
    BY <1>0, <1>3, <2>1, <2>2, <2>3, <2>4 DEF Attempt, Settle, TypeOK
  <2>5. CASE v # w
    <3>1. at[v] = "wait" /\ holds'[v] = holds[v]
      BY <1>0, <1>3, <2>3, <2>5 DEF Attempt, Settle, TypeOK
    <3>2. holds[v] \in Jobs /\ holds[v] # holds[w]
      BY <2>1, <2>5, <3>1, Holder
    <3> QED BY <2>2, <3>1, <3>2 DEF WaitInv
  <2> QED BY <2>4, <2>5
<1>4. ASSUME NEW w \in Workers, DelayEnds(w) \/ DelayCancelled(w) PROVE WaitInv'
  <2>1. /\ tries' = tries
        /\ \A v \in Workers : at'[v] = "wait" => at[v] = "wait" /\ holds'[v] = holds[v]
    BY <1>0, <1>4 DEF DelayEnds, DelayCancelled, Settle, TypeOK
  <2> QED BY <2>1 DEF WaitInv
<1>5. ASSUME NEW j \in Jobs, Submit(j) PROVE WaitInv'
  BY <1>1, <1>5 DEF Submit
<1>6. CASE StopCloses \/ StopGoesOn \/ RegistryStop \/ CancelParent \/ UNCHANGED vars
  BY <1>1, <1>6 DEF StopCloses, StopGoesOn, StopWaits, DoneWakes, StopReturns,
                    RegistryStop, CancelParent, vars
<1> QED BY <1>2, <1>3, <1>4, <1>5, <1>6, QueueAssumption DEF Next, Work

\* The mapping.
Stages == [j \in Jobs |-> Stage(j)]

LEMMA StageIs ==
  ASSUME NEW j \in Jobs
  PROVE  /\ fate[j] # "accepted" => Stage(j) = fate[j]
         /\ fate[j] = "accepted" /\ Held(j) => Stage(j) = "running"
         /\ fate[j] = "accepted" /\ ~ Held(j) => Stage(j) = "waiting"
  BY Zenon DEF Stage, Held

\* A step that leaves the other jobs alone moves one.
LEMMA OneMoves ==
  ASSUME NEW j \in Jobs, NEW from, NEW to, Stage(j) = from, Stage(j)' = to,
         \A k \in Jobs : k # j => fate'[k] = fate[k] /\ (Held(k)' <=> Held(k))
  PROVE  Board!Move(j, from, to)
<1>1. \A k \in Jobs : k # j => Stage(k)' = Stage(k)
  <2> SUFFICES ASSUME NEW k \in Jobs, k # j PROVE Stage(k)' = Stage(k)
    OBVIOUS
  <2>1. /\ fate'[k] # "accepted" => Stage(k)' = fate'[k]
        /\ fate'[k] = "accepted" /\ Held(k)' => Stage(k)' = "running"
        /\ fate'[k] = "accepted" /\ ~ Held(k)' => Stage(k)' = "waiting"
    BY Zenon DEF Stage, Held
  <2> QED BY <2>1, StageIs
<1>2. Stages' = [Stages EXCEPT ![j] = to]
  BY <1>1 DEF Stages
<1>3. Stages[j] = from
  BY DEF Stages
<1> QED BY <1>2, <1>3 DEF Board!Move, Stages

LEMMA StageNext ==
  ASSUME NEW j \in Jobs
  PROVE  /\ fate'[j] # "accepted" => Stage(j)' = fate'[j]
         /\ fate'[j] = "accepted" /\ Held(j)' => Stage(j)' = "running"
         /\ fate'[j] = "accepted" /\ ~ Held(j)' => Stage(j)' = "waiting"
  BY Zenon DEF Stage, Held

\* A step that moves no job and runs none is none of the board's.
LEMMA BoardIdle ==
  ASSUME UNCHANGED << queue, holds, tries, fate >>
  PROVE  UNCHANGED Board!board
  BY DEF Board!board, Stage

\* The worker's own job settles.
LEMMA SettleMoves ==
  ASSUME IInv, NEW w \in Workers, at[w] \in {"attempt", "wait"}, NEW f \in Settled, Settle(w, f)
  PROVE  Board!Move(holds[w], "running", f)
<1>0. PICK j \in Jobs : j = holds[w]
  BY Holder
<1>1. fate[j] = "accepted" /\ Held(j)
  BY <1>0, Holder DEF Held
<1>2. /\ fate'[j] = f /\ f # "accepted"
      /\ \A k \in Jobs : k # j => fate'[k] = fate[k] /\ (Held(k)' <=> Held(k))
  BY <1>0, <1>1, QueueAssumption DEF Settle, Settled, IInv, TypeOK, Held
<1>3. Stage(j) = "running"
  BY <1>1, StageIs
<1>4. Stage(j)' = f
  BY <1>2, StageNext
<1>5. Board!Move(j, "running", f)
  BY <1>2, <1>3, <1>4, OneMoves
<1> QED BY <1>0, <1>5

LEMMA SubmitAccepts ==
  ASSUME IInv, NEW j \in Jobs, Submit(j)
  PROVE  [Board!Next]_(Board!board)
<1>1. CASE closed
  BY <1>1, BoardIdle DEF Submit
<1>2. CASE ~ closed
  <2>1. /\ fate[j] = "new" /\ fate' = [fate EXCEPT ![j] = "accepted"]
        /\ queue' = Append(queue, j) /\ UNCHANGED << holds, tries >>
    BY <1>2 DEF Submit
  <2>2. ~ Held(j) /\ \A k \in Jobs : Held(k)' <=> Held(k)
    BY <2>1 DEF IInv, PlaceInv, Held
  <2>3. fate'[j] = "accepted" /\ \A k \in Jobs : k # j => fate'[k] = fate[k]
    BY <2>1 DEF IInv, TypeOK
  <2>4. Stage(j) = "new" /\ Stage(j)' = "waiting"
    BY <2>1, <2>2, <2>3, StageIs, StageNext
  <2>5. Board!Move(j, "new", "waiting")
    BY <2>2, <2>3, <2>4, OneMoves
  <2> QED BY <2>1, <2>5 DEF Board!Next, Board!Accept
<1> QED BY <1>1, <1>2

LEMMA TakeBegins ==
  ASSUME IInv, NEW w \in Workers, Take(w)
  PROVE  [Board!Next]_(Board!board)
<1>0. TypeOK /\ PlaceInv
  BY DEF IInv
<1>1. PICK j \in Jobs : j = Head(queue)
  BY <1>0 DEF Take, TypeOK
<1>2. /\ queue # << >> /\ queue' = Tail(queue) /\ at[w] = "select"
      /\ holds' = [holds EXCEPT ![w] = j] /\ UNCHANGED << fate, tries >>
  BY <1>1 DEF Take
<1>3. holds[w] = None /\ j # None
  BY <1>0, <1>2, QueueAssumption DEF PlaceInv
<1>4. Len(queue) \in Nat \ {0} /\ j = queue[1]
  BY <1>0, <1>1, <1>2 DEF TypeOK
<1>5. Queued(j) /\ ~ Held(j)
  BY <1>0, <1>4 DEF PlaceInv, Queued, Held
<1>6. fate[j] = "accepted"
  BY <1>0, <1>5 DEF PlaceInv
<1>7. Held(j)' /\ \A k \in Jobs : k # j => (Held(k)' <=> Held(k))
  BY <1>0, <1>2, <1>3, QueueAssumption DEF TypeOK, Held
<1>8. Stage(j) = "waiting" /\ Stage(j)' = "running"
  BY <1>2, <1>5, <1>6, <1>7, StageIs, StageNext
<1>9. Board!Move(j, "waiting", "running")
  BY <1>2, <1>7, <1>8, OneMoves
<1> QED BY <1>1, <1>2, <1>9 DEF Board!Next, Board!Begin

LEMMA AttemptRuns ==
  ASSUME IInv, NEW w \in Workers, Attempt(w)
  PROVE  [Board!Next]_(Board!board)
<1>0. at[w] = "attempt"
  BY DEF Attempt
<1>1. PICK j \in Jobs : j = holds[w]
  BY <1>0, Holder
<1>2. /\ fate[j] = "accepted" /\ Held(j) /\ tries[j] < MaxAttempts
      /\ UNCHANGED queue /\ tries' = [tries EXCEPT ![j] = @ + 1]
  BY <1>0, <1>1, Holder DEF IInv, TryInv, Held, Attempt
<1>3. CASE Settle(w, "succeeded")
  <2>1. Board!Move(j, "running", "succeeded")
    BY <1>0, <1>1, <1>3, SettleMoves DEF Settled
  <2> QED BY <1>2, <2>1 DEF Board!Next, Board!Run
<1>4. CASE UNCHANGED << holds, fate >>
  <2>1. \A k \in Jobs : fate'[k] = fate[k] /\ (Held(k)' <=> Held(k))
    BY <1>4 DEF Held
  <2>2. Stage(j) = "running"
    BY <1>2, StageIs
  <2>3. Stage(j)' = "running"
    BY <1>2, <2>1, StageNext
  <2>4. Board!Move(j, "running", "running")
    BY <2>1, <2>2, <2>3, OneMoves
  <2> QED BY <1>2, <2>4 DEF Board!Next, Board!Run
<1>5. Settle(w, "succeeded") \/ UNCHANGED << holds, fate >>
  BY DEF Attempt
<1> QED BY <1>3, <1>4, <1>5

LEMMA DelayGivesUp ==
  ASSUME IInv, WaitInv, NEW w \in Workers, DelayEnds(w) \/ DelayCancelled(w)
  PROVE  [Board!Next]_(Board!board)
<1> DEFINE j == holds[w]
<1>1. at[w] = "wait" /\ UNCHANGED << queue, tries >>
  BY DEF DelayEnds, DelayCancelled
<1>2. j \in Jobs /\ tries[j] > 0 /\ tries[j] \in 0..MaxAttempts
  BY <1>1, Holder DEF WaitInv, IInv, TypeOK
<1>3. CASE UNCHANGED << holds, fate >>
  BY <1>1, <1>3, BoardIdle
<1>4. CASE ~ (tries[j] < MaxAttempts) /\ Settle(w, "exhausted")
  <2>1. Board!Move(j, "running", "exhausted")
    BY <1>1, <1>4, SettleMoves DEF Settled
  <2>2. tries[j] = MaxAttempts
    BY <1>2, <1>4, QueueAssumption
  <2> QED BY <1>1, <1>2, <2>1, <2>2 DEF Board!Next, Board!GiveUp
<1>5. CASE Settle(w, "abandoned")
  <2>1. Board!Move(j, "running", "abandoned")
    BY <1>1, <1>5, SettleMoves DEF Settled
  <2> QED BY <1>1, <1>2, <2>1 DEF Board!Next, Board!GiveUp
<1> QED BY <1>3, <1>4, <1>5 DEF DelayEnds, DelayCancelled

LEMMA BoardStep == IInv /\ WaitInv /\ [Next]_vars => [Board!Next]_(Board!board)
<1> SUFFICES ASSUME IInv, WaitInv, [Next]_vars PROVE [Board!Next]_(Board!board)
  OBVIOUS
<1>1. ASSUME NEW w \in Workers, Leave(w) \/ RegistryStart(w) \/ QueueStart
      PROVE  [Board!Next]_(Board!board)
  BY <1>1, BoardIdle DEF Leave, RegistryStart, QueueStart
<1>2. CASE StopCloses \/ StopGoesOn \/ RegistryStop \/ CancelParent \/ UNCHANGED vars
  BY <1>2, BoardIdle DEF StopCloses, StopGoesOn, StopWaits, DoneWakes, StopReturns,
                         RegistryStop, CancelParent, vars
<1> QED
  BY <1>1, <1>2, SubmitAccepts, TakeBegins, AttemptRuns, DelayGivesUp, QueueAssumption DEF Next, Work

\* However workers are started, called off and started again, every job is
\* begun in its turn and lives one life.
THEOREM QueueImplementsBoard == Spec => ImplementsBoard
<1>1. Init => Board!Init
  BY DEF Init, Board!Init, Stage
<1>2. Init => WaitInv
  BY DEF Init, WaitInv
<1> QED BY <1>1, <1>2, Invariant, WaitStep, BoardStep, PTL DEF Spec, ImplementsBoard, Board!Spec

=============================================================================
