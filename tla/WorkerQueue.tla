----------------------------- MODULE WorkerQueue -----------------------------
(***************************************************************************)
(* The background jobs: internal/worker's Queue, a buffered channel with   *)
(* goroutines that take jobs from it and retry them, and its Registry,     *)
(* which starts one worker at a time and stops it by its context.  Workers *)
(* are also started past the Registry, by Queue.Start itself.              *)
(*                                                                         *)
(* One step is one channel operation, one run of a job, one wake-up of the *)
(* retry delay, one atomic operation of the WaitGroup Stop waits on, or    *)
(* one method of the Registry (they hold its mutex).                       *)
(* A panic ends the process, so every step asks for none.                  *)
(***************************************************************************)
EXTENDS Integers, Sequences, FiniteSets

CONSTANTS
  Jobs,         \* the jobs callers submit
  Size,         \* the capacity of the channel
  MaxAttempts,  \* how often a job is tried
  Workers,      \* the goroutines Queue.Start may start
  Direct,       \* the one Run starts itself, without the Registry
  None          \* no job, no worker

\* New raises a size or a number of attempts below one to one.
ASSUME QueueAssumption ==
  /\ Size \in Nat \ {0} /\ MaxAttempts \in Nat \ {0}
  /\ None \notin Jobs /\ None \notin Workers
  /\ Direct \in Workers

VARIABLES
  queue,    \* the jobs in the channel
  closed,   \* the channel is closed
  at,       \* where each worker's goroutine is
  holds,    \* the job each worker runs
  live,     \* each worker's context is not cancelled
  parent,   \* nor is the context theirs derive from
  owner,    \* the Registry's worker: the one its cancel function cancels
  running,  \* the Registry's flag
  stop,     \* how far Queue.Stop is
  tries,    \* how often each job was run
  fate,     \* what became of each job
  panicked  \* the process died of a panic

vars == << queue, closed, at, holds, live, parent, owner, running, stop, tries, fate, panicked >>

Fates == {"new", "accepted", "succeeded", "exhausted", "abandoned"}
Settled == {"succeeded", "exhausted", "abandoned"}

TypeOK ==
  /\ queue \in Seq(Jobs) /\ Len(queue) <= Size
  /\ closed \in BOOLEAN
  /\ at \in [Workers -> {"unborn", "select", "attempt", "wait", "done"}]
  /\ holds \in [Workers -> Jobs \cup {None}]
  /\ live \in [Workers -> BOOLEAN]
  /\ parent \in BOOLEAN
  /\ owner \in Workers \cup {None}
  /\ running \in BOOLEAN
  /\ stop \in {"no", "closed", "waiting", "zero", "woken", "returned"}
  /\ tries \in [Jobs -> 0..MaxAttempts]
  /\ fate \in [Jobs -> Fates]
  /\ panicked \in BOOLEAN

Init ==
  /\ queue = << >>
  /\ closed = FALSE
  /\ at = [w \in Workers |-> "unborn"]
  /\ holds = [w \in Workers |-> None]
  /\ live = [w \in Workers |-> FALSE]
  /\ parent = TRUE
  /\ owner = None
  /\ running = FALSE
  /\ stop = "no"
  /\ tries = [j \in Jobs |-> 0]
  /\ fate = [j \in Jobs |-> "new"]
  /\ panicked = FALSE

-----------------------------------------------------------------------------
(* Callers.                                                                *)

\* Submit, if it does not find the channel full.  A send on a closed channel
\* panics, whether or not the select has a default.
Submit(j) ==
  /\ ~ panicked
  /\ fate[j] = "new"
  /\ \/ /\ ~ closed
        /\ Len(queue) < Size
        /\ queue' = Append(queue, j)
        /\ fate' = [fate EXCEPT ![j] = "accepted"]
        /\ UNCHANGED panicked
     \/ /\ closed
        /\ panicked' = TRUE
        /\ UNCHANGED << queue, fate >>
  /\ UNCHANGED << closed, at, holds, live, parent, owner, running, stop, tries >>

-----------------------------------------------------------------------------
(* Queue.Stop and the WaitGroup, whose counter is the number of workers    *)
(* that were started and have not left.                                    *)

AllGone == \A w \in Workers : at[w] \in {"unborn", "done"}

\* Stop closes the channel, which panics if it is closed.
StopCloses ==
  /\ ~ panicked
  /\ closed' = TRUE
  /\ IF closed THEN panicked' = TRUE /\ UNCHANGED stop
               ELSE stop' = "closed" /\ UNCHANGED panicked
  /\ UNCHANGED << queue, at, holds, live, parent, owner, running, tries, fate >>

\* Wait returns at once if the counter is zero, and sleeps otherwise.
StopWaits ==
  /\ ~ panicked
  /\ stop = "closed"
  /\ stop' = IF AllGone THEN "returned" ELSE "waiting"
  /\ UNCHANGED << queue, closed, at, holds, live, parent, owner, running, tries, fate, panicked >>

\* The Done that made the counter zero takes the waiter off and wakes it.
DoneWakes ==
  /\ ~ panicked
  /\ stop = "zero"
  /\ stop' = "woken"
  /\ UNCHANGED << queue, closed, at, holds, live, parent, owner, running, tries, fate, panicked >>

\* Wait goes on, and panics if the counter is no longer zero: a worker was
\* started before Wait saw that the others had left.
StopReturns ==
  /\ ~ panicked
  /\ stop = "woken"
  /\ IF AllGone THEN stop' = "returned" /\ UNCHANGED panicked
                ELSE panicked' = TRUE /\ UNCHANGED stop
  /\ UNCHANGED << queue, closed, at, holds, live, parent, owner, running, tries, fate >>

-----------------------------------------------------------------------------
(* Starting workers.                                                       *)

\* Queue.Start's goroutine; its Add panics if it takes the counter from zero
\* while Wait still counts as waiting.
Spawn(w) ==
  /\ at[w] = "unborn"
  /\ IF stop = "zero"
       THEN panicked' = TRUE /\ UNCHANGED << at, live >>
       ELSE /\ at' = [at EXCEPT ![w] = "select"]
            /\ live' = [live EXCEPT ![w] = parent]
            /\ UNCHANGED panicked

\* Run's own call of Queue.Start, under the parent context; the Registry
\* neither knows of the worker nor can cancel it.
QueueStart ==
  /\ ~ panicked
  /\ Spawn(Direct)
  /\ UNCHANGED << queue, closed, holds, parent, owner, running, stop, tries, fate >>

\* Faulty variant: Start does not look whether it has started a worker.
RegistryStartAgain(w) ==
  /\ ~ panicked
  /\ Spawn(w)
  /\ owner' = w
  /\ running' = TRUE
  /\ UNCHANGED << queue, closed, holds, parent, stop, tries, fate >>

\* The Registry's Start: a worker under a context of its own, derived from
\* the parent.
RegistryStart(w) ==
  /\ ~ panicked
  /\ ~ running
  /\ Spawn(w)
  /\ owner' = w
  /\ running' = TRUE
  /\ UNCHANGED << queue, closed, holds, parent, stop, tries, fate >>

\* The Registry's Stop cancels its worker and does not wait for it.
RegistryStop ==
  /\ ~ panicked
  /\ running
  /\ live' = [live EXCEPT ![owner] = FALSE]
  /\ owner' = None
  /\ running' = FALSE
  /\ UNCHANGED << queue, closed, at, holds, parent, stop, tries, fate, panicked >>

\* The process is told to end: the parent context and all below it go.  The
\* Registry does not hear of it.
CancelParent ==
  /\ ~ panicked
  /\ parent
  /\ parent' = FALSE
  /\ live' = [w \in Workers |-> FALSE]
  /\ UNCHANGED << queue, closed, at, holds, owner, running, stop, tries, fate, panicked >>

-----------------------------------------------------------------------------
(* A worker.                                                               *)

\* Faulty variant: the job is read but stays in the channel.
TakeCopy(w) ==
  /\ ~ panicked
  /\ at[w] = "select"
  /\ queue # << >>
  /\ at' = [at EXCEPT ![w] = "attempt"]
  /\ holds' = [holds EXCEPT ![w] = Head(queue)]
  /\ UNCHANGED << queue, closed, live, parent, owner, running, stop, tries, fate, panicked >>

\* The select in Start's loop picks at random among what is ready: a job is
\* taken even when the context is cancelled.
Take(w) ==
  /\ ~ panicked
  /\ at[w] = "select"
  /\ queue # << >>
  /\ queue' = Tail(queue)
  /\ at' = [at EXCEPT ![w] = "attempt"]
  /\ holds' = [holds EXCEPT ![w] = Head(queue)]
  /\ UNCHANGED << closed, live, parent, owner, running, stop, tries, fate, panicked >>

\* The deferred Done: the last worker to go finds Stop waiting, or not.
Depart(w) ==
  /\ at' = [at EXCEPT ![w] = "done"]
  /\ stop' = IF stop = "waiting" /\ \A v \in Workers \ {w} : at[v] \in {"unborn", "done"}
               THEN "zero" ELSE stop

\* Faulty variants: the loop ends on the close, not on the last job; it does
\* not look whether the channel is closed.
LeaveEarly(w) ==
  /\ ~ panicked
  /\ at[w] = "select"
  /\ ~ live[w] \/ closed
  /\ Depart(w)
  /\ UNCHANGED << queue, closed, holds, live, parent, owner, running, tries, fate, panicked >>

LeaveCancelled(w) ==
  /\ ~ panicked
  /\ at[w] = "select"
  /\ ~ live[w]
  /\ Depart(w)
  /\ UNCHANGED << queue, closed, holds, live, parent, owner, running, tries, fate, panicked >>

\* The context is cancelled, or the channel is closed and empty.
Leave(w) ==
  /\ ~ panicked
  /\ at[w] = "select"
  /\ ~ live[w] \/ (closed /\ queue = << >>)
  /\ Depart(w)
  /\ UNCHANGED << queue, closed, holds, live, parent, owner, running, tries, fate, panicked >>

\* The worker is done with its job and goes back to the loop.
Settle(w, f) ==
  /\ fate' = [fate EXCEPT ![holds[w]] = f]
  /\ holds' = [holds EXCEPT ![w] = None]
  /\ at' = [at EXCEPT ![w] = "select"]

\* A run of the job, which returns nil or an error.
Attempt(w) ==
  /\ ~ panicked
  /\ at[w] = "attempt"
  /\ tries' = [tries EXCEPT ![holds[w]] = @ + 1]
  /\ \/ Settle(w, "succeeded")
     \/ /\ at' = [at EXCEPT ![w] = "wait"]
        /\ UNCHANGED << holds, fate >>
  /\ UNCHANGED << queue, closed, live, parent, owner, running, stop, panicked >>

\* Faulty variants: the retry loop runs once more than it may; it forgets
\* the job after the first delay.
DelayEndsLate(w) ==
  /\ ~ panicked
  /\ at[w] = "wait"
  /\ IF tries[holds[w]] <= MaxAttempts
       THEN at' = [at EXCEPT ![w] = "attempt"] /\ UNCHANGED << holds, fate >>
       ELSE Settle(w, "exhausted")
  /\ UNCHANGED << queue, closed, live, parent, owner, running, stop, tries, panicked >>

DelayForgets(w) ==
  /\ ~ panicked
  /\ at[w] = "wait"
  /\ at' = [at EXCEPT ![w] = "select"]
  /\ holds' = [holds EXCEPT ![w] = None]
  /\ UNCHANGED << queue, closed, live, parent, owner, running, stop, tries, fate, panicked >>

\* The delay after a failed run is over: the next run, or, after the last
\* one, the end of it; nothing is told of a job that never succeeded.
DelayEnds(w) ==
  /\ ~ panicked
  /\ at[w] = "wait"
  /\ IF tries[holds[w]] < MaxAttempts
       THEN at' = [at EXCEPT ![w] = "attempt"] /\ UNCHANGED << holds, fate >>
       ELSE Settle(w, "exhausted")
  /\ UNCHANGED << queue, closed, live, parent, owner, running, stop, tries, panicked >>

\* The context is cancelled during the delay: the job is given up.
DelayCancelled(w) ==
  /\ ~ panicked
  /\ at[w] = "wait"
  /\ ~ live[w]
  /\ Settle(w, "abandoned")
  /\ UNCHANGED << queue, closed, live, parent, owner, running, stop, tries, panicked >>

Work(w) == Take(w) \/ Leave(w) \/ Attempt(w) \/ DelayEnds(w) \/ DelayCancelled(w)

\* The rest of Stop, once it has closed the channel.
StopGoesOn == StopWaits \/ DoneWakes \/ StopReturns

Next ==
  \/ \E j \in Jobs : Submit(j)
  \/ StopCloses \/ StopGoesOn
  \/ QueueStart
  \/ \E w \in Workers \ {Direct} : RegistryStart(w)
  \/ \E w \in Workers : Work(w)
  \/ RegistryStop \/ CancelParent

Spec == Init /\ [][Next]_vars

\* A goroutine that can go on does; jobs return, and delays end.
FairSpec ==
  /\ Spec
  /\ \A w \in Workers : WF_vars(Work(w))
  /\ WF_vars(StopGoesOn)

-----------------------------------------------------------------------------
(* Properties.                                                             *)

\* An accepted job is in the channel once, or with one worker, and nowhere
\* else; a settled one is nowhere: no job runs twice at once, after a restart
\* of the Registry either, when the worker it cancelled may still be running.
OnePlace ==
  \A j \in Jobs :
    Cardinality({i \in 1..Len(queue) : queue[i] = j})
      + Cardinality({w \in Workers : holds[w] = j})
      = IF fate[j] = "accepted" THEN 1 ELSE 0

\* A job is given up only after its last attempt, or because a worker was
\* cancelled; and it is tried no more often than the queue allows.
GivenUpForAReason ==
  \A j \in Jobs :
    /\ tries[j] <= MaxAttempts
    /\ fate[j] = "exhausted" => tries[j] = MaxAttempts
    /\ fate[j] = "abandoned" => \E w \in Workers : at[w] # "unborn" /\ ~ live[w]

\* Of the workers the Registry started, however often, one at most is not
\* cancelled: the one it would cancel, and it says that it is running.
OneLiveWorker ==
  \A w \in Workers \ {Direct} : at[w] # "unborn" /\ live[w] => w = owner /\ running

\* Stop drains: once it has returned and no worker runs, also none that the
\* Registry started in the meantime, one worker that was never cancelled is
\* enough for no accepted job to be left in the channel.
StopDrains ==
  ( /\ stop = "returned"
    /\ AllGone
    /\ \E w \in Workers : at[w] = "done" /\ live[w] )
  => \A j \in Jobs : fate[j] # "accepted"

\* Stop does not wait for ever, whether or not workers are started while it
\* waits.
StopEnds == stop # "no" ~> (stop = "returned" \/ panicked)

\* A job accepted while a worker is at work is settled, unless workers are
\* cancelled or the process dies.
JobsSettle ==
  \A j \in Jobs :
    (fate[j] = "accepted" /\ \E w \in Workers : live[w] /\ at[w] # "done")
      ~> \/ fate[j] \in Settled
         \/ panicked
         \/ \E w \in Workers : at[w] # "unborn" /\ ~ live[w]

-----------------------------------------------------------------------------
(* The queue implements the board of jobs.                                 *)

Stage(j) ==
  CASE fate[j] # "accepted" -> fate[j]
    [] fate[j] = "accepted" /\ (\E w \in Workers : holds[w] = j) -> "running"
    [] fate[j] = "accepted" /\ ~ (\E w \in Workers : holds[w] = j) -> "waiting"

Board == INSTANCE JobBoard WITH
  line <- queue,
  stage <- [j \in Jobs |-> Stage(j)],
  runs <- tries

\* However workers are started, called off and started again while others
\* still run, every job is begun in its turn and lives its one life.
ImplementsBoard == Board!Spec

=============================================================================
