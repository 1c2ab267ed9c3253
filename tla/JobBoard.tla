------------------------------- MODULE JobBoard -------------------------------
(***************************************************************************)
(* What the worker queue promises of jobs, with no channel, goroutines,    *)
(* contexts or Registry: one line of jobs that wait, in the order they     *)
(* were accepted, and one life of each.  A job is begun once, run by one   *)
(* runner, not again after a success, and given up only after its last     *)
(* run, or between two runs when its runner is called off.                 *)
(***************************************************************************)
EXTENDS Integers, Sequences

CONSTANTS Jobs, MaxAttempts

VARIABLES
  line,   \* the jobs that wait
  stage,  \* how far each job is
  runs    \* how often each was run

board == << line, stage, runs >>

Init ==
  /\ line = << >>
  /\ stage = [j \in Jobs |-> "new"]
  /\ runs = [j \in Jobs |-> 0]

Move(j, from, to) == stage[j] = from /\ stage' = [stage EXCEPT ![j] = to]

Accept(j) ==
  /\ Move(j, "new", "waiting")
  /\ line' = Append(line, j)
  /\ UNCHANGED runs

Begin(j) ==
  /\ line # << >> /\ j = Head(line)
  /\ Move(j, "waiting", "running")
  /\ line' = Tail(line)
  /\ UNCHANGED runs

Run(j) ==
  /\ runs[j] < MaxAttempts
  /\ Move(j, "running", "succeeded") \/ Move(j, "running", "running")
  /\ runs' = [runs EXCEPT ![j] = @ + 1]
  /\ UNCHANGED line

GiveUp(j) ==
  /\ runs[j] > 0
  /\ \/ runs[j] = MaxAttempts /\ Move(j, "running", "exhausted")
     \/ Move(j, "running", "abandoned")
  /\ UNCHANGED << line, runs >>

Next == \E j \in Jobs : Accept(j) \/ Begin(j) \/ Run(j) \/ GiveUp(j)

Spec == Init /\ [][Next]_board

=============================================================================
