---------------------------- MODULE IdempotentKeys ----------------------------
(***************************************************************************)
(* What idempotency keys promise, with no mutex, retries or delays: a key  *)
(* is kept for the payload that succeeded under it first, in one step with *)
(* the effect and the answer, and from then on nothing is done under it in *)
(* this life of the process.  A try that fails may have had its effect all *)
(* the same, but not under a key that is kept.                             *)
(***************************************************************************)
CONSTANTS Calls, Keys, NoKey, Payloads, None

VARIABLES
  kept,    \* the payload each key is kept for
  asks,    \* what each caller asks, and the answer
  effects  \* what was ever done

keys == << kept, asks, effects >>

Idle == [step |-> "idle"]

Init ==
  /\ kept = [k \in Keys |-> None]
  /\ asks = [c \in Calls |-> Idle]
  /\ effects = {}

Ask(c, k, p) ==
  /\ asks[c] = Idle
  /\ asks' = [asks EXCEPT ![c] = [step |-> "asks", key |-> k, payload |-> p]]
  /\ UNCHANGED << kept, effects >>

Answer(c, a) ==
  /\ asks[c].step = "asks"
  /\ asks' = [asks EXCEPT ![c] = [step |-> a, key |-> asks[c].key, payload |-> asks[c].payload]]

Free(c) == asks[c].key = NoKey \/ kept[asks[c].key] = None

Effect(c) == effects' = effects \cup {[key |-> asks[c].key, payload |-> asks[c].payload]}

Do(c) ==
  /\ Answer(c, "nil")
  /\ Free(c)
  /\ Effect(c)
  /\ IF asks[c].key = NoKey THEN UNCHANGED kept
                            ELSE kept' = [kept EXCEPT ![asks[c].key] = asks[c].payload]

Slip(c) ==
  /\ Answer(c, "asks") \/ Answer(c, "error")
  /\ Free(c)
  /\ Effect(c)
  /\ UNCHANGED kept

Agree(c) ==
  /\ Answer(c, "nil")
  /\ asks[c].key # NoKey /\ kept[asks[c].key] = asks[c].payload
  /\ UNCHANGED << kept, effects >>

Refuse(c) ==
  /\ Answer(c, "error")
  /\ UNCHANGED << kept, effects >>

Leave(c) ==
  /\ asks[c].step \in {"nil", "error"}
  /\ asks' = [asks EXCEPT ![c] = Idle]
  /\ UNCHANGED << kept, effects >>

Restart ==
  /\ kept' = [k \in Keys |-> None]
  /\ asks' = [c \in Calls |-> Idle]
  /\ UNCHANGED effects

Next ==
  \/ \E c \in Calls :
       \/ \E k \in Keys \cup {NoKey}, p \in Payloads : Ask(c, k, p)
       \/ Do(c) \/ Slip(c) \/ Agree(c) \/ Refuse(c) \/ Leave(c)
  \/ Restart

Spec == Init /\ [][Next]_keys

=============================================================================
