--------------------------- MODULE ReservationBook ---------------------------
(***************************************************************************)
(* What the booking desk promises, with no requests, versions, users or    *)
(* log: one book of reservations and one store of consumables, changed by  *)
(* whole operations.  A reservation is made only for a slot that is free   *)
(* and open; consumables leave the store with the check-out and come back, *)
(* all of them, with the return; a closed slot takes no new reservations.  *)
(***************************************************************************)
EXTENDS Integers

CONSTANTS Slots, Equipment, Windows, Consumables, Quota, None,
          Clash(_, _)   \* two windows that may not be reserved together

VARIABLES
  slots,   \* the reservation of each slot number, None if not made
  shelf,   \* what is left of each consumable
  issued,  \* what each reservation has out
  closed   \* the equipment and window of each closure

book == << slots, shelf, issued, closed >>

Open == {"held", "checked_out"}
Kept == {"held", "checked_out", "suspended"}

Init ==
  /\ slots = [s \in Slots |-> None]
  /\ shelf = Quota
  /\ issued = [s \in Slots |-> [m \in Consumables |-> 0]]
  /\ closed = {}

Free(e, w) ==
  /\ \A s \in Slots :
       slots[s] # None /\ slots[s].equip = e /\ slots[s].state \in Kept
         => ~ Clash(slots[s].window, w)
  /\ \A x \in closed : x.equip = e => ~ Clash(x.window, w)

Reserve(s, e, w) ==
  /\ slots[s] = None
  /\ Free(e, w)
  /\ slots' = [slots EXCEPT ![s] = [equip |-> e, window |-> w, state |-> "held"]]
  /\ UNCHANGED << shelf, issued, closed >>

CheckOut(s, m, q) ==
  /\ slots[s] # None
  /\ slots[s].state = "held"
  /\ slots' = [slots EXCEPT ![s].state = "checked_out"]
  /\ shelf' = [shelf EXCEPT ![m] = @ - q]
  /\ issued' = [issued EXCEPT ![s][m] = q]
  /\ UNCHANGED closed

GiveBack(s) ==
  /\ slots[s] # None
  /\ slots[s].state \in {"checked_out", "suspended"}
  /\ slots' = [slots EXCEPT ![s].state = "returned"]
  /\ shelf' = [m \in Consumables |-> shelf[m] + issued[s][m]]
  /\ issued' = [issued EXCEPT ![s] = [m \in Consumables |-> 0]]
  /\ UNCHANGED closed

\* A closure, or an incident, suspends every open reservation it meets.
Suspend(e, w) ==
  /\ slots' = [s \in Slots |->
       IF /\ slots[s] # None
          /\ slots[s].equip = e
          /\ slots[s].state \in Open
          /\ Clash(slots[s].window, w)
       THEN [slots[s] EXCEPT !.state = "suspended"]
       ELSE slots[s]]
  /\ UNCHANGED << shelf, issued, closed >>

Close(e, w) ==
  /\ closed' = closed \cup {[equip |-> e, window |-> w]}
  /\ UNCHANGED << slots, shelf, issued >>

Next ==
  \/ \E s \in Slots, e \in Equipment, w \in Windows : Reserve(s, e, w)
  \/ \E s \in Slots, m \in Consumables : \E q \in 1..shelf[m] : CheckOut(s, m, q)
  \/ \E s \in Slots : GiveBack(s)
  \/ \E e \in Equipment, w \in Windows : Suspend(e, w) \/ Close(e, w)

Spec == Init /\ [][Next]_book

=============================================================================
