--------------------------- MODULE BookRefinement ---------------------------
(***************************************************************************)
(* The booking desk implements the book of reservations: its initial state *)
(* maps to the book's, and each of its steps to one operation of the book  *)
(* or to none.  The book's store of consumables is never more nor less     *)
(* than what there was.                                                    *)
(***************************************************************************)
EXTENDS BookingProofs

LEMMA BookInit == Init => Book!Init
  BY DEF Init, Book!Init, Entry

\* The two sides of the mapping: reservations and blocks as the book has them.
Slots == [r \in ResIds |-> Entry(r)]
Closed == {blocks[k] : k \in {i \in BlockIds : blocks[i] # None}}

LEMMA EntryOf ==
  ASSUME TypeInv, NEW r \in ResIds, res[r] # None
  PROVE  /\ Entry(r) # None
         /\ Entry(r).equip = res[r].equip
         /\ Entry(r).window = res[r].window
         /\ Entry(r).state = res[r].status
<1>1. res[r] \in Reservation
  BY DEF TypeInv, TypeOK
<1>2. Entry(r) \in BookEntry
  BY <1>1 DEF Entry, BookEntry, Reservation
<1> QED BY <1>2, NoneAssumption DEF Entry

\* A step that writes to none of the book's tables is none of its operations.
LEMMA BookIdle ==
  ASSUME UNCHANGED << res, stock, taken, blocks >>
  PROVE  UNCHANGED Book!book
  BY DEF Book!book, Entry

\* An update of a reservation's status is one of its entry's state.
LEMMA MovedEntry ==
  ASSUME TypeInv, NEW r \in ResIds, res[r] # None, NEW status \in ReservationStatuses,
         res' = [res EXCEPT ![r] = Moved(res[r], status)]
  PROVE  Slots' = [Slots EXCEPT ![r].state = status]
<1>1. /\ res'[r] # None
      /\ res'[r].equip = res[r].equip
      /\ res'[r].window = res[r].window
      /\ res'[r].status = status
  BY MovedReservation, NoneAssumption DEF TypeInv, TypeOK
<1>2. Entry(r)' = [equip |-> res[r].equip, window |-> res[r].window, state |-> status]
  BY <1>1 DEF Entry
<1>3. [Entry(r) EXCEPT !.state = status]
        = [equip |-> res[r].equip, window |-> res[r].window, state |-> status]
  BY DEF Entry
<1>4. \A s \in ResIds : s # r => Entry(s)' = Entry(s)
  BY DEF Entry, TypeInv, TypeOK
<1>5. [Slots EXCEPT ![r].state = status]
        = [s \in ResIds |-> IF s = r THEN [Entry(r) EXCEPT !.state = status] ELSE Entry(s)]
  BY DEF Slots
<1> QED BY <1>2, <1>3, <1>4, <1>5 DEF Slots

LEMMA ApproveReserves ==
  ASSUME TypeInv, NEW c \in Calls, NEW r \in ResIds, ApproveTx(c, r)
  PROVE  [Book!Next]_(Book!book)
<1> DEFINE k == calls[c]
           row == bookings[k.booking]
<1>1. CASE ~ CanApprove(k, r)
  BY <1>1, BookIdle DEF ApproveTx
<1>2. CASE CanApprove(k, r)
  <2>1. row \in BookingRow
    BY CallShapes DEF ApproveTx, TypeInv, CallsOK, CallOK, TypeOK, ApproveCall
  <2>2. res[r] = None
    BY <1>2 DEF CanApprove, FreshReservation
  <2>3. res' = [res EXCEPT ![r] =
                  [booking |-> k.booking, equip |-> row.equip,
                   holder |-> row.requester, window |-> row.window,
                   status |-> "held", version |-> 1]]
    BY <1>2 DEF ApproveTx
  <2>4. res'[r] # None
    <3>1. k.booking \in BookingIds
      BY CallShapes DEF ApproveTx, TypeInv, TypeOK, ApproveCall
    <3>2. res'[r] \in Reservation
      BY <2>1, <2>3, <3>1 DEF TypeInv, TypeOK, Reservation, BookingRow, ReservationStatuses
    <3> QED BY <3>2, NoneAssumption
  <2>5. Slots' = [Slots EXCEPT ![r] = [equip |-> row.equip, window |-> row.window,
                                       state |-> "held"]]
    BY <2>3, <2>4 DEF Slots, Entry, TypeInv, TypeOK
  <2>6. Book!Free(row.equip, row.window)
    <3>1. ASSUME NEW s \in ResIds, Slots[s] # None, Slots[s].equip = row.equip,
                 Slots[s].state \in Book!Kept
          PROVE  ~ SqlOverlaps(Slots[s].window, row.window)
      <4>1. res[s] # None
        BY <3>1 DEF Slots, Entry
      <4>2. ~ HoldsSlot(s, row.equip, row.window)
        BY <1>2 DEF CanApprove, HasConflict
      <4> QED
        BY <3>1, <4>1, <4>2, EntryOf DEF Slots, HoldsSlot, Book!Kept, ActiveStatuses
    <3>2. ASSUME NEW x \in Closed, x.equip = row.equip
          PROVE  ~ SqlOverlaps(x.window, row.window)
      BY <1>2, <3>2 DEF CanApprove, HasMaintenance, Closed
    <3> QED BY <3>1, <3>2 DEF Book!Free, Slots, Closed
  <2>7. Book!Reserve(r, row.equip, row.window)
    BY <1>2, <2>2, <2>5, <2>6 DEF Book!Reserve, ApproveTx, Slots, Entry, Closed
  <2> QED BY <2>1, <2>7 DEF Book!Next, BookingRow
<1> QED BY <1>1, <1>2

LEMMA CheckoutChecksOut ==
  ASSUME TypeInv, NEW c \in Calls, CheckoutTx(c)
  PROVE  [Book!Next]_(Book!book)
<1> DEFINE k == calls[c]
<1>0. k \in CheckoutCall /\ res[k.res] \in Reservation /\ res[k.res] # None /\ k.quantity > 0
  BY CallShapes DEF CheckoutTx, TypeInv, CallsOK, CallOK, TypeOK, CheckoutCall
<1>1. CASE ~ CanCheckout(k)
  BY <1>1, BookIdle DEF CheckoutTx
<1>2. CASE CanCheckout(k)
  <2>1. res[k.res].status = "held" /\ k.quantity \in 1..stock[k.consumable]
    BY <1>0, <1>2
    DEF CanCheckout, CanConsume, ReservationMatches, CheckoutCall, TypeInv, TypeOK
  <2>2. /\ res' = [res EXCEPT ![k.res] = Moved(res[k.res], "checked_out")]
        /\ stock' = [stock EXCEPT ![k.consumable] = @ - k.quantity]
        /\ taken' = [taken EXCEPT ![k.res][k.consumable] = k.quantity]
        /\ blocks' = blocks
    BY <1>2 DEF CheckoutTx, MoveReservation
  <2>3. Slots' = [Slots EXCEPT ![k.res].state = "checked_out"]
    BY <1>0, <2>2, MovedEntry DEF CheckoutCall, ReservationStatuses
  <2>4. Slots[k.res] # None /\ Slots[k.res].state = "held"
    BY <1>0, <2>1, EntryOf DEF Slots, CheckoutCall
  <2>5. Book!CheckOut(k.res, k.consumable, k.quantity)
    BY <2>2, <2>3, <2>4 DEF Book!CheckOut, Slots
  <2> QED BY <1>0, <2>1, <2>5 DEF Book!Next, CheckoutCall
<1> QED BY <1>1, <1>2

LEMMA ReturnGivesBack ==
  ASSUME TypeInv, NEW c \in Calls, ReturnTx(c)
  PROVE  [Book!Next]_(Book!book)
<1> DEFINE k == calls[c]
<1>0. /\ k \in ReturnCall /\ res[k.res] \in Reservation /\ res[k.res] # None
      /\ k.status \in {"checked_out", "suspended"}
  BY CallShapes DEF ReturnTx, TypeInv, CallsOK, CallOK, TypeOK, ReturnCall
<1>1. CASE ~ ReservationMatches(k.res, k.status, k.version)
  BY <1>1, BookIdle DEF ReturnTx
<1>2. CASE ReservationMatches(k.res, k.status, k.version)
  <2>1. res[k.res].status \in {"checked_out", "suspended"}
    BY <1>0, <1>2 DEF ReservationMatches
  <2>2. /\ res' = [res EXCEPT ![k.res] = Moved(res[k.res], "returned")]
        /\ RestoreConsumables(k.res)
        /\ blocks' = blocks
    BY <1>2 DEF ReturnTx, MoveReservation
  <2>3. Slots' = [Slots EXCEPT ![k.res].state = "returned"]
    BY <1>0, <2>2, MovedEntry DEF ReturnCall, ReservationStatuses
  <2>4. Slots[k.res] # None /\ Slots[k.res].state \in {"checked_out", "suspended"}
    BY <1>0, <2>1, EntryOf DEF Slots, ReturnCall
  <2>5. Book!GiveBack(k.res)
    BY <2>2, <2>3, <2>4 DEF Book!GiveBack, Slots, RestoreConsumables
  <2> QED BY <1>0, <2>5 DEF Book!Next, ReturnCall
<1> QED BY <1>1, <1>2

LEMMA SuspendSuspends ==
  ASSUME TypeInv, NEW c \in Calls, Suspend(c)
  PROVE  [Book!Next]_(Book!book)
<1> DEFINE k == calls[c]
           Hit(s) == /\ Slots[s] # None
                     /\ Slots[s].equip = k.equip
                     /\ Slots[s].state \in Book!Open
                     /\ SqlOverlaps(Slots[s].window, k.window)
<1>0. k \in SuspendCall
  BY CallShapes DEF Suspend, TypeInv, TypeOK
<1>1. ASSUME NEW s \in ResIds
      PROVE  Entry(s)' = IF Hit(s) THEN [Slots[s] EXCEPT !.state = "suspended"] ELSE Slots[s]
  <2>1. Hit(s) <=> Suspends(s, k.equip, k.window)
    BY EntryOf DEF Slots, Entry, Suspends, InUseStatuses, Book!Open
  <2>2. CASE Suspends(s, k.equip, k.window)
    <3>1. /\ res[s] \in Reservation /\ res[s] # None
          /\ res'[s] = [res[s] EXCEPT !.status = "suspended"]
      BY <2>2 DEF Suspend, Suspends, TypeInv, TypeOK
    <3>2. /\ res'[s] # None /\ res'[s].equip = res[s].equip
          /\ res'[s].window = res[s].window /\ res'[s].status = "suspended"
      <4>1. res'[s] \in Reservation
        BY <3>1 DEF Reservation, ReservationStatuses
      <4> QED BY <3>1, <4>1, NoneAssumption DEF Reservation
    <3> QED BY <2>1, <2>2, <3>1, <3>2 DEF Slots, Entry
  <2>3. CASE ~ Suspends(s, k.equip, k.window)
    BY <2>1, <2>3 DEF Suspend, Slots, Entry
  <2> QED BY <2>2, <2>3
<1>2. Book!Suspend(k.equip, k.window)
  BY <1>1 DEF Book!Suspend, Slots, Suspend, Closed
<1> QED BY <1>0, <1>2 DEF Book!Next, SuspendCall

\* A maintenance block closes its window.
LEMMA MaintenanceCloses ==
  ASSUME TypeInv, NEW c \in Calls, NEW u \in Users, NEW k \in BlockIds, NEW e \in Equipment,
         NEW w \in Windows, NEW now \in Readings, AddMaintenance(c, u, k, e, w, now)
  PROVE  [Book!Next]_(Book!book)
<1>1. /\ blocks[k] = None
      /\ blocks' = [blocks EXCEPT ![k] = [equip |-> e, window |-> w]]
      /\ UNCHANGED << res, stock, taken >>
  BY DEF AddMaintenance
<1>2. [equip |-> e, window |-> w] # None
  BY NoneAssumption DEF Block
<1>3. Closed' = Closed \cup {[equip |-> e, window |-> w]}
  BY <1>1, <1>2 DEF Closed, TypeInv, TypeOK
<1>4. Book!Close(e, w)
  BY <1>1, <1>3 DEF Book!Close, Closed, Entry
<1> QED BY <1>4 DEF Book!Next

LEMMA BookStep == TypeInv /\ [Next]_vars => [Book!Next]_(Book!book)
<1> SUFFICES ASSUME TypeInv, [Next]_vars PROVE [Book!Next]_(Book!book)
  OBVIOUS
<1>1. CASE \E c \in Calls, u \in Users, k \in BlockIds, e \in Equipment, w \in Windows,
             now \in Readings : AddMaintenance(c, u, k, e, w, now)
  BY <1>1, MaintenanceCloses
<1>2. CASE \E c \in Calls : \/ \E r \in ResIds : ApproveTx(c, r)
                            \/ CheckoutTx(c) \/ ReturnTx(c) \/ Suspend(c)
  BY <1>2, ApproveReserves, CheckoutChecksOut, ReturnGivesBack, SuspendSuspends
<1>3. ASSUME NEW c \in Calls,
             \/ SubmitInsert(c) \/ WriteAudit(c) \/ CallFails(c)
             \/ Request(c) /\ ~ (\E u \in Users, k \in BlockIds, e \in Equipment, w \in Windows,
                                   now \in Readings : AddMaintenance(c, u, k, e, w, now))
      PROVE  UNCHANGED << res, stock, taken, blocks >>
  BY <1>3 DEF SubmitInsert, WriteAudit, CallFails, Request, store, CreateBatch, SubmitRead,
              ApproveRead, CheckoutRead, ReturnRead, ReportIncident
<1>4. ASSUME \/ \E u \in Users, i \in IncidentIds : ResolveIncident(u, i)
             \/ \E e \in Equipment, s \in EquipmentStates : UpdateEquipmentStatus(e, s)
             \/ Crash
             \/ UNCHANGED vars
      PROVE  UNCHANGED << res, stock, taken, blocks >>
  BY <1>4 DEF ResolveIncident, UpdateEquipmentStatus, Crash, vars, store
<1> QED BY <1>1, <1>2, <1>3, <1>4, BookIdle DEF Next, Continue

\* Whatever requests run, race, fail or die, what can be seen of reservations,
\* consumables and blocks is what whole operations of the book could do.
THEOREM DeskImplementsBook == Spec => ImplementsBook
<1>1. Spec => []TypeInv
  BY InitTypeInv, TypeInvStep, PTL DEF Spec
<1> QED BY <1>1, BookInit, BookStep, PTL DEF Spec, ImplementsBook, Book!Spec

-----------------------------------------------------------------------------
(* Sums over a finite set.  The definitions are recursive, so what holds   *)
(* of them is shown by the least set for which it does not hold.           *)

\* A set of numbers that is not empty has a least one.
LEMMA LeastNat ==
  ASSUME NEW T \in SUBSET Nat, T # {}
  PROVE  \E n \in T : \A m \in T : ~ (m < n)
<1>1. PICK n \in T : \A m \in T : << m, n >> \notin OpToRel(<, Nat)
  BY NatLessThanWellFounded, WFMin, Zenon
<1>2. \A m \in T : m < n => << m, n >> \in OpToRel(<, Nat)
  BY DEF OpToRel
<1> QED BY <1>1, <1>2

\* SumFunction takes the members of a set one by one, in the order of CHOOSE:
\* Sums(f, S) is the recursive function it is made of.
Pick(s) == CHOOSE x \in s : TRUE
Sum(f, g, s) == IF s = {} THEN 0 ELSE f[Pick(s)] + g[s \ {Pick(s)}]
Sums(f, S) == CHOOSE g : g = [s \in SUBSET S |-> Sum(f, g, s)]

LEMMA SumsIs == ASSUME NEW f, NEW S PROVE SumFunctionOnSet(f, S) = Sums(f, S)[S]
  BY DEF SumFunctionOnSet, FoldFunctionOnSet, MapThenFoldSet, Sums, Sum, Pick

LEMMA PickIn == ASSUME NEW s, s # {} PROVE Pick(s) \in s
  BY DEF Pick

Small(S, n) == {s \in SUBSET S : Cardinality(s) <= n}

\* There is such a function: it is there for the subsets of up to n members,
\* and no n is the least for which it is not.
LEMMA SumsExist ==
  ASSUME NEW f, NEW S, IsFiniteSet(S)
  PROVE  \E g : g = [s \in SUBSET S |-> Sum(f, g, s)]
<1> DEFINE Has(n) == \E g : g = [s \in Small(S, n) |-> Sum(f, g, s)]
           T == {n \in Nat : ~ Has(n)}
<1>1. Has(0)
  <2>1. \A s \in Small(S, 0) : s = {}
    BY FS_Subset, FS_CardinalityType, FS_EmptySet DEF Small
  <2> DEFINE g == [s \in Small(S, 0) |-> 0]
  <2>2. g = [s \in Small(S, 0) |-> Sum(f, g, s)]
    BY <2>1 DEF Sum
  <2> QED BY <2>2
<1>2. ASSUME NEW n \in Nat, Has(n) PROVE Has(n + 1)
  <2>1. PICK g : g = [s \in Small(S, n) |-> Sum(f, g, s)]
    BY <1>2
  <2> DEFINE h == [s \in Small(S, n + 1) |-> Sum(f, g, s)]
  <2>2. ASSUME NEW s \in Small(S, n + 1), s # {}
        PROVE  g[s \ {Pick(s)}] = h[s \ {Pick(s)}]
    <3> DEFINE t == s \ {Pick(s)}
    <3>1. t \in Small(S, n) /\ t \in Small(S, n + 1)
      <4>1. IsFiniteSet(s) /\ Cardinality(s) \in Nat /\ Cardinality(s) <= n + 1
        BY FS_Subset, FS_CardinalityType DEF Small
      <4>2. Cardinality(t) = Cardinality(s) - 1 
        BY <4>1, <2>2, PickIn, FS_RemoveElement
      <4> QED BY <4>1, <4>2 DEF Small
    <3>2. g[t] = Sum(f, g, t)
      BY <2>1, <3>1
    <3> QED BY <3>1, <3>2
  <2>3. \A s \in Small(S, n + 1) : Sum(f, g, s) = Sum(f, h, s)
    BY <2>2 DEF Sum
  <2>4. h = [s \in Small(S, n + 1) |-> Sum(f, h, s)]
    BY <2>3
  <2> QED BY <2>4
<1>3. T = {}
  <2> SUFFICES ASSUME T # {} PROVE FALSE
    OBVIOUS
  <2>1. PICK n \in T : \A m \in T : ~ (m < n)
    BY LeastNat
  <2>2. n # 0 /\ n \in Nat
    BY <1>1
  <2>3. n - 1 \in Nat /\ Has(n - 1)
    BY <2>1, <2>2
  <2>4. Has((n - 1) + 1)
    BY <2>3, <1>2
  <2> QED BY <2>1, <2>2, <2>4
<1>4. Cardinality(S) \in Nat /\ Small(S, Cardinality(S)) = SUBSET S
  BY FS_CardinalityType, FS_Subset DEF Small
<1>5. Has(Cardinality(S))
  BY <1>3, <1>4
<1> QED BY <1>4, <1>5

\* The recursive function's equation, which CHOOSE yields once it exists.
LEMMA SumsAt ==
  ASSUME NEW f, NEW S, IsFiniteSet(S), NEW s \in SUBSET S
  PROVE  Sums(f, S)[s] = Sum(f, Sums(f, S), s)
<1>1. Sums(f, S) = [t \in SUBSET S |-> Sum(f, Sums(f, S), t)]
  BY SumsExist, Zenon DEF Sums
<1> QED BY <1>1

\* Induction over the subsets of a finite set: a set of them that holds the
\* empty set, and any that it holds without its pick, holds them all.
LEMMA SubsetInduction ==
  ASSUME NEW S, IsFiniteSet(S), NEW P \in SUBSET SUBSET S, {} \in P,
         \A s \in SUBSET S : s # {} /\ s \ {Pick(s)} \in P => s \in P
  PROVE  P = SUBSET S
<1> DEFINE Bad == (SUBSET S) \ P
           T == {Cardinality(s) : s \in Bad}
<1>1. SUFFICES ASSUME Bad # {} PROVE FALSE
  OBVIOUS
<1>2. \A s \in SUBSET S : IsFiniteSet(s) /\ Cardinality(s) \in Nat
  BY FS_Subset, FS_CardinalityType
<1>3. T \in SUBSET Nat /\ T # {}
  BY <1>1, <1>2
<1>4. PICK n \in T : \A m \in T : ~ (m < n)
  BY <1>3, LeastNat
<1>5. PICK s \in Bad : n = Cardinality(s)
  BY <1>4
<1> DEFINE t == s \ {Pick(s)}
<1>6. s # {} /\ t \in SUBSET S
  BY <1>5
<1>7. t \in Bad
  BY <1>5, <1>6
<1>8. Cardinality(t) = Cardinality(s) - 1
  BY <1>2, <1>5, <1>6, PickIn, FS_RemoveElement
<1>9. Cardinality(t) \in T
  BY <1>7
<1>10. ~ (Cardinality(t) < n)
  BY <1>4, <1>9
<1>11. n \in Nat /\ Cardinality(t) = n - 1
  BY <1>3, <1>5, <1>8
<1> QED BY <1>10, <1>11

LEMMA SumsInt ==
  ASSUME NEW S, IsFiniteSet(S), NEW f \in [S -> Int]
  PROVE  \A s \in SUBSET S : Sums(f, S)[s] \in Int
<1> DEFINE P == {s \in SUBSET S : Sums(f, S)[s] \in Int}
<1>1. {} \in P
  BY SumsAt DEF Sum
<1>2. ASSUME NEW s \in SUBSET S, s # {}, s \ {Pick(s)} \in P PROVE s \in P
  <2>1. Sums(f, S)[s] = f[Pick(s)] + Sums(f, S)[s \ {Pick(s)}]
    BY <1>2, SumsAt DEF Sum
  <2>2. f[Pick(s)] \in Int
    BY <1>2, PickIn
  <2> QED BY <1>2, <2>1, <2>2
<1>3. P = SUBSET S
  <2> HIDE DEF P
  <2>1. P \in SUBSET SUBSET S
    BY DEF P
  <2> QED BY <1>1, <1>2, <2>1, SubsetInduction
<1> QED BY <1>3

\* A sum of which one summand changes.
LEMMA SumsChange ==
  ASSUME NEW S, IsFiniteSet(S), NEW f \in [S -> Int], NEW g \in [S -> Int], NEW a \in S,
         \A x \in S \ {a} : g[x] = f[x]
  PROVE  \A s \in SUBSET S :
           Sums(g, S)[s] = Sums(f, S)[s] + (IF a \in s THEN g[a] - f[a] ELSE 0)
<1> DEFINE d(s) == IF a \in s THEN g[a] - f[a] ELSE 0
           P == {s \in SUBSET S : Sums(g, S)[s] = Sums(f, S)[s] + d(s)}
<1>1. {} \in P
  <2>1. Sums(f, S)[{}] = 0 /\ Sums(g, S)[{}] = 0
    BY SumsAt DEF Sum
  <2> QED BY <2>1
<1>2. ASSUME NEW s \in SUBSET S, s # {}, s \ {Pick(s)} \in P PROVE s \in P
  <2> DEFINE x == Pick(s)
             t == s \ {x}
  <2>1. /\ Sums(f, S)[s] = f[x] + Sums(f, S)[t]
        /\ Sums(g, S)[s] = g[x] + Sums(g, S)[t]
    BY <1>2, SumsAt DEF Sum
  <2>2. x \in s /\ x \in S
    BY <1>2, PickIn
  <2>3. Sums(f, S)[t] \in Int /\ Sums(g, S)[t] = Sums(f, S)[t] + d(t)
    BY <1>2, SumsInt
  <2>4. f[x] \in Int /\ g[x] \in Int /\ f[a] \in Int /\ g[a] \in Int
    BY <2>2
  <2>5. CASE x = a
    <3>1. a \in s /\ a \notin t
      BY <2>2, <2>5
    <3>2. Sums(g, S)[t] = Sums(f, S)[t]
      BY <2>3, <3>1
    <3> HIDE DEF x, t
    <3>3. g[a] + Sums(f, S)[t] = (f[a] + Sums(f, S)[t]) + (g[a] - f[a])
      BY <2>3, <2>4
    <3> QED BY <2>1, <2>5, <3>1, <3>2, <3>3
  <2>6. CASE x # a
    <3>1. g[x] = f[x] /\ (a \in s <=> a \in t)
      BY <2>2, <2>6
    <3>2. d(s) = d(t) /\ d(t) \in Int
      BY <2>4, <3>1
    <3> HIDE DEF x, t, d
    <3>3. f[x] + (Sums(f, S)[t] + d(t)) = (f[x] + Sums(f, S)[t]) + d(t)
      BY <2>3, <2>4, <3>2
    <3>4. Sums(g, S)[s] = Sums(f, S)[s] + d(s)
      BY <2>1, <2>3, <3>1, <3>2, <3>3
    <3> QED BY <3>4
  <2> QED BY <2>5, <2>6
<1>3. P = SUBSET S
  <2> HIDE DEF P
  <2>1. P \in SUBSET SUBSET S
    BY DEF P
  <2> QED BY <1>1, <1>2, <2>1, SubsetInduction
<1> QED BY <1>3

LEMMA SumsZero ==
  ASSUME NEW S, IsFiniteSet(S), NEW f, \A x \in S : f[x] = 0
  PROVE  \A s \in SUBSET S : Sums(f, S)[s] = 0
<1> DEFINE P == {s \in SUBSET S : Sums(f, S)[s] = 0}
<1>1. {} \in P
  BY SumsAt DEF Sum
<1>2. ASSUME NEW s \in SUBSET S, s # {}, s \ {Pick(s)} \in P PROVE s \in P
  BY <1>2, SumsAt, PickIn DEF Sum
<1>3. P = SUBSET S
  <2> HIDE DEF P
  <2>1. P \in SUBSET SUBSET S
    BY DEF P
  <2> QED BY <1>1, <1>2, <2>1, SubsetInduction
<1> QED BY <1>3

\* What follows for the sum of a whole function: its type, what one changed
\* value does to it, and the sum of zeros.
LEMMA SumInt ==
  ASSUME NEW S, IsFiniteSet(S), NEW f \in [S -> Int]
  PROVE  SumFunction(f) \in Int
  BY SumsIs, SumsInt DEF SumFunction

LEMMA SumChange ==
  ASSUME NEW S, IsFiniteSet(S), NEW f \in [S -> Int], NEW g \in [S -> Int], NEW a \in S,
         \A x \in S \ {a} : g[x] = f[x]
  PROVE  SumFunction(g) = SumFunction(f) + (g[a] - f[a])
<1>1. DOMAIN f = S /\ DOMAIN g = S
  OBVIOUS
<1>2. Sums(g, S)[S] = Sums(f, S)[S] + (g[a] - f[a])
  BY SumsChange
<1> QED BY <1>1, <1>2, SumsIs DEF SumFunction

LEMMA SumZero ==
  ASSUME NEW S, IsFiniteSet(S), NEW f \in [S -> {0}]
  PROVE  SumFunction(f) = 0
<1>1. DOMAIN f = S /\ \A x \in S : f[x] = 0
  OBVIOUS
<1> QED BY <1>1, SumsIs, SumsZero DEF SumFunction

-----------------------------------------------------------------------------
(* The stock.  Two steps move consumables, and each changes the rows of    *)
(* one reservation by what the shelf loses or gains.                       *)

\* Where one reservation's rows change and the shelf by as much, the shelf and
\* what is out add up as before.
LEMMA StockFollows ==
  ASSUME TypeInv, TypeInv', StockConserved, NEW m \in Consumables, NEW a \in ResIds,
         \A r \in ResIds \ {a} : taken'[r][m] = taken[r][m],
         stock'[m] = stock[m] - (taken'[a][m] - taken[a][m])
  PROVE  stock'[m] + SumFunction([r \in ResIds |-> taken'[r][m]]) = Quota[m]
<1> DEFINE f == [r \in ResIds |-> taken[r][m]]
           g == [r \in ResIds |-> taken'[r][m]]
<1>1. f \in [ResIds -> Int] /\ g \in [ResIds -> Int]
  BY DEF TypeInv, TypeOK
<1>2. \A x \in ResIds \ {a} : g[x] = f[x]
  OBVIOUS
<1>3. SumFunction(f) \in Int /\ stock[m] \in Int
  BY <1>1, KeysAssumption, SumInt DEF TypeInv, TypeOK
<1>4. g[a] = taken'[a][m] /\ f[a] = taken[a][m] /\ g[a] \in Int /\ f[a] \in Int
  BY <1>1
<1>5. stock[m] + SumFunction(f) = Quota[m]
  BY DEF StockConserved
<1> HIDE DEF f, g
<1>6. SumFunction(g) = SumFunction(f) + (g[a] - f[a])
  BY <1>1, <1>2, KeysAssumption, SumChange
<1>7. stock'[m] + SumFunction(g) = Quota[m]
  BY <1>3, <1>4, <1>5, <1>6
<1> QED BY <1>7 DEF g

LEMMA StockStep ==
  TypeInv /\ TypeInv' /\ StockConserved /\ [Next]_vars => StockConserved'
<1> SUFFICES ASSUME TypeInv, TypeInv', StockConserved, [Next]_vars, NEW m \in Consumables
             PROVE  stock'[m] + SumFunction([r \in ResIds |-> taken'[r][m]]) = Quota[m]
  BY DEF StockConserved
<1>1. ASSUME UNCHANGED << stock, taken >>
      PROVE  stock'[m] + SumFunction([r \in ResIds |-> taken'[r][m]]) = Quota[m]
  BY <1>1 DEF StockConserved
<1>2. ASSUME NEW c \in Calls, CheckoutTx(c)
      PROVE  stock'[m] + SumFunction([r \in ResIds |-> taken'[r][m]]) = Quota[m]
  <2> DEFINE k == calls[c]
  <2>1. k \in CheckoutCall
    BY <1>2, CallShapes DEF CheckoutTx, TypeInv, TypeOK
  <2>2. CASE ~ CanCheckout(k)
    BY <1>1, <1>2, <2>2 DEF CheckoutTx
  <2>3. CASE CanCheckout(k)
    <3>1. /\ stock' = [stock EXCEPT ![k.consumable] = @ - k.quantity]
          /\ taken' = [taken EXCEPT ![k.res][k.consumable] = k.quantity]
          /\ taken[k.res][k.consumable] = 0
      BY <1>2, <2>3 DEF CheckoutTx, CanCheckout, CanConsume
    <3>2. k.res \in ResIds /\ k.consumable \in Consumables /\ k.quantity \in Nat
      BY <2>1 DEF CheckoutCall
    <3> HIDE DEF k
    <3>3. \A r \in ResIds \ {k.res} : taken'[r][m] = taken[r][m]
      BY <3>1, <3>2 DEF TypeInv, TypeOK
    <3>4. stock'[m] = stock[m] - (taken'[k.res][m] - taken[k.res][m])
      BY <3>1, <3>2 DEF TypeInv, TypeOK
    <3> QED BY <3>2, <3>3, <3>4, StockFollows
  <2> QED BY <2>2, <2>3
<1>3. ASSUME NEW c \in Calls, ReturnTx(c)
      PROVE  stock'[m] + SumFunction([r \in ResIds |-> taken'[r][m]]) = Quota[m]
  <2> DEFINE k == calls[c]
  <2>1. k \in ReturnCall
    BY <1>3, CallShapes DEF ReturnTx, TypeInv, TypeOK
  <2>2. CASE ~ ReservationMatches(k.res, k.status, k.version)
    BY <1>1, <1>3, <2>2 DEF ReturnTx
  <2>3. CASE ReservationMatches(k.res, k.status, k.version)
    <3>1. /\ stock' = [n \in Consumables |-> stock[n] + taken[k.res][n]]
          /\ taken' = [taken EXCEPT ![k.res] = [n \in Consumables |-> 0]]
      BY <1>3, <2>3 DEF ReturnTx, RestoreConsumables
    <3>2. k.res \in ResIds
      BY <2>1 DEF ReturnCall
    <3> HIDE DEF k
    <3>3. \A r \in ResIds \ {k.res} : taken'[r][m] = taken[r][m]
      BY <3>1, <3>2 DEF TypeInv, TypeOK
    <3>4. stock'[m] = stock[m] - (taken'[k.res][m] - taken[k.res][m])
      BY <3>1, <3>2 DEF TypeInv, TypeOK
    <3> QED BY <3>2, <3>3, <3>4, StockFollows
  <2> QED BY <2>2, <2>3
<1>4. ASSUME NEW c \in Calls, SubmitInsert(c) \/ Suspend(c)
      PROVE  UNCHANGED << stock, taken >>
  BY <1>4 DEF SubmitInsert, Suspend
<1>5. ASSUME NEW c \in Calls, NEW r \in ResIds, ApproveTx(c, r)
      PROVE  UNCHANGED << stock, taken >>
  BY <1>5 DEF ApproveTx
<1> QED BY DeskSteps, <1>1, <1>2, <1>3, <1>4, <1>5

\* What is on the shelf and what reservations have out is what there was.
THEOREM StockKept == Spec => []StockConserved
<1>1. Init => StockConserved
  <2> SUFFICES ASSUME Init, NEW m \in Consumables
               PROVE  stock[m] + SumFunction([r \in ResIds |-> taken[r][m]]) = Quota[m]
    BY DEF StockConserved
  <2> DEFINE f == [r \in ResIds |-> taken[r][m]]
  <2>1. f \in [ResIds -> {0}]
    BY DEF Init
  <2>2. SumFunction(f) = 0
    BY <2>1, KeysAssumption, SumZero
  <2>3. stock[m] = Quota[m] /\ Quota[m] \in Int
    BY StoreAssumption DEF Init
  <2> QED BY <2>2, <2>3
<1>2. Spec => []TypeInv
  BY InitTypeInv, TypeInvStep, PTL DEF Spec
<1> QED BY <1>1, <1>2, StockStep, PTL DEF Spec

=============================================================================
