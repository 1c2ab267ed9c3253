---------------------------- MODULE ProcessProofs ----------------------------
(***************************************************************************)
(* Theorems about the life of the process, for any directory of migration  *)
(* files, however often the process dies and is started again.             *)
(***************************************************************************)
EXTENDS Process, TLAPS

-----------------------------------------------------------------------------
(* The inductive invariant, in three parts that do not need each other.    *)

\* The files before index n are recorded.
RecordedBefore(n) == \A i \in DOMAIN Files : i < n /\ Files[i] # None => Files[i] \in versions

AllRecorded == \A i \in DOMAIN Files : Files[i] # None => Files[i] \in versions

Migrated == {"count", "seed", "start"} \cup Serving

\* How far Apply is tells what is recorded.
MigrationInv ==
  /\ VersionsTellTables
  /\ main = "migrate" => next >= 1 /\ RecordedBefore(next)
  /\ main \in Migrated => AllRecorded

\* The seed's first row, a user, is there if any is, and the seed only runs on
\* a database that had none of them.
SeedInv ==
  /\ rows # {} => "u-teacher" \in rows
  /\ main = "seed" => next \in 1..6 /\ rows = {SeedRows[i] : i \in 1..(next - 1)}
  /\ main \in {"start"} \cup Serving => rows # {}

\* The connection is open from the start of Run to the last deferred call,
\* and the worker has left before that.
DatabaseInv ==
  /\ main \notin {"down", "close"} => db
  /\ worker = "running" => main \in Serving \cup {"stop", "wait"}

IInv == TypeOK /\ MigrationInv /\ SeedInv /\ DatabaseInv

LEMMA InitIInv == Init => IInv
<1> SUFFICES ASSUME Init PROVE IInv
  OBVIOUS
<1>1. TypeOK
  BY DEF Init, TypeOK
<1>2. MigrationInv
  BY DEF Init, MigrationInv, VersionsTellTables, Migrated, Serving
<1>3. SeedInv /\ DatabaseInv
  BY DEF Init, SeedInv, DatabaseInv, Serving
<1> QED BY <1>1, <1>2, <1>3 DEF IInv

LEMMA TypeStep == TypeOK /\ SeedInv /\ [Next]_vars => TypeOK'
<1> SUFFICES ASSUME TypeOK, SeedInv, [Next]_vars PROVE TypeOK'
  OBVIOUS
<1> USE DEF Goto, database, beside
<1>1. main' \in {"down", "start"} \cup Applying \cup Serving \cup Returning /\ next' \in Nat
  BY DEF TypeOK, Next, Main, Open, SkipFile, ApplyFile, FilesDone, CountUsers, SeedRow, StartWorker,
         Listen, ListenReturns, Stop, StopReturns, Close, Exit, Crash, Gone, ApplyFails, Signal,
         Shutdown, WorkerLeaves, vars, process, Applying, Serving, Returning
<1>2. versions' \subseteq Int /\ effects' \subseteq DOMAIN Files
  <2>1. CASE ApplyFile
    <3>1. next \in DOMAIN Files /\ Files[next] # None
      BY <2>1 DEF ApplyFile, AtFile, Pending
    <3>2. Files[next] \in Int
      BY <3>1, FilesAssumption
    <3>3. versions' = versions \cup {Files[next]} /\ effects' = effects \cup {next}
      BY <2>1 DEF ApplyFile
    <3> QED BY <3>1, <3>2, <3>3 DEF TypeOK
  <2>2. ApplyFile \/ UNCHANGED << versions, effects >>
    BY DEF Next, Main, Open, SkipFile, FilesDone, CountUsers, SeedRow, StartWorker, Listen,
           ListenReturns, Stop, StopReturns, Close, Exit, Crash, Gone, ApplyFails, Signal, Shutdown,
           WorkerLeaves, vars
  <2>3. CASE UNCHANGED << versions, effects >>
    BY <2>3 DEF TypeOK
  <2> QED BY <2>1, <2>2, <2>3
<1>3. rows' \subseteq Seeded
  <2>1. CASE SeedRow /\ next \in DOMAIN SeedRows
    BY <2>1 DEF SeedRow, Seeded, TypeOK
  <2>2. CASE UNCHANGED rows
    BY <2>2 DEF TypeOK
  <2>3. SeedRow \/ UNCHANGED rows
    BY DEF Next, Main, Open, SkipFile, ApplyFile, FilesDone, CountUsers, StartWorker, Listen,
           ListenReturns, Stop, StopReturns, Close, Exit, Crash, Gone, ApplyFails, Signal, Shutdown,
           WorkerLeaves, vars
  <2> QED BY <2>1, <2>2, <2>3 DEF SeedInv, SeedRow, SeedRows
<1>4. /\ signalled' \in BOOLEAN /\ closed' \in BOOLEAN /\ db' \in BOOLEAN
      /\ server' \in {"new", "listening", "closed"}
      /\ worker' \in {"unborn", "running", "done"}
  BY DEF TypeOK, Next, Main, Open, SkipFile, ApplyFile, FilesDone, CountUsers, SeedRow, StartWorker,
         Listen, ListenReturns, Stop, StopReturns, Close, Exit, Crash, Gone, ApplyFails, Signal,
         Shutdown, WorkerLeaves, vars, process
<1> QED BY <1>1, <1>2, <1>3, <1>4 DEF TypeOK

\* A file is applied when its version is not recorded, which is so for the
\* first file of the version only.
LEMMA MigrationStep == TypeOK /\ MigrationInv /\ [Next]_vars => MigrationInv'
<1> SUFFICES ASSUME TypeOK, MigrationInv, [Next]_vars PROVE MigrationInv'
  OBVIOUS
<1> USE FilesAssumption DEF Goto, database
<1>1. CASE ApplyFile
  <2> DEFINE v == Files[next]
  <2>1. /\ main = "migrate" /\ next \in DOMAIN Files /\ v # None /\ v \notin versions
        /\ effects' = effects \cup {next} /\ versions' = versions \cup {v}
        /\ main' = "migrate" /\ next' = next + 1 /\ next \in Nat
    BY <1>1 DEF ApplyFile, AtFile, Pending, TypeOK
  <2>2. RecordedBefore(next)
    BY <2>1 DEF MigrationInv
  <2>3. First(next)
    BY <2>1, <2>2 DEF First, RecordedBefore
  <2>4. VersionsTellTables'
    <3> SUFFICES ASSUME NEW i \in DOMAIN Files
                 PROVE  i \in effects' <=> Files[i] # None /\ Files[i] \in versions' /\ First(i)
      BY DEF VersionsTellTables, First
    <3>1. i \in effects <=> Files[i] # None /\ Files[i] \in versions /\ First(i)
      BY DEF MigrationInv, VersionsTellTables
    <3>2. CASE Files[i] = v /\ i # next
      <4>1. ~ (i < next)
        BY <2>1, <2>2, <3>2 DEF RecordedBefore
      <4>2. ~ First(i)
        BY <2>1, <3>2, <4>1 DEF First
      <4> QED BY <2>1, <3>1, <3>2, <4>2
    <3> QED BY <2>1, <2>3, <3>1, <3>2
  <2>5. RecordedBefore(next)'
    BY <2>1, <2>2 DEF RecordedBefore
  <2> QED BY <2>1, <2>4, <2>5 DEF MigrationInv, Migrated, Serving
<1>2. CASE UNCHANGED << versions, effects >>
  <2>1. VersionsTellTables' /\ (AllRecorded => AllRecorded')
    BY <1>2 DEF MigrationInv, VersionsTellTables, First, AllRecorded
  <2>2. CASE SkipFile
    <3>1. RecordedBefore(next) /\ next \in Nat /\ next >= 1
      BY <2>2 DEF SkipFile, AtFile, MigrationInv, TypeOK
    <3>2. RecordedBefore(next)'
      BY <1>2, <2>2, <3>1 DEF SkipFile, AtFile, Pending, Skipped, RecordedBefore
    <3>3. main' = "migrate" /\ next' >= 1
      BY <2>2, <3>1 DEF SkipFile
    <3> QED BY <2>1, <3>2, <3>3 DEF MigrationInv, Migrated, Serving
  <2>3. CASE FilesDone
    <3>1. AllRecorded
      BY <2>3 DEF FilesDone, MigrationInv, RecordedBefore, AllRecorded, TypeOK
    <3> QED BY <2>1, <2>3, <3>1 DEF FilesDone, MigrationInv
  <2>4. CASE Open
    <3>1. main' = "migrate" /\ next' = 1 /\ RecordedBefore(next)'
      BY <2>4 DEF Open, RecordedBefore
    <3> QED BY <2>1, <3>1 DEF MigrationInv, Migrated, Serving
  <2>5. CASE CountUsers \/ SeedRow \/ StartWorker \/ Listen
    <3>1. main \in Migrated /\ main' \in Migrated \cup {"stop"}
      BY <2>5 DEF CountUsers, SeedRow, StartWorker, Listen, Migrated, Serving
    <3> QED BY <2>1, <3>1 DEF MigrationInv, Migrated, Serving
  <2>6. CASE ListenReturns \/ Stop \/ StopReturns \/ Exit \/ Crash \/ ApplyFails
    <3>1. main' \in {"stop", "wait", "close", "down"}
      BY <2>6 DEF ListenReturns, Stop, StopReturns, Exit, Crash, Gone, ApplyFails
    <3> QED BY <2>1, <3>1 DEF MigrationInv, Migrated, Serving
  <2>7. CASE UNCHANGED << main, next >>
    BY <1>2, <2>1, <2>7 DEF MigrationInv, RecordedBefore, Migrated, Serving
  <2>8. CASE Close \/ Signal \/ Shutdown \/ WorkerLeaves \/ UNCHANGED vars
    BY <2>7, <2>8 DEF Close, Signal, Shutdown, WorkerLeaves, vars, process
  <2> QED BY <1>1, <2>2, <2>3, <2>4, <2>5, <2>6, <2>8 DEF Next, Main
<1>3. ApplyFile \/ UNCHANGED << versions, effects >>
  BY DEF Next, Main, Open, SkipFile, FilesDone, CountUsers, SeedRow, StartWorker, Listen,
         ListenReturns, Stop, StopReturns, Close, Exit, Crash, Gone, ApplyFails, Signal, Shutdown,
         WorkerLeaves, vars
<1> QED BY <1>1, <1>2, <1>3

\* Counting the users decides whether the database is new, because the seed
\* inserts a user first.
LEMMA SeedStep == TypeOK /\ SeedInv /\ [Next]_vars => SeedInv'
<1> SUFFICES ASSUME TypeOK, SeedInv, [Next]_vars PROVE SeedInv'
  OBVIOUS
<1> USE DEF Goto, Serving
<1>1. CASE SeedRow
  <2>1. next \in 1..6 /\ rows = {SeedRows[i] : i \in 1..(next - 1)}
    BY <1>1 DEF SeedRow, SeedInv
  <2>2. rows' = {SeedRows[i] : i \in 1..next}
    BY <1>1, <2>1 DEF SeedRow
  <2>3. "u-teacher" \in rows'
    BY <2>1, <2>2 DEF SeedRows
  <2>4. Len(SeedRows) = 6
    BY DEF SeedRows
  <2>5. CASE next = 6
    BY <1>1, <2>3, <2>4, <2>5 DEF SeedRow, SeedInv
  <2>6. CASE next # 6
    <3>1. main' = "seed" /\ next' = next + 1 /\ next' \in 1..6 /\ next' - 1 = next
      BY <1>1, <2>1, <2>4, <2>6 DEF SeedRow
    <3> QED BY <2>2, <2>3, <3>1 DEF SeedInv
  <2> QED BY <2>5, <2>6
<1>2. CASE CountUsers
  <2>1. rows \cap Users = {} => rows = {}
    BY DEF SeedInv, Users
  <2>2. CASE rows \cap Users = {}
    <3>1. main' = "seed" /\ next' = 1 /\ rows' = {}
      BY <1>2, <2>1, <2>2 DEF CountUsers, database
    <3> QED BY <3>1 DEF SeedInv
  <2>3. CASE rows \cap Users # {}
    BY <1>2, <2>3 DEF CountUsers, SeedInv, database
  <2> QED BY <2>2, <2>3
<1>3. CASE StartWorker \/ Listen
  BY <1>3 DEF StartWorker, Listen, SeedInv, database
<1>4. CASE \/ Open \/ SkipFile \/ ApplyFile \/ FilesDone \/ ListenReturns \/ Stop \/ StopReturns
           \/ Exit \/ Crash \/ ApplyFails
  <2>1. rows' = rows /\ main' \in {"migrate", "count", "stop", "wait", "close", "down"}
    BY <1>4 DEF Open, SkipFile, ApplyFile, FilesDone, ListenReturns, Stop, StopReturns, Exit,
                Crash, Gone, ApplyFails, database
  <2> QED BY <2>1 DEF SeedInv
<1>5. CASE Close \/ Signal \/ Shutdown \/ WorkerLeaves \/ UNCHANGED vars
  BY <1>5 DEF Close, Signal, Shutdown, WorkerLeaves, vars, database, process, SeedInv
<1> QED BY <1>1, <1>2, <1>3, <1>4, <1>5 DEF Next, Main

LEMMA DatabaseStep == TypeOK /\ DatabaseInv /\ [Next]_vars => DatabaseInv'
<1> SUFFICES ASSUME TypeOK, DatabaseInv, [Next]_vars PROVE DatabaseInv'
  OBVIOUS
<1> USE DEF Goto, Serving, DatabaseInv, beside
<1>1. CASE Open \/ SkipFile \/ ApplyFile \/ FilesDone \/ CountUsers \/ SeedRow \/ ApplyFails
  BY <1>1 DEF Open, SkipFile, ApplyFile, FilesDone, CountUsers, SeedRow, ApplyFails, AtFile, Applying
<1>2. CASE StartWorker \/ Listen \/ ListenReturns \/ Stop \/ StopReturns
  BY <1>2 DEF StartWorker, Listen, ListenReturns, Stop, StopReturns
<1>3. CASE Close \/ Exit \/ Crash
  BY <1>3 DEF Close, Exit, Crash, Gone
<1>4. CASE Signal \/ Shutdown \/ WorkerLeaves \/ UNCHANGED vars
  BY <1>4 DEF Signal, Shutdown, WorkerLeaves, vars, process
<1> QED BY <1>1, <1>2, <1>3, <1>4 DEF Next, Main

-----------------------------------------------------------------------------
(* The theorems.                                                           *)

LEMMA Invariant == Spec => []IInv
<1>1. IInv /\ [Next]_vars => IInv'
  BY TypeStep, MigrationStep, SeedStep, DatabaseStep DEF IInv
<1> QED BY InitIInv, <1>1, PTL DEF Spec

\* The process and its tables have their types: no file takes effect but those
\* there are, and no row is seeded but the seed's.
THEOREM TypeCorrect == Spec => []TypeOK
<1>1. IInv => TypeOK
  BY DEF IInv
<1> QED BY Invariant, <1>1, PTL

\* What schema_migrations says is what was done: a version is recorded exactly
\* if its first file, and no other, has taken effect.
THEOREM MigrationsRecorded == Spec => []VersionsTellTables
<1>1. IInv => VersionsTellTables
  BY DEF IInv, MigrationInv
<1> QED BY Invariant, <1>1, PTL

\* No insert of a seed meets a row that an interrupted one left.
THEOREM SeedNeverFails == Spec => []SeedNeverConflicts
<1>1. SeedInv => SeedNeverConflicts
  <2> SUFFICES ASSUME SeedInv, main = "seed", NEW i \in 1..(next - 1), SeedRows[next] = SeedRows[i]
               PROVE  FALSE
    BY DEF SeedInv, SeedNeverConflicts
  <2>1. next \in 1..6 /\ i \in 1..6 /\ i # next
    BY DEF SeedInv
  <2> QED BY <2>1 DEF SeedRows
<1> QED BY Invariant, <1>1, PTL DEF IInv

\* A server that serves has every version of its migrations, and a user.
THEOREM ServesOnlyMigrated == Spec => []ServesMigrated
<1>1. IInv => ServesMigrated
  BY DEF IInv, MigrationInv, SeedInv, ServesMigrated, AllRecorded, Migrated, Serving, Users
<1> QED BY Invariant, <1>1, PTL

\* The connection outlives the worker.
THEOREM WorkerKeepsDatabase == Spec => []WorkerHasDatabase
<1>1. IInv => WorkerHasDatabase
  BY DEF IInv, DatabaseInv, WorkerHasDatabase, Serving
<1> QED BY Invariant, <1>1, PTL

=============================================================================
