------------------------------- MODULE Process -------------------------------
(***************************************************************************)
(* The life of the process: internal/app's Run, with internal/migration's  *)
(* Apply and seed, over a database that outlives it.                       *)
(*                                                                         *)
(* The main goroutine is at one statement of Run at a time.  Beside it run *)
(* the queue's worker, which calls the database until it leaves its loop,  *)
(* and the goroutine that shuts the server down on a signal.  The process  *)
(* may die at any point and be started again.                              *)
(*                                                                         *)
(* A migration's statements and the record of its version are one          *)
(* transaction, hence one step.  A call of the database with the cancelled *)
(* context of a process that was signalled fails.                          *)
(***************************************************************************)
EXTENDS Integers, Sequences

CONSTANTS
  Files,  \* of the .sql files, in the order of their names, the version
  None    \* the name does not start with a number

ASSUME FilesAssumption ==
  /\ Files \in Seq(Int \cup {None})
  /\ None \notin Int

VARIABLES
  versions,   \* schema_migrations
  effects,    \* the files whose statements have taken effect
  rows,       \* the seed's rows that are there
  main,       \* where the main goroutine is
  next,       \* its loop's index: of a file, or of a row of the seed
  signalled,  \* the process was told to stop: ctx is cancelled
  server,     \* the HTTP server
  worker,     \* the queue's goroutine
  closed,     \* the queue's channel is closed
  db          \* the connection is open

database == << versions, effects, rows >>
process  == << main, next, signalled, server, worker, closed, db >>
vars     == << database, process >>

Users == {"u-teacher", "u-student", "u-admin", "u-safety"}

\* Faulty variant: the seed starts with the equipment.
SeedRowsReversed == << "eq-cnc", "mat-al", "u-teacher", "u-student", "u-admin", "u-safety" >>

SeedRows == << "u-teacher", "u-student", "u-admin", "u-safety", "eq-cnc", "mat-al" >>

Seeded == {SeedRows[i] : i \in DOMAIN SeedRows}

Applying  == {"migrate", "count", "seed"}
Serving   == {"listen", "serve"}
Returning == {"stop", "wait", "close"}

TypeOK ==
  /\ versions \subseteq Int
  /\ effects \subseteq DOMAIN Files
  /\ rows \subseteq Seeded
  /\ main \in {"down", "start"} \cup Applying \cup Serving \cup Returning
  /\ next \in Nat
  /\ signalled \in BOOLEAN
  /\ server \in {"new", "listening", "closed"}
  /\ worker \in {"unborn", "running", "done"}
  /\ closed \in BOOLEAN
  /\ db \in BOOLEAN

Init ==
  /\ versions = {} /\ effects = {} /\ rows = {}
  /\ main = "down" /\ next = 1
  /\ signalled = FALSE /\ server = "new"
  /\ worker = "unborn" /\ closed = FALSE /\ db = FALSE

-----------------------------------------------------------------------------
(* Apply and seed.                                                         *)

Goto(m, n) == main' = m /\ next' = n

beside == << signalled, server, worker, closed, db >>

Open ==
  /\ main = "down"
  /\ db' = TRUE
  /\ Goto("migrate", 1)
  /\ UNCHANGED << database, signalled, server, worker, closed >>

AtFile == main = "migrate" /\ next \in DOMAIN Files

\* Faulty variant: it is not noticed that a name has no number.
PendingAny(i) == Files[i] \notin versions

Pending(i) == Files[i] # None /\ Files[i] \notin versions

\* The name has no number, which takes no database to see, or its version is
\* recorded.
Skipped(i) == ~ Pending(i) /\ (signalled => Files[i] = None)

\* Faulty variant: a name without a number ends the loop.
SkipFileAndRest ==
  /\ AtFile /\ Skipped(next)
  /\ IF Files[next] = None THEN Goto("count", 1) ELSE Goto("migrate", next + 1)
  /\ UNCHANGED << database, beside >>

SkipFile ==
  /\ AtFile /\ Skipped(next)
  /\ Goto("migrate", next + 1)
  /\ UNCHANGED << database, beside >>

\* Faulty variant: there is no transaction, so the process may die, or the
\* second statement fail, between the two.
ApplyFileApart ==
  /\ AtFile /\ ~ signalled /\ Pending(next)
  /\ effects' = effects \cup {next}
  /\ \/ versions' = versions \cup {Files[next]} /\ Goto("migrate", next + 1)
     \/ UNCHANGED versions /\ Goto("close", next)
  /\ UNCHANGED << rows, beside >>

ApplyFile ==
  /\ AtFile /\ ~ signalled /\ Pending(next)
  /\ effects' = effects \cup {next}
  /\ versions' = versions \cup {Files[next]}
  /\ Goto("migrate", next + 1)
  /\ UNCHANGED << rows, beside >>

FilesDone ==
  /\ main = "migrate" /\ next \notin DOMAIN Files
  /\ Goto("count", 1)
  /\ UNCHANGED << database, beside >>

CountUsers ==
  /\ main = "count" /\ ~ signalled
  /\ Goto(IF rows \cap Users = {} THEN "seed" ELSE "start", 1)
  /\ UNCHANGED << database, beside >>

\* One insert; it fails if there is such a row.
SeedRow ==
  /\ main = "seed" /\ ~ signalled
  /\ SeedRows[next] \notin rows
  /\ rows' = rows \cup {SeedRows[next]}
  /\ IF next = Len(SeedRows) THEN Goto("start", 1) ELSE Goto("seed", next + 1)
  /\ UNCHANGED << versions, effects, beside >>

\* The database, a file or the signal makes Apply return an error; the
\* transaction it was in, if any, is rolled back.
ApplyFails ==
  /\ main \in Applying
  /\ Goto("close", next)
  /\ UNCHANGED << database, beside >>

-----------------------------------------------------------------------------
(* Serving, and the deferred calls when Run returns.                       *)

\* The queue's worker and the goroutine that waits for the signal start.
StartWorker ==
  /\ main = "start"
  /\ worker' = "running"
  /\ Goto("listen", next)
  /\ UNCHANGED << database, signalled, server, closed, db >>

\* ListenAndServe returns at once when Shutdown came before it, or when the
\* address is taken.
Listen ==
  /\ main = "listen"
  /\ \/ server = "new" /\ server' = "listening" /\ Goto("serve", next)
     \/ Goto("stop", next) /\ UNCHANGED server
  /\ UNCHANGED << database, signalled, worker, closed, db >>

Signal ==
  /\ main # "down" /\ ~ signalled
  /\ signalled' = TRUE
  /\ UNCHANGED << database, main, next, server, worker, closed, db >>

\* Shutdown, by the goroutine that waited for the signal.
Shutdown ==
  /\ signalled /\ main \in Serving /\ server # "closed"
  /\ server' = "closed"
  /\ UNCHANGED << database, main, next, signalled, worker, closed, db >>

\* ListenAndServe does not wait for Shutdown to have drained the server.
ListenReturns ==
  /\ main = "serve" /\ server = "closed"
  /\ Goto("stop", next)
  /\ UNCHANGED << database, beside >>

\* Faulty variant: Stop waits for the worker and does not close the channel.
StopWaitsOnly ==
  /\ main = "stop"
  /\ Goto("wait", next)
  /\ UNCHANGED << database, beside >>

\* q.Stop, the last to be deferred, closes the channel ...
Stop ==
  /\ main = "stop"
  /\ closed' = TRUE
  /\ Goto("wait", next)
  /\ UNCHANGED << database, signalled, server, worker, db >>

\* Faulty variant: Stop does not wait.
StopNoWait ==
  /\ main = "wait"
  /\ Goto("close", next)
  /\ UNCHANGED << database, beside >>

\* ... and waits for the worker.
StopReturns ==
  /\ main = "wait" /\ worker = "done"
  /\ Goto("close", next)
  /\ UNCHANGED << database, beside >>

WorkerLeaves ==
  /\ worker = "running" /\ (signalled \/ closed)
  /\ worker' = "done"
  /\ UNCHANGED << database, main, next, signalled, server, closed, db >>

\* db.Close, the first to be deferred; with it the connection is gone, before
\* the process is.
Close ==
  /\ main = "close" /\ db
  /\ db' = FALSE
  /\ UNCHANGED << database, main, next, signalled, server, worker, closed >>

Gone ==
  /\ Goto("down", 1)
  /\ signalled' = FALSE /\ server' = "new"
  /\ worker' = "unborn" /\ closed' = FALSE /\ db' = FALSE
  /\ UNCHANGED database

Exit == main = "close" /\ ~ db /\ Gone

Crash == main # "down" /\ Gone

Main ==
  \/ SkipFile \/ ApplyFile \/ FilesDone \/ CountUsers \/ SeedRow
  \/ StartWorker \/ Listen \/ ListenReturns
  \/ Stop \/ StopReturns \/ Close \/ Exit

Next ==
  \/ Open \/ Main \/ ApplyFails
  \/ Signal \/ Shutdown \/ WorkerLeaves \/ Crash

Spec == Init /\ [][Next]_vars

\* The goroutines go on: a statement of the database, of a migration too,
\* returns, and so does a job.  A signal need not come.
FairSpec ==
  /\ Spec
  /\ WF_vars(Main \/ ApplyFails) /\ WF_vars(Shutdown) /\ WF_vars(WorkerLeaves)

-----------------------------------------------------------------------------
(* Properties.                                                             *)

\* The first file of its version, as the names are ordered.
First(i) == \A j \in 1..(i - 1) : Files[j] # Files[i]

\* A version is recorded exactly if the statements of its first file, and of
\* no other, have taken effect, wherever the process died.
VersionsTellTables ==
  \A i \in DOMAIN Files :
    i \in effects <=> Files[i] # None /\ Files[i] \in versions /\ First(i)

\* A seed that was interrupted never makes a later start fail: no insert
\* meets a row that is there.
SeedNeverConflicts == main = "seed" => SeedRows[next] \notin rows

\* The process serves no request on a database that lacks the version of a
\* migration file, or that has no user who could log in.
ServesMigrated ==
  main \in {"start"} \cup Serving =>
    /\ \A i \in DOMAIN Files : Files[i] # None => Files[i] \in versions
    /\ rows \cap Users # {}

\* The worker has the database for as long as it runs.
WorkerHasDatabase == worker = "running" => db

\* A process that is told to stop, or cannot listen, ends.
EndsOnceTold == (signalled \/ main = "stop") ~> main = "down"

\* What the README says of the seeded users: a server that serves has them all,
\* with their equipment and material.
ServesSeeded == main = "serve" => rows = Seeded

=============================================================================
