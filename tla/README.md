# Lab Scheduling in TLA+

A formal model of the laboratory scheduling service in this repository: TLA+
modules translated from the Go source, TLC configurations that check them on
small instances, and theorems TLAPS proves for instances of any size.

## The system

The program is one process: an HTTP server whose handlers call a service layer,
which uses SQLite through a pool of **one** connection, and a queue of
background jobs.

| Part | Source | State | Operations |
|---|---|---|---|
| Booking desk | `internal/service/service.go`, `incidents.go`, `internal/repository` | the tables for batches, booking requests, reservations, consumables, maintenance blocks, incidents, audit events; what each request in flight has read | CreateBatch, SubmitBooking, ApproveBooking, Checkout, Return, AddMaintenance, ReportIncident, ResolveIncident, UpdateEquipmentStatus |
| Domain rules | `internal/domain` | none | transitions between statuses, roles, windows, input rules |
| Worker queue | `internal/worker/worker.go`, `registry.go` | a buffered channel, worker goroutines, contexts, the Registry's flag | Start, Submit, run, Stop; Registry Start and Stop |
| Dead letters | `internal/worker/deadletter.go` | a list behind a mutex | Add, List, RunOnce |
| Sessions | `internal/auth`, `internal/repository/users.go`, `recovery.go` | `sessions`; what each Login or Authenticate has read | Login, Authenticate, Logout, RecoverExpiredSessions |
| HTTP server | `internal/httpapi` | the requests being served | login, equipment, batch, booking, reservation, maintenance, behind the middleware |
| Migration and seed | `internal/migration` | `schema_migrations`, what each migration did, the seeded rows | Apply, seed |
| Process life cycle | `internal/app` | where `Run` is, the server, the queue's goroutine, the signal, the connection | start, serve, shutdown |
| Idempotency keys | `internal/service/idempotency.go`, `recovery.go` | a map behind a mutex | Do, Retry |
| Helpers | `internal/service/capacity.go`, `query.go`, `authorization.go`, `repository/pagination.go` | none | CheckCapacity, pages |

**How they interact.** A handler takes the user from the session and calls one
service method. Each method checks what the caller may do, reads rows, runs one
statement or one transaction that changes them, and writes an audit event in a
statement of its own. Since the pool has one connection, a statement or a whole
transaction is atomic against all others; everything *between* two of them is
open to any other request. The rows carry a status and a version, and an update
names both in its `WHERE` clause. The session is looked up once, by the
middleware; the user it finds travels in the request's context. Times are stored
as RFC 3339 text and compared as text. Nothing in the program submits jobs to
the queue yet, nor uses the Registry, dead letters, idempotency keys, incidents
or `UpdateEquipmentStatus` outside tests; those that are modelled are
modelled as what they offer a caller. The process opens the database, migrates and seeds it, starts the queue
and listens; on a signal the listener is shut down and the deferred calls undo
the rest in reverse.

**What is hard.** Decisions made on what was read before a transaction; a
maintenance block and the suspension it causes as two statements; the audit
event after the commit; a cancelled client, a database error or a crash between
any two accesses; a version that a suspension leaves alone; an order of texts
that is not the order of instants; a session that ends between its lookup and the
reading of the clock; a start after a crash in a migration or in the seed; a
signal at any moment of the start; workers that overlap after a restart; jobs in
the channel at a stop, and workers started while it waits; a function that runs under a mutex and may fail. `PROJECT.json` lists each at its line, with the
properties that cover it.

**What makes each part correct.**
Booking desk: a machine is promised to one reservation at a time, and an approval
is refused only for a reason; a request is
approved once, with one reservation; consumables are conserved and follow the
reservation's life; statuses move only along `CanMove`; a blocked slot is not
used; the log is complete without faults and truthful with them.
Worker queue: an accepted job is in one place, given up only for a reason, and
settled before a stop returns; of the workers it started, the Registry controls the
one that is live.
Sessions: nobody is let in by a token that was revoked or expired when it was
presented, and the recovery ends no session before its time. HTTP server: rows
are made in the name of whoever logged in, and an answer of 201 or 202 is true.
Process: a version is recorded exactly if its migration is in effect, a start
never trips over an interrupted one, the worker never outlives the database, and
a process that is told to stop ends. Idempotency: one success per key, and nil
is only answered for one's own payload.

## Modules

| Module | Models | Extends |
|---|---|---|
| `TimeText` | `time.Time` and its RFC 3339 text; the overlap test of the domain and that of the queries | |
| `LabDomain` | roles, statuses, `CanMove`, `ValidateBatch`, `ValidateQuantity` | `TimeText` |
| `Booking` | the booking desk | `LabDomain` |
| `ReservationBook` | abstract: reservations and consumables changed by whole operations | |
| `WorkerQueue` | `Queue` and `Registry` | |
| `JobBoard` | abstract: a line of jobs and the one life of each | |
| `Sessions` | `auth.Service` over the sessions table | |
| `HttpServer` | the server: `Sessions` in front of an instance of `Booking` | `Sessions` |
| `Process` | `Run`, `Apply` and `seed`, over a database that outlives them | |
| `Idempotency` | `Idempotency.Do`, called through `Retry` | |
| `IdempotentKeys` | abstract: keys kept for a payload, in one step with the effect and the answer | |
| `MCBooking`, `MCWorkerQueue`, `MCHttpServer`, `MCProcess`, `MCIdempotency` | constants of the TLC instances | the above |
| `BookingProofs` | the invariants' proofs | `Booking` |
| `BookRefinement` | `Booking` implements `ReservationBook`; sums over finite sets and the stock | `BookingProofs` |
| `AuditProofs` | the audit log and the maintenance blocks | `BookingProofs` |
| `WorkerProofs`, `SessionsProofs`, `ProcessProofs`, `IdempotencyProofs` | the invariants' proofs; `WorkerQueue` implements `JobBoard`, `Idempotency` implements `IdempotentKeys` | their module |
| `HttpProofs` | `HttpServer` implements `Sessions` and `Booking`, and has the desk's theorems from there; the invariants' proofs | `HttpServer`, `SessionsProofs`, an instance of `AuditProofs` |

### Booking

The tables are functions from keys to rows or `None`. A request in flight is a
call `c`; `calls[c]` is a record that says which database access comes next and
what the method keeps in local variables:

| Method | Actions | |
|---|---|---|
| `CreateBatch` | `CreateBatch`, `WriteAudit` | checks and insert, then the event |
| `SubmitBooking` | `SubmitRead`, `SubmitInsert`, `WriteAudit` | the equipment may change status between the first two |
| `ApproveBooking` | `ApproveRead`, `ApproveTx`, `WriteAudit` | keeps the version it read; `CanApprove` is what the transaction needs to commit |
| `Checkout` | `CheckoutRead`, `CheckoutTx`, `WriteAudit` | `CanConsume` is `ConsumeTx`, `ReservationMatches` the `WHERE` clause |
| `Return` | `ReturnRead`, `ReturnTx`, `WriteAudit` | keeps status and version |
| `AddMaintenance` | `AddMaintenance`, `Suspend`, `WriteAudit` | insert, update, event: three statements |
| `ReportIncident` | `ReportIncident`, `Suspend` | no event |
| `ResolveIncident`, `UpdateEquipmentStatus` | one action each | one statement |

`CallFails` ends a call before its next access, as a cancelled context or a
database error does; `Crash` ends all of them. Both are there when the constant
`Faults` is `TRUE`.

What is abstracted: a request the code refuses before it writes anything is not
a step, since it changes nothing; consecutive reads of which the later ones see
only rows that no statement ever changes (a batch, a reservation's window) are
one step, and a read at the head of a method is merged with the checks after it;
`starts_at` and `ends_at` are one window; titles, reasons, severities, details
and time stamps of rows are left out; the versions of `equipment` and
`consumables` are left out, the first because nothing compares it after a delay,
the second because `ConsumeTx` reads and compares it in one transaction. An
event is an action and an entity, so two blocks on one machine share theirs. A
reservation's id is any member of `ResIds`, one in use included, as the clock's
nanoseconds may repeat.

### WorkerQueue

One step is one channel operation, one run of a job, one end of a delay, one
atomic operation of the WaitGroup, or one method of the Registry, which hold its
mutex. `at[w]` is where the goroutine of
worker `w` is in `Queue.Start`'s loop and `run`; a worker is used once, so
`Workers` bounds how often a worker is started. The choice of Go's `select`
between a cancelled context and a job is free. A send on a closed channel and a
second close set `panicked`, after which nothing runs. `Run` starts
one worker by `Queue.Start` itself (`QueueStart`): it is the constant `Direct`,
runs under the parent context, and the Registry neither knows nor can cancel it.
`RegistryStart` starts the others; `OneLiveWorker` speaks of these alone.

`stop` is how far `Queue.Stop` is. The counter of the WaitGroup is the number of
workers between `Spawn` and `Depart`. `Wait` returns at once if it is zero
(`StopWaits`); otherwise the last `Done` makes it zero (`Depart`), takes the waiter
off and wakes it (`DoneWakes`), and `Wait` looks at the counter once more
(`StopReturns`). A worker started in between breaks the WaitGroup's rule: its
`Add` panics before the wake-up, and `Wait` panics after it unless the worker has
left again.

`JobBoard` has no channel, goroutines, contexts or Registry: jobs wait in a line,
are begun from its head, run, and end in one of three ways. The mapping keeps
the queue and the counts of runs, and shows an accepted job as running if a
worker holds it and as waiting if none does. That the queue implements it says
that overlapping generations of workers, cancellations and stops never reorder,
repeat, revive or silently drop a job that was begun.

### Sessions

`auth[c]` is where caller `c` is in `Login` (`Login`, `CreateSession`) or in
`Authenticate` (`Present`, `FindSession`, `CheckExpiry`); between two of these
the clock ticks, tokens are revoked by `Logout` and `RecoverExpiredSessions`,
and others log in. Time is a number, `Day` ticks a day; the program and SQLite
read the same clock. The recovery compares an RFC 3339 text with one of
`datetime('now')`: `PastByText` is what that comparison decides. Two sessions
created at one instant have one id, so the second insert fails. A token stands
for its hash; a user is found with the right password or the login is refused;
nothing changes a user, so `Enabled` is a constant. A `ticket` remembers, for
the properties alone, whether the token was dead when it was presented.

### HttpServer

The composition: `Sessions` is extended and `Booking` instantiated as `Desk`,
with the requests `c` as the callers of both. A request arrives (`Receive`,
`ReceiveLogin`), passes the middleware by the steps of `Sessions`
(`Authenticate`, `Unauthorized`), is taken on by its handler (`HandlePost`, with
the user of its session) and goes on by the steps of the desk (`Serve`), whose
last step answers it. Only an answer of 201 or 202 is kept until `Close`; after
any other the request is gone at once. `HandleReservation` shows that the route
of the reservations has no effect: its pattern matches the bare path alone.
`RequestFails` and `Restart` are the desk's `CallFails` and `Crash`, with the
session's part. Incidents, approvals, check-outs and returns have no route and
stay at rest here; `Booking` alone explores them.

### Process

`main` is the statement of `Run` the main goroutine is at; `next` is its index
into the migration files or the seed's rows. A file is what its name says, a
version or none, and its statements with the record of the version are one
transaction, hence one step. `versions`, `effects` and `rows` are the database
and survive `Crash` and `Exit`. The goroutine that waits for the signal
(`Shutdown`) and the queue's worker (`WorkerLeaves`) run beside `main`.
`ApplyFails` is any error of a statement, also the one a cancelled context
gives.

### Idempotency

`calls[c]` is where a caller is in `Retry` and `Do`. The mutex is held from the
lookup to the return of the function, so a lookup that decides the call is one
step (`Enter`) and what follows is several, under `mutex = c`. The function
(`Run`) succeeds, fails before its effect or fails after it. `Restart` loses the
map and keeps the effects.

`IdempotentKeys` has no mutex, retries or delays: the key, the effect and the
answer come in one step. The mapping shows a call that is looking up, running or
waiting as asking, and one whose function has succeeded as answered already,
with its key kept, though the map does not have it yet. A try that fails may
slip its effect in, but under no key that is kept.

## What TLC checks

| Run | Instance | Shows |
|---|---|---|
| `booking_core` | 3 calls, a student and an admin, 1 batch, 2 requests, 2 reservation ids, 1 block, 3 windows (two overlap, one touches), no faults | `TypeOK`, `NoDoubleBooking`, `RefusedForAReason`, `ApprovedOnce`, `AuditComplete`, `BlockedSlotNotInUse` |
| `booking_faults` | 2 calls, a teacher and an admin, 1 of each row, 2 consumables, 2 windows, quantities 0 and 2, student counts 0 and 1, equipment ready or offline, faults | `StockConserved`, `LedgerFollowsStatus`, `SingleIssue`, `AuditTruthful`, `StatusFollowsCanMove`, `ImplementsBook` |
| `booking_live` | 2 calls, 1 of each row, no faults, fairness | `BlockClears` |
| `worker` | 3 jobs, a channel of 2, 2 attempts, 3 workers (the one `Run` starts, two of the Registry's), fairness | `TypeOK`, `OnePlace`, `GivenUpForAReason`, `OneLiveWorker`, `StopDrains`, `StopEnds`, `JobsSettle`, `ImplementsBoard` |
| `http_server` | 2 requests, 2 tokens, a teacher, a student who is disabled, an admin, sessions of one tick, days of two, 1 of each row, faults | `WebTypeOK`, `NoDeadSession`, `RowsAuthorised`, `DoneIsDone`, `RecoverySpares` |
| `process` | 4 files: version 1, no version, 2, and 1 again; fairness | `TypeOK`, `VersionsTellTables`, `SeedNeverConflicts`, `ServesMigrated`, `WorkerHasDatabase`, `EndsOnceTold` |
| `idempotency` | 2 callers, 2 keys and none, 2 payloads, 2 attempts, fairness | `TypeOK`, `OnceByKey`, `NilMeansDone`, `CallsEnd`, `ImplementsPromise` |

and, each a disagreement between the code and what the repository says of it:

| Run | Property | Says it | The code |
|---|---|---|---|
| `booking_zones` | `NoDoubleBooking` | `types.go:94`, `TestApproveRejectsConflict` | compares the text of the times (`equipment.go:56`): windows that overlap, written in two zones, are both approved |
| `booking_capacity` | `CapacityRespected` | `README.md:16` | `ApproveBooking` never reads the capacity |
| `booking_audit_lost` | `ApprovalLogged` | `README.md:16` | the event is written after the commit, and may never be |
| `booking_block_lost` | `BlockSuspends` | `TestMaintenanceSuspendsReservations` | the block and the suspension are two statements |
| `process_seed` | `ServesSeeded` | `README.md:12` | the seed is six inserts without a transaction, run only when there is no user: after a crash between them the server serves without the rest, for good |

**Bounds.** Nothing in the model counts without limit: ids are used once, a
reservation's version stops at 3 and a request's at 2, so the state spaces are
finite without a constraint. Two requests for one machine with overlapping
windows are what a conflict needs, and a third call lets a block or a second
approval in between two others. Three units of stock and quantities of two make
the second check-out fail on the last of a consumable. The windows touch as well
as overlap. The clock reads before the windows and late enough to refuse them.
Three workers are the one that `Run` starts, one of the Registry's and its
restart, all of which may be at work at once; two attempts are one retry; three jobs fill a
channel of two. Two tokens are a session that ends and one that takes its place;
the clock passes an expiry and a change of date. Two requests for the same row
make one of them fail; the machine's windows do not matter to the server, so
there is one. Four files are every case of the loop: a first file, one that is
skipped, a second, a second file of one version. Two callers with two payloads
and two keys are a repetition, a misuse and independence; `good` counts to two,
which is more than once. The runs that pass fire every action; calls, and
reservation ids, are interchangeable, as are tokens, and the safety runs use
that symmetry. `CHECK_DEADLOCK FALSE` is said of the worker's run alone: the
queue does end, when Stop has returned or the process died.

**Fairness.** `Booking`'s `FairSpec` has `WF(Continue(c))`: a handler that has
started goes on to its next database access, which the one connection grants in
turn. No request has to arrive. `WorkerQueue`'s `FairSpec` has weak fairness of
each worker's goroutine and of the steps of Stop once it has closed the channel: the Go scheduler runs
what can run, a delay is 25 ms times the attempt, and a job is assumed to
return; nothing obliges anyone to start, stop or cancel. `Process`'s `FairSpec` has weak
fairness of the three goroutines: statements, `Shutdown` and jobs return; no
start, signal or crash has to happen. `Idempotency`'s `FairSpec` has weak
fairness of a caller's own steps and strong fairness of its lookup, which waits
for the mutex: others may take it in turn, but Go's `sync.Mutex` hands itself to
a waiter after a millisecond.

## What TLAPS proves

The constants have only the assumptions named in the modules. `Booking`: roles
are roles, capacities, quotas and counts are numbers, windows are made of
stamps, `None` is no row, and the ids of reservations, which are made of the
clock's nanoseconds in an `int64`, are finitely many. `WorkerQueue`: size and attempts are positive, as
`New` makes them. `Sessions`: the enabled users are users, the length of a
session is a number, of either sign. `HttpServer`: all of `Booking`'s, since it has an instance of it.
`Process`: a file has a version or none. `Idempotency`: the empty key is no
other key, attempts are positive. The runs evaluate them.

| Theorem | Statement |
|---|---|
| `TypeCorrect` | `Spec => []TypeOK` |
| `StatusesFollowCanMove` | `Spec => StatusFollowsCanMove` |
| `NoTextOverlap` | `Spec => []TextDisjoint`: active reservations of one machine do not overlap as the queries see it |
| `CanonicalNoDoubleBooking`, `OneZoneNoDoubleBooking` | if all windows are whole seconds of UTC, or all are given at one offset other than UTC's, fractions of seconds included: `Spec => []NoDoubleBooking` |
| `CanonicalRefusals` | if all windows are whole seconds of UTC: `Spec => []RefusedForAReason` |
| `ApprovedExactlyOnce` | `Spec => []ApprovedOnce` |
| `LedgerCorrect`, `IssuedOnce` | `Spec => []LedgerFollowsStatus`, `Spec => []SingleIssue` |
| `DeskImplementsBook` | `Spec => ImplementsBook` |
| `StockKept` | `Spec => []StockConserved` |
| `LogTruthful` | `Spec => []AuditTruthful` |
| `LogComplete`, `BlockedSlotKeptClear` | if `~ Faults`: `Spec => []AuditComplete`, `Spec => []BlockedSlotNotInUse` |
| `QueueImplementsBoard` | `WorkerQueue`: `Spec => ImplementsBoard` |
| `RegistryControls`, `JobsGivenUpForAReason`, `JobsHaveOnePlace`, `StopDrainsQueue` | `WorkerQueue`: `[]OneLiveWorker`, `[]GivenUpForAReason`, `[]OnePlace`, `[]StopDrains` |
| `NobodyUnderDeadSession`, `RecoveryEndsNoLiveSession` | `Sessions`: `[](AuthTypeOK /\ NoDeadSession)`, `RecoverySpares` |
| `ServerUsesSessions`, `ServerUsesDesk` | `WebSpec => AuthSpec`, `WebSpec => Desk!Spec` |
| `WebTypeCorrect` | `WebSpec => []WebTypeOK`, the desk's types included |
| `ServerLogTruthful`, `ServerLogComplete` | `WebSpec => []Desk!AuditTruthful`; if `~ Faults`, `WebSpec => []Desk!AuditComplete` |
| `ServesNoDeadSession`, `ServerRecoverySpares` | the same two properties of the server |
| `RowsMadeByUsers`, `AnswersAreTrue` | `WebSpec => []RowsAuthorised`, `WebSpec => []DoneIsDone` |
| `MigrationsRecorded`, `SeedNeverFails`, `ServesOnlyMigrated`, `WorkerKeepsDatabase` | `Process`: `[]VersionsTellTables`, `[]SeedNeverConflicts`, `[]ServesMigrated`, `[]WorkerHasDatabase` |
| `CallsImplementPromise` | `Idempotency`: `Spec => ImplementsPromise` |
| `EffectOncePerKey`, `NilIsTrue` | `Idempotency`: `[]OnceByKey`, `[]NilMeansDone` |
| `TypeCorrect` of `WorkerProofs`, `ProcessProofs`, `IdempotencyProofs` | `Spec => []TypeOK` of each |

- **The type invariant is not inductive alone.** A transaction writes to a row
  its call read earlier. `CallsOK` says what a call may rely on of that read:
  the row still exists, the quantity is positive, the status is one a return may
  start from. It holds because no statement deletes a row (`RowsKept`).
  `TypeInv == TypeOK /\ CallsOK` is inductive, and every other proof uses it.
- **Statuses** follow from a lemma per table, `RowStep` and `BookingStep`, on
  what any step does to one row; the other proofs use these instead of going
  through the actions again.
- **No overlap.** A step adds at most one active reservation, and a reservation
  that is active after a step and existed before was active before, with the
  same machine and window. So only `NewRow` can break `TextDisjoint`, and its
  guard, `HasConflict`, is the condition. `CanonicalOverlap` then shows that
  texts and instants sort alike for whole seconds of UTC; `booking_zones` shows
  that the hypothesis is needed. `OneZoneNoDoubleBooking` is the other case: at
  an offset a text without a fraction goes on with a sign, which sorts below the
  point and the digits of a fraction, where the `Z` of UTC sorts above them
  (`FormOrder`, `ZoneOrder`); so fractions do no harm there.
- **Refusals.** `NoDoubleBooking` would hold of a query that refuses too much.
  `RefusedForAReason` is the other side: a refused approval has a decision, an id
  or an instant against it. `ReadFresh` says that a request which is still pending
  has the version its call read, so that the version is never the reason; a pending
  request has no reservation by `OnceInv`; the rest is `CanonicalOverlap`.
- **Approved once.** `OnceInv` takes the count apart: a reservation's request is
  approved, two reservations never share one, an approved request has one.
- **The ledger.** `VersionsCount` says what the versions tell: 1 for held, 2 for
  checked out, either for suspended. A stale check-out therefore cannot match a
  reservation that already has something out. `LedgerInv` has it with both
  properties, which need each other.
- **Refinement.** Each of the five steps that change what the book shows is one
  of its operations (`ApproveReserves`, `CheckoutChecksOut`, `ReturnGivesBack`,
  `SuspendSuspends`, `MaintenanceCloses`); all others leave it alone.
- **The stock.** `StockConserved` is a sum over the reservations. That a sum
  over a finite set is what its recursive definition says, is a number, changes
  by what one summand changes by and is zero where all are, is proved first
  (`SumsIs` to `SumZero`). Each is a statement about *all* subsets of a finite
  set, shown by a counterexample of least cardinality (`LeastNat`), which needs
  no induction theorem with an operator for a parameter. Only check-out and
  return then move anything, the same amount on both sides (`StockStep`).
- **The log.** A call owes an event from its commit on, so the invariant says
  that whatever is owed has happened (`TruthInv`). What has happened keeps
  showing: rows stay, and a version never goes back (`VersionStep`), which tells
  a reservation that was checked out from one suspended before. Where nothing
  fails, a call that has committed can only go on (`CommittedStep`), so that
  what is owed is written, and a block whose call is at its suspension gets it.
- **The queue.** `PlaceInv` says `OnePlace` without counting: the entries of the
  channel differ, no two workers hold one job, no job is in both, and the
  accepted jobs are those in either. The cardinalities follow at the end.
  `TryInv` bounds the attempts a worker has left. `DrainInv` says
  that a worker which left without being cancelled found the channel closed and
  empty, and that nothing is sent to it afterwards. For the board, a step that
  leaves the other jobs' fate and holders alone moves one job (`OneMoves`); each
  step of a worker is one of its moves or none (`BoardStep`). `WaitInv`, that a
  worker delays only after a run, is what `GiveUp` asks for.
- **Sessions.** A row once issued keeps its user and its expiry. A caller whose
  token was dead when presented either still faces a row that is dead, at the
  query, or has read an expiry the clock has passed, which the check refuses
  (`CallerOK`).
- **The server** needs no invariant of its own for what it inherits: each of its
  steps is one of the sessions or leaves them alone, and the same of the desk.
  By `ServerUsesDesk` every theorem about the desk holds of the server: `HttpProofs`
  instantiates `AuditProofs` with the server's constants and variables, discharges
  its assumptions (`DeskAssumptions`) and carries three theorems over. For its
  own two properties `RequestOK` says of each request what the desk has done for
  it and has left to do, in the name of the user of its session; no step of
  another request undoes that (`Lasting`, `StepsApart`).
- **The process.** What is recorded and what is in effect change in one step;
  the files before `next` are all recorded; the rows present are a prefix of the
  seed while it runs, so none is met twice; a worker runs only from the start of
  serving to the return of Stop, and the connection is open all that time. What
  `ServesOnlyMigrated` says is that every *version* is on record: of two files of
  one version the second never takes effect, as `MigrationsRecorded` has it.
- **Idempotency.** Whoever is between lookup and return holds the mutex and
  found nothing under its key; a key with a success is either stored or held by
  the caller about to store it. So at most one call is between success and store,
  which makes the mapping to `IdempotentKeys` a function of the state (`KeptIs`),
  and a function that runs finds its key free (`RunsFree`), whether it will
  succeed or fail.

**Only model-checked:** the liveness properties, `BlockClears`, `StopEnds`,
`JobsSettle`, `EndsOnceTold` and `CallsEnd`, which are out of the prover's reach,
as is whatever needs `ENABLED`. Every safety property of the passing runs is a
theorem, `NoDoubleBooking` under either of its two hypotheses, `RefusedForAReason`
under the first. `NoTextOverlap` is the part that needs none, and it speaks of the
order of the texts only. `LogComplete`
and `BlockedSlotKeptClear` are false with faults, as `booking_audit_lost` and
`booking_block_lost` show.

## Not modelled

Dead letters (an unused list); the table of idempotency records, whose three
statements nothing calls, so that no order of them could be taken from the
source; decoding, headers and the choice of an error's status; configuration,
logging and request ids; pages; and the pure helpers nobody calls (`policy.go`,
`authorization.go`, `CheckCapacity`, `Recovery.Run`). The grace period of
`Shutdown` is not a state of `Process`: handlers that are still at work when the
database is closed fail at their next access, which is `CallFails` of the desk
and `RequestFails` of the server.

## Plan

Done: the booking desk with its abstract book; the worker queue; sessions, the
server that composes them with the desk, the process with migration and seed,
the idempotency keys; the runs and proofs above.

Left:

1. `BookingTx`: the connection pool and the statements inside a transaction as
   steps, shown to implement the atomic transactions of `Booking`.
2. The composition of the idempotency keys with an approval, for a retry after a
   lost answer, once a handler uses them.
