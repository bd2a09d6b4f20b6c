# Sozan2: models, model checking and proofs

Sozan2 is a local-first tutoring workspace. Every device keeps a full working
copy in IndexedDB and an outbox of mutations; a Cloudflare Worker with a D1
database keeps the shared copy. This directory holds TLA+ models of the parts of
the program whose correctness is hard to test, the TLC configurations that check
them on small instances, and TLAPS proofs of the results that matter for every
instance.

Paths below are relative to the repository root; `engine.ts` is
`src/client/sync/engine.ts`, `routes.ts` is `src/server/sync/routes.ts`.

## 1. Inventory

### Components and their state

| Component | State it keeps | Operations | Made correct by |
|---|---|---|---|
| Workspace revision and write lease (`server/sync/workspace-revision.ts`) | one row per workspace: revision, writer token, lease start | reserve, acquire, finalize, abort, stable read, recovery of a lease older than ten minutes | one writer per base revision; a revision names one state of the data; readers end |
| Push and snapshot protocol (`engine.ts`, `outbox.ts`, `routes.ts`) | outbox rows, cloud link with `serverRevision`, idempotency keys | enqueue, push, settle results, pull, retry or discard a dead letter | no edit lost or applied twice; order of edits; devices converge |
| Sync handlers (`server/sync/*.sync.ts`) | business tables | one per mutation | each is safe to repeat after it died half way |
| Receipts and allocation (`modules/finance`, `finance.sync.ts`, `finance.gateway.ts`, `financial-reconcile.ts`) | receipts, allocations | collect, update, delete, restore, rebuild, reconcile | a receipt never allocates more than its value; an obligation is never overpaid; reallocation is deterministic |
| Package billing (`billing.service.ts`, `tutoring-billing.repository.ts`, `attendance-*.ts`) | plans, cycles, cycle positions | configure, record a completed lesson, renumber on reopen | every completed lesson counts once; cycles never overflow |
| Family billing (`family-billing.ts`) | accounts, members, family cycles | reconcile, list obligations | status follows members' cycles and the money |
| Attendance and occurrences (`occurrences.service.ts`, `tutoring.sync.ts`) | occurrences, attendance, snapshots | complete, cancel, restore, reschedule, reopen | completed lessons change only by reopen |
| Sessions and schedule (`sessions.service.ts`, `schedule-conflict.ts`) | recurring sessions, members | create, update, archive | no conflicting slots |
| Students (`student-lifecycle.ts`) | students | create, update, archive, restore | history survives an archive |
| Appointments (`modules/appointments`) | appointments, clients | create, update, status | completion needs a past date, reopen is explicit |
| Backup and import (`server/backup/routes.ts`, `client/backup`) | import job, restored tables | export, begin, batch, complete, fail, resume | all or nothing, one import per payload |
| Cloud link (`link-workflow.ts`) | cloud link, upload stage | upload, link, clear outbox, resume | no local change lost by linking |
| Workspace operation mutex (`workspace-operation.ts`) | the operation under way, in the tab's memory | begin (or `WORKSPACE_OPERATION_BUSY`), wait until free, release | sync, import, resumed upload and promotion do not overlap in a tab (linking does not ask) |
| Local commands (`client/tutoring`, `client/finance`, IndexedDB adapters) | the device's copy | one transaction per command | rows and outbox change together |
| Activity and undo (`local-activity.ts`, `undo.ts`) | activity events | record, undo | an event is undone once |
| Accounts (`server/auth`, `platform/auth`) | users, sessions, rate limit windows | register, login, logout, recovery | expired or revoked sessions do not authorise |
| Sozan1 migration (`server/migration`) | migrated rows, marks of the attempt, opening balance | apply, reconcile, apply again | an interrupted import ends as an undisturbed one; totals agree with the source |
| Forecast and due amounts (`monthly-forecast.ts`, `insights.ts`, `student-finance.ts`) | none of their own | value the month's lessons, play packages forward, sum what is due | a lesson recorded as planned changes neither the forecast nor the sum |
| Other reports, planner, platform catalogues, screens, service worker | none of their own, or presentation | | |

### How they interact

A screen calls a local command. The command changes the device's rows and adds
an outbox row in one IndexedDB transaction. A sync run, serialised with imports
by the operation mutex of the tab, posts every waiting outbox row to
the push route, settles each result in the outbox, and only when nothing waits
fetches a snapshot and replaces the device's business rows by it. On the server
the push route takes the write lease of the workspace, runs one handler per
mutation and after each tutoring mutation the financial reconciliation, marks the
idempotency key and finally advances the revision and gives the lease back.
Snapshots and exports are stable reads: they are retried until no write fell
into them. Imports and restores take the same lease.

### What is hard

* **Interleaving.** D1 has no transaction around a request: between any two
  statements another worker runs. The lease is all that separates them, and it is
  taken away after ten minutes whether or not its owner still lives.
* **Failure.** A worker, a tab or a connection may be gone after any statement;
  the mutation is then sent again, and its handler runs again over what the first
  run left behind.
* **Order.** Mutations of one device are made in an order the server must keep,
  while some fail for the moment and others for good.
* **Staleness.** A device decides on what it read before an await: that nothing
  waits, that it knows the current revision.

* **Tabs.** The tabs of a browser share the rows, the outbox and the link record;
  the mutex is each tab's own.
* **Two implementations.** The device and the server each decide what an edit
  does: which sessions an archived student leaves, which package a lesson counts
  in, which receipt pays for it. Nothing but the code keeps them alike.
* **Two dates.** The device judges by its own clock whether a day has come, the
  server by the workspace's time zone, which is always Europe/London.

`PROJECT.json` lists each such hazard at its line with the properties that
cover it, or why none does.

## 2. Plan

The order was: the ground (`WorkspaceLease`), the protocol on it (`SyncProtocol`
under its abstract promise `SyncLedger`), the money on the server
(`ReceiptAllocation`), the packages (`PackageBilling` under `LessonLedger`), the
workspace as a whole (`CloudWorkspace`), and then the device: its rows
(`LocalRows`), its lessons (`LessonCalendar` with `MonthlyForecast` on top) and
its money (`LocalMoney`); last the import from the old program (`Sozan1Import`). All
of that is written and checked.

Left, in this order:

1. Proofs. `PackageBilling`: `AttendanceIsCharged` for any number of lessons and
   workers; `LessonCalendar`: `ServerAgrees`, as it is proved
   of `LocalRows`; `LocalMoney`: `ShownIsOwed`, along the lines of
   `ReceiptAllocationProofs`. No module declares a RECURSIVE operator, so all of
   them can be proved about.
2. The accounts (session expiry, recovery codes, the rate limit's window).

## 3. The modules

| Module | What it is |
|---|---|
| `WorkspaceLease` | the revision row and write lease, one D1 statement per step |
| `SyncLedger` | abstract: what a change may go through, with no network in sight |
| `SyncProtocol` | devices, network and push and snapshot routes; implements `SyncLedger` |
| `ReceiptAllocation` | receipts, allocations, obligations on the server; one statement per step |
| `LessonLedger` | abstract: a lesson is charged while it is held, to each student once |
| `PackageBilling` | lessons, sessions, students, packages and family cycles on the server; one statement per step; implements `LessonLedger` |
| `CloudWorkspace` | linking, promotion, import, upload and sync of a whole workspace |
| `LocalRows` | finance entries, students, sessions, clients, appointments, activity and undo on the device, and their handlers on the server |
| `LessonCalendar` | the week's lessons on the device and the handlers that replay them |
| `MonthlyForecast` | extends `LessonCalendar`: the month's earnings and dues |
| `LocalMoney` | receipts, allocations and statuses on the device; one IndexedDB transaction per step |
| `Sozan1Import` | the import of an export of the old program, repeated and reconciled |
| `WorkspaceLeaseProofs`, `SyncProtocolProofs`, `ReceiptAllocationProofs`, `PackageBillingProofs`, `Sozan1ImportProofs`, `CloudWorkspaceProofs`, `LocalRowsProofs` | theorems and their proofs |
| `ReceiptAllocationInvariants` | the inductive invariants of `ReceiptAllocation`, beside which the proofs stand |
| `FoldTheorems` | what a fold over a sequence computes, step by step, for any step, and what a sum over a finite set does |
| `MC...` | instances for TLC |

How they stand on each other. `WorkspaceLease` justifies what all others assume:
a push or an import has the tables to itself and a snapshot is one step.
`SyncProtocol` justifies that `LocalRows` and `LessonCalendar` take a push with
its settlement as one step and a queue in order: its faults are checked there
with abstract contents, and theirs is the question what the contents become.
`PackageBilling` has each handler of `LessonCalendar` statement by statement.
`ReceiptAllocation` is the money over the cycles of `PackageBilling`, `LocalMoney`
over those of `LessonCalendar`.

**WorkspaceLease.** `revision`, `writerToken` and `leaseAge` are the columns of
`core_workspace_sync_revisions`; `data` says who wrote each part of the business
tables last. A request walks through `pc`: a read of the revision row is
`RecoverStale` (the UPDATE) and then the SELECT that belongs to it (`Acquire`,
`Reserve`, `Recheck`, `Confirm`, `ReadBefore`, `ReadAfter`), the compare-and-swap
is a step of its own, and so are writing, finalizing and aborting. Pushes,
imports and guarded writes differ in what they do after a failure: an import is
one batch and may abort its lease, a push may write part of its work and still
finalizes. A worker may crash before any statement. Time is one bit: `LeaseAges`
makes the held lease ten minutes old. With `Overrun = FALSE` that happens only to
a lease whose request is gone; with `Overrun = TRUE` to any.

**SyncProtocol.** `step` is the place of a device in `runWorkspaceSyncUnlocked`;
each await of the code is a boundary between two actions, so edits by the user
fall in between, as they do in the program. `req` holds the requests being
served, more than one at a time and also after their client has given up. The
server side is `CheckCompleted`, `ReservePush`, then for each mutation
`SkipDuplicate` or `RunHandler` and `MarkDone` or `HandlerFails`, then
`FinalizePush` and `ConfirmPush`; a batch in which everything is a duplicate is
answered without the lease. Handlers are abstracted to "the effect of this
mutation is in the tables". Faults: a lost response, a handler that fails for the
moment, a worker that dies, a tab that is closed, a dead letter put back.

**ReceiptAllocation.** The handlers of `finance.sync.ts` and the reconciliation
of `financial-reconcile.ts` are sequences of tasks, and a task is one statement
or one loop over rows that are read when the loop starts; actions execute the
first task of the sequence. `CreateTasks` to `ConfigureTasks` are the handlers,
`Rebuild`, `Reconcile`, `Collect`, `List`, `Allocate`, `NormalizeCycle` the
functions they share. `run` is the handler at work: its mutation, the tasks left
(`todo`), the receipts being collected (`queue`) and the place in that loop (`step`),
the cycles being brought up to date, the students the hook has still to reconcile,
and, of the receipt being collected, the money `left` and the obligations `ahead`.
A worker may die between any two statements; its mutation
is sent again, maybe after others of other devices. Obligations are numbered by
their due date; a cycle's lessons but the last are left out. Three ghosts name what
the code does not repair: `revived`, the payers one of whose receipts was restored;
`behind`, the students whose rebuild a dead worker left undone (until the next one);
`halfway`, the students a reopened lesson left money behind for.

**PackageBilling.** A worker takes one mutation and is at one place (`job[w].pc`)
of one handler: `BeginComplete`, `Look` and `Attend` are
`OccurrencesService.complete`, per student `FindLink` to `AddToCycle` are
`BillingService.recordCompletedOccurrence` with its read, its check and its
guarded insert as separate statements, `BeginReopen` to `Unattend` are
`reopenCompletedOccurrence`: the packages are read with their opening progress, and
for each of them the places are shifted, the links read (`ReadPlaces`), and the rows
that were read numbered one by one, from the opening progress read at first; `ReadFamily` to `SettleFamilyCycle` the
reconciliation of the family, `NormalizeCycles` the hook. A statement may fail
and a worker may die; a worker that outlived its lease works on beside the next
(`MaxOverlaps`). History variables name what the code does not repair, and the
properties exempt exactly that: `torn` (cycles whose renumbering was cut off, or
disturbed by a worker that renumbered the same package for another lesson or changed
its opening progress), `halted` (a cut-off mutation whose repetition was refused or
had nothing left to do), `orphaned` (a student left the session, or was configured
to pay per lesson, before the repetition charged them),
`raced` (the lessons two workers handled at once), and `Disturbed` (an overlap and
an unfinished mutation both happened).

**CloudWorkspace.** A member of `Tabs` is a place a workflow may run, `Window` the
browser tab it belongs to. The places of one window share its mutex (`Free`), which
synchronisation, import, resumed upload and promotion hold, and its snapshot of the
link record (`seen`); `linkExistingLocalWorkspaceToCloud` takes no mutex
(`StartLink`), so a window can run a link beside another workflow.
`tab[t].run.pc` is the place between two awaits. The timer's synchronisation writes the link
record without redrawing the screens; an import that waits for the mutex (up to 15
seconds) is modelled from when it has it, with the snapshot it has then. The server's `job` is both a request and the
row of the import journal; `history` has the contents at every revision. Faults:
a closed tab, a dead worker, a lost request or response, a failed local
transaction. Exempt by name: `replaced` (local edits an import replaces on
purpose), `uncarried` (edits made while a backup is uploaded, which clearing the
outbox forgets), `clobbered` (overwritten by a restore that lands late),
`overtaken` (rows a pull stripped and an upload then publishes without); and for
the imported file, `overlapped` (a link ran beside another workflow) and
`UploadPending` (a later import fails on the device while this one waits for its
upload, and makes the link ready: `import-workflow.ts`:42).

**LocalRows.** `device`, `server` and `outbox`; a command of tab b is a read with its
guards (`cmd[b].step = "write"`) and then `Write(b)`, one transaction with the row, the
activity event and the two mutations; between the two the other tab's commands and
pulls run. An undo is a compensating command and then
`MarkActivityUndone`. An appointment's day has come by the device's date, by the
workspace's, by both or by neither (`due`, a set of sides, fixed for a behaviour as
dates are not what moves here). `Refusal` and `Effect` are the server's handlers, as they
decide on the server's rows; `Handled` is one mutation of a push, `Replay` the
queue, one after the other. `doubtful` has the rows
whose agreement nothing in the code promises: overtaken by a pull or by another tab
between a read and its write (`stale`), of an appointment completed before the
workspace's date (`Early`), touched by a dead letter, or resting on such rows. One
synchronisation of a device runs at a time.

**LessonCalendar, MonthlyForecast.** A lesson has a row only when something
happened to it, keyed by session and original day. `screen` is what the tab last
drew; a command starts from an entry of it and finds its row as the code does
(`Match`). Recording is one transaction; cancelling, moving, restoring and
reopening are two, with the other tab or a synchronisation between them. `today` is
the device's date, by which it lets a lesson be recorded, and `workspaceToday` the
server's (`CompleteRefusal`); `setup.east` says whose midnight comes first, and
`NextDay` is one of the two. A lesson recorded in the hours between is `doubtful`.
`MonthlyForecast` computes the forecast of the same rows with its own arithmetic;
its two properties compare the forecast before and after a lesson is recorded.

**LocalMoney.** A command commits its rows and then owes jobs: per payer a
rebuild, a rebalance or the family's cycles, each a read transaction and a write
of what was computed from it (`task`, `seen`). `need[p]` is the job the commands so
far call for and no job has done since; `crossed` has the payers for whom a job
wrote from rows that had changed meanwhile.

**Sozan1Import.** `Tables(f)` is what a file becomes: per table of the code a
function from row ids to rows, computed as `importSozan1` does from the normalised
export. A request works through the tables, row by row in any order
(`Insert` with the trigger of the allocations, `Aborted` when it refuses), sets the
settings, marks the migration as completed (`MarkCompleted`), compares (`Check`) and
takes the mark away (`Unverify`). It may die before any of these; the next request
is let in by `TargetReady`. `Insert` is INSERT OR IGNORE with all the tables ask: a
row is left out when its id is there or another has its day, number or position
(`Taken`), and the statement fails when a row it refers to is missing (`Parents`).
Between requests the user works on what has arrived: expenses, a lesson reopened or
completed, a student archived, each handler as a whole with the hook after it
(`Reopen`, `Complete`, `Archive`, `Settle`); what the hook allots and which full
packages it finds paid is any choice the tables allow. Rows such work writes are `own`,
receipts whose allocations it changed `reallotted`. Other handlers (plans, cancelled
and moved lessons, receipts) are left out. Batches
of 50 statements are taken as batches of one row: a file small enough for one
batch leaves fewer of these prefixes behind. `tried`, `last` and `unchecked` are
history.

Nothing in the modules is smaller than the code on purpose except where the
comment at their head says so.

## 4. The runs

| Run | Instance | Shows |
|---|---|---|
| `lease_snapshots` | a push, an import, two readers, two parts, no overrun | snapshots of one revision are equal; a writer starts from what its base showed; writes hold the lease |
| `lease_overrun` | a push, a guarded write, a reader, overrun, fairness | one writer per base, writes are never hidden behind an old revision, every request ends |
| `sync_ledger` | one device, two edits, two requests, three faults of any kind | nothing is forgotten; order is kept unless a failure was reported; the protocol implements `SyncLedger` |
| `sync_convergence` | two devices, two edits, a refusable one, a crash, fairness | devices end with the server's contents and nothing waiting |
| `receipts_corrections` | two students and a family, a lesson at two prices, a cycle, a cycle with opening progress, a family cycle, two receipts at two amounts and dates, four mutations of any kind, one crash in any of them | nothing is overpaid, money ends where the interval definition of oldest-first allocation puts it, lies on what is owed, is not left over beside debts, cycles say whether they are paid, no tutoring mutation is refused |
| `billing` | four workspaces: two students of a family, two lessons, a half-used package, three mutations of any kind and one failure, or two mutations with an overlap and a failure; one student, the last place of a package, two workers at once, four mutations, or three and a failure | no place is given twice, no lesson charged twice, no gap, statuses tell progress, attendance is charged, the family follows its members, handlers take the steps of `LessonLedger` |
| `cloud_upload` | one window with two places, one edit, a file, two imports, another device's change, two faults (a link beside another workflow is one) | the import journal tells the truth, edits survive, "ready" means uploaded |
| `local_rows` | two tabs, seven desks of rows, three commands begun, one foreign change, one retried dead letter | the server agrees with the device and refuses nothing, collections keep their client, undone means compensated |
| `lesson_calendar` | one session over three days in six billing set-ups, the device east or west of the workspace, three commands in half of the set-ups and two in the others, one foreign change | device and server agree on lessons and packages; places follow lessons; forecasts hold |
| `local_money` | two students, two lessons, two receipts, six set-ups, two tabs in two of them | money fits, is settled, and is shown as it is owed |
| `migration` | five exports of a course, of its next week and of a group, two requests, a death, two edits in between | an import that stands as completed is what one undisturbed request leaves, to the penny, and packages carry on |
| `sync_pull` | one device, one edit | expected to be violated; section 7 |

Bounds and why they are enough. Two readers are what `RevisionIdentifiesData`
compares, two parts are what can be torn between; two writers can race for one
base and further ones only repeat it (the theorems of section 6 hold for any
number). Two attempts of a stable read make both the retry and the giving-up
happen. In the protocol, two edits are an order, one refusable edit is a dead
letter, two requests are a retry that overlaps its first try. In
`ReceiptAllocation` four mutations are two receipts, a lesson and a correction, or
a receipt and a lesson completed, reopened and completed again at another price;
amounts 1 and 2 against prices 1 and 2 give a receipt that pays exactly, in part,
or more than one obligation. In `PackageBilling` packages have two places, one
taken, so that one lesson fills one and the next opens another; three mutations
are a completion, what disturbs it and its repetition or reversal; `overlapping`
and `crashing` let an overlap and a failure meet, which is what the exemptions of
its properties turned on. A workspace of
one edit, one file and one foreign change is as much as two uploads can disagree
about, and two faults are a lost answer and a link beside it; `AtomicRows = 2` puts the limit of one batch within reach. The desks of
`local_rows` group the rows that meet in a guard; three commands are an edit, its
undo and something between, or two tabs and what one of them built on; a command
begun and never written counts too. Three days have a past, a present and a future lesson
of one weekly session, and two dates that differ for a while each night. In `local_money` a package is worth more than a lesson and
a large receipt more than a package. The exports of `migration` have each kind of row
once, and two where rows are merged; two requests are a first and its repetition, or
one with another file, and two edits a reopened lesson and what follows it. Counters (`MaxEdits`, `MaxFaults`,
`MaxMutations`, `MaxCommands`, `setup.commands`...) bound what may still be
started, never how something ends. `CHECK_DEADLOCK FALSE` stands where requests
are served once and the instance stops after the last, or where the bound on
commands is used up.

What the properties say. `ReallocationDeterministic` compares the rows with a
definition that shares nothing with the loop: receipts laid end to end against
obligations laid end to end. `ServerAgrees` (in `LocalRows` and `LessonCalendar`)
replays the queue on the server's rows and compares the result with the device,
at every state, not only after a push. `AttendanceIsCharged`, `PlacesHaveNoGap`
and their like speak of quiet states (no handler at work, nothing waiting), because
in between the rows are indeed out of step. `Settled` and `ShownIsOwed` speak of
payers for whom no job is outstanding. `DueAsForecast` says that recording a lesson of
today with everybody there moves an amount from the forecast to the debts and
changes neither's sum, including the lesson that fills a package and the one
after; that ties `monthly-forecast.ts` to the code that really charges. Exemptions
are the history variables named in section 3, and section 7 says what each
stands for.

Every property of a passing run has a mutant: a plausible bug in one
definition (marked "Mutated form of" in the modules) under which the run finds the
property violated. `PROJECT.json` lists them.

## 5. Fairness

`WorkspaceLease!FairSpec`: a request that is not done and has not crashed keeps
executing statements; nothing is assumed of new requests, of crashes or of time.
A writer has finitely many statements before `finalize`, hence the second
conjunct. `SyncProtocol!FairSpec`: a device keeps taking the steps of its sync
runs (the client syncs on focus, when it comes online and on a timer), a live
request goes on, and the ten-minute recovery comes because some request always
comes after it. No fairness is assumed of the user, of a lost response or of any
fault. The other modules have safety properties only: what they must eventually
do is what sync must (`Converges`), or depends on a user who presses a button.

## 6. What is proved

For every value of the constants (under the named assumptions `LeaseAssumption`,
`SyncAssumption`, `AllocationAssumption`, `BillingAssumption`, `ImportAssumption`,
`CloudAssumption` and `IdsAssumption`, which say that the sets of names are disjoint,
that forms name students and clients there are, that amounts and prices are positive,
that receipts and obligations are finitely many and ordered, that a workspace with
appointments has a client, that the bounds are numbers, that the rows to start with
are rows the tables allow, that an export is finite, its amounts are whole pence and
it names no row it does not hold, and that the number of an edit is no element of a
backup file or of another device's change):

* `WorkspaceLeaseProofs`: `TypeCorrect`, `OneWriterPerBaseHolds`,
  `WriteAdvancesRevisionHolds`, `RevisionMonotoneHolds`. The properties are not
  inductive: nothing in them says whose base the lease stands for. `LeaseInv`
  adds that the holder's base is the current revision (`HolderInv`), that no base
  is ahead of it (`BaseInv`), that a granted base without the lease lies in the
  past (`PastInv`) and that a base is granted once (`GrantInv`). Time plays no
  part, so these hold even if a live worker is robbed of its lease.
* Under `~Overrun`: `RevisionIdentifiesDataHolds`, `WriterSeesItsBaseHolds`,
  `WritesHoldLeaseHolds`. `SnapshotInv` adds that only the holder writes
  (`ExclusiveInv`) and that what a reader has fetched is what `data` holds as long
  as the revision it began with stands (`FetchedInv`, `CompleteInv`).
  Without the hypothesis they are false, which is the point of it: a writer that
  outlives its lease writes into another one's data, and the code has no
  fence against it. `billing` asks what packages still keep then.
* `SyncProtocolProofs`: `SyncTypeCorrect` and `NothingForgottenHolds`, from
  `ForgetInv`: what an answer reports as applied is marked done, what is marked
  done is in the tables (`ReportInv`), and a device that waits knows for which
  request (`CallInv`).
  Then `InOrderHolds` and `LedgerImplemented`. That edits take effect in order says nothing about what is
  under way, so `OrderInv` does: revisions only grow and a device's lies no
  further back than the base of its request (`RevisionInv`); at most one push holds
  the lease, and only that one can still take effect (`HoldInv`); a push carries
  every earlier edit of its device that is neither done nor failed (`CarryInv`); a
  verdict that parks an edit comes from a push whose base lies in the past
  (`VerdictInv`), so no request that can still take effect carries a parked edit
  (`WaitInv`, `FailedInv`). The last is also what the refinement of `SyncLedger`
  needs: a push applies only edits that wait.
* `ReceiptAllocationProofs`: `NothingIsOverpaid`, `ReallocationIsDeterministic`,
  `CreditIsSpent`, `MoneyIsWhereOwed`, `StatusIsTrue`, `TutoringIsNeverRefused`: every
  property of the module, for any receipts, obligations, students, families, amounts,
  prices and dates, any number of mutations and of workers that die, in any
  operation. All of them speak of settled states, and nothing in them says what a
  handler half way through still has to do; that is what the invariants are for.
  `Base` (`AlwaysBase`): the types, what the rows allow (`RowsOK`: no receipt is spent
  beyond its amount, none pays for another payer's obligation, a price of a cycle
  never changes), which tasks each handler has left and in which order (`TodoOK`:
  while a statement that disturbs a student's allocations is to come, so is that
  student's rebuild), and what a collection under way knows (`QueueOK`).
  `Bookkeeping` (`AlwaysBookkeeping`) has one part per question. `Overpaying`: an
  obligation holds at most its price even while a restored receipt brings its old
  allocations back, since until the rebuild the totals are taken without such
  receipts (`Suspects`). `NoConflict`: no receipt of a student has money left beside a
  partial payment, unless the student's rebuild is to come or was left undone, so
  `allocateReceipt` never meets an allocation of another amount. `MoneyOwed` and
  `FullDue`: money on what is not owed, a cycle owed that is not full, and a full one
  that is open, each name the task or the unfinished mutation that puts it right.
  `Statuses` and `Credit`: a cycle's state is right and a student has no credit beside
  a debt, or the student is among those the hook has still to visit, or the receipt
  among those still to be collected. `Deterministic` (`AlwaysDeterministic`): from the
  rebuild of a corrected receipt's payer on, the receipts collected so far lie end to
  end against the obligations as `Overlap` says, and the receipt that pays has left
  what `LeftOf` says (`LaidOut`); one step of the loop is then arithmetic on two
  stretches (`AlreadyCovered`, `OutOfReach`, `NextShare`). The totals are the folds of
  the community modules, of which `FoldTheorems` says what the proof needs. The
  invariants are stated in `ReceiptAllocationInvariants`.
* `PackageBillingProofs`: `BillingInvariant`, `NeverOverfilledHolds`,
  `LessonLedgerImplemented`, `PlacesHaveNoGapHolds`, for any number of students,
  lessons, workers, failures and overlaps. A worker writes what it read some statements ago, so
  `BillingInv` says what such knowledge is still worth: an opening progress to be
  written fits its package whatever was configured since (`OpeningInv`, packages
  never shrink); a worker alone at its lesson is right that the lesson is held,
  that the student is not charged yet, or that all links are gone (`LessonInv`);
  and no two links share a place and no lesson has two (`PackagesInv`), which the
  shifted positions of a reopening could break and the UNIQUE constraint does not let
  them. Each of the thirty-five statements has its step in `WorkMoves` (where it leads) and
  `WorkPackages` (what it does to packages). The refinement maps `Attend` to
  `Hold`, `AddToCycle` to `Charge`, `Unlink` to `Discharge`, `Unattend` to
  `GiveBack`, and every other statement to a stutter. `PlacesHaveNoGap` speaks of quiet
  states; `GapInv` says of every other state why a gap will close: a worker still has
  the package on its list, or is numbering it and the places it has given go up from
  the opening progress, with room for the rows it has yet to move and everything linked
  meanwhile behind them (`HalfNumbered`), and then no other worker is numbering it. What
  makes the end of that numbering the right one is that the worker read all packages of
  its lesson and their opening progress, and both are still so (`ReadRight`): an opening
  progress changes only while a package has no lessons.
* `Sozan1ImportProofs`: `ImportInvariant`, `ResumesAsOnceHolds`,
  `CompletedMeansChecked`, `ToThePennyHolds`, for any exports and any number of requests, deaths and
  edits of the kinds modelled. `ImportInv` says that a row nobody worked on is a row of a file that was let
  in and the others are as they were left (`RowsInv`), that the tables before a request's own are there in full, and of
  its own all but what is left, except where another row has the place (`RequestInv`), that the mark stands only over a
  whole file (`CompletedInv`) and, unless a request died between mark and verdict,
  only over sums that were compared (`CompletedIsChecked`). These are the sums
  of what was received and spent in `ToThePenny`; what a receipt is allotted no
  reconciliation compares. That it is the file's shares, unless the receipt was
  `reallotted`, follows from its allocations being those of the one file that was sent
  (`HistoryInv`) and from `SumByGroup`: the importer adds up the shares of one target
  into one row, and a sum over groups is the sum over their members. A retry leaves
  alone what it finds because no id is in two tables (`TablesDisjoint`: every id starts
  with its kind), so that the row under an id of the file can only be the file's own or
  the user's work on it. `ResumesAsOnce` does not say that what a handler deleted stays
  deleted: it does not (section 7).
* `CloudWorkspaceProofs`: `CloudInvariant`, `JournalTellsTruthHolds`,
  `ReadyMeansUploadedHolds`, for any number of tabs, imports, restores, batches and
  faults. Neither property says anything of a request under way or of a tab that
  waits for one, so `CloudInv` does: a request holds the lease from its reservation
  to its last write, so that the base it reserved is still the revision when it
  finalizes (`StageInv`); at each of its places the journal may say only certain
  things, and "stale" is the one failure that can be written over a finished import
  (`JournalInv`); an importId a tab drew is that tab's alone until a request arrives
  with it, and a tab about to clear the outbox or to mark the link ready holds a
  revision that was its backup (`TabInv`). `Imports` and `Posts` have to be disjoint
  (`CloudAssumption`): a restore has no journal row and must not be mistaken for one.
  `EditsSurviveInOneWindow` is `EditsSurvive` for a browser that has the workspace open
  once (`OneWindow`: all places belong to one window) until a link runs beside another
  workflow (`overlapped`); the requests, imports and other devices remain any number, and
  a closed tab is opened again. Until then at most one place is at work (`OneRuns`). Its invariant, `SurvivalInv`, is stronger than the
  property: what nothing explains the loss of is in the rows or a dead letter, *and*
  waits for a push, is a dead letter or is in the cloud (`EditsWorld`), and the file,
  once imported, is in the rows (`FileWorld`). To keep that it says what a step to come
  relies on. A restore under way carries every unexplained edit made before its backup;
  an import that expects revision r carries, or has as dead letters, what the cloud had
  at r (`Replaces`), so it takes nothing away if it is let in. A link that is ready, or
  waits only for a request that can still succeed, has the file in the cloud and no
  import at work that would take it (`Safe`, `Counts`). A tab at each of its
  places has in its memory what its next write puts (`EditsRun`, `FileRun`), and the
  screens lag behind the link only in some ways (`SeenOK`); before the first upload
  nothing is in the cloud that an import could lose (`Virgin`). Two places at work break
  `LinkDuring`: one works on the link the other replaces. `ReadyMeansUploadedHolds` holds of
  any number of windows; it names the one case in which the code makes a link ready
  without an upload of that workflow (`NeverSent`).
* `LocalRowsProofs`: `TypesHold`, `CollectionKeepsItsClientHolds`,
  `UndoneMeansCompensatedHolds`, `ServerAgreesHolds`, `NothingRefusedHolds`, for any
  numbers of rows, tabs, commands, changes of other devices, pushes, pulls and retries,
  hence for queues of any length. `IInv` has seven parts. `TypeInv`; `ServerInv`: on
  the server, and in every snapshot, a live collection's appointment is live and
  its client's; `EventInv`: an event marked on either side, and one whose mark waits
  in the queue or in a command, was compensated by a later event of the device's
  log; `KnownInv`: a device that knows the current revision has either sent an
  event or still queues it, and a snapshot of that revision is what the server
  holds; `BookedInv`: what the server's handlers look for and the device's commands
  do not ask again (active members, live clients) is there, doubt apart;
  `CommandInv`: as long as neither a snapshot nor another tab replaced the rows the
  command of a tab has used, the rows it will put are those the server's handler would
  make of the device's (`Makes`), and the handler would accept (`Accepts`); since that
  depends on the used rows only, another tab's write keeps it for every command it does
  not overtake (`SettledUnder`);
  `AgreeInv`: the replay of the queue on the server gives the
  device's rows and refuses nothing, doubt apart. The last rests on locality: what a
  mutation does and whether it is refused depends only on the rows of `Used`
  (`EffectLocal`, `RefusalLocal`), so two replays that agree beyond doubt go on
  agreeing while doubt spreads (`HandledAgrees`), also when one of them meets a
  dead letter revived where the other passed over it (`TwinsGo`, `RevivedAgrees`).
* `FoldTheorems`: `FoldEmpty` and `FoldAppend` unfold `FoldLeft` of the community
  modules, whose recursive function is shown to exist; `HandedOn` carries a fact
  along the positions of a queue. They rest on `LeastNatural`, a least element of
  every set of naturals, which stands in for induction where the library's
  induction theorem cannot be instantiated. So do the sums over finite sets:
  `SumRemove` takes one index out, `SumChange` changes one summand, `SumPart` bounds
  a part by the whole, `SumByGroup` sums group by group. `LocalRowsProofs` takes the
  module twice, for `Handled` and for `Spreading`, `ReceiptAllocationInvariants` and
  `Sozan1ImportProofs` once, for `+`.

Two definitions of `LocalRows` took their form from the proof: a push is one fold of
`Handled` over the whole queue, dead letters passed over in place, and doubt does
not spread through dead letters; TLC checks the same properties of them.

Only model-checked: liveness (`EveryRequestEnds`, `Converges`), since TLAPS does
not reach it; of `PackageBilling`, what holds in quiet states
(`StatusTellsProgress`, `AttendanceIsCharged`, `FamilyFollowsMembers`: each needs to say of every place of every handler what is
still to be repaired, by that worker or by a mutation that waits); of
`Sozan1Import`, `PackagesCarryOn` (a fact about well-formed exports); and everything
about `LessonCalendar`, `MonthlyForecast` and `LocalMoney`. `EditsSurvive` is neither
checked nor proved for two browser tabs, and its half about the file not beside an
overlapping link: there it is false (section 7). That a device's revision never goes
back is not claimed either, for the same reason.

## 7. Where the code and its documents disagree

The run `sync_pull` ends with a counterexample: `engine.ts`:219 finds nothing
waiting, an edit is made while the snapshot is fetched (232), and the snapshot
overwrites it (233), though `README.md`:41 says a cloud snapshot is not pulled over
an unsynced local change. The edit stays in the outbox.

The others below were found by TLC on these modules, by checking the sentence
quoted as a property or by dropping the exemption named; they are kept as text.

**Sync protocol.**
* With two tabs the revision of a device goes back. The mutex is one tab's
  (`workspace-operation.ts`:6) and the link record is shared: tab A fetches the snapshot of
  revision 5 (`engine.ts`:232), tab B pushes and stores 6, A applies its snapshot and
  stores 5 (233) without comparing. B's edit is gone from the device's rows until the
  next pull, and the next push is refused as a conflict and dead-lettered, although no
  other device wrote anything. `SyncProtocol` has one synchronisation per device.
* The revision of a push in which everything failed is stored as
  `serverRevision` (`engine.ts`:213), the "last authoritative workspace revision
  pulled/acknowledged" (`platform.repository.ts`:46): the next push passes the
  compare-and-swap from contents the device never saw.
* A retry that checks its idempotency keys before its first try marks them and
  reserves after that one finalized gets `SYNC_REVISION_CONFLICT` and
  is dead-lettered although applied; `routes.ts`:150-153 says it must not be.
* The push schema takes 100 mutations (`routes.ts`:31) and the client always posts
  all it has: more than 100 offline changes never sync. In the model, `PushLimit = 1`
  with two edits violates `Converges`.

**Receipts on the server.**
* A family receipt keeps its allocations when deleted (`finance.sync.ts`:232);
  restored after another paid the same cycle, the cycle holds twice its price
  (`ARCHITECTURE.md`:237: "Automatic allocation cannot overpay a target
  obligation"). Five mutations show it; `NeverOverpaid` exempts `revived` families.
  Nor is the rest of a family's money allocated anew after a correction, or taken
  back when a lesson is reopened: the deterministic reallocation of
  `ARCHITECTURE.md` is a student's only.
* Reopening a lesson charged to a payer who did not attend leaves the money there
  (`tutoring.sync.ts`:249): with `AbsentPayer = {1}`, `MoneyFollowsObligations` fails.
* A worker that dies while a lesson is reopened leaves the money too: the
  repetition finds the lesson scheduled and returns early (`tutoring.sync.ts`:159).
  With `CrashOps = {"reopen"}` the same property fails.
* A worker that dies after moving a receipt to another student leaves the first
  one's other receipts unallocated until their next lesson: the repetition reads
  the new payer from the row (`finance.sync.ts`:270). Longer runs than the one here
  show more of it, and the proof asked for them. The receipt moved may have paid for
  part of an obligation that another receipt, with money left, pays in part as well:
  collecting again would give that receipt another share, `allocateReceipt` refuses
  (`ALLOCATION_CONFLICT`, `finance.gateway.ts`:93), and with it every later completion
  and reopening of a lesson, although the lesson itself was written and the error is
  terminal (`routes.ts`:62). When the new share happens to equal the old one it counts
  as paid already, and the student keeps credit beside a debt after a completion that
  succeeded. A worker that dies after deleting or changing a receipt does the same
  until the repetition arrives. Exempt as `behind`.

**Packages on the server.**
* A reopen that dies after removing a lesson's place and before renumbering
  leaves a gap (`tutoring.sync.ts`:185-212); the repeated reopen finds no affected
  cycle, and later completions compute a place that is taken, violate the UNIQUE
  constraint and are repeated for ever, although `occurrences.service.ts`:51-53
  promises the repair of a failed completion. Exempt as `torn`.
* A worker that overlaps tears a package as well, without any failure; the invariant
  meant for the proof of `PlacesHaveNoGap` was false, and TLC has the behaviours. Two
  workers reopen two lessons of one package: one shifts the places the other has begun
  to number, both number what they read, and a gap or a place above 10000 stays. Or a completion
  died before it locked the opening progress, and its lesson is reopened: the places are
  numbered from the progress read at first (`tutoring.sync.ts`:171-184), while another
  worker has changed it and a third has linked a lesson after the new one. Then, too, a
  later completion may compute a place that is taken, and a package with a row above
  10000 may refuse the next shift, made row by row, for the same constraint. Exempt as
  `torn`.
* A worker that configures a student to pay per lesson looks for history first
  (`billing.service.ts`:27-33) and writes the plan later; a lesson another worker
  completes in between is charged to no package. Exempt as `orphaned`.
* The proof of `NeverOverfilled` failed at two workers at one lesson, and TLC has
  the behaviour: one has read the free place, the other reopens the lesson, the
  first links the lesson that is no longer held and dies before it locks the
  opening progress. `updateOpeningProgress` counts held lessons only
  (`tutoring-billing.repository.ts`:214-249), the insert of a link counts all
  links (266-286): the opening progress can be raised over the link, and the
  package holds more than its limit. Exempt: `raced # {}`.
* When work both overlaps and fails, what one worker repairs after a failure the
  other may have seen half done: a status stays wrong or a lesson uncharged until
  the next mutation of that student. Exempt as `Disturbed`.
* A worker that overlaps reads the family's progress, and writes it after another
  changed the members' packages (`family-billing.ts`:126-206): the family's cycle
  stays as it was read. `FamilyFollowsMembers` is claimed without overlaps.

**The workspace as a whole.**
* When another device has pushed since the screens loaded `serverRevision`, an
  import fails with `BACKUP_IMPORT_REVISION_CONFLICT` and every resume throws that
  error again (`workspace-backup.ts`:436), a new import expects the same stale
  revision, and sync is blocked: the upload that "can be completed from the
  account settings" (`DataTools.tsx`:95) cannot.
* A restore names no base revision, so one that lands late overwrites what came
  after (`clobbered`); clearing the outbox after an upload forgets edits the backup
  did not have (`uncarried`); an interrupted import followed by a resumed upload
  publishes rows a pull had already stripped of waiting edits (`overtaken`).
* A restore is one batch of limited size; a workspace beyond it is refused
  (`BACKUP_TOO_LARGE_FOR_ATOMIC_RESTORE`) and can be linked to no account.
* Linking takes no mutex at all (`link-workflow.ts`:60-107; only the synchronisation at its
  end does). In one tab an import that starts while a link is registering replaces the
  rows after the link's backup was taken; the link restores that backup in the cloud,
  marks itself ready, and its pull replaces the file. Exempt as `overlapped`.
* An import that fails on the device makes the link ready at the revision it began from
  (`import-workflow.ts`:42), also when the link was `provisioning` because an earlier
  import still waits for its upload: `workspace-backup.ts` says sync stays blocked until
  that upload is confirmed, and the next pull replaces the file. Exempt as
  `UploadPending` (and named in `ReadyMeansUploaded` as `NeverSent`).
* The mutex is a map in the memory of one tab (`workspace-operation.ts`:6), and the
  tabs of a browser share one IndexedDB. With two tabs, one can import a file while
  the other finishes an upload and pulls; the pull replaces the rows of the file,
  the import's own upload is refused (`SYNC_WRITE_IN_PROGRESS` or
  `BACKUP_IMPORT_REVISION_CONFLICT`), and the file is nowhere. `EditsSurvive` is
  therefore checked and proved for one window only.

**Rows of the device.**
* `EXPENSE_DELETED`, `INCOME_NOT_FOUND`, `CASH_CHECK_NOT_FOUND`, `RECEIPT_DELETED`,
  `ACTIVITY_NOT_FOUND`, `APPOINTMENT_CLIENT_LOCKED_BY_COLLECTION`, `CLIENT_NOT_FOUND`,
  `RECEIPT_SOURCE_PAYER_MISMATCH` and `APPOINTMENT_NOT_FOUND` are missing from the
  terminal errors (`routes.ts`:38): the mutation is pushed again at every sync and
  blocks every pull, although `outbox.ts`:59 says "Terminal conflicts are retained for
  audit but deliberately do not block cloud pulls." One tab of one device never meets
  them (`NothingRefused`); a second device makes them happen, and so do two tabs: A reads
  a live expense (`corrections.ts`:212), B deletes it (282), A writes it back (238); the
  queued update meets the deleted row (`finance.sync.ts`:349), the device shows the expense
  and the queue is blocked for good. Exempt as `stale`, like a row a pull replaced
  between the read and the write.
* Whether an appointment's day has come is asked by the device's date
  (`client/appointments/local.ts`:146) and by the server in Europe/London
  (`appointments.sync.ts`:48-53, `platform.repository.ts`:171). East of London an appointment
  completed after midnight on the device and before it in London is refused with
  `FUTURE_APPOINTMENT_COMPLETION_NOT_ALLOWED`, a dead letter. Exempt as `Early`.
* `session.create` does not check on the server that its members are active,
  `session.details.update` does: a session created while another device archives
  the student stays with an archived member.
* Undoing an older update writes back the row before it and with it undoes newer
  edits; the undo of a deletion that a snapshot brought back marks the event
  although the queued delete still deletes.

**Lessons of the device.**
* Cancelling, moving or restoring a lesson that had no row inserts it without a
  mutation (`attendance-corrections.ts`:43); the server refuses the command with
  `OCCURRENCE_NOT_FOUND`, which is terminal, and the next pull brings the lesson back
  as scheduled, although `TodayScreen.tsx`:236 tells the user it is kept and can be
  restored. Exempt as `unannounced`.
* The same holds of lessons: the device records one by its own date
  (`attendance-workflow.ts`:67), the server asks for London's (`tutoring.sync.ts`:402,
  `server/workspaces/time.ts`:16; the zone is written by `platform.repository.ts`:160, 171).
  A device ahead of London records the lesson after its midnight and the server refuses it with
  `FUTURE_ATTENDANCE_NOT_ALLOWED`, which is terminal: a dead letter, and the next pull
  takes the lesson back. Exempt as `doubtful`.
* From a stale card a lesson moved to the future can be completed on the device;
  the server refuses. A card naming a row a pull replaced inserts a second one.
  The device completes cancelled lessons and makes a rescheduled cancelled one
  scheduled; the server refuses the first and leaves the second cancelled. Exempt as
  `doubtful`.
* Reading the row in one transaction and writing it in another overwrites what
  another tab recorded in between (`crossed`). A full package that is reopened while
  a later one is open leaves two open, and the forecast counts on from the later.
* A lesson that has a row is forecast without participants unless its payer is
  fixed (a test, `monthly-forecast.test.ts`:102, has it so); family members' own
  per-session dues are skipped by the forecast though they are charged. The
  forecast properties are stated for the rest (`AsPlanned`).

**Money of the device.**
* Reopening and the correction of an opening progress do not call the family's job,
  and switching a plan from sessions to packages only rebalances: the money stays
  where it was until the next pull (`need`). `ARCHITECTURE.md`:214 asks local adapters
  to keep the command-level invariants.
* Two jobs that overlap (two tabs, or a pull in between) can spend a receipt
  twice; every later job of that payer then throws `RECEIPT_OVERALLOCATED` until the
  next pull. An update from a stale read can revert a deletion or a move of a
  receipt (`crossed`).
* The student list leaves out the per-session dues of family members that
  the total counts; `ShownIsOwed` compares each with what it covers.

**The import from the old program.**
* A request that died after its allocations were inserted cannot be repeated when
  a receipt has less left than one of its allocations takes: the trigger of
  `0008_domain_integrity.sql`:31 runs before `OR IGNORE` is asked and counts the row
  that is already there, so every retry ends in `RECEIPT_ALLOCATION_EXCEEDS_AMOUNT`,
  although `sozan1.ts`:587 lets it in. (A batch is atomic: this takes an export of more
  than one batch.) The export `paid` of the run shows it.
* A reversed payment of a one-student lesson is inserted as a deleted receipt and
  still allotted (`sozan1.ts`:418), which the trigger refuses with
  `RECEIPT_NOT_FOUND`: such an export can never be imported, though
  `reconcile.ts`:55 counts reversed payments out. The export `reversed`.
* A group that is exported as one row per student becomes one session, and the
  reconciliation expects as many sessions as rows (`reconcile.ts`:52): it always fails.
  `sozan1.ts`:92-101 and a test, `migration-integrity.test.ts`:9, group such rows.
* A worker that dies between the mark and the verdict leaves an import that stands
  as completed, unproven and unrepeatable (`unchecked`).
* What the user adds between two attempts is counted against the file, so that
  the import never agrees; a newer file over an older one's rows passes when the
  totals agree, with the older file's rows. `ResumesAsOnce` speaks of one file.
* What the user's work deletes between two attempts comes back. Reopening a lesson
  deletes its places and attendance (`tutoring.sync.ts`:185, 233), archiving a student the
  memberships (310), a rebuild the allocations (124); the retry's INSERT OR IGNORE puts
  them in again, and `reconcile.ts` counts none of them. The lesson is then scheduled and
  has attendance and, if it is still free, its place. A package may be left with a gap:
  when an attempt died with places 3 and 4 inserted and the lesson at 3 is reopened, the
  other moves up to 3, and the retry puts in the one at 5. `ResumesAsOnce` counts such rows as the file's, and `PackagesCarryOn` leaves out packages somebody
  worked on.
* A row of the file is dropped without a word when another row has its day
  (`0001_core.sql`:231), its package number (275) or its position (`0004`:15), as a lesson
  completed in between does; and when it is a lesson or a package, the attendance and
  places that refer to it violate their foreign keys, so that every retry aborts.
* Receipts that work in between reallotted keep other allotments than the file's; when the file's
  rows are added the sum may exceed what either side meant, within the receipt's
  amount. `ToThePenny` leaves `reallotted` receipts out of its half about allotments.

## 8. Not modelled

`PROJECT.json` "components" names every part with its status. Left out:

* Accounts and workspaces API: requests that read and write a
  few rows of their own. Registration appears in `CloudWorkspace` as one step.
* Planner, platform catalogues and preferences, service worker, most of the
  screens: presentation, without shared state. Build and deployment scripts.
* Of modelled parts: text fields, travel and notes, validation of backups'
  contents, editing a family account, the travel margin and effective dates of the
  schedule conflict test, duplicate warnings, the old program's cash checks and
  activity list, the migration's preview and the sync that follows it, the forecast's expenses, trends and
  confidence. A member archived while their past lessons are reopened is
  `PackageBilling`'s; `LocalMoney` keeps the members fixed.
* Two workers at one lesson (`raced`) are only followed as far as places of a
  package go; the attendance rows they may replace (`tutoring-occurrences.repository.ts`:133)
  are not compared.
* A pull in `LocalMoney` brings the settled state computed afresh, which is what
  the server's properties promise of it.
* Ties of `createdAt` in the outbox (`outbox.ts`:50): edits are numbered.
