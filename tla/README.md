# RiaCore: TLA+ models, model checking and proofs

RiaCore is an Electron desktop application for safety engineering. This
directory holds TLA+ modules that model its core (the embedded database and
its lock, the life cycle of a workspace, the path an edit takes to disk and back,
the dispatch of requests, the supervision of the worker and the auto-save of the
canvas),
TLC configurations that check them, and proofs checked by TLAPS.

File paths are relative to the repository; `AC` stands for
`packages/app-core/src` and `DH` for `apps/desktop-host/src`.

    tlc -workers 2 -config MCDbLock.cfg MCDbLock       # one run
    tlapm DbLockProofs.tla                             # the proofs

1. [The system](#1-the-system)
2. [Modules and how they correspond to the code](#2-modules-and-how-they-correspond-to-the-code)
3. [Runs](#3-runs)
4. [Bounds](#4-bounds)
5. [Fairness](#5-fairness)
6. [Proofs](#6-proofs)
7. [Disagreements with the code's own words](#7-disagreements-with-the-codes-own-words)
8. [What is not modelled](#8-what-is-not-modelled)
9. [Plan](#9-plan)

## 1. The system

Three kinds of process. The **renderer** shows the user interface and sends
requests. The **main process** relays them, supervises the worker and
broadcasts invalidations. The **worker** runs the core. It owns an embedded
graph database under `db/` (a disposable cache, one native handle per process)
and the snapshot under `ria-data/`, JSON files meant for git, which are the
source of truth. In each process JavaScript runs one piece of code at a time and
interleaves at `await`; between processes there are messages.

### Components

**Database lock** (`AC/db/db-lock.ts`). State: a queue of waiters, a count of
readers, a writer flag, an epoch, a count of holders discarded by `reset()` and
those who wait for them. Operations: read, write, an explicit write lock for a
transaction, one with a timeout, release, `reset()`,
`whenStaleHoldersReleased()`. Hard: releases that arrive after a reset, a
waiter that withdraws from the head of the queue, several resets.
Correct when writes are exclusive, order is by arrival, nobody waits forever,
and a wait for discarded holders ends exactly when they are gone.

**Database module** (`AC/db/db-module.ts`). State: the handle, its path and
status, the generation, the read semaphore. Operations: open (close of what was
open, native open, schema, seed, version), close (with a 5 s budget, after which
the lock is reset and a deferred close frees the handle once nothing uses it),
queries, transactions. Calls the lock for all of them. Hard: a close that gives
up while statements execute, statements that wait across a close, a transaction
nobody ends. Correct when no handle is freed under a statement, no statement
reaches another database than its caller's, handles are not leaked, and every
call returns.

**Workspace service** (`AC/workspace/workspace-service.ts`,
`AC/workspace/sync-evaluation.ts`). State: the open workspace and what happened
to it, a promise chain that serialises lifecycle calls, the epoch of the load
in progress. `open()` distinguishes four cases: nothing there (A), only a
snapshot (B: a load is left running in the background), only a database (C: it
is stored), both (D: probe the write-ahead log, open, compare, load or not).
Hard: a load outlives the call that started it and settles during a later one;
files that cannot be read; a crash in the middle. Correct when the last call
wins, a status that says "synchronised" is true, and the only copy of anything
is never deleted.

**Auto-save coordinator** (`AC/persistor/auto-save-coordinator.ts`). State:
flags (universe, full, namespace), a debounce timer, the flush in flight, a
request for a follow-up. The dispatcher reports each mutation to `markDirty()`;
namespaces carry their own mark in the database (an empty `content_hash`).
Hard: a mutation while a flush runs, a failure after the flags were taken, a
shutdown flush. Correct when no acknowledged edit is left behind.

**Persistor store** (`AC/persistor/persistor-store.ts`). State: one promise
chain per directory, the files, the manifest with a hash per namespace. A store
writes the shared layers, then each namespace in scope, records its hash in the
database and the manifest, and recomputes the hashes of other namespaces whose
cross-namespace slice changed. Hard: an edit between the reads of a store, a
skip that must not skip an edit, a failure between two files. Correct when the
manifest describes the files and a mark is cleared only for what was written.

**Edits** (`AC/namespaces/instance-service.ts`, `AC/dispatch/command-dispatcher.ts`).
An edit writes its data, then blanks the hash of its namespace in a second
query; the dispatcher then marks it dirty. Hard: what runs between the two.

**Sync evaluation, snapshot baseline, snapshot origin, load and repair**
(`AC/workspace/sync-state.ts`, `sync-evaluation.ts`, `snapshot-baseline.ts`,
`AC/persistor/snapshot-origin.ts`, `persistor-load.ts`, `persistor-repair.ts`).
State: for each layer and namespace the hash in the manifest (M), of the file (F) and of what the
database last consumed (D); the manifest a session compares with before it
stores; an undecided choice between files and database. Operations: evaluate,
load a plan, repair, store behind the fence. Hard: files that change under a
session, a load of a part that cuts edges of the rest, a store that stops
half-way. Correct when neither side overwrites work of the other unseen, and an
open workspace is whole.

**Load gate and dispatcher** (`AC/dispatch/load-gating.ts`,
`command-dispatcher.ts`, `handlers/workspace-channels.ts`). State: the drain chain of
deferred requests. A request that arrives while a load runs waits for it; the
handler of `workspace.open` awaits the lifecycle and then cleans up. Hard: loads
that are superseded while requests wait for them. Correct when nothing runs on a
database that is being filled, in an order one can rely on, and everything is answered.

**Worker supervision and worker shutdown** (`DH/utility-process-manager.ts`,
`DH/worker.ts`). State: the child, pending and queued requests, how often each was
retried, a crash count and its timer, the promise of a shutdown. Hard: an exit
in the middle of a start, a restart or a shutdown. Correct when every request settles,
none is repeated without bound, a crash loop ends, and no worker is left behind.

**Canvas auto-save** (`apps/renderer/src/lib/canvasAutoSaveCoordinator.ts`,
`hooks/useCanvasAutoSave.ts`, `shell/WorkspaceCanvas.tsx`). State of each instance: three
timers, pending work with its scope and directory, the save in flight, retries; an
indicator all instances share. Hard: an instance whose canvas is gone while it still
saves, a workspace that is switched between an edit and its save. Correct when no
edit is forgotten and "saved" is true.

The other components have no module; section 8 says why:

| Component | State | Hard behaviour |
|---|---|---|
| Dispatcher caches (`AC/dispatch/command-dispatcher.ts`) | containment and metamodel caches | an entry read before a clear, written after it |
| Write-ahead-log recovery (`AC/db/wal-recovery.ts`) | a probe child, a quarantined log | the child aborts, hangs or is killed |
| Import (`AC/importers/`) | a staged preview | its impact is stale when the run uses it |
| LLM review (`AC/llm/review-run-registry.ts`) | running reviews | cancel against completion |
| Commit on store (`AC/git/store-commit-hook.ts`) | none of its own | a failed commit after a successful store |
| Diff and merge (`AC/diff/`) | none of its own | a merge applied in one transaction |
| Union merge, connection and namespace services (`AC/namespaces/`) | none of their own | queries that belong together |
| Main process, renderer | windows, caches of answers, forms | a broadcast against the answer it belongs to |

### How they interact

    renderer (canvas auto-save) -> main process (supervisor) -> worker: load gate -> dispatcher
                                          |
               handlers: edits, stores, workspace lifecycle
                  |            |                 |
                  |     auto-save -> store chain |
                  |            |                 |
                  +-------> database module <----+
                                  |
                            database lock

* Everything that touches the database goes through the database module and
  its lock. A close or a switch supersedes statements by bumping the
  generation: their callers see an error, not another database.
* The dispatcher calls `markDirty()` after the handler of a mutating channel,
  and the coordinator calls the persistor's store from its timer.
* The store reports to the workspace service (`notifyStoreCompleted`), which
  changes its status.
* The workspace service runs loads and stores of its own in `open()`, after it
  has compared the manifest, the files and the origin in the database. Every
  store passes the fence of the snapshot baseline first.
* The supervisor forks the worker, sends it the requests of the renderer, repeats
  some of them after a crash, and asks it to shut down; the worker then flushes
  the auto-save, closes the workspace and exits.
* The canvas sends `persistor.store` for the workspace its edits were made in, and
  the handler of that command opens the workspace it names.

## 2. Modules and how they correspond to the code

| Component | Specification | Properties | Instances | Proofs |
|---|---|---|---|---|
| Database lock | `DbLock`; abstract: `ReadersWriterLock`, mapping: `DbLockRefinement` | `DbLockProperties` | `MCDbLock` | `DbLockProofs` |
| Database module | `DbModule` (EXTENDS `DbLock`) | `DbModuleProperties` | `MCDbModule` | `DbModuleProofs` (EXTENDS `DbLockProofs`) |
| Workspace service | `WorkspaceLifecycle` | `WorkspaceProperties` | `MCWorkspace` | `WorkspaceProofs` |
| Coordinator, store, edits | `AutoSave` | `AutoSaveProperties` | `MCAutoSave` | `AutoSaveProofs` |
| Sync evaluation, baseline, origin, load, repair | `SnapshotSync` | `SnapshotProperties` | `MCSnapshot` | `SnapshotProofs` |
| Worker supervision, worker shutdown | `WorkerSupervisor` | `SupervisorProperties` | `MCSupervisor` | `SupervisorProofs` |
| Load gate, dispatcher, handler of open | `CommandDispatch` | `DispatchProperties` | `MCDispatch` | `DispatchProofs` |
| Canvas auto-save, canvas | `CanvasAutoSave` | `CanvasProperties` | `MCCanvas` | `CanvasProofs` |

An action is the code that runs between two awaits, or several such pieces
when nothing the properties observe can run between them; the comment of each
module says which. `PROJECT.json` maps every definition to its lines. A definition
whose name ends a mutated version of another (`WithdrawSilently`,
`AcquireAtHead`, ...) is a plausible bug, used to confirm that a property
notices it; no specification uses it.

**DbLock.** The variables are the closure variables of `createDbLock()`;
`request` and `reclaim` are the promises it has handed out. The grant loop
`dispatch()` is an operator every action ends with. `tryAcquireWrite()` is a
request that may withdraw; the branch of its code for a grant that comes after
the timeout is dead (the timer's callback has removed the waiter) and has no
action.

**DbModule.** Extends the lock: its clients are the callers of the module and,
for each handle, the deferred close that may have to free it. `op[c].pc` is the
await a call is at. `handle[h]` is the native object (unborn, live, closing,
freed). The semaphore of reads is `slotsActive` and `slotQueue`, with the
microtask between a release and the reader it wakes as a state of its own
("woken"), since the code lets a newcomer in meanwhile and exceeds its limit.
`NextEvent` are the steps the event loop starts; continuations come first.

**WorkspaceLifecycle.** `waiting` is the lifecycle mutex, `loads` the
background loads that have not settled, `tracked` the `currentLoad` the service
knows, `ria[d]` and `db[d]` what is in a directory. `op[c].case` is the case of
`open()`. A crash empties everything but the files. The database module appears
as its callers see it: the directory whose database is open, and loads that
fail when it is superseded.

**AutoSave.** `content`, `hash` and `universe` are the database; `files`,
`manifest` and `universeFile` the snapshot; `flags`, `timer`, `requeued`,
`lastFlushFailed` and `round` the coordinator; `chain` and `store` the stores of
the directory; `edit` the dispatches; `flush` a caller of `flush()`. The content
of a namespace is a pair of versions, its own and its slice of the shared
cross-namespace file: a store of another namespace rewrites that file, which is
what the fixup at the end of a scoped store is for. A hash is the content it
was computed from. `history` records three kinds of event that properties make
an exception for; no action reads it.

**ReadersWriterLock.** What callers of the lock rely on, without queue, counters or
epochs: who waits, who holds, who was discarded; who came before whom; whom a
reclaimer waits for. Every step that changes who waits or holds ends with the
grants it allows: all that keep the order and are compatible, and no fewer.
`DbLockRefinement` maps `DbLock` to it: a client's status follows from its request and the
epoch it was granted in, `ahead` from the queue, `owed` from the epochs.

**SnapshotSync.** `file` and `manifest` are ria-data/, `db`, `d` and `digest` the
database, its origins and the manifest they were recorded from; `baseline` and
`pending` what the fence compares and whether a decision is open; `service` the
lifecycle call that evaluates or loads; `load` and `store` the persistor's. A
domain's content is a version, and a hash is the version. `unseen`, `held` and `halfStored` record
what came from outside, what the database last held and that a store stopped half-way; only properties and the
authority of a repair read them. `Faults` says what else may happen: see the table below.

**WorkerSupervisor.** `child`, `startup`, `flags`, `crashCount`, `stableReset` are the
fields of the manager, `process` and `killed` the operating system's view of the
process, `request` which of its maps a request is in. The event of an exit comes
after the death it reports; between them the manager still sends.

**CommandDispatch.** `call[r].pc` is the await request `r` is at, `chain` the drain chain,
`mutex` who holds or waits for the lifecycle mutex; `ws`, `db`, `generation` and
`load` are what `WorkspaceLifecycle` and `DbModule` show to the gate and to statements.
Each opening of a database has a number of its own. A command stands for any
gated channel and runs `Statements` statements with an await between them.

**CanvasAutoSave.** `co[m]` is the coordinator of the m-th canvas that was mounted;
`unsaved[d]` the layers of workspace `d` whose content is not on disk; `open` what the worker
has open, `wanted` what the user opened last, `shown` what the status poll showed
last; `indicator` the shared indicator. Timers have no durations: an armed timer
may fire at any moment, and what a flush does when the save it awaits ends is
part of that end, since microtasks run before the next timer.

## 3. Runs

Every property of a passing run has a mutant of a mapped definition that
violates it (`PROJECT.json`, "mutants").

**lock** (36 thousand states). Three clients and two reclaimers, with every order of
requests, releases, timeouts and up to two resets. Writes are exclusive
(`MutualExclusion`), a reclaim is safe (`ReclaimIsSafe`), everyone is served and
every reclaim resolves (`LockProgress`), and the lock does what `ReadersWriterLock` says
(`ImplementsLock`): no wake-up is lost, nobody is overtaken, the release of a
discarded holder disturbs nobody. The last three are properties of their own
in the proofs (`NoLostWakeup`, `NoOvertaking`, `StaleReleaseIsInert`, with `CountersExact`).

**db** (53 thousand). Two callers, two handles, closes that time out, opens that fail in
any phase and native closes that throw. No statement that
was given the lock runs on a freed handle (`LockedStatementsSafe`), a statement
reaches the database its caller asked about (`StatementsOnRequestedDatabase`), the
status is true (`StatusTruthful`), every open handle has exactly one owner that will
close it, so that none is lost track of or closed twice (`OneOwner`),
opens and closes return although a transaction may never end, and every call
does when transactions end (`CallsReturn`), in which case an abandoned
handle is freed too (`AbandonedHandleFreed`).
The code does leak handles in three ways, and `OneOwner` excepts them by name (`LeftBehind`):
an `open()` that fails after the native handle was created forgets it (`db-module.ts:322-329`),
a deferred close gives up after two minutes (216-222), a native close throws (232-237, 375-391). Of such
a handle it says only that nobody owns it any more. `NoHandleLeaked` has no exceptions and is
violated; without any one of the three `OneOwner` is violated too.

**workspace_safety** (390 thousand). Two callers, two directories in every
initial combination of snapshot and database, three calls, one crash, loads
that outlast the bounded await. The last call wins over the loads of earlier ones
(`LastCallWins`), a workspace shown healthy has all of its content
(`HealthyMeansWhole`), a load closes no database but its own
(`LoadClosesOwnDatabase`), the only copy of the content is never deleted or
overwritten (`OnlyCopyKept`).

**workspace_liveness** (217 thousand). Every call leaves the mutex although a
load may never end, and a load that ends and was not superseded publishes how
(`LifecycleProgress`).

**autosave** (1.4 million). Two namespaces, two editors of any scope, an
explicit full store, a caller of `flush()`, faults and a closed workspace. A dirty
mark always has a flush to come (`MarksAreFollowedUp`), at rest everything
is saved and no mark is left (`RestMeansSaved`), between two stores the manifest
describes the files (`ManifestTruthful`), `flush()` settles only when everything
acknowledged is on disk (`FlushSettlesSaved`), an edit reaches the disk by itself
(`EditsReachDisk`). They make exceptions: all but `MarksAreFollowedUp` say nothing once the
queries of an edit have interleaved with those of a flush or a store; all say
nothing after a failure or a workspace that was closed under an edit, and
`MarksAreFollowedUp` and `EditsReachDisk` except a `flush()` that gives up at its limit
of rounds. The exceptions are where the code breaks the properties; a witness
shows each.

**snapshot** (819 thousand). Two namespaces, a layer beside them and the shared cross-namespace
layer; commits from outside, hand edits, a checkout back and forth, edits,
stores that fail, stops of the process at any point of a session, opens, rechecks and loads.
A workspace that counts as open has no half-loaded layer (`OpenMeansWhole`); the origin
names a version of the files the database really consumed (`OriginTruthful`), so that
a store overwrites nothing from outside that the database never held
(`NoUnseenOverwrite`). Until a store stops half-way, a load that an open or a recheck decides on
by itself clears no unsaved work of a shared layer, unless its files changed too
(`UnsavedSharedWorkKept`); after one it may (table of changes below).

**supervisor** (197 thousand). Three requests, two of them safe to repeat, and four
crashes, at any point of a start, a request, a restart or a shutdown. A request
is handed to a second process at most, and only if it is safe to repeat (`RetriedOnce`); a worker that keeps
crashing is given up, whatever the timer that forgives crashes does
(`CrashLoopEnds`); after a shutdown has settled no process is left that holds
the database (`NoWorkerAfterShutdown`); every request settles once
the worker answers, dies or is given up (`EveryCallSettles`).

**dispatch** (85 thousand). Two commands of two statements each and two opens
of two directories, so that a load is superseded by its own directory or by the other. No
statement of a deferred command runs during the load it waited for
(`HeldUntilSettled`), deferred commands run in the order they came (`DeferredInOrder`), every
request is answered (`EveryRequestAnswered`).

**canvas** (515 thousand). One canvas replaced by the next, edits that succeed and fail,
saves that fail, outlast their deadline and are retried. No edit is forgotten:
whatever is unsaved has a timer, a save or a failure shown to the user that stands for
it (`NothingForgotten`); "saved" is shown only when it is (`SavedMeansSaved`). Edits are made where
the worker, the status poll and every coordinator with work to come agree on the workspace
(`AtHome`); the workspace changes and canvases are replaced only while no edit is under way.
With `StrayEdits` neither is asked for, and an edit may be lost (table below).

**workspace_reopen**, **autosave_mid_store**, **canvas_reopens** (violations). See section 7.

### Witnesses

Configurations beside the runs, each of which TLC reports violated (the first
passes). They delimit the runs: each adds the one event that a run leaves out.

| Configuration | Shows |
|---|---|
| `MCDbModuleThree.cfg` | the safety properties of run db hold with three callers (662 thousand states) |
| `MCDbModuleSlowClose.cfg` | a native close that takes longer than the five seconds of the next `close()` resets the lock of its successors: two opens at once (`OpeningIsExclusive`) |
| `MCWorkspaceCreate.cfg` | a `create()` that is queued before a load starts has its database closed by that load (`LoadClosesOwnDatabase`) |
| `MCWorkspaceRepair.cfg` | the recheck after a failed load evaluates a closed database (`LoadsIntoOpenDatabase`) |
| `MCAutoSaveMidManifest.cfg` | an edit of a cross-namespace edge between the write of the shared file and the read of the slice leaves a wrong hash in the manifest (`MidStoreManifestTruthful`) |
| `MCAutoSaveFailedRound.cfg` | after a failed round, a universe-only round succeeds, and the namespace marks of the failed one have no flush to come (`FailedWorkPickedUp`) |
| `MCAutoSaveScoped.cfg` | the fixup of an explicit scoped store overwrites the mark of another namespace (`RestMeansSaved`) |
| `MCSnapshotOverlap.cfg` | a store on command between the clears and the inserts of a load writes cleared layers (`FilesNeverHollow`) |
| `MCSnapshotCheckout.cfg` | files that change from outside while an evaluation, a load or a store runs are overwritten by a later store (`NoUnseenOverwrite`) |
| `MCSnapshotOriginLost.cfg` | when the origin of a store is lost, the next open clears unsaved work of a shared layer (`UnsavedSharedWorkKept`) |
| `MCDispatchCleanup.cfg` | the cleanup after `workspace.open` runs while the load still does (`CleanupOutsideLoads`) |
| `MCDispatchOvertakes.cfg` | a command that comes when the load has settled overtakes those deferred before it (`NoCommandOvertakes`) |

More of the kind need no file of their own; they replace a line of a configuration above:

| Change | Shows |
|---|---|
| `MCDbModule.cfg` with `SlowOpen = TRUE` | a native open that takes longer than those five seconds comes back to a module that was closed, which then counts as open (`StatusTruthful`) |
| `MCDbModule.cfg` with `NoHandleLeaked` | an open that fails after its handle was created leaves it open and unowned, as do a native close that throws and a deferred close that gave up |
| `MCDbModuleThree.cfg` with `DeferredFreeIsSafe` | a late `rollback()` executes on the handle while it is freed |
| `MCWorkspace.cfg` with `ReplayIsProbed` | with an unusable manifest the database is opened without the probe that protects the worker from a log that aborts it |
| `MCAutoSaveFailedRound.cfg` with `DroppedWorkIsMarked` | flags dropped for want of an open workspace lose a universe edit, which has no mark |
| `MCSnapshot.cfg` with `LoadStopsFaults` or `PlainLoadFaults` | a load on command that fails leaves an open workspace with cleared layers (`OpenMeansWhole`, `FilesNeverHollow`); with `LoadStopsFaults` a later open may clear unsaved work of a shared layer too (`UnsavedSharedWorkKept`) |
| `MCSnapshot.cfg` with `RepairFaults` | `persistor.repairManifest` stamps the baseline, whoever calls it: in an open workspace the CLI or the dispatcher lift the fence before the pull has been noticed, and the next store overwrites the pulled file (`NoUnseenOverwrite`) or takes it for loaded (`OriginTruthful`) |
| `MCSnapshot.cfg` with `HalfStoredWorkKept` and `MaxEvents = 4` | a store of the universe fails before the manifest; a load that accepts the files repairs the manifest and fails before its clears; a store that overrides the drift stops before its origin: the next open clears what was edited since |
| `MCDispatch.cfg` with `CommandOnOneDatabase`, `GateHolds` | a command of two statements spans a switch of workspace; a command admitted just before a load runs its statements during it |
| `MCCanvas.cfg` with `StrayEdits = TRUE` | the answer of an edit reaches a canvas that is gone: nobody saves it (`NothingForgotten`) |
| `MCCanvas.cfg` with `FailedIsRetained`, `SavedIsSaved` | a flush that runs out of time is shown as failed with nothing retained; the last save of the previous canvas shows the edits of the next as saved |

## 4. Bounds

* `MaxEpoch = 2` resets of the lock: the count of discarded holders must mix two
  epochs, and a third adds none that a release can tell apart. The database
  module resets its lock only in a close, so there `MaxGeneration` bounds it.
* Three clients of the lock: a holder, a waiter and one behind it. Two
  callers of the module: one that holds and one that gives up on it, one handle
  abandoned and its successor; `MCDbModuleThree.cfg` adds the statement that comes between.
* `ReadLimit = 1` slot instead of 4: two readers then already compete, and
  overfilling and losing a slot show in the same way.
* `MaxCalls = 3` lifecycle calls and one crash: the load is started by the first,
  superseded by the second, observed by the third. The liveness run has two calls.
* Two namespaces: the one that is stored, or loaded, and the one whose cross-namespace
  slice it disturbs. In `AutoSave` two versions of a content are enough to tell saved
  from unsaved; in `SnapshotSync` every change makes a version of its own.
* `MaxEvents = 3` edits, explicit stores and faults in `AutoSave`: an edit in each of
  the phases of the round that stores the previous one, and one more; in
  `SnapshotSync` three commits, edits, checkouts and stops: the file that is
  changed, the database that is changed beside it, and the interruption of what reconciles them.
  After a store that stops half-way three are too few to see unsaved work cleared, which takes a
  fourth (`HalfStoredWorkKept`, table above); `UnsavedSharedWorkKept` leaves that case out, and its
  theorem is about any number.
  `MaxFlushRounds = 2` instead of 8: the properties of `flush()` exclude the case that
  it gives up, which is then reached by two edits in its waits instead of eight.
* `MaxRetries = 2` instead of 3 restarts and `MaxCrashes = 4`: enough crashes to use up the
  restarts, and one to interrupt the streak by a stable period.
* `Statements = 2`, two commands, two opens: both commands can be deferred, and a
  load can end, be superseded or be replaced between the statements of one.
* `MAX_RETRIES = 1` instead of 3 saves of the canvas, two mounts, two edits, two failures: an edit
  that comes during a save, a retry, and a canvas that takes over. The run has
  one directory; with two the properties hold as well (4.7 million states), as the proofs say
  of any number. canvas_reopens has two directories and one mount.

Runs with `CHECK_DEADLOCK FALSE` stop when their bounds are used up or their
users have nothing more to do (`WorkspaceLifecycle`, `AutoSave`, `SnapshotSync`,
`WorkerSupervisor`, `CommandDispatch`, `CanvasAutoSave`); lock and db have deadlock checked.
Symmetry is used where only safety is checked: of callers and directories in
workspace_safety, of callers in `MCDbModuleThree.cfg`. The other
runs that are large enough to need it check liveness, or number their namespaces, as the
code orders them by name. The handles of `DbModule` are interchangeable, so an
open takes one of those not used yet and does not branch over them (`FreshHandle`).

## 5. Fairness

* **Lock**: whoever holds the lock releases it. Requests, timeouts and resets are never
  obliged to happen.
* **Database module**: the native library answers, JavaScript runs every
  continuation and the timer of `close()` fires; strong fairness of each call, since the
  event loop alternates between continuations and events. Nobody is obliged
  to end a transaction, since a leaked one is what the budget of `close()` is for;
  the properties that need it say so (`TransactionsEnd`).
* **Lifecycle**: weak fairness of every section of the mutex and of the catch block of a load. A
  load may never end; the properties that need it say so (`LoadsEnd`).
* **Auto-save**: the debounce timer fires, queries and file writes end (with a
  result or an exception), handlers resolve. Nobody is obliged to edit, to
  store, to close a workspace or to open it again.
* **Supervisor**: the timers of a start and of a shutdown fire, the exit of a process that is
  dead is reported, a live worker answers each request it was given and the answer arrives.
  It is not obliged to get ready, to survive, to die of a signal, or to finish a shutdown.
* **Dispatch**: a request takes its next step when it can, the drain chain goes on, and a
  load that was superseded ends (its database is closed under it). A load that is
  current may never end: `EveryRequestAnswered` promises an answer to every open all the
  same, and to every command unless there is a load from some moment on for ever.
* **Snapshot and canvas** have safety properties only. For the canvas the promise "an edit is saved in the end"
  is stated as `NothingForgotten`: at every moment something is armed that will save
  it, or the user was told it failed.

## 6. Proofs

All theorems are about the specifications the runs check, for every value of their constants
that satisfies the assumption named in the module: any finite set of clients
(lock), any set of requests, commands, opens, directories or namespaces, any
number of retries, crashes, resets, statements and events. Invariants are proved
inductive; each action has a lemma, or a step, of its own.

| Module | Theorem | Says |
|---|---|---|
| `DbLockProofs` | `LockInvariant` | the inductive invariant `LockInv` always holds |
| | `LockTypeCorrect` | `[]LockTypeOK` |
| | `LockCountersExact` | `[]CountersExact` |
| | `LockMutualExclusion` | `[]MutualExclusion` |
| | `LockReclaimIsSafe` | `[]ReclaimIsSafe` |
| | `LockOrderInvariant` | whoever waits is in the queue, and `NoLostWakeup`, on top of `LockInv` |
| | `LockNoLostWakeup` | `[]NoLostWakeup` |
| | `LockNoOvertaking` | `NoOvertaking`, an action property |
| | `LockStaleReleaseIsInert` | `StaleReleaseIsInert`, an action property |
| | `LockImplementsAbstract` | `LockSpec => Abstract!RWSpec`: the lock implements `ReadersWriterLock` |
| `DbModuleProofs` | `DbInvariant` | the inductive invariant `DbInv` of lock, handles and calls always holds, if no native close is slow |
| | `DbLockKept` | the module's use of the lock keeps `[]MutualExclusion`, `[]NoLostWakeup` and `[]ReclaimIsSafe` |
| | `DbTypeCorrect` | `[]DbTypeOK` |
| | `DbStatementsSafe` | `[]LockedStatementsSafe` |
| | `DbStatementsOnRequested` | `[]StatementsOnRequestedDatabase` |
| | `DbStatusTruthful`, `DbOpeningIsExclusive` | `[]StatusTruthful`, `[]OpeningIsExclusive`, if no native open is slow either |
| | `DbOneOwner` | `[]OneOwner` |
| `WorkspaceProofs` | `LifecycleTypeCorrect` | `[]LifecycleTypeOK` |
| | `LifecycleInvariant` | `LifecycleInv`, of loads, calls and files, always holds, if creates are gated (below) |
| | `LifecycleLastCallWins` | `[]LastCallWins`, under the same condition |
| | `LifecycleHealthy` | `[]HealthyMeansWhole`, under the same condition |
| | `LifecycleLoadCloses` | `LoadClosesOwnDatabase`, an action property, under the same condition |
| | `LifecycleOnlyCopyKept` | `OnlyCopyKept`, an action property, under the same condition |
| `AutoSaveProofs` | `SaveInvariant` | the inductive invariant `SaveInv` of marks, flags and rounds always holds |
| | `AutoSaveTypeCorrect` | `[]AutoSaveTypeOK` |
| | `AutoSaveFollowsMarks` | `[]MarksAreFollowedUp` |
| | `AutoSaveManifestTruthful` | `[]ManifestTruthful` |
| | `RestInvariant` | `RestInv`, of contents, always holds, if no command stores one namespace |
| | `AutoSaveRestsSaved` | `[]RestMeansSaved`, under the same condition |
| | `AutoSaveFlushSettles` | `FlushSettlesSaved`, an action property, under the same condition |
| `SupervisorProofs` | `SupervisorTypeCorrect` | `[]SupervisorTypeOK` |
| | `SupervisorRetriesOnce` | `[]RetriedOnce` |
| | `SupervisorCrashLoopEnds` | `[]CrashLoopEnds` |
| | `SupervisorLeavesNoWorker` | `[]NoWorkerAfterShutdown` |
| `DispatchProofs` | `DispatchInvariant` | the inductive invariant `DispatchInv` always holds |
| | `DispatchHoldsUntilSettled` | `[]HeldUntilSettled` |
| | `DispatchDefersInOrder` | `DeferredInOrder`, an action property |
| `SnapshotProofs` | `SyncInvariant` | `SyncInv` always holds, if nothing disturbs (below) |
| | `SyncTypeCorrect`, `SyncOpenIsWhole`, `SyncOriginTruthful`, `SyncFilesNeverHollow` | `[]SyncTypeOK`, `[]OpenMeansWhole`, `[]OriginTruthful`, `[]FilesNeverHollow` |
| | `SyncOverwritesNothingUnseen` | `NoUnseenOverwrite`, an action property |
| | `SyncWorkInvariant` | `WorkInv`, of unsaved work, holds until a store stops half-way, under the same condition |
| | `SyncUnsavedWorkKept` | `UnsavedSharedWorkKept`, an action property, under the same condition |
| `CanvasProofs` | `CanvasInvariant` | `CanvasInv`, of types and armed timers, always holds |
| | `CanvasTypeCorrect` | `[]CanvasTypeOK`, saves serialised included |
| | `CanvasKeeps` | what is not on disk is owed by a coordinator, without stray edits |
| | `CanvasForgetsNothing` | `[]NothingForgotten`, under the same condition |
| | `CanvasSavedIsTrue` | `[]SavedMeansSaved`, under the same condition |

**The lock.** The only assumption is `LockAssumption` (clients are finitely many, the bound on
resets is a natural number). Mutual exclusion is not inductive: `dispatch()`
decides on counters, so an invariant must say that they are the holders; a
grant must not go to a client that holds the lock already, so it must say that
the queue lists each queued client once; a release is told from a stale one by its epoch, so
it must say that no holder is of a later epoch. `LockInv` is the conjunction. The argument follows the shape of the code:
each operation changes the request table and hands it to `dispatch()`, so
`Consistent` is stated of the arguments of `dispatch()`, `DispatchConsistent`
proves once that it is preserved, and each action has a lemma that it hands
`dispatch()` consistent arguments. `ReclaimIsSafe` needs `staleHolders` to be the
exact number of discarded holders: when it is zero there is none.

**Its order.** The order of service needs one fact more, `QueueComplete`: whoever waits is in
the queue. Without it a client that fell out of the queue would be overtaken by
everybody, although each step looks harmless. `Hands` says what an operation may do
to the queue before `dispatch()` runs (each waiter stays in it, nobody moves ahead
of another), and one lemma per operation shows that it does no more; what `dispatch()`
then does is a prefix granted and the rest kept, with a holder blocking the new head
(`DispatchEffect`), from which both `NoLostWakeup` and `NoOvertaking` follow.

**Its refinement.** `DbLockRefinement` maps queue, counters and epochs away: who waits
and holds (`CallOf`) comes from the requests, who came first (`Ahead`) from the
queue, whom a reclaimer waits for (`OwedTo`) from the epochs. Every
operation of the lock, with the grants it makes, is one step of the abstract lock, which
must grant all it may: `DispatchEffect` says which prefix that is, and that the rest is blocked.

**The database module.** `DbModuleProofs` builds on the proofs of the lock: the clients of `DbModule`
are clients of `DbLock`, so every step of it is a step of the lock or leaves it alone, and `OrderInv`
(types, exact counters, a complete queue) carries over. What is added is, per client, `ClientOK`: at which
await a call can be with which request (`Shape`, `Matched`), which of them a `close()` may discard (`Discardable`),
of which generation the handle it will use is (`Dated`, `OnRequested`), and above all `UserSafe`: whoever uses a
handle holds the lock for the current database, or was discarded before the deferred close of that handle
began to wait, so that `whenStaleHoldersReleased()` waits for it (`FreeingAlone`). Per module, `ModuleOK`: the live
handle is the current one (`HandleKept`, `DatabaseKept`), one open is under way (`OneOpen`), the slots are counted
(`SlotsCounted`), and `TimedOutBlocked`: only one `close()` at a time has given up on the lock, and what it gave up on is a client that cannot move
(`Stuck`: a statement that runs, a deferred close that frees, a slow open, a reader without a slot). So the reset
that follows discards those (`Discardable`) and never a `close()` that could still go on. That last fact is where `~SlowClose`
comes in. With a native close that outlasts five seconds the next `close()` gives up on a holder that is not stuck, and
the reset throws away the lock of those who come after it: `MCDbModuleSlowClose.cfg` is a counterexample to
the theorem without the hypothesis. `SlowOpen` does the same to the status alone.
`DbOneOwner` rests on `OwnersKept`: a close hands its handle to one owner in the step in which the module forgets it, and a
failure ends the ownership only of the handle it leaves behind. It is stated under `~SlowClose` because `DbInv` is; TLC finds no
violation of `OneOwner` with slow opens or slow closes, with two or three callers. The lemmas follow the two ways a step can touch the lock: `SteadyInv` for those that leave the
requests of others alone, `SparedOK` for those that dispatch, time out or reset and may change what others hold.

**The workspace service.** A load changes the status, the database or the files only while it `Decides`: it is of the
current epoch, or its catch block runs. `LoadOwns` says that as long as it does, the workspace is the one it was
started for, that this database is open and that ria-data can rebuild it; `LoadAttached` says as much of the database a load
reads into; `LoadsTracked` that the one load that decides is the one the service tracks.
The other half is where calls can be: only the call at the head of the mutex is past its start (`CallOK`), one that
is past the await has no load that decides, and one that has closed or opened a database has none attached
(`LoadsSuperseded`). The await is bounded, so the lemma that matters is `AwaitOver`: a
load it gives up on was superseded before and is not in its catch block. `StepOK` is what each step of a call then relies on (the
case it was decided on still describes the files; the status it will publish is of the open database), and `Resting`
what a workspace looks like while nobody changes it. The hypothesis is `GatedCreate`: `createLocked()` awaits no load, so
it must not be called while one runs or another call waits. The code does not enforce that (File > Create Workspace
is always enabled), so the theorems say what holds until somebody does it, and `MCWorkspaceCreate.cfg` is the counterexample
of what then happens. Crashes, torn logs, faults of
loads, stores and opens, and edited snapshots are all included.

**The auto-save.** Three layers, each on the one before. First the marks: `FlagsArmed` says
that flags wait for something that will take them, `MarksKept` that each mark is announced or
a round comes to it. The second is delicate in one place: the store of a round replaces the
mark of a namespace by the hash of what it read, so a mark counts as the round's
only while the store has yet to come to that namespace (`RoundComesTo`); what it has passed
is no longer marked. This layer holds through every interleaving. Then the files:
as long as no edit has interleaved, its two queries are never apart beside a round or a store (`EditsApart`),
and `StoreProgress` says at each point of a store which hashes it has recorded, which are those
of the files already, and which wait for the fixup; at its end all are, which is `ManifestTruthful`.
Last the contents: `NamespaceComing` and `UniverseComing` say of each namespace, and of the universe,
that it is saved or who will save it: an edit that has yet to report, a flag, a round
that has yet to query, or the list of the round in flight. A round that begins takes over
what is reported (`NamespaceTurns`, `UniverseTurns`), and a store that ends has saved what the round
gives up. Both theorems follow at once where nobody is left. They assume
`NoScopedCommands`: a store of one namespace on command may overwrite the mark of another,
as `MCAutoSaveScoped.cfg` shows; the scoped stores of rounds may not, since the round has every mark in its list.

**The supervisor.** Three facts that no property names make it inductive. A request that
waits was handed over no more often than it was repeated (`HandedCounted`). A streak of failed workers
is never longer than the crash counter, which passes its limit only when the
manager has given up (`StreakCounted`): the timer that resets the counter
belongs to a worker that proved stable, which ends the streak too. A process that
runs is one the manager tracks (`WorkerTracked`), so a shutdown that resolves
has seen the end of it.

**The dispatcher.** Databases are numbered in the order they are opened (`Numbered`), so a
load of the open database is one that nobody superseded. `GateKept` says of each command what it
waited for, `ChainKept` that the drain chain lists each deferred command once and only its
first may be further than waiting; from the two follow that a held command runs after its load, and in turn.

**The snapshot.** The hypothesis `Undisturbed` excludes the faults of the
witnesses: files changed under a running call, a store or an edit beside a load, a
load that stops half-way, a lost origin, a load without a plan. Stores may fail and stop anywhere,
and files may be changed, or checked out to the version before, between calls. The argument is one
notion, `Seen`: a version is seen unless it came from outside and the database never
held it. What the database holds and its origin names is seen (`DatabaseSeen`); so are, in a session
without an open decision, the baseline and, while the manifest is still the
baseline, the files (`SessionSeen`), hence what a store writes over (`StoreSeen`); what a load has
read is seen, and the rest is in its plan (`LoadSeen`). `Alternate` says who runs beside whom. `Refilled`
is the other half: only a load that runs has cleared something, and it will fill it
again, a cut cross-namespace edge included.

Unsaved work needs a second invariant. A load that nobody asked for clears a shared layer only if the manifest
differs from the origin (`PlanIsStale`), and must then find that the files changed, not only the
database. So whatever version the database has or `held` last is the one its origin names, or, in a store, will name;
or else it is in neither the files nor the manifest (`HoldingsRecorded`). It speaks of the previous
manifest too (`NotNamed`), since a checkout goes back to it. `StoreRecords` is the same between the
steps of a store, `BaselineRecorded` what lets the fence judge by the origin. The exception is `halfStored`. The first
attempt had none, and failed at a store that stops before its origin in a database whose
previous store and load had stopped too; TLC then found the behaviour with four events, where the run
has three. So `UnsavedSharedWorkKept` ends its promise at the first store that stops half-way, and
`HalfStoredWorkKept` states what is false after it.

**The canvas.** A coordinator `Owes` the layers its saves and its pending work cover. Everything it does but to
store leaves it owing what it owed (`Continues`), and what is pending is `Armed`: a timer, a follow-up or the end of the save in
flight takes it up, or its retries are used up and it says so. `CanvasInv` holds however edits, canvases and
workspaces follow each other. `KeptInv` says that what is not on disk is owed, for the workspace it is of, and needs
two things that `StrayEdits` gives up. The answer of an edit must find the canvas it was
made in. And a coordinator has one directory for all it has pending (`pendingWorkingDir`): an edit of another workspace, reported to a coordinator that
still has work of the first, moves that work there, and the first keeps its edit unsaved. Checked with two
directories and two canvases, the properties were violated by this step until edits were confined to `AtHome`.

**Only model-checked.** All liveness (`LockProgress`, `CallsReturn`, `AbandonedHandleFreed`,
`LifecycleProgress`, `EditsReachDisk`, `EveryCallSettles`, `EveryRequestAnswered`), which is out of TLAPS's
reach, as are ENABLED and induction over data. Every invariant and every action property of a
passing run is stated by a theorem, under the conditions above; where a theorem has a condition that
its run does not make, the run is the evidence for the rest.

## 7. Disagreements with the code's own words

Each is a run that expects a violation of one property, which states what a
comment says.

* **workspace_reopen**: opening the directory that is loading a second time
  supersedes the load, against `workspace-service.ts:712-713`: it completes without publishing,
  and the status stays at loading until the workspace is closed.
* **autosave_mid_store**: an edit between the reads of a store and its
  `SET content_hash` loses its mark; the follow-up round, which "covers" it
  (`auto-save-coordinator.ts:326-330`), finds nothing to store.
* **canvas_reopens**: a store names the workspace its edit was made in, and its handler
  opens that workspace, although an auto-save "changes no in-memory server state"
  (`useScopedSaveMutation.ts:46-47`). A pending save that is flushed by a switch of
  workspace takes the worker back to the one the user left.

The witnesses of section 3 hold disagreements of less consequence, or that take
rarer events: a late `rollback()` against `db-lock.ts:134`, `create()`
against `workspace-service.ts:319-321`, the recheck of a failed load against
`BottomPanel.tsx:297`, the lost origin against `snapshot-origin.ts:190` ("no data is at risk")
and its lines 43-44, the skipped probe against `wal-recovery.ts:47-49`, the failed round
against `auto-save-coordinator.ts:255-258`, the dropped flags against lines 208-212 of it,
the cleanup after an open against `workspace-channels.ts:56-61`, the gate
against `worker.ts:184-186`, the timed-out flush against
`canvasAutoSaveCoordinator.ts:404`.

## 8. What is not modelled

Limits of the modules there are:

* *DbModule*: rows and parameters; a path is the handle that was opened on it. What a
  native close that threw has done to its handle is not known: it counts as open for good.
* *WorkspaceLifecycle*: snapshots are edited from outside only while no call and
  no load runs, and `notifyStoreCompleted()`, which asks only that a workspace is
  open, comes only between calls and on files that need no decision; the
  per-domain evaluation is one of three outcomes (it is `SnapshotSync`'s subject); the catch
  block of a failed load settles within the 5 s await of the next call; a load
  reads everything or fails. The database module's own races are `DbModule`'s.
* *AutoSave*: one directory, whose manifest exists and needs no forced
  re-export; the read of a layer and the write of its files are one step, and a
  namespace's own content and its slice are read at once; the worker does not die
  during a store; the drift fence is one more failure; temporary namespaces,
  and the hashes of the universe, metamodel and source layers are left out. Two branches of the code cannot be
  reached and have no effect: the timer firing while a flush is in flight, and a
  round with no flag set.
* *SnapshotSync*: the slice of the cross-namespace layer in a namespace's hash, the meta
  domain, namespaces that are added, removed or renamed, rows and the edges within a layer.
  The run repairs a manifest only when the renderer offers it (`RepairOffered`,
  `BottomPanel.tsx:291-297` and 332-339); `persistor.ts:199-213` and
  `persistor-channels.ts:122-143` have no such guard, see `RepairFaults` in section 3.
* *WorkerSupervisor*: a fork that throws; progress, log and stream events.
* *CommandDispatch*: the containment caches, the import lock, what a superseded
  command answers.
* *CanvasAutoSave*: the comparison after a save reads the same query cache twice in
  one task and never differs; the branch for a missing working directory cannot be
  reached from the canvas; the phase stays `db_open`; `workspace.open` is executed
  after the stores that were sent before it. The worker's own auto-save, which may
  save the same edit, is `AutoSave`'s: what is `unsaved` here is what the canvas answers for.

Components that have no module:

* Candidates for later modules: log recovery, import orchestration, the registry
  of reviews, commit on store, the application of a merge, union merge, the
  invalidation of cached queries between main process and renderer.
* Left out because they have no state of their own: canonical form and hashes,
  schema, checks, views, safety commands and exports, diff, importers,
  contracts, profiles, the generated language packages.
* Left out because they are a user interface, a network service or git's own
  state: the renderer but for its auto-save, the LLM providers, the git service.

These are most of the repository's lines: a generated grammar and its syntax tree, React
panels, parsers of exchange formats, and modules that compose one query and return its rows. They
change no state that outlives a call but the database's, and what they may do to it is what an edit
or an import does in the modules above. The share of all lines that the map covers is
small for that reason; of the files that keep state between calls (lock, database
module, lifecycle, coordinator, store, load, baseline, origin, gate, dispatcher, supervisor,
canvas coordinator) most of the control is covered.

`PROJECT.json` lists each with its files, and under "hazards" what is hard to
test, with the properties that watch it or the reason none does.

## 9. Plan

Done, in this order: `DbLock` and its proofs, `DbModule` on top of it,
`WorkspaceLifecycle`, `AutoSave`; `SnapshotSync`, `WorkerSupervisor`, `CommandDispatch`,
`CanvasAutoSave`; the refinement of `ReadersWriterLock`; the proofs of the
supervisor, the dispatcher, the snapshot and the auto-save; those of the database module, the
workspace service and the canvas; that of unsaved work in the snapshot.

What would add most next:

1. Theorems: for each action property of the lock, that `DbModule` keeps it too
   (a step of the module is one of the lock), and with it the refinement of `ReadersWriterLock`.
2. `WalRecovery`: the child process that probes, its timeout, the quarantine of the log;
   composed with `WorkspaceLifecycle` in place of its one-step open.
3. `DispatchCache`: reads and clears of the containment caches; no answer older than the last clear.
4. `ImportRun` and `ReviewRuns`: an import confirmed on an impact that is out of date; a
   review that is cancelled while its answer arrives.
5. A store that ends after its workspace was replaced (`AutoSave` over `WorkspaceLifecycle`), and
   the death of the worker within a store.
