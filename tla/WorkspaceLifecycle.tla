------------------------- MODULE WorkspaceLifecycle -------------------------
(***************************************************************************)
(* packages/app-core/src/workspace/workspace-service.ts: open, create and  *)
(* close of a workspace, serialised by the lifecycle mutex, and the load   *)
(* from ria-data that Case B of open() leaves running in the background    *)
(* after it has returned.                                                  *)
(*                                                                         *)
(* The database module appears through what its callers rely on: which     *)
(* directory's database is open, and that a query of a superseded handle   *)
(* fails (module DbModule).  A load fails when its handle is superseded.   *)
(* statusSnapshot is not a variable of its own: commitStatus() follows     *)
(* every assignment to state before the next await.                        *)
(***************************************************************************)
EXTENDS Naturals, Sequences, FiniteSets

CONSTANTS
    Callers,       \* concurrent calls of open(), create() and close()
    Dirs,          \* working directories
    NoDir,         \* null
    MaxCalls,      \* bound on the calls explored
    MaxCrashes,    \* bound on the times the worker process dies
    Faults,        \* may the native open, a load or a store fail by itself?
    GatedCreate    \* create() is called only when no call waits and no load runs

ASSUME LifecycleAssumption ==
    /\ NoDir \notin Dirs
    /\ MaxCalls \in Nat
    /\ MaxCrashes \in Nat
    /\ Faults \in BOOLEAN
    /\ GatedCreate \in BOOLEAN

VARIABLES
    ria,        \* what classifyRiaData() finds in each directory
    db,         \* the database file of each directory
    module,     \* the directory whose database is open, or NoDir
    ws,         \* state: isOpen, config.workingDir, lifecycleAction
    epoch,
    tracked,    \* currentLoad: the epoch of the tracked load, 0 for null
    loads,      \* the background loads that have not settled
    waiting,    \* the lifecycle mutex: its head is in the critical section
    op,         \* what each caller is doing
    last,       \* the last call that left the critical section, for properties
    calls, crashes

vars == <<ria, db, module, ws, epoch, tracked, loads, waiting, op, last, calls, crashes>>

Snapshots == {"absent", "readable", "unusable", "incompatible"}

\* partial: created empty, or a load that did not end.  whole: has its content.
\* stale: another schema version.  torn: its write-ahead log aborts the process
\* that replays it.
Databases == {"none", "partial", "whole", "stale", "torn"}

NoOp == [kind |-> "none", dir |-> NoDir, recheck |-> FALSE, pc |-> "idle",
         case |-> "none"]

ClosedWs == [isOpen |-> FALSE, dir |-> NoDir, action |-> "consistent"]

OpenWs(d, action) == [isOpen |-> TRUE, dir |-> d, action |-> action]

LifecycleInit ==
    /\ ria \in [Dirs -> Snapshots]
    /\ db \in [Dirs -> {"none", "whole", "stale"}]
    /\ module = NoDir
    /\ ws = ClosedWs
    /\ epoch = 0
    /\ tracked = 0
    /\ loads = {}
    /\ waiting = <<>>
    /\ op = [c \in Callers |-> NoOp]
    /\ last = [kind |-> "none", dir |-> NoDir, ok |-> FALSE]
    /\ calls = 0
    /\ crashes = 0

Files  == <<ria, db>>
Bounds == <<calls, crashes>>
Loading == <<epoch, tracked, loads>>

-----------------------------------------------------------------------------
(***************************************************************************)
(* Calls and the mutex.                                                    *)
(***************************************************************************)
Request(c, kind, d, recheck) ==
    /\ op[c] = NoOp
    /\ calls < MaxCalls
    /\ (kind = "create" /\ GatedCreate) => (waiting = <<>> /\ tracked = 0)
    /\ calls' = calls + 1
    /\ op' = [op EXCEPT ![c] = [kind |-> kind, dir |-> d, recheck |-> recheck,
                                pc |-> "start", case |-> "none"]]
    /\ waiting' = Append(waiting, c)
    /\ UNCHANGED <<Files, module, ws, Loading, last, crashes>>

InSection(c) == waiting # <<>> /\ Head(waiting) = c

Serving(c, kinds, pc) == InSection(c) /\ op[c].kind \in kinds /\ op[c].pc = pc

Goto(c, pc) ==
    /\ op' = [op EXCEPT ![c].pc = pc]
    /\ UNCHANGED <<waiting, last>>

Finish(c, ok) ==
    /\ op' = [op EXCEPT ![c] = NoOp]
    /\ waiting' = Tail(waiting)
    /\ last' = [kind |-> op[c].kind, dir |-> op[c].dir, ok |-> ok]

\* dbModule.open() and close() supersede every handle handed out before.
Superseded(ls) == {[l EXCEPT !.attached = FALSE] : l \in ls}

DbOpens(d) ==
    /\ module' = d
    /\ loads' = Superseded(loads)

DbCloses == DbOpens(NoDir)

\* The bounded await of the tracked load: withTimeout(currentLoad, 5 s).  The
\* catch block of a failed load, a close() that is itself bounded and the removal
\* of two files, is assumed to settle within it.
LoadSettled == tracked = 0
AwaitTimesOut == \E l \in loads : l.epoch = tracked /\ l.pc \in {"loading", "cleanup"}
AwaitEnds == LoadSettled \/ AwaitTimesOut

-----------------------------------------------------------------------------
(***************************************************************************)
(* openLocked(): an in-flight load is superseded and awaited, then the     *)
(* workspace that is open is kept, rechecked, or closed.                   *)
(***************************************************************************)
\* Variant for mutation: the load is awaited and not superseded.
OpenAwaitsLoad(c) ==
    /\ Serving(c, {"open"}, "start")
    /\ tracked # 0
    /\ Goto(c, "awaitingLoad")
    /\ UNCHANGED <<Files, module, ws, Loading, Bounds>>

OpenSupersedesLoad(c) ==
    /\ Serving(c, {"open"}, "start")
    /\ tracked # 0
    /\ epoch' = epoch + 1
    /\ Goto(c, "awaitingLoad")
    /\ UNCHANGED <<Files, module, ws, tracked, loads, Bounds>>

OpenBegins(c) ==
    \/ Serving(c, {"open"}, "start") /\ tracked = 0
    \/ Serving(c, {"open"}, "awaitingLoad") /\ AwaitEnds

AlreadyOpen(d) == ws.isOpen /\ ws.dir = d /\ db[d] # "none"

OpenFastPath(c) ==
    /\ OpenBegins(c)
    /\ AlreadyOpen(op[c].dir)
    /\ ~op[c].recheck
    /\ Finish(c, TRUE)
    /\ UNCHANGED <<Files, module, ws, Loading, Bounds>>

OpenRechecks(c) ==
    /\ OpenBegins(c)
    /\ AlreadyOpen(op[c].dir)
    /\ op[c].recheck
    /\ Goto(c, "rechecking")
    /\ UNCHANGED <<Files, module, ws, Loading, Bounds>>

OpenClosesPrevious(c) ==
    /\ OpenBegins(c)
    /\ ws.isOpen
    /\ ~AlreadyOpen(op[c].dir)
    /\ DbCloses
    /\ ws' = ClosedWs
    /\ Goto(c, "probing")
    /\ UNCHANGED <<Files, epoch, tracked, Bounds>>

OpenFromClosed(c) ==
    /\ OpenBegins(c)
    /\ ~ws.isOpen
    /\ Goto(c, "probing")
    /\ UNCHANGED <<Files, module, ws, Loading, Bounds>>

\* What the per-domain evaluation of manifest, files and database can conclude:
\* a database that was never filled has no origin rows, and one that is not open
\* answers no query, so it is not found consistent.
Outcomes(d) ==
    {"decision", "load"} \cup (IF db[d] # "partial" /\ module = d THEN {"consistent"} ELSE {})

\* The lifecycleAction of an outcome that needs no load.
Settled(outcome) == IF outcome = "decision" THEN "dbOnly" ELSE "consistent"

Recheck(c) ==
    LET d == op[c].dir
    IN /\ Serving(c, {"open"}, "rechecking")
       /\ \/ /\ ria[d] = "incompatible"
             /\ Finish(c, FALSE)
             /\ UNCHANGED ws
          \/ /\ ria[d] = "unusable"
             /\ ws' = [ws EXCEPT !.action = "unusable"]
             /\ Finish(c, TRUE)
          \/ /\ ria[d] = "absent"
             /\ Finish(c, TRUE)
             /\ UNCHANGED ws
          \/ /\ ria[d] = "readable"
             /\ \E o \in Outcomes(d) :
                  IF o = "load" THEN Goto(c, "rereading") /\ UNCHANGED ws
                  ELSE Finish(c, TRUE) /\ ws' = [ws EXCEPT !.action = Settled(o)]
    /\ UNCHANGED <<Files, module, Loading, Bounds>>

\* The load of a recheck: its failure keeps the database open.  It fails on a
\* database of another schema version, which is read-only.
RecheckLoads(c) ==
    /\ Serving(c, {"open"}, "rereading")
    /\ \/ /\ module = op[c].dir
          /\ db[op[c].dir] # "stale"
          /\ db' = [db EXCEPT ![op[c].dir] = "whole"]
          /\ ws' = [ws EXCEPT !.action = "loaded"]
       \/ /\ Faults \/ module # op[c].dir \/ db[op[c].dir] = "stale"
          /\ ws' = [ws EXCEPT !.action = "failed"]
          /\ UNCHANGED db
    /\ Finish(c, TRUE)
    /\ UNCHANGED <<ria, module, Loading, Bounds>>

-----------------------------------------------------------------------------
(***************************************************************************)
(* openLocked(): lifecycle detection.                                      *)
(***************************************************************************)
\* Variant for mutation: hasValidManifest, a boolean.
CaseOfBoolean(d) ==
    IF db[d] = "none"
    THEN IF ria[d] = "readable" THEN "B" ELSE "A"
    ELSE IF ria[d] = "readable" THEN "D" ELSE "C"

CaseOf(d) ==
    IF ria[d] = "unusable" THEN "unusable"
    ELSE IF ria[d] = "incompatible" THEN "incompatible"
    ELSE IF db[d] = "none"
         THEN IF ria[d] = "readable" THEN "B" ELSE "A"
         ELSE IF ria[d] = "readable" THEN "D" ELSE "C"

\* Probing the write-ahead log out of process is part of Cases C and D.
Probe(c) ==
    LET d == op[c].dir
        case == CaseOf(d)
    IN /\ Serving(c, {"open"}, "probing")
       /\ \/ /\ \/ case = "incompatible"
                \/ case = "C" /\ db[d] = "torn"
             /\ Finish(c, FALSE)
             /\ UNCHANGED ws
          \/ /\ case = "D" /\ db[d] = "torn"
             /\ ws' = OpenWs(d, "loading")
             /\ Goto(c, "freshClose")
          \/ /\ case \in {"A", "B", "unusable"} \/ (case \in {"C", "D"} /\ db[d] # "torn")
             /\ op' = [op EXCEPT ![c].pc = "opening", ![c].case = case]
             /\ UNCHANGED <<ws, waiting, last>>
    /\ UNCHANGED <<Files, module, Loading, Bounds>>

Opening(c, cases) == Serving(c, {"open"}, "opening") /\ op[c].case \in cases

\* A native open that answers, on a file that exists afterwards.  A new database
\* is empty: the whole content where there is no snapshot to fill it from.
OpenSucceeds(d) ==
    /\ db[d] # "torn"
    /\ module' = d
    /\ db' = [db EXCEPT ![d] = IF @ # "none" THEN @
                              ELSE IF ria[d] = "absent" THEN "whole" ELSE "partial"]

OpenFails(d) ==
    /\ Faults
    /\ db[d] # "torn"
    /\ module' = NoDir
    /\ UNCHANGED db

\* The worker process is gone, and with it every call.
WorkerDies ==
    /\ module' = NoDir
    /\ ws' = ClosedWs
    /\ epoch' = 0
    /\ tracked' = 0
    /\ loads' = {}
    /\ waiting' = <<>>
    /\ op' = [c \in Callers |-> NoOp]
    /\ last' = [kind |-> "none", dir |-> NoDir, ok |-> FALSE]
    /\ UNCHANGED calls

\* The replay of a torn write-ahead log aborts the process that opens it.
OpenAborts(c) ==
    /\ Serving(c, {"open"}, "opening")
    /\ db[op[c].dir] = "torn"
    /\ WorkerDies
    /\ UNCHANGED <<Files, crashes>>

OpenRefused(c) ==
    /\ Opening(c, {"A", "B", "unusable"})
    /\ OpenFails(op[c].dir)
    /\ loads' = Superseded(loads)
    /\ Finish(c, FALSE)
    /\ UNCHANGED <<ria, ws, epoch, tracked, Bounds>>

OpenUnusable(c) ==
    /\ Opening(c, {"unusable"})
    /\ OpenSucceeds(op[c].dir)
    /\ loads' = Superseded(loads)
    /\ ws' = OpenWs(op[c].dir, "unusable")
    /\ Finish(c, TRUE)
    /\ UNCHANGED <<ria, epoch, tracked, Bounds>>

\* checks.json is written before the workspace counts as open.
Created(c) ==
    \/ ws' = OpenWs(op[c].dir, "created") /\ Finish(c, TRUE)
    \/ Faults /\ Finish(c, FALSE) /\ UNCHANGED ws

OpenCreates(c) ==
    /\ Opening(c, {"A"})
    /\ OpenSucceeds(op[c].dir)
    /\ loads' = Superseded(loads)
    /\ Created(c)
    /\ UNCHANGED <<ria, epoch, tracked, Bounds>>

\* Case B: publish "loading", start the load and return.
OpenLoads(c) ==
    /\ Opening(c, {"B"})
    /\ OpenSucceeds(op[c].dir)
    /\ epoch' = epoch + 1
    /\ tracked' = epoch + 1
    /\ loads' = Superseded(loads) \cup
                  {[dir |-> op[c].dir, epoch |-> epoch + 1, pc |-> "loading",
                    attached |-> TRUE]}
    /\ ws' = OpenWs(op[c].dir, "loading")
    /\ Finish(c, TRUE)
    /\ UNCHANGED <<ria, Bounds>>

\* Cases C and D find a database that cannot be opened or has another schema.
FoundStale(d) ==
    \/ OpenFails(d)
    \/ db[d] = "stale" /\ OpenSucceeds(d)

\* Variant for mutation: Case C rebuilds like Case D.
StaleRebuiltAlways(c) ==
    /\ Opening(c, {"C"})
    /\ FoundStale(op[c].dir)
    /\ loads' = Superseded(loads)
    /\ ws' = OpenWs(op[c].dir, "loading")
    /\ Goto(c, "freshClose")
    /\ UNCHANGED <<ria, epoch, tracked, Bounds>>

\* Without a snapshot to rebuild from, a stale database is left alone.
StaleKept(c) ==
    /\ Opening(c, {"C"})
    /\ FoundStale(op[c].dir)
    /\ loads' = Superseded(loads)
    /\ ws' = OpenWs(op[c].dir, "failed")
    /\ Finish(c, TRUE)
    /\ UNCHANGED <<ria, epoch, tracked, Bounds>>

StaleRebuilt(c) ==
    /\ Opening(c, {"D"})
    /\ FoundStale(op[c].dir)
    /\ loads' = Superseded(loads)
    /\ ws' = OpenWs(op[c].dir, "loading")
    /\ Goto(c, "freshClose")
    /\ UNCHANGED <<ria, epoch, tracked, Bounds>>

OpenSaves(c) ==
    /\ Opening(c, {"C"})
    /\ db[op[c].dir] # "stale"
    /\ OpenSucceeds(op[c].dir)
    /\ loads' = Superseded(loads)
    /\ ws' = OpenWs(op[c].dir, "saved")
    /\ Goto(c, "storing")
    /\ UNCHANGED <<ria, epoch, tracked, Bounds>>

\* A store that fails may leave content without a manifest.  A failure to write
\* checks.json before it is not caught.
StoreEnds(c) ==
    /\ Serving(c, {"open"}, "storing")
    /\ \/ /\ module = op[c].dir
          /\ ria' = [ria EXCEPT ![op[c].dir] = "readable"]
          /\ Finish(c, TRUE)
          /\ UNCHANGED ws
       \/ /\ Faults \/ module # op[c].dir
          /\ ws' = [ws EXCEPT !.action = "dbOnly"]
          /\ \E s \in {"absent", "unusable"} : ria' = [ria EXCEPT ![op[c].dir] = s]
          /\ Finish(c, TRUE)
       \/ /\ Faults
          /\ Finish(c, FALSE)
          /\ UNCHANGED <<ria, ws>>
    /\ UNCHANGED <<db, module, Loading, Bounds>>

OpenCompares(c) ==
    /\ Opening(c, {"D"})
    /\ db[op[c].dir] # "stale"
    /\ OpenSucceeds(op[c].dir)
    /\ loads' = Superseded(loads)
    /\ ws' = OpenWs(op[c].dir, "consistent")
    /\ Goto(c, "evaluating")
    /\ UNCHANGED <<ria, epoch, tracked, Bounds>>

Evaluate(c) ==
    /\ Serving(c, {"open"}, "evaluating")
    /\ \E o \in Outcomes(op[c].dir) :
         IF o = "load" THEN Goto(c, "reloading") /\ UNCHANGED ws
         ELSE Finish(c, TRUE) /\ ws' = [ws EXCEPT !.action = Settled(o)]
    /\ UNCHANGED <<Files, module, Loading, Bounds>>

\* Variant for mutation: a failed reload is published as a load.
ReloadIgnoresFailure(c) ==
    /\ Serving(c, {"open"}, "reloading")
    /\ \/ module = op[c].dir /\ db' = [db EXCEPT ![op[c].dir] = "whole"]
       \/ UNCHANGED db
    /\ ws' = [ws EXCEPT !.action = "loaded"]
    /\ Finish(c, TRUE)
    /\ UNCHANGED <<ria, module, Loading, Bounds>>

\* The load of Case D: its failure closes the database and preserves the file.
ReloadEnds(c) ==
    /\ Serving(c, {"open"}, "reloading")
    /\ \/ /\ module = op[c].dir
          /\ db' = [db EXCEPT ![op[c].dir] = "whole"]
          /\ ws' = [ws EXCEPT !.action = "loaded"]
          /\ UNCHANGED <<module, loads>>
       \/ /\ Faults \/ module # op[c].dir
          /\ DbCloses
          /\ ws' = [ws EXCEPT !.action = "failed"]
          /\ UNCHANGED db
    /\ Finish(c, TRUE)
    /\ UNCHANGED <<ria, epoch, tracked, Bounds>>

-----------------------------------------------------------------------------
(***************************************************************************)
(* performFreshLoad(): close, delete the files, open an empty database and *)
(* load it.  A failed load closes and deletes again.                       *)
(***************************************************************************)
FreshDiscards(c) ==
    /\ Serving(c, {"open"}, "freshClose")
    /\ DbCloses
    /\ db' = [db EXCEPT ![op[c].dir] = "none"]
    /\ Goto(c, "freshOpen")
    /\ UNCHANGED <<ria, ws, epoch, tracked, Bounds>>

FreshOpens(c) ==
    /\ Serving(c, {"open"}, "freshOpen")
    /\ loads' = Superseded(loads)
    /\ \/ /\ OpenSucceeds(op[c].dir)
          /\ Goto(c, "freshLoad")
          /\ UNCHANGED ws
       \/ /\ OpenFails(op[c].dir)
          /\ ws' = [ws EXCEPT !.action = "failed"]
          /\ Finish(c, TRUE)
    /\ UNCHANGED <<ria, epoch, tracked, Bounds>>

FreshLoadEnds(c) ==
    /\ Serving(c, {"open"}, "freshLoad")
    /\ \/ /\ module = op[c].dir
          /\ db' = [db EXCEPT ![op[c].dir] = "whole"]
          /\ ws' = [ws EXCEPT !.action = "loaded"]
          /\ UNCHANGED <<module, loads>>
       \/ /\ Faults \/ module # op[c].dir
          /\ DbCloses
          /\ db' = [db EXCEPT ![op[c].dir] = "none"]
          /\ ws' = [ws EXCEPT !.action = "failed"]
    /\ Finish(c, TRUE)
    /\ UNCHANGED <<ria, epoch, tracked, Bounds>>

-----------------------------------------------------------------------------
(***************************************************************************)
(* createLocked() and closeLocked().                                       *)
(***************************************************************************)
CreateRefused(c) ==
    /\ Serving(c, {"create"}, "start")
    /\ db[op[c].dir] # "none" \/ ria[op[c].dir] # "absent"
    /\ Finish(c, FALSE)
    /\ UNCHANGED <<Files, module, ws, Loading, Bounds>>

CreateBegins(c) ==
    /\ Serving(c, {"create"}, "start")
    /\ db[op[c].dir] = "none"
    /\ ria[op[c].dir] = "absent"
    /\ IF ws.isOpen THEN DbCloses /\ ws' = ClosedWs
                    ELSE UNCHANGED <<module, ws, loads>>
    /\ Goto(c, "creating")
    /\ UNCHANGED <<Files, epoch, tracked, Bounds>>

CreateEnds(c) ==
    /\ Serving(c, {"create"}, "creating")
    /\ loads' = Superseded(loads)
    /\ \/ /\ OpenSucceeds(op[c].dir)
          /\ Created(c)
       \/ /\ OpenFails(op[c].dir)
          /\ Finish(c, FALSE)
          /\ UNCHANGED ws
    /\ UNCHANGED <<ria, epoch, tracked, Bounds>>

CloseBegins(c) ==
    /\ Serving(c, {"close"}, "start")
    /\ epoch' = epoch + 1
    /\ Goto(c, "closing")
    /\ UNCHANGED <<Files, module, ws, tracked, loads, Bounds>>

\* Variant for mutation: the await of the load is not bounded.
CloseWaits(c) ==
    /\ Serving(c, {"close"}, "closing")
    /\ LoadSettled
    /\ DbCloses
    /\ ws' = ClosedWs
    /\ Finish(c, TRUE)
    /\ UNCHANGED <<Files, epoch, tracked, Bounds>>

CloseEnds(c) ==
    /\ Serving(c, {"close"}, "closing")
    /\ AwaitEnds
    /\ DbCloses
    /\ ws' = ClosedWs
    /\ Finish(c, TRUE)
    /\ UNCHANGED <<Files, epoch, tracked, Bounds>>

-----------------------------------------------------------------------------
(***************************************************************************)
(* The background load of Case B and its completion closures.              *)
(***************************************************************************)
\* Variant for mutation: the promise of a settled load stays tracked.
SettleStillTracked(l) ==
    /\ loads' = loads \ {l}
    /\ UNCHANGED tracked

\* finally(): the load has settled.
Settle(l) ==
    /\ loads' = loads \ {l}
    /\ tracked' = IF tracked = l.epoch THEN 0 ELSE tracked

Advance(l, pc) ==
    /\ loads' = (loads \ {l}) \cup {[l EXCEPT !.pc = pc]}
    /\ UNCHANGED tracked

\* Variants for mutation: the closures do not compare epochs, and their epoch is
\* read before it is bumped.
AlwaysCurrent(l) == l.epoch \in Nat
CapturedEarly(l) == l.epoch = epoch + 1

\* The closures compare the epoch they were created in.
StillCurrent(l) == l.epoch = epoch

LoadReadsAll(l) ==
    /\ l.pc = "loading"
    /\ l.attached
    /\ db' = [db EXCEPT ![l.dir] = "whole"]
    /\ IF StillCurrent(l) THEN Advance(l, "cleanup") ELSE Settle(l)
    /\ UNCHANGED <<ria, module, ws, epoch, waiting, op, last, Bounds>>

\* The load fails, or checks.json cannot be written after it.
LoadFails(l) ==
    /\ l.pc \in {"loading", "cleanup"}
    /\ Faults \/ (l.pc = "loading" /\ ~l.attached)
    /\ IF StillCurrent(l) THEN Advance(l, "closing") ELSE Settle(l)
    /\ UNCHANGED <<Files, module, ws, epoch, waiting, op, last, Bounds>>

\* Default checks, cleanup queries and built-in metamodels are over.
LoadPublishes(l) ==
    /\ l.pc = "cleanup"
    /\ ws' = IF StillCurrent(l) THEN [ws EXCEPT !.action = "loaded"] ELSE ws
    /\ Settle(l)
    /\ UNCHANGED <<Files, module, epoch, waiting, op, last, Bounds>>

\* catch(): dbModule.close() closes whatever database is open.
LoadCloses(l) ==
    /\ l.pc = "closing"
    /\ module' = NoDir
    /\ loads' = Superseded(loads \ {l}) \cup {[l EXCEPT !.pc = "removing", !.attached = FALSE]}
    /\ UNCHANGED <<Files, ws, epoch, tracked, waiting, op, last, Bounds>>

\* The files go, and the failure is published whatever workspace is open.
LoadDiscards(l) ==
    /\ l.pc = "removing"
    /\ db' = [db EXCEPT ![l.dir] = "none"]
    /\ ws' = [ws EXCEPT !.action = "failed"]
    /\ Settle(l)
    /\ UNCHANGED <<ria, module, epoch, waiting, op, last, Bounds>>

-----------------------------------------------------------------------------
(***************************************************************************)
(* What happens around the service.                                        *)
(***************************************************************************)
\* A store on command reports to the service.  The method itself
\* (workspace-service.ts:1639-1645) asks only that a workspace is open; the other
\* guards say when a store comes here: between two lifecycle calls, and on files
\* that need no decision, as the drift fence refuses it otherwise.
NotifyStoreCompleted ==
    /\ waiting = <<>>
    /\ ws.isOpen
    /\ ws.action \in {"created", "loaded", "saved", "consistent"}
    /\ module = ws.dir
    /\ db[ws.dir] # "stale"
    /\ ria[ws.dir] \in {"absent", "readable"}
    /\ ria' = [ria EXCEPT ![ws.dir] = "readable"]
    /\ ws' = [ws EXCEPT !.action = "saved"]
    /\ UNCHANGED <<db, module, Loading, waiting, op, last, Bounds>>

\* Somebody edits, merges or checks out ria-data while no call and no load runs.
SnapshotChanges(d) ==
    /\ waiting = <<>>
    /\ loads = {}
    /\ ria[d] # "absent"
    /\ \E s \in Snapshots \ {"absent", ria[d]} : ria' = [ria EXCEPT ![d] = s]
    /\ UNCHANGED <<db, module, ws, Loading, waiting, op, last, Bounds>>

\* A crash may leave a write-ahead log that cannot be replayed beside the
\* database that was open, and a store without its manifest.
Storing(d) == \E c \in Callers : Serving(c, {"open"}, "storing") /\ op[c].dir = d

Crash ==
    /\ crashes < MaxCrashes
    /\ crashes' = crashes + 1
    /\ WorkerDies
    /\ \/ UNCHANGED ria
       \/ ria' = [d \in Dirs |-> IF Storing(d) THEN "unusable" ELSE ria[d]]
    /\ \/ UNCHANGED db
       \/ module # NoDir /\ db[module] # "none" /\ db' = [db EXCEPT ![module] = "torn"]

-----------------------------------------------------------------------------
Requests(c) ==
    \/ \E d \in Dirs :
         \/ \E recheck \in BOOLEAN : Request(c, "open", d, recheck)
         \/ Request(c, "create", d, FALSE)
    \/ Request(c, "close", NoDir, FALSE)

OpenStep(c) ==
    \/ OpenSupersedesLoad(c) \/ OpenFastPath(c) \/ OpenRechecks(c)
    \/ OpenClosesPrevious(c) \/ OpenFromClosed(c) \/ Recheck(c)
    \/ RecheckLoads(c) \/ Probe(c) \/ OpenAborts(c) \/ OpenRefused(c) \/ OpenUnusable(c)
    \/ OpenCreates(c) \/ OpenLoads(c) \/ StaleKept(c) \/ StaleRebuilt(c)
    \/ OpenSaves(c) \/ StoreEnds(c) \/ OpenCompares(c) \/ Evaluate(c)
    \/ ReloadEnds(c) \/ FreshDiscards(c) \/ FreshOpens(c) \/ FreshLoadEnds(c)

CreateStep(c) == CreateRefused(c) \/ CreateBegins(c) \/ CreateEnds(c)

CloseStep(c) == CloseBegins(c) \/ CloseEnds(c)

LoadStep(l) ==
    \/ LoadReadsAll(l) \/ LoadFails(l) \/ LoadPublishes(l)
    \/ LoadCloses(l) \/ LoadDiscards(l)

ServiceStep ==
    \/ \E c \in Callers : OpenStep(c) \/ CreateStep(c) \/ CloseStep(c)
    \/ \E l \in loads : LoadStep(l)

LifecycleNext ==
    \/ \E c \in Callers : Requests(c)
    \/ ServiceStep
    \/ NotifyStoreCompleted
    \/ \E d \in Dirs : SnapshotChanges(d)
    \/ Crash

LifecycleSpec == LifecycleInit /\ [][LifecycleNext]_vars
=============================================================================
