------------------------------ MODULE DbModule ------------------------------
(***************************************************************************)
(* packages/app-core/src/db/db-module.ts: the module that owns the one     *)
(* native database handle, on top of the lock of DbLock.                   *)
(*                                                                         *)
(* A caller is one call of read query, write query (CHECKPOINT included),  *)
(* beginTransaction, open or close; one action is the code it runs between *)
(* two awaits.  A handle is one native Database object; the deferred close *)
(* of a handle is a client of the lock of its own, named by the handle.    *)
(* A path is abstracted to the handle that was opened on it.               *)
(***************************************************************************)
EXTENDS DbLock

CONSTANTS
    Callers,         \* concurrent calls of the module
    Handles,         \* native handles that can be opened (bounds the opens)
    NoHandle,        \* null
    ReadLimit,       \* maxConcurrentReads
    MaxGeneration,   \* bound on the open and close calls explored
    SlowOpen,        \* may an open outlast the 5 s budget of a close?
    SlowClose        \* may a native close outlast the budget of another close?

ASSUME DbAssumption ==
    /\ Clients = Callers \cup Handles
    /\ Reclaimers = Handles
    /\ Callers \cap Handles = {}
    /\ NoHandle \notin Clients
    /\ ReadLimit \in Nat \ {0}
    /\ MaxGeneration \in Nat
    /\ SlowOpen \in BOOLEAN
    /\ SlowClose \in BOOLEAN

VARIABLES
    handle,        \* the native side of each handle
    database,      \* the handle new statements use
    status,        \* currentStatus
    generation,
    op,            \* what each client is doing
    slotsActive,   \* createSemaphore(): active
    slotQueue      \* createSemaphore(): waiting

dbVars  == <<handle, database, status, generation, op, slotsActive, slotQueue>>
allVars == <<lockVars, dbVars>>

NoOp == [kind |-> "none", pc |-> "idle", gen |-> 0, conn |-> NoHandle]

\* A handle that was never opened, and the generation open() published it in.
\* "unclosed" is a handle whose native close threw; `dropped` records, for the
\* properties only, that a failing open() forgot the handle without closing it.
NoNative == [st |-> "unborn", readOnly |-> FALSE, gen |-> 0, dropped |-> FALSE]

ClosedStatus == [state |-> "closed", handle |-> NoHandle, readOnly |-> FALSE]

DbInit ==
    /\ LockInit
    /\ handle = [h \in Handles |-> NoNative]
    /\ database = NoHandle
    /\ status = ClosedStatus
    /\ generation = 0
    /\ op = [c \in Clients |-> NoOp]
    /\ slotsActive = 0
    /\ slotQueue = <<>>

At(c, kinds, pc) == op[c].kind \in kinds /\ op[c].pc = pc

Goto(c, pc) == op' = [op EXCEPT ![c].pc = pc]
Return(c)   == op' = [op EXCEPT ![c] = NoOp]

UnchangedSlots  == UNCHANGED <<slotsActive, slotQueue>>
UnchangedModule == UNCHANGED <<handle, database, status, generation>>

\* The promise client c awaits is resolved.  JavaScript runs its continuation
\* before it takes the next timer or native answer from the event loop.
Continuing(c) ==
    \/ Held(c) /\ op[c].pc \in {"locking", "closeLocking"}
    \/ op[c].pc \in {"leaving", "woken", "timedOut", "reopening"}
    \/ c \in Reclaimers /\ op[c].pc = "waiting" /\ reclaim[c].st = "resolved"

NextEvent == \A c \in Clients : ~Continuing(c)

Busy == {c \in Callers : op[c].kind \in {"open", "close"}}

\* The exploration bound: every open and close still has two bumps to make.
Budget == generation + 2 * Cardinality(Busy) + 2 <= MaxGeneration

-----------------------------------------------------------------------------
(***************************************************************************)
(* The calls.  The generation is captured before the call queues for the   *)
(* lock, and a read-only database refuses writes then.                     *)
(***************************************************************************)
Call(c, kind, pc) ==
    /\ op[c] = NoOp
    /\ op' = [op EXCEPT ![c] = [kind |-> kind, pc |-> pc, gen |-> generation,
                                conn |-> NoHandle]]
    /\ UnchangedModule
    /\ UnchangedSlots

\* Variants for mutation: close() waits without a budget; open() just opens.
RequestCloseUnbounded(c) == Budget /\ Call(c, "close", "closeLocking") /\ Write(c)
RequestOpenWithoutClose(c) ==
    /\ Budget
    /\ \A d \in Callers : op[d].kind # "open"
    /\ Call(c, "open", "locking")
    /\ Write(c)

RequestRead(c)  == Call(c, "read", "locking") /\ Read(c)
RequestWrite(c) == ~status.readOnly /\ Call(c, "write", "locking") /\ Write(c)
RequestTxn(c)   == ~status.readOnly /\ Call(c, "txn", "locking") /\ AcquireWrite(c)
RequestClose(c) == Budget /\ Call(c, "close", "closeLocking") /\ TryAcquireWrite(c)

\* open() closes an open database first.  Only the workspace service opens, and
\* its mutex lets one open run at a time.
RequestOpen(c) ==
    /\ Budget
    /\ \A d \in Callers : op[d].kind # "open"
    /\ \/ /\ database = NoHandle
          /\ Call(c, "open", "locking")
          /\ Write(c)
       \/ /\ database # NoHandle
          /\ Call(c, "open", "closeLocking")
          /\ TryAcquireWrite(c)

-----------------------------------------------------------------------------
(***************************************************************************)
(* Statements.                                                             *)
(***************************************************************************)
\* Variant for mutation: the generation is not compared.
AdmittedByHandle(c) == op[c].pc # "idle" /\ database # NoHandle

\* assertGeneration() and getConnection() succeed.
Admitted(c) == op[c].gen = generation /\ database # NoHandle

Started(c) ==
    IF Admitted(c) THEN [op[c] EXCEPT !.pc = "executing", !.conn = database]
                   ELSE [op[c] EXCEPT !.pc = "leaving"]

\* readSlots.run(), called with the read lock held.
EnterSlot(c) ==
    /\ At(c, {"read"}, "locking")
    /\ Held(c)
    /\ slotsActive < ReadLimit
    /\ slotsActive' = slotsActive + 1
    /\ op' = [op EXCEPT ![c] = Started(c)]
    /\ UNCHANGED <<slotQueue, lockVars>>
    /\ UnchangedModule

AwaitSlot(c) ==
    /\ At(c, {"read"}, "locking")
    /\ Held(c)
    /\ slotsActive >= ReadLimit
    /\ slotQueue' = Append(slotQueue, c)
    /\ Goto(c, "awaitingSlot")
    /\ UNCHANGED <<slotsActive, lockVars>>
    /\ UnchangedModule

\* Variant for mutation: the slot is taken to have been handed over.
ResumeUncounted(c) ==
    /\ At(c, {"read"}, "woken")
    /\ op' = [op EXCEPT ![c] = Started(c)]
    /\ UNCHANGED <<slotsActive, slotQueue, lockVars>>
    /\ UnchangedModule

\* The woken waiter does not look at the limit again.
ResumeWithSlot(c) ==
    /\ At(c, {"read"}, "woken")
    /\ slotsActive' = slotsActive + 1
    /\ op' = [op EXCEPT ![c] = Started(c)]
    /\ UNCHANGED <<slotQueue, lockVars>>
    /\ UnchangedModule

FinishRead(c) ==
    /\ op[c].kind = "read"
    /\ \/ op[c].pc = "executing" /\ NextEvent
       \/ op[c].pc = "leaving"
    /\ slotsActive' = slotsActive - 1
    /\ IF slotQueue = <<>>
       THEN Return(c) /\ UNCHANGED slotQueue
       ELSE /\ slotQueue' = Tail(slotQueue)
            /\ op' = [op EXCEPT ![c] = NoOp, ![Head(slotQueue)].pc = "woken"]
    /\ Release(c)
    /\ UnchangedModule

\* A write query or CHECKPOINT, or BEGIN, once the write lock is granted.
RunExclusive(c) ==
    /\ op[c].kind \in {"write", "txn"}
    /\ op[c].pc = "locking"
    /\ Held(c)
    /\ Admitted(c)
    /\ op' = [op EXCEPT ![c] = Started(c)]
    /\ UNCHANGED lockVars
    /\ UnchangedModule
    /\ UnchangedSlots

\* DbGenerationChangedError, before anything reached the handle.
Superseded(c) ==
    /\ op[c].kind \in {"write", "txn"}
    /\ op[c].pc = "locking"
    /\ Held(c)
    /\ ~Admitted(c)
    /\ Return(c)
    /\ Release(c)
    /\ UnchangedModule
    /\ UnchangedSlots

FinishWrite(c) ==
    /\ At(c, {"write"}, "executing")
    /\ NextEvent
    /\ Return(c)
    /\ Release(c)
    /\ UnchangedModule
    /\ UnchangedSlots

-----------------------------------------------------------------------------
(***************************************************************************)
(* Transactions.  "executing" stands for BEGIN and every statement of the  *)
(* transaction; a caller ends it with commit(), and runs rollback() when a *)
(* statement or commit() throws.                                           *)
(***************************************************************************)
Commit(c) ==
    /\ At(c, {"txn"}, "executing")
    /\ op[c].gen = generation
    /\ Goto(c, "committing")
    /\ UNCHANGED lockVars
    /\ UnchangedModule
    /\ UnchangedSlots

\* COMMIT is over, or failed: the connection is closed, the lock released, and
\* a rollback() after it finds a closed connection.
Committed(c) ==
    /\ At(c, {"txn"}, "committing")
    /\ NextEvent
    /\ Return(c)
    /\ Release(c)
    /\ UnchangedModule
    /\ UnchangedSlots

\* commit() of a superseded transaction: guard() throws, the lock is released,
\* and the connection stays open for the caller's rollback().
CommitSuperseded(c) ==
    /\ At(c, {"txn"}, "executing")
    /\ op[c].gen # generation
    /\ Goto(c, "commitRefused")
    /\ Release(c)
    /\ UnchangedModule
    /\ UnchangedSlots

Rollback(c) ==
    /\ op[c].kind = "txn"
    /\ \/ op[c].pc = "executing"     /\ Goto(c, "rollingBack")
       \/ op[c].pc = "commitRefused" /\ Goto(c, "rollingBackLate")
    /\ UNCHANGED lockVars
    /\ UnchangedModule
    /\ UnchangedSlots

RolledBack(c) ==
    /\ op[c].kind = "txn"
    /\ NextEvent
    /\ \/ op[c].pc = "rollingBack" /\ Release(c)
       \/ op[c].pc = "rollingBackLate" /\ UNCHANGED lockVars
    /\ Return(c)
    /\ UnchangedModule
    /\ UnchangedSlots

-----------------------------------------------------------------------------
(***************************************************************************)
(* close(), called on its own or by open().                                *)
(***************************************************************************)
\* What follows a close: nothing, or the rest of open().
AfterClose(c) == IF op[c].kind = "close" THEN NoOp
                 ELSE [op[c] EXCEPT !.pc = "reopening", !.conn = NoHandle]

Opening(c) == op[c].kind = "open" /\ op[c].pc \in {"init", "seed", "probe"}

\* Five seconds went by without the lock.
CloseTimeout(c) ==
    /\ At(c, {"close", "open"}, "closeLocking")
    /\ NextEvent
    /\ SlowOpen \/ \A d \in Callers : ~Opening(d)
    /\ SlowClose \/ \A d \in Callers : op[d].pc # "freeing"
    /\ Withdraw(c)
    /\ Goto(c, "timedOut")
    /\ UnchangedModule
    /\ UnchangedSlots

\* staleHolders once lock.reset() has discarded the current holders.
Discarded == staleHolders + activeReaders + (IF activeWriter THEN 1 ELSE 0)

\* Variants for mutation: the wait starts before the reset; the reset counts a
\* holder that is not there.
AwaitThenReset(h) ==
    /\ epoch' = epoch + 1
    /\ staleHolders' = Discarded
    /\ Dispatch(queue, 0, FALSE, FALSE, epoch + 1, request)
    /\ reclaim' = IF h = NoHandle THEN reclaim
                  ELSE [reclaim EXCEPT ![h] =
                          [st |-> IF staleHolders = 0 THEN "resolved" ELSE "waiting",
                           epoch |-> epoch]]

ResetAndAwaitOneMore(h) ==
    /\ epoch' = epoch + 1
    /\ staleHolders' = staleHolders + activeReaders + 1
    /\ Dispatch(queue, 0, FALSE, FALSE, epoch + 1, request)
    /\ reclaim' = IF h = NoHandle THEN reclaim
                  ELSE [reclaim EXCEPT ![h] = [st |-> "waiting", epoch |-> epoch + 1]]

\* lock.reset() and then, when a handle is left, whenStaleHoldersReleased().
ResetAndAwait(h) ==
    /\ epoch' = epoch + 1
    /\ staleHolders' = Discarded
    /\ Dispatch(queue, 0, FALSE, FALSE, epoch + 1, request)
    /\ reclaim' = IF h = NoHandle THEN reclaim
                  ELSE [reclaim EXCEPT ![h] =
                          [st |-> IF Discarded = 0 THEN "resolved" ELSE "waiting",
                           epoch |-> epoch + 1]]

\* Variant for mutation: the status of the abandoned database is kept.
CloseAbandonKeepsStatus(c) ==
    /\ At(c, {"close", "open"}, "timedOut")
    /\ database' = NoHandle
    /\ generation' = generation + 1
    /\ ResetAndAwait(database)
    /\ op' = [d \in Clients |->
                IF d = c THEN AfterClose(c)
                ELSE IF d = database
                     THEN [kind |-> "deferred", pc |-> "waiting",
                           gen |-> 0, conn |-> NoHandle]
                ELSE op[d]]
    /\ UNCHANGED <<handle, status>>
    /\ UnchangedSlots

\* The handle may be in use: forget it, and leave it to the deferred close.
CloseAbandon(c) ==
    /\ At(c, {"close", "open"}, "timedOut")
    /\ database' = NoHandle
    /\ status' = ClosedStatus
    /\ generation' = generation + 1
    /\ ResetAndAwait(database)
    /\ op' = [d \in Clients |->
                IF d = c THEN AfterClose(c)
                ELSE IF d = database
                     THEN [kind |-> "deferred", pc |-> "waiting",
                           gen |-> 0, conn |-> NoHandle]
                ELSE op[d]]
    /\ UNCHANGED handle
    /\ UnchangedSlots

\* lock.reset() and then release(), which the reset made a stale release.
ResetAndRelease(c) ==
    LET left == IF Discarded > 0 THEN Discarded - 1 ELSE 0
    IN /\ epoch' = epoch + 1
       /\ staleHolders' = left
       /\ reclaim' = [w \in Reclaimers |->
                        IF left = 0 /\ reclaim[w].st = "waiting"
                        THEN [reclaim[w] EXCEPT !.st = "resolved"]
                        ELSE reclaim[w]]
       /\ Dispatch(queue, 0, FALSE, FALSE, epoch + 1,
                   [request EXCEPT ![c] = NoRequest])

CloseNative(c) ==
    /\ At(c, {"close", "open"}, "closeLocking")
    /\ Held(c)
    /\ database # NoHandle
    /\ database' = NoHandle
    /\ handle' = [handle EXCEPT ![database].st = "closing"]
    /\ op' = [op EXCEPT ![c].pc = "freeing", ![c].conn = database]
    /\ UNCHANGED <<status, generation, lockVars>>
    /\ UnchangedSlots

\* The finally block of close(), which runs however the native close ended.
CloseFinally(c) ==
    /\ status' = ClosedStatus
    /\ generation' = generation + 1
    /\ ResetAndRelease(c)
    /\ UNCHANGED database
    /\ UnchangedSlots

\* The native close is over, or there was nothing to close.
CloseDone(c) ==
    /\ \/ /\ At(c, {"close", "open"}, "freeing")
          /\ NextEvent
          /\ handle' = [handle EXCEPT ![op[c].conn].st = "freed"]
       \/ /\ At(c, {"close", "open"}, "closeLocking")
          /\ Held(c)
          /\ database = NoHandle
          /\ UNCHANGED handle
    /\ op' = [op EXCEPT ![c] = AfterClose(c)]
    /\ CloseFinally(c)

\* The native close threw: close() rejects, and so does the open() awaiting it.
CloseFailed(c) ==
    /\ At(c, {"close", "open"}, "freeing")
    /\ NextEvent
    /\ handle' = [handle EXCEPT ![op[c].conn].st = "unclosed"]
    /\ Return(c)
    /\ CloseFinally(c)

-----------------------------------------------------------------------------
(***************************************************************************)
(* scheduleDeferredClose() of handle h.                                    *)
(***************************************************************************)
DeferredRun(h) ==
    /\ At(h, {"deferred"}, "waiting")
    /\ reclaim[h].st = "resolved"
    /\ Write(h)
    /\ Goto(h, "locking")
    /\ UnchangedModule
    /\ UnchangedSlots

\* Two minutes went by: the handle stays open for the life of the process.
DeferredGiveUp(h) ==
    /\ At(h, {"deferred"}, "waiting")
    /\ reclaim[h].st = "waiting"
    /\ NextEvent
    /\ Goto(h, "gaveUp")
    /\ UNCHANGED lockVars
    /\ UnchangedModule
    /\ UnchangedSlots

DeferredFree(h) ==
    /\ At(h, {"deferred"}, "locking")
    /\ Held(h)
    /\ handle' = [handle EXCEPT ![h].st = "closing"]
    /\ op' = [op EXCEPT ![h].pc = "freeing", ![h].conn = h]
    /\ UNCHANGED <<database, status, generation, lockVars>>
    /\ UnchangedSlots

\* The native close is over, or it threw: that is logged and nothing else.
DeferredDone(h) ==
    /\ At(h, {"deferred"}, "freeing")
    /\ NextEvent
    /\ \E st \in {"freed", "unclosed"} : handle' = [handle EXCEPT ![h].st = st]
    /\ Return(h)
    /\ Release(h)
    /\ UNCHANGED <<database, status, generation>>
    /\ UnchangedSlots

-----------------------------------------------------------------------------
(***************************************************************************)
(* open(), once any previous database is closed.  Each phase passes the    *)
(* module variable `database` to the next native call.                     *)
(***************************************************************************)
Reopen(c) ==
    /\ At(c, {"open"}, "reopening")
    /\ Write(c)
    /\ Goto(c, "locking")
    /\ UnchangedModule
    /\ UnchangedSlots

\* Which name a new handle gets makes no difference.
FreshHandle == CHOOSE h \in Handles : handle[h].st = "unborn"

OpenCreate(c) ==
    /\ At(c, {"open"}, "locking")
    /\ Held(c)
    /\ \E h \in Handles, mismatch \in BOOLEAN :
         /\ handle[h].st = "unborn"
         /\ h = FreshHandle
         /\ handle' = [handle EXCEPT ![h].st = "live", ![h].readOnly = mismatch]
         /\ database' = h
         /\ op' = [op EXCEPT ![c].pc = "init", ![c].conn = h]
    /\ UNCHANGED <<status, generation, lockVars>>
    /\ UnchangedSlots

OpenPhase(c, from, to) ==
    /\ At(c, {"open"}, from)
    /\ NextEvent
    /\ database # NoHandle
    /\ op' = [op EXCEPT ![c].pc = to, ![c].conn = database]
    /\ UNCHANGED lockVars
    /\ UnchangedModule
    /\ UnchangedSlots

OpenSeed(c)  == OpenPhase(c, "init", "seed")
OpenProbe(c) == OpenPhase(c, "seed", "probe")

\* The catch block: the constructor threw, a native call of a phase failed (the
\* closing of the version probe's result or connection included), or the phase
\* was handed null because a close had taken the database away.  It forgets the
\* database and does not close it.
OpenFail(c) ==
    /\ op[c].kind = "open"
    /\ \/ op[c].pc = "locking" /\ Held(c)
       \/ Opening(c) /\ NextEvent
    /\ handle' = [h \in Handles |->
                    IF h = database THEN [handle[h] EXCEPT !.dropped = TRUE] ELSE handle[h]]
    /\ database' = NoHandle
    /\ status' = [state |-> "error", handle |-> NoHandle, readOnly |-> FALSE]
    /\ Return(c)
    /\ Release(c)
    /\ UNCHANGED generation
    /\ UnchangedSlots

\* The schema version was read on the connection of the last phase.
OpenPublish(c) ==
    /\ At(c, {"open"}, "probe")
    /\ NextEvent
    /\ LET h == op[c].conn
       IN /\ status' = [state |-> "open", handle |-> h,
                        readOnly |-> handle[h].readOnly]
          /\ handle' = [handle EXCEPT ![h].gen = generation + 1]
    /\ generation' = generation + 1
    /\ Return(c)
    /\ Release(c)
    /\ UNCHANGED database
    /\ UnchangedSlots

-----------------------------------------------------------------------------
Requests(c) ==
    \/ RequestRead(c) \/ RequestWrite(c) \/ RequestTxn(c)
    \/ RequestClose(c) \/ RequestOpen(c)

StatementStep(c) ==
    \/ EnterSlot(c) \/ AwaitSlot(c) \/ ResumeWithSlot(c) \/ FinishRead(c)
    \/ RunExclusive(c) \/ Superseded(c) \/ FinishWrite(c)

TxnEnd(c) ==
    \/ Commit(c) \/ Committed(c) \/ CommitSuperseded(c)
    \/ Rollback(c) \/ RolledBack(c)

CloseStep(c) == CloseAbandon(c) \/ CloseNative(c) \/ CloseDone(c) \/ CloseFailed(c)

DeferredStep(h) == DeferredRun(h) \/ DeferredFree(h) \/ DeferredDone(h)

OpenStep(c) ==
    \/ Reopen(c) \/ OpenCreate(c) \/ OpenSeed(c) \/ OpenProbe(c)
    \/ OpenFail(c) \/ OpenPublish(c)

DbNext ==
    \/ \E c \in Callers :
         \/ Requests(c)
         \/ StatementStep(c)
         \/ TxnEnd(c)
         \/ CloseTimeout(c)
         \/ CloseStep(c)
         \/ OpenStep(c)
    \/ \E h \in Handles : DeferredStep(h) \/ DeferredGiveUp(h)

DbSpec == DbInit /\ [][DbNext]_allVars
=============================================================================
