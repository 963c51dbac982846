------------------------- MODULE DbModuleProperties -------------------------
(***************************************************************************)
(* What packages/app-core/src/db/db-module.ts promises its callers and the *)
(* native library.                                                         *)
(***************************************************************************)
EXTENDS DbModule

\* Where the code of a call is between two awaits.
Pcs == {"idle", "locking", "closeLocking", "timedOut", "reopening",
        "awaitingSlot", "woken", "leaving", "executing",
        "committing", "commitRefused", "rollingBack", "rollingBackLate",
        "freeing", "init", "seed", "probe", "waiting", "gaveUp"}

Native == [st: {"unborn", "live", "closing", "freed", "unclosed"},
           readOnly: BOOLEAN, gen: Nat, dropped: BOOLEAN]

\* Every variable keeps its type.
DbTypeOK ==
    /\ handle \in [Handles -> Native]
    /\ database \in Handles \cup {NoHandle}
    /\ status \in [state: {"closed", "open", "error"},
                   handle: Handles \cup {NoHandle}, readOnly: BOOLEAN]
    /\ generation \in Nat
    /\ op \in [Clients -> [kind: {"none", "read", "write", "txn", "open", "close", "deferred"},
                           pc: Pcs, gen: Nat, conn: Handles \cup {NoHandle}]]
    /\ slotsActive \in Nat
    /\ slotQueue \in Seq(Callers)

\* The native calls that run while their caller holds the lock, and the one
\* that does not: rollback() after commit() released it.
UnderLock  == {"executing", "committing", "rollingBack", "init", "seed", "probe"}
UsesLocked(c, h) == op[c].conn = h /\ op[c].pc \in UnderLock
Uses(c, h)  == UsesLocked(c, h) \/ (op[c].conn = h /\ op[c].pc = "rollingBackLate")
Frees(c, h) == op[c].conn = h /\ op[c].pc = "freeing"

\* No handle is freed under a statement that was given the lock: the access
\* violation of db-module.ts:349-353 cannot come from a query, a transaction in
\* progress or an open, however late a close gave up on them.
LockedStatementsSafe ==
    \A c \in Clients, h \in Handles :
        UsesLocked(c, h) => handle[h].st = "live"

\* Once whenStaleHoldersReleased() resolves, "nothing from before the reset can
\* still be executing" on the handle the deferred close frees.
DeferredFreeIsSafe ==
    \A c \in Callers, h \in Handles : Frees(h, h) => ~Uses(c, h)

OnHandle(c, h) == UsesLocked(c, h) \/ Frees(c, h)

\* "No other operation may touch the handle until the status/generation are
\* published" (db-module.ts:280-282): an opening phase is alone on its handle.
OpeningIsExclusive ==
    \A c, d \in Clients, h \in Handles :
        (c # d /\ c \in Callers /\ Opening(c) /\ OnHandle(c, h)) => ~OnHandle(d, h)

\* A statement reaches only the database its caller asked about: the one that
\* was published when it was requested, never its successor (Req 5.4, 5.5).
StatementsOnRequestedDatabase ==
    \A c \in Callers :
        (op[c].kind \in {"read", "write", "txn"} /\ op[c].conn # NoHandle)
            => handle[op[c].conn].gen = op[c].gen

\* The status says open only of the database statements are given, until a
\* close has taken it, and then "the module ends up logically closed".
StatusTruthful ==
    status.state = "open" =>
        \/ database = status.handle
        \/ \E c \in Callers : Frees(c, status.handle)

\* Who is going to close handle h, or has begun to: the module, as long as h is
\* its database (it stands for itself as NoHandle here); the deferred close of h
\* that has not given up; whoever awaits the native close of h.
Owners(h) ==
    {c \in Clients : Frees(c, h)}
        \cup {c \in {h} : op[c].pc \in {"waiting", "locking"}}
        \cup {o \in {NoHandle} : database = h}

\* The three ways in which the code leaves a handle behind: a failing open()
\* forgets it (db-module.ts:322-329), the deferred close gives up on it after two
\* minutes (216-222), or its native close throws (232-237 and 375-391).
LeftBehind(h) ==
    handle[h].dropped \/ op[h].pc = "gaveUp" \/ handle[h].st = "unclosed"

\* A native handle reserves 8 TiB of address space, so one that nobody will close
\* ends in opens that fail, and one that two would close in a double free.  Every
\* open handle has exactly one owner that will close it, through closes that time
\* out, deferred closes and reopens; a handle that is freed or not yet opened has
\* none.  It is NOT so of a handle left behind by one of the three failures
\* above: the code does leak that one, and here it only has no owner any more.
OneOwner ==
    \A h \in Handles :
        IF handle[h].st \in {"live", "closing"} /\ ~LeftBehind(h)
        THEN \E o \in Clients \cup {NoHandle} : Owners(h) = {o}
        ELSE Owners(h) = {}

\* What the code does not achieve (see LeftBehind): no open handle is unowned.
NoHandleLeaked ==
    \A h \in Handles : handle[h].st \in {"live", "closing", "unclosed"} => Owners(h) # {}

-----------------------------------------------------------------------------
(***************************************************************************)
(* Fairness.  The native library answers every call, JavaScript runs every *)
(* continuation and the timer of close() fires.  It is strong fairness for *)
(* the steps that start from the event loop: between two of its turns      *)
(* continuations run, but it always gets to the next native answer, as no  *)
(* continuation of this code starts the next one for ever.                 *)
(***************************************************************************)
CallStep(c) ==
    StatementStep(c) \/ CloseStep(c) \/ CloseTimeout(c) \/ OpenStep(c)

EventLoopTurns == []<>NextEvent

\* Nobody is obliged to end a transaction.
FairDbSpec ==
    /\ DbSpec
    /\ \A c \in Callers : SF_allVars(CallStep(c))
    /\ \A h \in Handles : SF_allVars(DeferredStep(h))
    /\ EventLoopTurns

TransactionsEnd == \A c \in Callers : SF_allVars(TxnEnd(c))

\* A leaked transaction can never make close() hang, nor block the next open()
\* (db-module.ts:84-88 and 382-384); and when transactions are ended every call
\* returns, reads that had to wait for the lock and then for a slot included: the
\* two orders never block each other.
CallsReturn ==
    /\ \A c \in Callers, kind \in {"close", "open"} :
         (op[c].kind = kind) ~> (op[c].kind # kind)
    /\ TransactionsEnd => \A c \in Callers : (op[c] # NoOp) ~> (op[c] = NoOp)

\* Then an abandoned handle is freed at last, unless the deferred close gave up
\* or its native close threw.
AbandonedHandleFreed ==
    TransactionsEnd => \A h \in Handles :
        (op[h].pc = "waiting")
            ~> (handle[h].st \in {"freed", "unclosed"} \/ op[h].pc = "gaveUp")
=============================================================================
