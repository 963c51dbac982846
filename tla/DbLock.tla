------------------------------- MODULE DbLock -------------------------------
(***************************************************************************)
(* The FIFO readers/writer lock of packages/app-core/src/db/db-lock.ts,    *)
(* which serialises access to the single native database handle.           *)
(*                                                                         *)
(* One action is one synchronous run of the lock's code: JavaScript never  *)
(* interrupts it, so the grant loop dispatch() is part of whichever call   *)
(* ran it.  A client is one caller; it has at most one request at a time.  *)
(* The promise a grant resolves is the change of its request to "held".    *)
(***************************************************************************)
EXTENDS Naturals, Sequences, FiniteSets

CONSTANTS
    Clients,      \* callers of read(), write(), acquireWrite(), tryAcquireWrite()
    Reclaimers,   \* callers of whenStaleHoldersReleased()
    MaxEpoch      \* bound: reset() is explored at most this many times

ASSUME LockAssumption ==
    /\ IsFiniteSet(Clients)
    /\ MaxEpoch \in Nat

VARIABLES
    queue,                 \* waiters, in arrival order
    activeReaders,         \* the counter the code keeps
    activeWriter,
    writerIsTransaction,
    epoch,                 \* bumped by reset()
    staleHolders,          \* holders reset() discarded that have not released
    request,               \* what each client is doing with the lock
    reclaim                \* what each reclaimer is waiting for

lockVars == <<queue, activeReaders, activeWriter, writerIsTransaction, epoch,
              staleHolders, request, reclaim>>

Kinds == {"read", "write"}

Waiter == [who: Clients, kind: Kinds, txn: BOOLEAN]

\* timed: the request came from tryAcquireWrite() and may still be withdrawn.
Request == [st: {"idle", "queued", "held"}, kind: Kinds, timed: BOOLEAN,
            epoch: Nat]

Reclaim == [st: {"idle", "waiting", "resolved"}, epoch: Nat]

NoRequest == [st |-> "idle", kind |-> "read", timed |-> FALSE, epoch |-> 0]

Held(c) == request[c].st = "held"

\* The holders the counters are about, and those reset() has discarded.
Current(c) == Held(c) /\ request[c].epoch = epoch
Stale(c)   == Held(c) /\ request[c].epoch # epoch

LockInit ==
    /\ queue = <<>>
    /\ activeReaders = 0
    /\ activeWriter = FALSE
    /\ writerIsTransaction = FALSE
    /\ epoch = 0
    /\ staleHolders = 0
    /\ request = [c \in Clients |-> NoRequest]
    /\ reclaim = [w \in Reclaimers |-> [st |-> "idle", epoch |-> 0]]

-----------------------------------------------------------------------------
\* Variant for mutation: reads are granted one at a time.
LeadingReadsOne(q) == 1

(***************************************************************************)
(* dispatch() grants from the head of the queue until a waiter cannot be   *)
(* granted.  A head write is granted alone and only when nobody holds the  *)
(* lock; a head read is granted with every read that directly follows it.  *)
(***************************************************************************)
LeadingReads(q) ==
    CHOOSE n \in 0..Len(q) :
        /\ \A i \in 1..n : q[i].kind = "read"
        /\ n < Len(q) => q[n + 1].kind = "write"

\* Variant for mutation: a read at the head does not check for a writer.
GrantCountBesideWriter(q, readers, writer) ==
    IF q = <<>> THEN 0
    ELSE IF q[1].kind = "write" THEN (IF writer \/ readers > 0 THEN 0 ELSE 1)
    ELSE LeadingReads(q)

GrantCount(q, readers, writer) ==
    IF writer \/ q = <<>> THEN 0
    ELSE IF q[1].kind = "write" THEN (IF readers > 0 THEN 0 ELSE 1)
    ELSE LeadingReads(q)

\* dispatch() run on queue q, with the given counters, epoch and requests.
Dispatch(q, readers, writer, txn, e, req) ==
    LET n == GrantCount(q, readers, writer)
        granted == {q[i].who : i \in 1..n}
        grantsWrite == n > 0 /\ q[1].kind = "write"
    IN /\ queue' = SubSeq(q, n + 1, Len(q))
       /\ activeReaders' = IF grantsWrite THEN readers ELSE readers + n
       /\ activeWriter' = (writer \/ grantsWrite)
       /\ writerIsTransaction' = IF grantsWrite THEN q[1].txn ELSE txn
       /\ request' = [c \in Clients |->
                        IF c \in granted
                        THEN [req[c] EXCEPT !.st = "held", !.epoch = e]
                        ELSE req[c]]

\* acquire(): queue the waiter, then dispatch.
Acquire(c, kind, txn, timed) ==
    /\ request[c].st = "idle"
    /\ Dispatch(Append(queue, [who |-> c, kind |-> kind, txn |-> txn]),
                activeReaders, activeWriter, writerIsTransaction, epoch,
                [request EXCEPT ![c] = [st |-> "queued", kind |-> kind,
                                        timed |-> timed, epoch |-> 0]])
    /\ UNCHANGED <<epoch, staleHolders, reclaim>>

Read(c)            == Acquire(c, "read", FALSE, FALSE)
Write(c)           == Acquire(c, "write", FALSE, FALSE)
AcquireWrite(c)    == Acquire(c, "write", TRUE, FALSE)
TryAcquireWrite(c) == Acquire(c, "write", FALSE, TRUE)

\* Variant for mutation: the first stale holder resolves everyone.
NoteStaleReleaseEarly ==
    /\ staleHolders' = IF staleHolders > 0 THEN staleHolders - 1 ELSE 0
    /\ reclaim' = [w \in Reclaimers |->
                     IF reclaim[w].st = "waiting"
                     THEN [reclaim[w] EXCEPT !.st = "resolved"]
                     ELSE reclaim[w]]

\* noteStaleRelease(): the last stale holder resolves everyone waiting for it.
NoteStaleRelease ==
    LET left == IF staleHolders > 0 THEN staleHolders - 1 ELSE 0
    IN /\ staleHolders' = left
       /\ reclaim' = [w \in Reclaimers |->
                        IF left = 0 /\ reclaim[w].st = "waiting"
                        THEN [reclaim[w] EXCEPT !.st = "resolved"]
                        ELSE reclaim[w]]

\* Variant for mutation: a superseded release lowers the current counter.
ReleaseStaleCountsDown(c) ==
    /\ Stale(c)
    /\ NoteStaleRelease
    /\ activeReaders' = activeReaders - 1
    /\ request' = [request EXCEPT ![c] = NoRequest]
    /\ UNCHANGED <<queue, activeWriter, writerIsTransaction, epoch>>

\* A release whose epoch reset() has superseded touches no current counter.
ReleaseStale(c) ==
    /\ Stale(c)
    /\ NoteStaleRelease
    /\ request' = [request EXCEPT ![c] = NoRequest]
    /\ UNCHANGED <<queue, activeReaders, activeWriter, writerIsTransaction, epoch>>

\* Variant for mutation: the last reader leaves without waking anybody.
ReleaseReadSilently(c) ==
    /\ Current(c)
    /\ request[c].kind = "read"
    /\ activeReaders' = IF activeReaders > 0 THEN activeReaders - 1 ELSE activeReaders
    /\ request' = [request EXCEPT ![c] = NoRequest]
    /\ UNCHANGED <<queue, activeWriter, writerIsTransaction, epoch, staleHolders, reclaim>>

ReleaseRead(c) ==
    /\ Current(c)
    /\ request[c].kind = "read"
    /\ Dispatch(queue,
                IF activeReaders > 0 THEN activeReaders - 1 ELSE activeReaders,
                activeWriter, writerIsTransaction, epoch,
                [request EXCEPT ![c] = NoRequest])
    /\ UNCHANGED <<epoch, staleHolders, reclaim>>

ReleaseWrite(c) ==
    /\ Current(c)
    /\ request[c].kind = "write"
    /\ Dispatch(queue, activeReaders, FALSE, FALSE, epoch,
                [request EXCEPT ![c] = NoRequest])
    /\ UNCHANGED <<epoch, staleHolders, reclaim>>

Release(c) == ReleaseStale(c) \/ ReleaseRead(c) \/ ReleaseWrite(c)

Without(q, i) == SubSeq(q, 1, i - 1) \o SubSeq(q, i + 1, Len(q))

\* The timer of tryAcquireWrite() fires: withdraw the waiter and let whoever
\* it was blocking through.
Withdraw(c) ==
    /\ request[c].st = "queued"
    /\ request[c].timed
    /\ \E i \in DOMAIN queue :
         /\ queue[i].who = c
         /\ Dispatch(Without(queue, i), activeReaders, activeWriter,
                     writerIsTransaction, epoch,
                     [request EXCEPT ![c] = NoRequest])
    /\ UNCHANGED <<epoch, staleHolders, reclaim>>

\* reset(): whoever holds the lock is superseded, and the queue goes on without.
Reset ==
    /\ epoch < MaxEpoch
    /\ epoch' = epoch + 1
    /\ staleHolders' = staleHolders + activeReaders
                         + (IF activeWriter THEN 1 ELSE 0)
    /\ Dispatch(queue, 0, FALSE, FALSE, epoch + 1, request)
    /\ UNCHANGED reclaim

WhenStaleHoldersReleased(w) ==
    /\ reclaim[w].st = "idle"
    /\ reclaim' = [reclaim EXCEPT ![w] =
                     [st |-> IF staleHolders = 0 THEN "resolved" ELSE "waiting",
                      epoch |-> epoch]]
    /\ UNCHANGED <<queue, activeReaders, activeWriter, writerIsTransaction,
                   epoch, staleHolders, request>>

LockNext ==
    \/ \E c \in Clients :
         \/ Read(c)
         \/ Write(c)
         \/ AcquireWrite(c)
         \/ TryAcquireWrite(c)
         \/ ReleaseStale(c)
         \/ ReleaseRead(c)
         \/ ReleaseWrite(c)
         \/ Withdraw(c)
    \/ Reset
    \/ \E w \in Reclaimers : WhenStaleHoldersReleased(w)

LockSpec == LockInit /\ [][LockNext]_lockVars

\* A holder always gives the lock back: read() and write() release in a
\* finally block, and a transaction ends in commit() or rollback().
LockFairness == \A c \in Clients : WF_lockVars(Release(c))

FairLockSpec == LockSpec /\ LockFairness
=============================================================================
