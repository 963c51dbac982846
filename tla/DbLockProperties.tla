-------------------------- MODULE DbLockProperties --------------------------
(***************************************************************************)
(* What packages/app-core/src/db/db-lock.ts promises the code that frees   *)
(* and uses the native handle.                                             *)
(***************************************************************************)
EXTENDS DbLock

\* The holders of one kind granted in epoch e, and those granted in another.
Holding(req, kind, e) ==
    {c \in Clients : req[c].st = "held" /\ req[c].epoch = e /\ req[c].kind = kind}

HoldingElsewhere(req, e) == {c \in Clients : req[c].st = "held" /\ req[c].epoch # e}

\* Every variable keeps its type.
LockTypeOK ==
    /\ queue \in Seq(Waiter)
    /\ activeReaders \in Nat
    /\ activeWriter \in BOOLEAN
    /\ writerIsTransaction \in BOOLEAN
    /\ epoch \in Nat
    /\ staleHolders \in Nat
    /\ request \in [Clients -> Request]
    /\ reclaim \in [Reclaimers -> Reclaim]

\* A write (any mutating statement, CHECKPOINT included) is exclusive within an
\* epoch; overlapping one with a read faulted the worker (db-lock.ts:27-31, 40-42).
MutualExclusion ==
    \A c, d \in Clients :
        (c # d /\ Current(c) /\ Current(d)) =>
            (request[c].kind = "read" /\ request[d].kind = "read")

\* The counters are the holders: what the grant loop decides on, and what
\* reset() adds to staleHolders, never drifts from who really holds the lock.
CountersExact ==
    /\ activeReaders = Cardinality(Holding(request, "read", epoch))
    /\ activeWriter <=> (Holding(request, "write", epoch) # {})
    /\ staleHolders = Cardinality(HoldingElsewhere(request, epoch))

\* No lost wake-up: whenever somebody waits, the head of the queue is blocked
\* by a holder, so the holder's release will dispatch it.
NoLostWakeup ==
    queue # <<>> =>
        \/ activeWriter
        \/ Head(queue).kind = "write" /\ activeReaders > 0

\* whenStaleHoldersReleased() resolves only when nothing from before the call
\* can still be executing: this is what makes the deferred free of a native
\* handle safe (db-lock.ts, Teardown).
ReclaimIsSafe ==
    \A w \in Reclaimers, c \in Clients :
        (reclaim[w].st = "resolved" /\ Held(c)) =>
            request[c].epoch >= reclaim[w].epoch

\* Strict arrival order: while c waits, nobody who was not ahead of it gets
\* ahead of it, in the queue or by being granted (db-lock.ts:46-49).
Ahead(d, c) ==
    \E i, j \in DOMAIN queue : i < j /\ queue[i].who = d /\ queue[j].who = c

NoOvertaking ==
    [][\A c, d \in Clients :
         (/\ c # d
          /\ request[c].st = "queued"
          /\ request'[c].st = "queued"
          /\ ~Held(d)
          /\ ~Ahead(d, c))
            => ~Held(d)' /\ ~Ahead(d, c)']_lockVars

\* A superseded holder's release never disturbs the holders granted since the
\* reset: it changes neither the counters nor the queue.
StaleReleaseIsInert ==
    [][\A c \in Clients :
         (Stale(c) /\ request'[c].st = "idle") =>
            UNCHANGED <<queue, activeReaders, activeWriter, writerIsTransaction>>]_lockVars

\* Nobody waits forever, neither a write behind a stream of reads nor a read
\* behind a stream of writes; and a deferred close is always told when the handle
\* became safe to free.
LockProgress ==
    /\ \A c \in Clients : (request[c].st = "queued") ~> (request[c].st # "queued")
    /\ \A w \in Reclaimers : (reclaim[w].st = "waiting") ~> (reclaim[w].st = "resolved")
=============================================================================
