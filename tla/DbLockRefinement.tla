-------------------------- MODULE DbLockRefinement --------------------------
(***************************************************************************)
(* DbLock implements ReadersWriterLock.                                    *)
(***************************************************************************)
EXTENDS DbLockProperties

\* A client as its callers see it: the epoch it was granted in tells a holder
\* from one that a reset() has discarded.
CallOf(c) ==
    [st   |-> CASE request[c].st = "queued" -> "waits"
                [] Current(c) -> "holds"
                [] Stale(c) -> "discarded"
                [] OTHER -> "idle",
     kind |-> request[c].kind]

\* Those a reclaimer was promised to outlast: granted before the epoch it asked in.
OwedTo(w) ==
    {c \in Clients : reclaim[w].st = "waiting" /\ Held(c) /\ request[c].epoch < reclaim[w].epoch}

AbstractLock == INSTANCE ReadersWriterLock WITH
    call <- [c \in Clients |-> CallOf(c)],
    ahead <- [c \in Clients |-> {d \in Clients : Ahead(d, c)}],
    reclaim <- [w \in Reclaimers |-> reclaim[w].st],
    owed <- [w \in Reclaimers |-> OwedTo(w)]

\* Queue, counters and epochs do what callers rely on and no more: grants in the
\* order of arrival, as many as are compatible, at the moment they become so; and
\* a wait for discarded holders that outlasts those there were.
ImplementsLock == AbstractLock!Spec
=============================================================================
