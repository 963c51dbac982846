------------------------- MODULE ReadersWriterLock -------------------------
(***************************************************************************)
(* What the lock of packages/app-core/src/db/db-lock.ts is to those who    *)
(* use it, without its queue, counters and epochs: who waits, who holds,   *)
(* who was discarded, and whom a waiter or a reclaimer waits for.  DbLock  *)
(* implements it (DbLockRefinement).                                       *)
(***************************************************************************)
CONSTANTS
    Clients,
    Reclaimers

VARIABLES
    call,      \* of each client: where it is, and the kind of access it asked for
    ahead,     \* of each waiter: those who wait and came before
    reclaim,   \* of each reclaimer: where it is
    owed       \* of each reclaimer: the discarded holders it was promised to outlast

vars == <<call, ahead, reclaim, owed>>

Idle == [st |-> "idle", kind |-> "read"]

Init ==
    /\ call = [c \in Clients |-> Idle]
    /\ ahead = [c \in Clients |-> {}]
    /\ reclaim = [w \in Reclaimers |-> "idle"]
    /\ owed = [w \in Reclaimers |-> {}]

Those(calls, st) == {c \in Clients : calls[c].st = st}

\* Reads share, a write is alone.
Compatible(calls, S) == \A c, d \in S : c # d => calls[c].kind = "read" /\ calls[d].kind = "read"

\* Who may be granted together: nobody before an earlier one, nobody beside an
\* incompatible one, and nobody is left to wait for no reason.
Grantable(calls, order, G) ==
    LET waiting == Those(calls, "waits")
        holding == Those(calls, "holds") \cup G
    IN  /\ \A c \in G : order[c] \subseteq G
        /\ Compatible(calls, holding)
        /\ \A c \in waiting \ G : order[c] \subseteq G => ~Compatible(calls, holding \cup {c})

\* Every change of who waits and who holds ends with the grants it allows.
ThenGrants(calls, order) ==
    \E G \in SUBSET Those(calls, "waits") :
        /\ Grantable(calls, order, G)
        /\ call' = [c \in Clients |-> IF c \in G THEN [calls[c] EXCEPT !.st = "holds"] ELSE calls[c]]
        /\ ahead' = [c \in Clients |-> IF c \in G THEN {} ELSE order[c] \ G]

Ask(c, kind) ==
    /\ call[c].st = "idle"
    /\ ThenGrants([call EXCEPT ![c] = [st |-> "waits", kind |-> kind]],
                  [ahead EXCEPT ![c] = Those(call, "waits")])
    /\ UNCHANGED <<reclaim, owed>>

\* A holder releases, or a waiter gives up.
Leave(c) ==
    /\ call[c].st \in {"waits", "holds"}
    /\ ThenGrants([call EXCEPT ![c] = Idle],
                  [d \in Clients |-> IF d = c THEN {} ELSE ahead[d] \ {c}])
    /\ UNCHANGED <<reclaim, owed>>

\* Whoever holds is discarded: the lock goes on without it, while it executes.
Discard ==
    /\ ThenGrants([c \in Clients |-> IF call[c].st = "holds" THEN [call[c] EXCEPT !.st = "discarded"]
                                     ELSE call[c]],
                  ahead)
    /\ UNCHANGED <<reclaim, owed>>

\* A discarded holder is done.  A reclaimer resolves only when those it was
\* promised to outlast are, and at the latest when no discarded one is left.
Outlive(c) ==
    /\ call[c].st = "discarded"
    /\ call' = [call EXCEPT ![c] = Idle]
    /\ owed' = [w \in Reclaimers |-> owed[w] \ {c}]
    /\ \E R \in SUBSET {w \in Reclaimers : reclaim[w] = "waiting" /\ owed'[w] = {}} :
         reclaim' = [w \in Reclaimers |-> IF w \in R THEN "resolved" ELSE reclaim[w]]
    /\ Those(call', "discarded") = {} => \A w \in Reclaimers : reclaim'[w] # "waiting"
    /\ UNCHANGED ahead

Reclaim(w) ==
    /\ reclaim[w] = "idle"
    /\ owed' = [owed EXCEPT ![w] = Those(call, "discarded")]
    /\ reclaim' = [reclaim EXCEPT ![w] = IF owed'[w] = {} THEN "resolved" ELSE "waiting"]
    /\ UNCHANGED <<call, ahead>>

Next ==
    \/ \E c \in Clients, kind \in {"read", "write"} : Ask(c, kind)
    \/ \E c \in Clients : Leave(c) \/ Outlive(c)
    \/ Discard
    \/ \E w \in Reclaimers : Reclaim(w)

Spec == Init /\ [][Next]_vars
=============================================================================
