-------------------------- MODULE CanvasProperties --------------------------
(***************************************************************************)
(* What the auto-save of the canvas promises whoever edits it.             *)
(***************************************************************************)
EXTENDS CanvasAutoSave, FiniteSets

\* Every variable keeps its type, and saves are serialised whatever timers,
\* follow-ups and flushes start them (canvasAutoSaveCoordinator.ts:34, "never two
\* in flight at once").
CanvasTypeOK ==
    /\ unsaved \in [Dirs -> SUBSET Scopes]
    /\ {open, wanted, shown} \subseteq Dirs
    /\ {opening, mounted} \subseteq BOOLEAN
    /\ mount \in Mounts
    /\ indicator \in {"idle", "pending", "saving", "saved", "failed", "needs_decision"}
    /\ reply \in Scopes \cup {"none"}
    /\ edits \in 0..MaxEdits /\ failures \in 0..MaxFailures
    /\ \A m \in Mounts :
         /\ co[m].timers \subseteq Timers
         /\ co[m].followUps \in Nat
         /\ {co[m].burst, co[m].pending, co[m].inFlight, co[m].failed, co[m].everSaved} \subseteq BOOLEAN
         /\ co[m].scope \in Scopes /\ co[m].dir \in Dirs
         /\ co[m].retries \in 0..MAX_RETRIES
         /\ co[m].saves \in BoundedSeq([dir: Dirs, scope: Scopes, st: Outcomes \cup {"sent"}], 1)
         /\ co[m].inFlight <=> co[m].saves # <<>>
         /\ co[m].flush \in [Flushes -> {"none", "waiting", "saving"}]
         /\ co[m].late \subseteq Flushes

\* Who will still save layer s of workspace d: a store that has not succeeded, or
\* pending work that a timer, the end of a save or the next edit takes up.
GivenUp(c) == c.failed /\ c.pending /\ c.retries = MAX_RETRIES

WillSave(c, d, s) ==
    \/ \E i \in DOMAIN c.saves :
         c.saves[i].st # "stored" /\ c.saves[i].dir = d /\ s \in covered(c.saves[i].scope)
    \/ /\ c.pending /\ c.dir = d /\ s \in covered(c.scope)
       /\ active(c) \/ GivenUp(c)

\* No edit is forgotten: what is not on disk is about to be reported, or going to be
\* saved, at a scope that covers it, or its coordinator has given up and says so.
NothingForgotten ==
    \A d \in Dirs : \A s \in unsaved[d] :
        s = reply \/ \E m \in Mounts : WillSave(co[m], d, s)

\* As long as one instance speaks, "saved" means that nothing reported is left to
\* save, deletions and connections included (Req 9 of the coordinator's header).
SavedMeansSaved ==
    (mount = 1 /\ indicator = "saved") => unsaved[shown] \subseteq {reply}

-----------------------------------------------------------------------------
(***************************************************************************)
(* What does not hold.                                                     *)
(***************************************************************************)
\* The worker has the workspace open that the user opened last: an auto-save
\* "changes no in-memory server state" (useScopedSaveMutation.ts:46-47).
SavesLeaveWorkspaceOpen == open = wanted

\* A flush that runs out of time retains the pending changes and marks them failed
\* (canvasAutoSaveCoordinator.ts:404): what is shown as failed is still to be saved.
FailedIsRetained ==
    \A m \in Mounts : (co[m].failed /\ ~co[m].inFlight) => co[m].pending

\* The same of every canvas: the last save of the canvas before writes to the same
\* indicator.
SavedIsSaved == indicator = "saved" => unsaved[shown] \subseteq {reply}
=============================================================================
