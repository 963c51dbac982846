--------------------------- MODULE CanvasAutoSave ---------------------------
(***************************************************************************)
(* The auto-save of the overview canvas: the coordinator of                *)
(* apps/renderer/src/lib/canvasAutoSaveCoordinator.ts, one instance per    *)
(* mounted canvas (hooks/useCanvasAutoSave.ts, shell/WorkspaceCanvas.tsx), *)
(* with the worker that executes its stores.                               *)
(*                                                                         *)
(* An instance outlives its canvas: its last store, the retries of that    *)
(* store and its writes to the shared indicator go on after the unmount,   *)
(* beside the instance of the next canvas.  Timers have no durations here: *)
(* an armed timer may fire at any moment.  Microtasks run before the next  *)
(* timer, so that what a flush does when the save it awaits ends is part   *)
(* of that end.                                                            *)
(***************************************************************************)
EXTENDS Naturals, Sequences, SequencesExt

CONSTANTS
    Dirs,          \* workspaces
    MAX_RETRIES,
    StrayEdits,    \* edits may be under way while the workspace is switched or
                   \* the canvas is replaced
    MaxMounts,     \* bound: canvases mounted one after the other
    MaxEdits,      \* bound: successful edits
    MaxFailures    \* bound: stores that fail

ASSUME CanvasAssumption ==
    /\ Dirs # {}
    /\ {MAX_RETRIES, MaxEdits, MaxFailures} \subseteq Nat
    /\ MaxMounts \in Nat \ {0}
    /\ StrayEdits \in BOOLEAN

VARIABLES
    unsaved,       \* of each workspace: the layers whose content in the database
                   \* is not in ria-data/
    open,          \* the workspace the worker has open
    wanted,        \* the workspace the user opened last
    opening,       \* the renderer awaits the answer of that open
    shown,         \* the workspace the status poll showed last
    mount,         \* the latest canvas
    mounted,       \* it is on screen
    co,            \* of each canvas: its coordinator
    indicator,     \* the Save_Status on screen
    reply,         \* the scope of an edit that is executed and not reported yet
    edits, failures

canvasVars == <<unsaved, open, wanted, opening, shown, mount, mounted, co,
                indicator, reply, edits, failures>>

\* What a save writes.  "full" is what the universe layer leaves out: which
\* namespaces exist, and the content a connection derives.
Scopes == {"universe", "full"}
Timers == {"debounce", "deferral", "retry"}
Flushes == {"unload", "unmount"}
Mounts == 1..MaxMounts

\* The layers a store of that scope writes.
covered(scope) == IF scope = "full" THEN Scopes ELSE {"universe"}

joinScope(a, b) == IF "full" \in {a, b} THEN "full" ELSE "universe"

NewCoordinator(d) ==
    [timers    |-> {},            \* debounceTimer, maxDeferralTimer, retryTimer
     followUps |-> 0,             \* timers of scheduleFollowUp(), which nobody clears
     burst     |-> FALSE,         \* burstStartAt is set
     pending   |-> FALSE,
     scope     |-> "universe",    \* pendingScope
     dir       |-> d,             \* pendingWorkingDir
     inFlight  |-> FALSE,
     retries   |-> 0,
     failed    |-> FALSE,
     everSaved |-> FALSE,
     saves     |-> <<>>,          \* the calls of save() that have not settled
     flush     |-> [f \in Flushes |-> "none"],
     late      |-> {}]            \* flushes under way whose deadline has passed

CanvasInit ==
    /\ unsaved = [d \in Dirs |-> {}]
    /\ open \in Dirs
    /\ wanted = open
    /\ opening = FALSE
    /\ shown = open
    /\ mount = 1
    /\ mounted = TRUE
    /\ co = [m \in Mounts |-> NewCoordinator(open)]
    /\ indicator = "idle"
    /\ reply = "none"
    /\ edits = 0
    /\ failures = 0

-----------------------------------------------------------------------------
(***************************************************************************)
(* The steps of a coordinator, as functions of its state.                  *)
(***************************************************************************)
deriveStatus(c) ==
    CASE c.inFlight -> "saving"
      [] ~c.inFlight /\ c.failed -> "failed"
      [] ~c.inFlight /\ ~c.failed /\ c.pending -> "pending"
      [] OTHER -> IF c.everSaved THEN "saved" ELSE "idle"

clearTimers(c) == [c EXCEPT !.timers = {}, !.burst = FALSE]

\* Variant for mutation: the scope that failed is forgotten.
joinFailedLoses(pendingScope, scope) == pendingScope

\* What a failed save leaves to be saved.
joinFailed(pendingScope, scope) == joinScope(pendingScope, scope)

\* pending is cleared before the save reads the database.
executeSave(c) ==
    [clearTimers(c) EXCEPT
        !.pending = FALSE, !.scope = "universe", !.failed = FALSE, !.inFlight = TRUE,
        !.saves = Append(c.saves, [dir |-> c.dir, scope |-> c.scope, st |-> "sent"])]

\* Variant for mutation: a timer starts a save beside the one in flight.
mayStartBeside(c) == c.pending

mayStart(c) == c.pending /\ ~c.inFlight

\* The deferral cap is armed by the first edit of a burst.
scheduled(c, scope, d) ==
    [c EXCEPT !.dir = d, !.pending = TRUE, !.scope = joinScope(c.scope, scope),
              !.failed = FALSE, !.retries = 0,
              !.timers = (c.timers \ {"retry"}) \cup {"debounce"}
                           \cup (IF c.burst THEN {} ELSE {"deferral"}),
              !.burst = TRUE]

\* Variant for mutation: what arrived during the save waits for the next edit.
succeededForgets(c) == [c EXCEPT !.inFlight = FALSE, !.retries = 0, !.everSaved = TRUE]

\* A save has succeeded.  What arrived during it gets a save of its own.
succeeded(c) ==
    [c EXCEPT !.inFlight = FALSE, !.retries = 0, !.everSaved = TRUE,
              !.followUps = IF c.pending THEN @ + 1 ELSE @]

\* A save of that scope has failed: its work is pending again, for a follow-up if
\* an edit arrived during the save, else for one of a bounded number of retries.
failedSave(c, scope) ==
    LET retry == ~c.pending /\ c.retries < MAX_RETRIES
    IN  [c EXCEPT !.inFlight = FALSE, !.failed = TRUE, !.pending = TRUE,
                  !.scope = joinFailed(c.scope, scope),
                  !.followUps = IF c.pending THEN @ + 1 ELSE @,
                  !.retries = IF retry THEN @ + 1 ELSE @,
                  !.timers = IF retry THEN @ \cup {"retry"} ELSE @]

\* Those who await the save: a flush of this save is done; one that waited for it
\* goes on to what is pending, and the next one that did finds it in flight.
resumeFlushes(c) ==
    LET waiting == {f \in Flushes : c.flush[f] = "waiting"}
        next == IF waiting = {} THEN "none" ELSE CHOOSE f \in waiting : TRUE
        goesOn == waiting # {} /\ c.pending
    IN  [IF goesOn THEN executeSave(c) ELSE c
         EXCEPT !.flush = [f \in Flushes |-> IF goesOn /\ f = next THEN "saving" ELSE "none"],
                !.late = IF goesOn THEN @ \cap {next} ELSE {}]

\* Coordinator m is now c, and has told the indicator.
Becomes(m, c, status) ==
    /\ co' = [co EXCEPT ![m] = c]
    /\ indicator' = status

-----------------------------------------------------------------------------
(***************************************************************************)
(* The canvas.                                                             *)
(***************************************************************************)
\* The workspaces a coordinator has work for.
unfinished(c) ==
    {c.saves[i].dir : i \in DOMAIN c.saves} \cup (IF c.pending THEN {c.dir} ELSE {})

\* It will save without being asked.
active(c) == c.timers # {} \/ c.followUps > 0 \/ c.inFlight

\* No edit is under way that the change of workspace or of canvas could lose.
Settled == StrayEdits \/ reply = "none"

\* The worker has open what the renderer shows, and no save is to come that would
\* make it open something else.
AtHome ==
    /\ open = shown
    /\ \A m \in Mounts : (m = mount \/ active(co[m])) => unfinished(co[m]) \subseteq {shown}

\* An edit is executed on the database the worker has open.
Edit(scope) ==
    /\ mounted /\ edits < MaxEdits /\ reply = "none"
    /\ StrayEdits \/ AtHome
    /\ edits' = edits + 1
    /\ unsaved' = [unsaved EXCEPT ![open] = @ \cup {scope}]
    /\ reply' = scope
    /\ UNCHANGED <<open, wanted, opening, shown, mount, mounted, co, indicator, failures>>

\* Its success is reported to the coordinator of the canvas.
EditReported ==
    /\ mounted /\ reply # "none"
    /\ reply' = "none"
    /\ LET c == scheduled(co[mount], reply, shown)
       IN  Becomes(mount, c, deriveStatus(c))
    /\ UNCHANGED <<unsaved, open, wanted, opening, shown, mount, mounted, edits, failures>>

\* An edit the database refuses is shown, and not scheduled.
EditFails ==
    /\ mounted
    /\ indicator' = "failed"
    /\ UNCHANGED <<unsaved, open, wanted, opening, shown, mount, mounted, co, reply, edits, failures>>

\* maybeStartSave(): a timer that fires while a save runs leaves it to the end of
\* the save.
maybeStartSave(m, c) ==
    IF mayStart(c) THEN Becomes(m, executeSave(c), "saving") ELSE Becomes(m, c, indicator)

TimerFires(m, t) ==
    /\ t \in co[m].timers
    /\ maybeStartSave(m, [co[m] EXCEPT !.timers = @ \ {t}])
    /\ UNCHANGED <<unsaved, open, wanted, opening, shown, mount, mounted, reply, edits, failures>>

FollowUpFires(m) ==
    /\ co[m].followUps > 0
    /\ maybeStartSave(m, [co[m] EXCEPT !.followUps = @ - 1])
    /\ UNCHANGED <<unsaved, open, wanted, opening, shown, mount, mounted, reply, edits, failures>>

\* flushSave(): a save in flight is awaited, what is pending is saved at once.
flushed(c, f) ==
    LET cleared == clearTimers(c)
    IN  CASE c.inFlight -> [cleared EXCEPT !.flush[f] = "waiting"]
          [] ~c.inFlight /\ c.pending -> [executeSave(c) EXCEPT !.flush[f] = "saving"]
          [] OTHER -> cleared

FlushSave(m, f) ==
    LET c == flushed(co[m], f)
    IN  Becomes(m, c, IF mayStart(co[m]) THEN deriveStatus(c) ELSE indicator)

\* The window is about to unload, and does not.
BeforeUnload ==
    /\ mounted
    /\ co[mount].flush["unload"] = "none"
    /\ FlushSave(mount, "unload")
    /\ UNCHANGED <<unsaved, open, wanted, opening, shown, mount, mounted, reply, edits, failures>>

\* The canvas leaves the screen: the user navigates, or its content was rebuilt.
\* dispose() clears the timers, and the cleanup of the canvas flushes; the success
\* of an edit is reported to nobody any more.
Unmount ==
    /\ mounted /\ Settled
    /\ mounted' = FALSE
    /\ reply' = "none"
    /\ FlushSave(mount, "unmount")
    /\ UNCHANGED <<unsaved, open, wanted, opening, shown, mount, edits, failures>>

Mount ==
    /\ ~mounted
    /\ mount < MaxMounts
    /\ mount' = mount + 1
    /\ mounted' = TRUE
    /\ co' = [co EXCEPT ![mount + 1] = NewCoordinator(shown)]
    /\ UNCHANGED <<unsaved, open, wanted, opening, shown, indicator, reply, edits, failures>>

\* The five seconds of a flush are over; the save it awaits is not.
FlushDeadline(m, f) ==
    /\ co[m].flush[f] \in {"waiting", "saving"}
    /\ f \notin co[m].late
    /\ Becomes(m, [co[m] EXCEPT !.failed = TRUE, !.late = @ \cup {f}], "failed")
    /\ UNCHANGED <<unsaved, open, wanted, opening, shown, mount, mounted, reply, edits, failures>>

-----------------------------------------------------------------------------
(***************************************************************************)
(* The worker, and what the renderer learns from it.                       *)
(***************************************************************************)
\* The handler of persistor.store opens the workspace the store is for, and writes
\* the layers of its scope.  A store that fails may have written them or not.
Store(m, i, outcome) ==
    LET save == co[m].saves[i]
        written == [unsaved EXCEPT ![save.dir] = @ \ covered(save.scope)]
    IN  /\ save.st = "sent"
        /\ open' = save.dir
        /\ co' = [co EXCEPT ![m].saves[i].st = outcome]
        /\ CASE outcome = "stored" -> unsaved' = written /\ UNCHANGED failures
             [] outcome = "refused" -> UNCHANGED unsaved /\ failures' = failures + 1
             [] outcome = "broken" -> unsaved' \in {unsaved, written} /\ failures' = failures + 1
        /\ failures' <= MaxFailures
        /\ UNCHANGED <<wanted, opening, shown, mount, mounted, indicator, reply, edits>>

\* The promise of save() settles.  A store refused because the files changed on
\* disk is shown as a decision the user owes.
SaveSettles(m, i) ==
    LET c == co[m]
        save == c.saves[i]
        rest == [c EXCEPT !.saves = RemoveAt(@, i)]
        after == IF save.st = "stored" THEN succeeded(rest) ELSE failedSave(rest, save.scope)
        resumed == resumeFlushes(after)
    IN  /\ save.st # "sent"
        /\ Becomes(m, resumed,
                   IF save.st = "refused" /\ ~resumed.inFlight THEN "needs_decision"
                   ELSE deriveStatus(resumed))
        /\ UNCHANGED <<unsaved, open, wanted, opening, shown, mount, mounted, reply, edits, failures>>

\* The user opens a workspace, and the worker does, after the stores it was sent
\* before.  (What a store and an open do to each other is CommandDispatch's and
\* SnapshotSync's subject.)
OpenWorkspace(d) ==
    /\ ~opening /\ Settled
    /\ \A m \in Mounts : \A i \in DOMAIN co[m].saves : co[m].saves[i].st # "sent"
    /\ open' = d
    /\ wanted' = d
    /\ opening' = TRUE
    /\ UNCHANGED <<unsaved, shown, mount, mounted, co, indicator, reply, edits, failures>>

\* The open has succeeded: the indicator is reset, and the canvas, keyed on the
\* content, is replaced: the old one unmounts and flushes.
Opened ==
    /\ opening /\ Settled
    /\ opening' = FALSE
    /\ mounted' = FALSE
    /\ reply' = "none"
    /\ IF mounted
       THEN LET c == flushed(co[mount], "unmount")
            IN  Becomes(mount, c, IF mayStart(co[mount]) THEN deriveStatus(c) ELSE "idle")
       ELSE indicator' = "idle" /\ UNCHANGED co
    /\ UNCHANGED <<unsaved, open, wanted, shown, mount, edits, failures>>

StatusPolled ==
    /\ shown' = open
    /\ UNCHANGED <<unsaved, open, wanted, opening, mount, mounted, co, indicator, reply, edits, failures>>

-----------------------------------------------------------------------------
Outcomes == {"stored", "refused", "broken"}

SomeTimerFires(m) == (\E t \in Timers : TimerFires(m, t)) \/ FollowUpFires(m)

WorkerServes(m) ==
    \E i \in DOMAIN co[m].saves :
        \/ \E outcome \in Outcomes : Store(m, i, outcome)
        \/ SaveSettles(m, i)

CanvasNext ==
    \/ \E scope \in Scopes : Edit(scope)
    \/ EditReported
    \/ EditFails
    \/ BeforeUnload
    \/ Unmount
    \/ Mount
    \/ Opened
    \/ StatusPolled
    \/ \E d \in Dirs : OpenWorkspace(d)
    \/ \E m \in Mounts :
         \/ SomeTimerFires(m)
         \/ WorkerServes(m)
         \/ \E f \in Flushes : FlushDeadline(m, f)

CanvasSpec == CanvasInit /\ [][CanvasNext]_canvasVars
=============================================================================
