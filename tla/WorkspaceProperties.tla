------------------------ MODULE WorkspaceProperties ------------------------
(***************************************************************************)
(* What packages/app-core/src/workspace/workspace-service.ts promises.     *)
(***************************************************************************)
EXTENDS WorkspaceLifecycle

Actions == {"created", "loading", "loaded", "saved", "consistent", "dbOnly",
            "unusable", "failed"}

LifecycleTypeOK ==
    /\ ria \in [Dirs -> Snapshots]
    /\ db \in [Dirs -> Databases]
    /\ module \in Dirs \cup {NoDir}
    /\ ws \in [isOpen: BOOLEAN, dir: Dirs \cup {NoDir}, action: Actions]
    /\ epoch \in Nat
    /\ tracked # 0 => \E l \in loads : l.epoch = tracked
    /\ loads \subseteq [dir: Dirs, epoch: Nat, attached: BOOLEAN,
                         pc: {"loading", "cleanup", "closing", "removing"}]
    /\ waiting \in Seq(Callers)
    /\ last \in [kind: {"none", "open", "create", "close"}, dir: Dirs \cup {NoDir},
                  ok: BOOLEAN]

\* A switch or a close during a load ends on what the caller asked for, and what
\* is left of the load does not change that (workspace-service.ts:709-711 and
\* 1599-1600): between two calls the workspace is that of the last one, with its
\* own database open unless its own load failed (a recheck of a directory whose
\* load failed replaces that status and opens nothing).
LastCallWins ==
    waiting = <<>> =>
        /\ last.kind = "close" => ~ws.isOpen /\ module = NoDir
        /\ (last.kind \in {"open", "create"} /\ last.ok) =>
              /\ ws.isOpen
              /\ ws.dir = last.dir
              /\ \/ module = ws.dir
                 \/ (module = NoDir /\ ws.action \in {"loading", "failed", "dbOnly", "unusable"})

\* The failure of a background load closes its own database or none: "a later
\* lifecycle operation now owns the handle" (workspace-service.ts:1134-1135).
LoadClosesOwnDatabase ==
    [][\A l \in loads : LoadCloses(l) => module \in {l.dir, NoDir}]_vars

\* Between two calls, a status that reports the content as synchronised is about
\* a database that is open, of that directory, and has its content, however the
\* loads, crashes and stale databases of earlier calls ended.  A recheck after an
\* unreadable snapshot was repaired may call a database of another schema version
\* consistent; none is reported as loaded or saved.
HealthyMeansWhole ==
    (waiting = <<>> /\ ws.isOpen /\ ws.action \in {"loaded", "saved", "consistent"}) =>
        /\ module = ws.dir
        /\ db[ws.dir] \in {"whole", "stale"}
        /\ db[ws.dir] = "stale" => ws.action = "consistent"

\* The only copy of a content stays: a database is deleted only while ria-data can
\* rebuild it, and no call of the service writes over a snapshot it could not read
\* (workspace-service.ts:944-961).
OnlyCopyKept ==
    [][\A d \in Dirs :
         /\ db[d] \in {"whole", "stale", "torn"} /\ db'[d] = "none" => ria[d] = "readable"
         /\ ServiceStep /\ ria[d] \in {"unusable", "incompatible"} => ria'[d] = ria[d]]_vars

\* The worker never replays in its own process a write-ahead log that aborts the
\* process: "the replay is attempted first in a short-lived child process"
\* (wal-recovery.ts:47-51).
ReplayIsProbed ==
    \A c \in Callers :
        op[c].pc \in {"opening", "creating"} => db[op[c].dir] # "torn"

\* A load or a store of the service runs on an open database of its directory, so
\* that a directory whose load failed can be repaired and opened again: "Re-open
\* with forceRecheck to verify the repair resolved the mismatch"
\* (apps/renderer/src/shell/BottomPanel.tsx:297).
LoadsIntoOpenDatabase ==
    \A c \in Callers :
        op[c].pc \in {"rereading", "reloading", "storing", "freshLoad"}
            => module = op[c].dir

-----------------------------------------------------------------------------
(***************************************************************************)
(* Fairness: calls of the file system and the database answer and timers   *)
(* fire, so every critical section and every catch block goes on.  A load  *)
(* is not assumed to end: that is what the bounded await is for.           *)
(***************************************************************************)
FairLifecycleSpec ==
    /\ LifecycleSpec
    /\ \A c \in Callers : WF_vars(OpenStep(c) \/ CreateStep(c) \/ CloseStep(c))
    /\ WF_vars(\E l \in loads : LoadCloses(l) \/ LoadDiscards(l))

LoadsEnd == WF_vars(\E l \in loads : LoadReadsAll(l) \/ LoadFails(l) \/ LoadPublishes(l))

\* Every call leaves the mutex, even during a load that never ends; and when loads
\* end, one that nothing superseded publishes how it ended.
LifecycleProgress ==
    /\ \A c \in Callers : (op[c] # NoOp) ~> (op[c] = NoOp)
    /\ LoadsEnd => \A e \in 1..(2 * MaxCalls) :
         (ws.action = "loading" /\ tracked = e /\ epoch = e)
             ~> (ws.action # "loading" \/ epoch # e)

\* "state.lifecycleAction is updated to 'opened_loaded_from_ria_data' when it
\* completes" (workspace-service.ts:1081-1084), and "a same-dir re-open during a
\* load simply lets the load settle" (:712-713): no workspace stays in loading.
LoadingEnds ==
    LoadsEnd => (ws.isOpen /\ ws.action = "loading") ~> (~ws.isOpen \/ ws.action # "loading")
=============================================================================
