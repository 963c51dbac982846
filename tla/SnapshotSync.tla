---------------------------- MODULE SnapshotSync ----------------------------
(***************************************************************************)
(* How the database of a workspace and its ria-data/ files are kept from   *)
(* overwriting each other:                                                 *)
(*   packages/app-core/src/workspace/sync-state.ts, sync-evaluation.ts and *)
(*     snapshot-baseline.ts: the five-state rule, its evaluation at open,  *)
(*     the fence in front of every store;                                  *)
(*   packages/app-core/src/persistor/persistor.ts, persistor-load.ts,      *)
(*     persistor-repair.ts, snapshot-origin.ts and persistor-store.ts: the *)
(*     load, the repair and the store that move content or hashes;         *)
(*   the Case D and forceRecheck branches of workspace-service.ts.         *)
(*                                                                         *)
(* A domain is a namespace or a shared layer.  Its content is a version,   *)
(* and the hash of a version is the version: what M, F and D compare.  The *)
(* slice of cross_namespace that a namespace hash covers is left to the    *)
(* cross_namespace domain (AutoSave has it), and meta, which has no D, is  *)
(* left out.  The manifest digest is the manifest.                         *)
(***************************************************************************)
EXTENDS Integers

CONSTANTS
    Namespaces,
    Shared,     \* the shared layers
    MaxEvents,  \* bound on the edits, commits and stops explored
    Faults      \* what else may happen, see AllFaults

Domains == Namespaces \cup Shared

Cross == "cross_namespace"

AllFaults == {
    "commit during",  \* files change under an evaluation, a load or a store
    "overlap",        \* a store or an edit runs beside an evaluation or a load
    "load stops",     \* a load fails, or the process dies, after its clears, or
                      \* the load of a recheck fails at all
    "store stops",    \* the same for a store, before its manifest
    "origin lost",    \* the origin record is not written after a store
    "plain load",     \* persistor.load is called without acceptFileChanges
    "repair any time",  \* persistor.repairManifest is called without the offer
    "revert" }        \* a checkout goes back to the previous commit

ASSUME SyncAssumption ==
    /\ {"universe", Cross} \subseteq Shared
    /\ Shared \subseteq {"sourcemaster", "universe", Cross}
    /\ Namespaces \cap Shared = {}
    /\ {"none", "full"} \cap Namespaces = {}
    /\ MaxEvents \in Nat
    /\ Faults \subseteq AllFaults

Empty == -1      \* a layer that was cleared, an edge set that was cut off
Unknown == -2    \* a null D: content_hash = '' or no origin row

VARIABLES
    file, manifest,   \* ria-data/: F and M
    db, d, digest,    \* the database: content, D, the manifest row of the origin
    baseline,         \* what the fence compares the manifest with
    pending,          \* an undecided sync decision
    service,          \* the lifecycle call that holds the mutex
    load, store,      \* the persistor.load and the persistor.store that run
    unseen,           \* versions from outside that the database never held
    held,             \* the version of each layer it last loaded or stored
    previous,         \* what the commit before the checked out one contained
    halfStored,       \* whether a store has stopped before its manifest
    events

disk == <<file, manifest>>
database == <<db, d, digest>>
session == <<baseline, pending, service>>
ghosts == <<unseen, held, previous, halfStored>>
vars == <<disk, database, session, load, store, ghosts, events>>

Closed == [pc |-> "closed", by |-> "none", manifest |-> <<>>]
NoLoad == [pc |-> "none", by |-> "none", plan |-> {}, left |-> {}, manifest |-> <<>>, existing |-> <<>>]
NoStore == [pc |-> "none", scope |-> "none", override |-> FALSE, left |-> {}, manifest |-> <<>>]
NoBaseline == <<>>
NoDigest == <<>>

\* A saved workspace that nobody has open.
SyncInit ==
    /\ file = [x \in Domains |-> 0] /\ manifest = file
    /\ db = file /\ d = file /\ digest = file
    /\ baseline = NoBaseline /\ pending = FALSE /\ service = Closed
    /\ load = NoLoad /\ store = NoStore
    /\ unseen = {} /\ held = file /\ previous = file /\ halfStored = FALSE
    /\ events = 0

Fresh == events + 1

Happens == events < MaxEvents /\ events' = Fresh

Quiet == load = NoLoad /\ store = NoStore /\ service.pc \in {"closed", "idle", "failed"}

\* A store or an edit can run: the workspace is open and, unless they overlap,
\* nothing is evaluated or loaded.  Case D publishes 'opened_consistent' before
\* it evaluates and loads, so the gate and the auto-save pass from then on.
Usable ==
    /\ service.pc \in IF "overlap" \in Faults THEN {"idle", "evaluating", "loading"} ELSE {"idle"}
    /\ load = NoLoad \/ "overlap" \in Faults

-----------------------------------------------------------------------------
(* The five states of a domain and what they add up to.                    *)

StateOf(m, f, dd) ==
    IF m = f
      THEN IF dd = m THEN "S1" ELSE "S2"
      ELSE IF dd = m THEN "S3" ELSE IF dd = f THEN "S4" ELSE "S5"

\* Where the manifest is the one the origin was recorded from, D is M.
Evaluation(m) ==
    [x \in Domains |->
        StateOf(m[x], file[x], IF x \in Shared /\ digest = m THEN m[x] ELSE d[x])]

Outcome(states) ==
    LET some(S) == \E x \in Domains : states[x] \in S IN
    CASE some({"S3", "S5"}) -> "needs_decision"
      [] ~some({"S3", "S5"}) /\ some({"S2"}) -> "load"
      [] ~some({"S2", "S3", "S5"}) /\ some({"S4"}) -> "repair_manifest"
      [] OTHER -> "consistent"

NeedsLoad(states) == {x \in Domains : states[x] \notin {"S1", "S4"}}

\* A mutant of PlanLoad: the cross-namespace layer is planned only when it
\* differs itself.
PlanLoadNoPromotion(states) ==
    NeedsLoad(states) \cup (IF Cross \in NeedsLoad(states) THEN Namespaces ELSE {})

\* A mutant of PlanLoad: every shared layer is loaded.
PlanLoadAllShared(states) == Domains

PlanLoad(states) ==
    LET stale == NeedsLoad(states)
        namespaces == IF Cross \in stale THEN Namespaces ELSE stale \cap Namespaces
    IN  (stale \cap Shared) \cup namespaces \cup (IF namespaces # {} THEN {Cross} ELSE {})

Repaired(m, S) == [x \in Domains |-> IF x \in S THEN file[x] ELSE m[x]]

-----------------------------------------------------------------------------
(* The world outside.                                                      *)

\* A commit, merge or pull made elsewhere: files and manifest move together.
Commit(X) ==
    /\ Quiet \/ "commit during" \in Faults
    /\ Happens
    /\ file' = [x \in Domains |-> IF x \in X THEN Fresh ELSE file[x]]
    /\ manifest' = [x \in Domains |-> IF x \in X THEN Fresh ELSE manifest[x]]
    /\ unseen' = unseen \cup {<<x, Fresh>> : x \in X}
    /\ previous' = manifest
    /\ UNCHANGED <<database, session, load, store, held, halfStored>>

\* A checkout of the commit before.
Revert ==
    /\ "revert" \in Faults /\ Quiet
    /\ Happens
    /\ file' = previous /\ manifest' = previous /\ previous' = manifest
    /\ UNCHANGED <<database, session, load, store, unseen, held, halfStored>>

\* Somebody edits a file and leaves the manifest alone.  No hash of a file is
\* compared before the next open, so what is edited in a session is not counted.
HandEdit(x) ==
    /\ Quiet
    /\ Happens
    /\ file' = [file EXCEPT ![x] = Fresh]
    /\ unseen' = IF service.pc = "closed" THEN unseen \cup {<<x, Fresh>>} ELSE unseen
    /\ UNCHANGED <<manifest, database, session, load, store, held, previous, halfStored>>

\* The workspace is closed, or the process ends and takes the baseline, the
\* decision and what runs with it.
Stop ==
    /\ service.pc # "closed"
    /\ load.pc = "import" => "load stops" \in Faults
    /\ store.pc = "write" => "store stops" \in Faults
    /\ store.pc = "origin" => "origin lost" \in Faults
    /\ Happens
    /\ baseline' = NoBaseline /\ pending' = FALSE /\ service' = Closed
    /\ load' = NoLoad /\ store' = NoStore
    /\ halfStored' = (halfStored \/ store.pc = "write")
    /\ UNCHANGED <<disk, database, unseen, held, previous>>

-----------------------------------------------------------------------------
(* Work in the session.                                                    *)

\* An edit; one of a cross-namespace edge blanks the hash of its source n.
Edit(x, n) ==
    /\ Usable
    /\ Happens
    /\ db' = [db EXCEPT ![x] = Fresh]
    /\ d' = IF x \in {n, Cross} THEN [d EXCEPT ![n] = Unknown] ELSE d
    /\ UNCHANGED <<disk, digest, session, load, store, ghosts>>

Edits == \E n \in Namespaces : \E x \in Shared \cup {n} : Edit(x, n)

Drifted == baseline # NoBaseline /\ manifest # baseline

\* A mutant of Refused: the fence looks at the files only.
RefusedOnDriftOnly == Drifted

\* assertNoSnapshotDrift()
Refused == Drifted \/ pending

Written(scope) ==
    CASE scope = "full" -> Domains
      [] scope = "universe" -> {"universe"}
      [] OTHER -> Shared \cup {scope}

StoreBegins(scope, override) ==
    /\ Usable
    /\ store = NoStore
    /\ IF override THEN scope = "full" ELSE ~Refused
    /\ store' = [pc |-> "write", scope |-> scope, override |-> override,
                 left |-> Written(scope), manifest |-> manifest]
    /\ UNCHANGED <<disk, database, session, load, ghosts, events>>

\* The shared layers are exported before the first namespace, and the hash of a
\* namespace is set as soon as its files are written.
StoreWrites(X) ==
    /\ store.pc = "write"
    /\ X = store.left \cap Shared \/ (store.left \cap Shared = {} /\ \E n \in store.left : X = {n})
    /\ X # {}
    /\ file' = [x \in Domains |-> IF x \in X THEN db[x] ELSE file[x]]
    /\ d' = [x \in Domains |-> IF x \in X \cap Namespaces THEN db[x] ELSE d[x]]
    /\ held' = [x \in Domains |-> IF x \in X THEN db[x] ELSE held[x]]
    /\ store' = [store EXCEPT
                    !.left = @ \ X,
                    !.manifest = [x \in Domains |-> IF x \in X THEN db[x] ELSE @[x]]]
    /\ UNCHANGED <<manifest, db, digest, session, load, unseen, previous, halfStored, events>>

\* A universe-only store changes its entries in the manifest it finds now; the
\* others write the one they started from.
StoreWritesManifest ==
    /\ store.pc = "write" /\ store.left = {}
    /\ manifest' = IF store.scope = "universe"
                     THEN [manifest EXCEPT !["universe"] = store.manifest["universe"]]
                     ELSE store.manifest
    /\ store' = [store EXCEPT !.pc = "origin", !.manifest = manifest']
    /\ UNCHANGED <<file, database, session, load, ghosts, events>>

StoreFails ==
    /\ "store stops" \in Faults /\ store.pc = "write"
    /\ Happens
    /\ store' = NoStore /\ halfStored' = TRUE
    /\ UNCHANGED <<disk, database, session, load, unseen, held, previous>>

\* writeSnapshotOrigin(): the whole record, from one manifest.
OriginFrom(m) ==
    /\ d' = [x \in Domains |-> IF x \in Shared THEN m[x] ELSE d[x]]
    /\ digest' = m

\* Then the baseline is what the manifest says by now, and an explicit full
\* store settles the decision.
StoreEnds ==
    /\ store.pc = "origin"
    /\ \/ OriginFrom(store.manifest)
       \/ "origin lost" \in Faults /\ UNCHANGED <<d, digest>>
    /\ baseline' = manifest
    /\ pending' = (pending /\ ~store.override)
    /\ store' = NoStore
    /\ UNCHANGED <<disk, db, service, load, ghosts, events>>

-----------------------------------------------------------------------------
(* Evaluation and load.                                                    *)

\* Case D up to the evaluation: ria-data is classified, the database opened.
Open ==
    /\ service.pc = "closed"
    /\ service' = [pc |-> "evaluating", by |-> "open", manifest |-> manifest]
    /\ pending' = FALSE
    /\ UNCHANGED <<disk, database, baseline, load, store, ghosts, events>>

\* forceRecheck of the open workspace.
Recheck ==
    /\ service.pc = "idle"
    /\ (load = NoLoad /\ store = NoStore) \/ "overlap" \in Faults
    /\ service' = [pc |-> "evaluating", by |-> "recheck", manifest |-> manifest]
    /\ UNCHANGED <<disk, database, baseline, pending, load, store, ghosts, events>>

\* The wrapper around every open stamps the baseline from the manifest as it
\* is when the open returns, a failed load included.
OpenReturns(pc, m) ==
    /\ service' = [Closed EXCEPT !.pc = pc]
    /\ baseline' = m

\* A load verifies the layers outside the namespaces before its first await.
Intact(m) == \A x \in Shared \ {Cross} : file[x] = m[x]

LoadBegins(by, plan, m) ==
    load' = [pc |-> "clear", by |-> by, plan |-> plan, left |-> plan, manifest |-> m, existing |-> <<>>]

\* A repair is the user's word for the files: nothing the database did counts.
Authority(m) == [x \in Domains |-> IF m[x] # manifest[x] THEN Unknown ELSE held[x]]

EvaluationLoads(states) ==
    LET stale == {x \in Domains : states[x] = "S4"}
        repaired == Repaired(manifest, stale)
        changed == stale # {} /\ manifest # service.manifest
    IN
    /\ Outcome(states) = "load"
    /\ \/ /\ ~changed
          /\ Intact(repaired)
          /\ manifest' = repaired
          /\ LoadBegins(service.by, PlanLoad(states), repaired)
          /\ service' = [service EXCEPT !.pc = "loading"]
          /\ baseline' = baseline
       \/ /\ changed \/ ~Intact(repaired)
          /\ manifest' = IF changed THEN manifest ELSE repaired
          /\ OpenReturns(IF service.by = "open" THEN "failed" ELSE "idle", manifest')
          /\ UNCHANGED load

Evaluate ==
    LET states == Evaluation(service.manifest) IN
    /\ service.pc = "evaluating"
    /\ pending' = (Outcome(states) = "needs_decision")
    /\ \/ /\ Outcome(states) \in {"needs_decision", "consistent"}
          /\ OpenReturns("idle", manifest)
          /\ UNCHANGED <<manifest, load>>
       \/ /\ Outcome(states) = "repair_manifest"
          /\ manifest' = Repaired(manifest, Domains)
          /\ OpenReturns("idle", manifest')
          /\ UNCHANGED load
       \/ EvaluationLoads(states)
    /\ UNCHANGED <<file, database, store, ghosts, events>>

\* persistor.load loads everything; with acceptFileChanges the manifest is made
\* to match the files before.
CommandLoad(acceptFileChanges) ==
    LET m == IF acceptFileChanges THEN Repaired(manifest, Domains) ELSE manifest IN
    /\ acceptFileChanges \/ "plain load" \in Faults
    /\ service.pc = "idle" /\ load = NoLoad
    /\ store = NoStore \/ "overlap" \in Faults
    /\ Intact(m)
    /\ manifest' = m
    /\ LoadBegins("command", Domains, m)
    /\ held' = Authority(m)
    /\ UNCHANGED <<file, database, session, store, unseen, previous, halfStored, events>>

LoadClears ==
    /\ load.pc = "clear"
    /\ db' = [x \in Domains |-> IF x \in load.plan \cap Shared THEN Empty ELSE db[x]]
    /\ load' = [load EXCEPT !.pc = "import", !.existing = [n \in Namespaces |-> d[n]]]
    /\ UNCHANGED <<disk, d, digest, session, store, ghosts, events>>

Consumes(x) ==
    /\ unseen' = unseen \ {<<x, file[x]>>}
    /\ held' = [held EXCEPT ![x] = file[x]]

\* A namespace whose hash is the manifest's is not read.  The others are checked
\* and replaced in one transaction, and the edges of their nodes go with them.
LoadNamespace(n) ==
    /\ load.pc = "import" /\ n \in load.left
    /\ load' = [load EXCEPT !.left = @ \ {n}]
    /\ \/ /\ load.existing[n] = load.manifest[n]
          /\ UNCHANGED <<db, d, unseen, held>>
       \/ /\ load.existing[n] # load.manifest[n]
          /\ file[n] = load.manifest[n]
          /\ db' = [db EXCEPT ![n] = file[n], ![Cross] = Empty]
          /\ d' = [d EXCEPT ![n] = load.manifest[n]]
          /\ Consumes(n)
    /\ UNCHANGED <<disk, digest, session, store, previous, halfStored, events>>

\* sourcemaster comes before the namespaces, the other layers after them.
LoadShared(x) ==
    /\ load.pc = "import" /\ x \in load.left
    /\ x = "sourcemaster" \/ load.left \cap Namespaces = {}
    /\ load' = [load EXCEPT !.left = @ \ {x}]
    /\ db' = [db EXCEPT ![x] = file[x]]
    /\ Consumes(x)
    /\ UNCHANGED <<disk, d, digest, session, store, previous, halfStored, events>>

\* The origin comes from the manifest the load started with; the baseline is
\* read again, and a full load settles the decision.
LoadEnds ==
    /\ load.pc = "import" /\ load.left = {}
    /\ OriginFrom(load.manifest)
    /\ load' = NoLoad
    /\ baseline' = manifest
    /\ pending' = (pending /\ load.by # "command")
    /\ service' = IF load.by = "command" THEN service ELSE [Closed EXCEPT !.pc = "idle"]
    /\ UNCHANGED <<disk, db, store, ghosts, events>>

\* A mutant of LoadFails: the lifecycle call is never told.
LoadFailsUnnoticed ==
    /\ load.pc = "clear" /\ load.by # "recheck"
    /\ load' = NoLoad
    /\ UNCHANGED <<disk, database, session, store, ghosts, events>>

\* The queries before the clears fail, a namespace does not match its files, or
\* the import throws.  An open then closes the database, and stamps the baseline
\* like every open; a recheck and a command leave the database open.
LoadFails ==
    /\ \/ load.pc = "clear" /\ load.by # "recheck"
       \/ load.pc = "import" /\ \E n \in load.left \cap Namespaces :
            load.existing[n] # load.manifest[n] /\ file[n] # load.manifest[n]
       \/ load.pc # "none" /\ "load stops" \in Faults
    /\ load' = NoLoad
    /\ IF load.by = "command"
         THEN UNCHANGED <<service, baseline>>
         ELSE OpenReturns(IF load.by = "open" THEN "failed" ELSE "idle", manifest)
    /\ UNCHANGED <<disk, database, pending, store, ghosts, events>>

\* The renderer offers a repair for a workspace that failed to load or waits for
\* a decision, and when the files differ from the manifest.  Only it asks: the
\* CLI and the dispatcher repair whenever they are told to.
RepairOffered ==
    /\ service.pc \in {"closed", "failed"} \/ pending
    /\ Repaired(manifest, Domains) # manifest

\* A mutant of RepairManifest: the repaired hashes become the origin.
RepairManifestAdvancesOrigin ==
    /\ RepairOffered \/ "repair any time" \in Faults
    /\ Quiet
    /\ manifest' = Repaired(manifest, Domains)
    /\ OriginFrom(manifest')
    /\ held' = Authority(manifest')
    /\ baseline' = manifest'
    /\ UNCHANGED <<file, db, pending, service, load, store, unseen, previous, halfStored, events>>

\* persistor.repairManifest: the files win, and the baseline is stamped even when
\* there was nothing to repair.
RepairManifest ==
    /\ RepairOffered \/ "repair any time" \in Faults
    /\ Quiet
    /\ manifest' = Repaired(manifest, Domains)
    /\ held' = Authority(manifest')
    /\ baseline' = manifest'
    /\ UNCHANGED <<file, database, pending, service, load, store, unseen, previous, halfStored, events>>

-----------------------------------------------------------------------------
SyncNext ==
    \/ \E x \in Domains : Commit({x}) \/ HandEdit(x) \/ LoadShared(x)
    \/ Revert \/ Stop \/ Edits
    \/ \E scope \in Namespaces \cup {"universe", "full"}, override \in BOOLEAN : StoreBegins(scope, override)
    \/ \E X \in SUBSET Domains : StoreWrites(X)
    \/ StoreWritesManifest \/ StoreFails \/ StoreEnds
    \/ Open \/ Recheck \/ Evaluate
    \/ (\E accept \in BOOLEAN : CommandLoad(accept)) \/ LoadClears \/ LoadEnds \/ LoadFails
    \/ \E n \in Namespaces : LoadNamespace(n)
    \/ RepairManifest

SyncSpec == SyncInit /\ [][SyncNext]_vars
=============================================================================
