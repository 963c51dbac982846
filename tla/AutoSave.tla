------------------------------ MODULE AutoSave ------------------------------
(***************************************************************************)
(* The save path of one working directory:                                 *)
(*   packages/app-core/src/persistor/auto-save-coordinator.ts, which turns *)
(*     the dirty marks of edits into stores,                               *)
(*   packages/app-core/src/persistor/persistor-store.ts, which serialises  *)
(*     the stores and writes ria-data/,                                    *)
(*   the two queries of an edit in instance-service.ts, and the dispatcher *)
(*     that reports the edit afterwards.                                   *)
(*                                                                         *)
(* A namespace is what its hash covers: its own concepts and relationships *)
(* and its slice of the shared cross-namespace file, 0 when it is the      *)
(* source of no edge.  A hash is the content it was computed from.  A read *)
(* of a layer and the write of its files are one step: only stores write   *)
(* files, and the chain runs one at a time.                                *)
(***************************************************************************)
EXTENDS Naturals, Sequences, FiniteSetsExt

CONSTANTS
    NsCount,        \* namespaces, numbered in the order of their names
    Values,         \* versions of a piece of content; 0 is the empty one
    Dirty,          \* content_hash = ''
    Editors,        \* concurrent dispatches of mutating channels
    CommandScopes,  \* what explicit persistor.store commands store
    MaxFlushRounds, \* MAX_FLUSH_ROUNDS
    MaxEvents,      \* bound on the edits, explicit stores and faults explored
    Faults          \* may calls fail and the workspace be closed?

Ns == 1..NsCount

Content == [own : Values, cross : Values]

ASSUME AutoSaveAssumption ==
    /\ NsCount \in Nat \ {0}
    /\ 0 \in Values
    /\ Dirty \notin Content
    /\ CommandScopes \subseteq {"namespace", "universe", "full"}
    /\ MaxFlushRounds \in Nat /\ MaxEvents \in Nat
    /\ Faults \in BOOLEAN

VARIABLES
    content, hash, universe,               \* the database
    files, manifest, universeFile,         \* ria-data/
    flags, timer, requeued, lastFlushFailed,
    round,         \* the runFlush() in flight
    chain,         \* the stores queued for the directory; the first one runs
    store,         \* the storeImpl() that runs
    edit,          \* the dispatch of each editor
    flush,         \* a caller of flush(): the shutdown of the worker
    usable,        \* resolveWorkingDir() finds an open workspace
    history,       \* what has happened that properties make exceptions for
    events

database == <<content, hash, universe>>
disk == <<files, manifest, universeFile>>
coordinator == <<flags, timer, requeued, lastFlushFailed, round>>
vars == <<database, disk, coordinator, chain, store, edit, flush, usable, history, events>>

Scopes == {"namespace", "universe", "full"}

NoEdit == [step |-> "idle", scope |-> "namespace", ns |-> 0]
NoRound == [pc |-> "idle", want |-> {}, todo |-> {}]
NoStore == [pc |-> "idle", left |-> {}, fix |-> {}, seen |-> <<>>, recorded |-> <<>>]

Blank == [own |-> 0, cross |-> 0]

\* A workspace that was just stored: the database and its files agree.
AutoSaveInit ==
    /\ content = [n \in Ns |-> Blank] /\ files = content
    /\ hash = content /\ manifest = content
    /\ universe = 0 /\ universeFile = 0
    /\ flags = {} /\ timer = FALSE /\ requeued = FALSE /\ lastFlushFailed = FALSE
    /\ round = NoRound
    /\ chain = <<>> /\ store = NoStore
    /\ edit = [e \in Editors |-> NoEdit]
    /\ flush = [pc |-> "none", rounds |-> 0]
    /\ usable = TRUE
    /\ history = {}
    /\ events = 0

Event == events < MaxEvents /\ events' = events + 1

\* A query or a write throws: the handle is gone, or by itself.
Throws ==
    \/ ~usable /\ UNCHANGED events
    \/ Faults /\ Event

(***************************************************************************)
(* Edits.  A namespace edit writes its data, then blanks the hash in a     *)
(* query of its own; when its handler has resolved the dispatcher calls    *)
(* markDirty with the scope of the channel.  Universe edits and the edits  *)
(* of 'full' channels have no hash to blank.                               *)
(***************************************************************************)
InFlight == round.pc # "idle"

\* The queries of the edit interleave with those of a flush or a store.
NoteOverlap(overlaps) ==
    history' = IF overlaps THEN history \cup {"overlap"} ELSE history

EditNamespace(e) ==
    /\ edit[e].step = "idle" /\ usable /\ Event
    /\ \E n \in Ns, scope \in {"namespace", "full"} :
        /\ \/ \E v \in Values \ {content[n].own} :
                content' = [content EXCEPT ![n].own = v]
           \/ \E v \in Values \ {content[n].cross} :
                content' = [content EXCEPT ![n].cross = v]
        /\ edit' = [edit EXCEPT ![e] =
                [step |-> IF scope = "full" THEN "handled" ELSE "wrote",
                 scope |-> scope, ns |-> n]]
        /\ NoteOverlap(InFlight \/ chain # <<>>)
    /\ UNCHANGED <<hash, universe, disk, coordinator, chain, store, flush, usable>>

EditUniverse(e) ==
    /\ edit[e].step = "idle" /\ usable /\ Event
    /\ \E v \in Values \ {universe} : universe' = v
    /\ edit' = [edit EXCEPT ![e] = [step |-> "handled", scope |-> "universe", ns |-> 0]]
    /\ UNCHANGED <<content, hash, disk, coordinator, chain, store, flush, usable, history>>

InvalidateNamespaceHash(e) ==
    /\ edit[e].step = "wrote" /\ usable
    /\ hash' = [hash EXCEPT ![edit[e].ns] = Dirty]
    /\ edit' = [edit EXCEPT ![e].step = "handled"]
    /\ UNCHANGED <<content, universe, disk, coordinator, chain, store, flush, usable, history, events>>

\* The second query fails with the handle: the handler throws, nothing is marked.
EditThrows(e) ==
    /\ edit[e].step = "wrote" /\ ~usable
    /\ edit' = [edit EXCEPT ![e] = NoEdit]
    /\ history' = history \cup {"failed"}
    /\ UNCHANGED <<database, disk, coordinator, chain, store, flush, usable, events>>

\* Variants for mutation: a mutation during a round restarts the timer; it is left
\* to the round.
MarkDirtySchedules(scope) ==
    /\ flags' = flags \cup {scope}
    /\ timer' = TRUE
    /\ UNCHANGED requeued

MarkDirtyNoRequeue(scope) ==
    /\ flags' = flags \cup {scope}
    /\ timer' = (timer \/ ~InFlight)
    /\ UNCHANGED requeued

MarkDirty(scope) ==
    /\ flags' = flags \cup {scope}
    /\ IF InFlight
       THEN requeued' = TRUE /\ UNCHANGED timer
       ELSE timer' = TRUE /\ UNCHANGED requeued

DispatchReturns(e) ==
    /\ edit[e].step = "handled"
    /\ MarkDirty(edit[e].scope)
    /\ edit' = [edit EXCEPT ![e] = NoEdit]
    /\ UNCHANGED <<lastFlushFailed, round, database, disk, chain, store, flush, usable, history, events>>

(***************************************************************************)
(* The coordinator: a round takes the flags, resolves the directory and    *)
(* the dirty namespaces, and awaits its stores one by one.                 *)
(***************************************************************************)
HalfEdited == \E e \in Editors : edit[e].step = "wrote"

\* startFlush() with no round in flight
StartRound ==
    /\ round' = [pc |-> "resolving", want |-> flags, todo |-> {}]
    /\ flags' = {}
    /\ lastFlushFailed' = FALSE
    /\ NoteOverlap(HalfEdited)

\* Variants for mutation: the flags are cleared when the round has ended; there
\* is no follow-up round.
RoundEndsClearing ==
    /\ requeued' = FALSE /\ flags' = {}
    /\ round' = NoRound /\ lastFlushFailed' = FALSE
    /\ UNCHANGED history

RoundEndsAlone ==
    /\ requeued' = FALSE
    /\ round' = NoRound /\ lastFlushFailed' = FALSE
    /\ UNCHANGED <<flags, history>>

\* The end of a successful round, and its follow-up.
RoundEnds ==
    /\ requeued' = FALSE
    /\ IF requeued /\ flags # {}
       THEN StartRound
       ELSE /\ round' = NoRound
            /\ lastFlushFailed' = FALSE
            /\ UNCHANGED <<flags, history>>

RoundFails ==
    /\ flags' = flags \cup (round.want \ {"namespace"})
    /\ lastFlushFailed' = TRUE
    /\ requeued' = FALSE
    /\ round' = NoRound

\* The timer cannot fire before an awaiting flush() has resumed and cleared it.
TimerFires ==
    /\ timer /\ flush.pc # "awaiting"
    /\ timer' = FALSE
    /\ IF InFlight
       THEN requeued' = TRUE /\ UNCHANGED <<flags, lastFlushFailed, round, history>>
       ELSE StartRound /\ UNCHANGED requeued
    /\ UNCHANGED <<database, disk, chain, store, edit, flush, usable, events>>

Request(by, scope, n) == [by |-> by, scope |-> scope, ns |-> n]

RoundStores(scope, n, todo) ==
    /\ chain' = Append(chain, Request("round", scope, n))
    /\ round' = [round EXCEPT !.pc = "storing", !.todo = todo]
    /\ UNCHANGED <<flags, requeued, lastFlushFailed, history>>

RoundResolves ==
    /\ round.pc = "resolving"
    /\ \/ ~usable /\ RoundEnds /\ UNCHANGED chain
       \/ /\ usable /\ "full" \in round.want
          /\ RoundStores("full", 0, {})
       \/ /\ usable /\ "full" \notin round.want /\ "namespace" \in round.want
          /\ round' = [round EXCEPT !.pc = "querying"]
          /\ UNCHANGED <<flags, requeued, lastFlushFailed, chain, history>>
       \/ /\ usable /\ round.want = {"universe"}
          /\ RoundStores("universe", 0, {})
    /\ UNCHANGED <<timer, database, disk, store, edit, flush, usable, events>>

DirtyNamespaces == {n \in Ns : hash[n] = Dirty}

RoundQueries ==
    /\ round.pc = "querying" /\ usable
    /\ IF DirtyNamespaces # {}
       THEN RoundStores("namespace", Min(DirtyNamespaces), DirtyNamespaces)
       ELSE IF "universe" \in round.want
       THEN RoundStores("universe", 0, {})
       ELSE RoundEnds /\ UNCHANGED chain
    /\ UNCHANGED <<timer, database, disk, store, edit, flush, usable, events>>

RoundQueryFails ==
    /\ round.pc = "querying"
    /\ Throws
    /\ RoundFails
    /\ history' = history \cup {"failed"}
    /\ UNCHANGED <<timer, database, disk, chain, store, edit, flush, usable>>

(***************************************************************************)
(* The stores.  Each waits for the one before it; a universe-scoped store  *)
(* writes the universe files alone, the others write the shared layers,    *)
(* then their namespaces, then the manifest.                               *)
(***************************************************************************)
ExplicitStore ==
    /\ usable /\ Event
    /\ \E scope \in CommandScopes :
         \E n \in IF scope = "namespace" THEN Ns ELSE {0} :
            chain' = Append(chain, Request("command", scope, n))
    /\ NoteOverlap(HalfEdited)
    /\ UNCHANGED <<database, disk, coordinator, store, edit, flush, usable>>

Job == Head(chain)

Targets == IF Job.scope = "full" THEN Ns ELSE {Job.ns}

StoreBegins ==
    /\ chain # <<>> /\ store.pc = "idle" /\ usable /\ Job.scope # "universe"
    /\ store' = [pc |-> "shared", left |-> Targets, fix |-> {},
                 seen |-> hash, recorded |-> manifest]
    /\ UNCHANGED <<database, disk, coordinator, chain, edit, flush, usable, history, events>>

\* The sources of edges in the shared file before or after it is rewritten.
CrossSources == {m \in Ns : files[m].cross # 0 \/ content[m].cross # 0}

StoreExportsShared ==
    /\ store.pc = "shared" /\ usable
    /\ files' = [n \in Ns |-> [files[n] EXCEPT !.cross = content[n].cross]]
    /\ universeFile' = universe
    /\ store' = [store EXCEPT !.pc = "namespaces", !.fix = CrossSources \ {Job.ns}]
    /\ UNCHANGED <<manifest, database, coordinator, chain, edit, flush, usable, history, events>>

\* Variant for mutation: the namespaces that were not stored keep their hashes.
RecordedNoFixup(n, h) ==
    [store EXCEPT !.left = @ \ {n}, !.recorded[n] = h,
                  !.pc = IF store.left = {n} THEN "manifest" ELSE "namespaces"]

\* One more namespace recorded; after the last, the others are put right.
Recorded(n, h) ==
    LET left == store.left \ {n}
        done == [store EXCEPT !.left = left, !.recorded[n] = h]
    IN IF left # {} THEN [done EXCEPT !.pc = "namespaces"]
       ELSE IF Job.scope = "namespace"
       THEN [done EXCEPT !.pc = "fixup", !.left = store.fix]
       ELSE [done EXCEPT !.pc = "manifest"]

\* The delta skip: hash, manifest and files all agree with what was read.
MaySkip(n) ==
    /\ store.seen[n] = content[n]
    /\ manifest[n] = content[n]
    /\ files[n] = content[n]

StoreReadsNamespace ==
    /\ store.pc = "namespaces" /\ usable
    /\ LET n == Min(store.left) IN
       IF MaySkip(n)
       THEN store' = Recorded(n, content[n]) /\ UNCHANGED files
       ELSE /\ files' = [files EXCEPT ![n].own = content[n].own]
            /\ store' = [store EXCEPT !.pc = "sethash", !.recorded[n] = content[n]]
    /\ UNCHANGED <<manifest, universeFile, database, coordinator, chain, edit, flush, usable, history, events>>

StoreSetsHash ==
    /\ store.pc = "sethash" /\ usable
    /\ LET n == Min(store.left) IN
        /\ hash' = [hash EXCEPT ![n] = store.recorded[n]]
        /\ store' = Recorded(n, store.recorded[n])
    /\ UNCHANGED <<content, universe, disk, coordinator, chain, edit, flush, usable, history, events>>

\* The hash of a namespace that was not stored, recomputed from its files.
StoreFixesOther ==
    /\ store.pc = "fixup" /\ usable
    /\ IF store.left = {}
       THEN store' = [store EXCEPT !.pc = "manifest"] /\ UNCHANGED hash
       ELSE LET m == Min(store.left) IN
            /\ store' = [store EXCEPT !.left = @ \ {m}, !.recorded[m] = files[m]]
            /\ hash' = IF files[m] # store.recorded[m]
                       THEN [hash EXCEPT ![m] = files[m]] ELSE hash
    /\ UNCHANGED <<content, universe, disk, coordinator, chain, edit, flush, usable, history, events>>

\* A store has settled: the next one may begin, and the round goes on.
StoreDone ==
    LET todo == round.todo \ {Job.ns}
        goesOn == Job.by = "round" /\ todo # {}
    IN /\ chain' = IF goesOn
                   THEN Append(Tail(chain), Request("round", "namespace", Min(todo)))
                   ELSE Tail(chain)
       /\ store' = NoStore
       /\ IF Job.by = "round" /\ ~goesOn
          THEN RoundEnds
          ELSE /\ round' = IF goesOn THEN [round EXCEPT !.todo = todo] ELSE round
               /\ UNCHANGED <<flags, requeued, lastFlushFailed, history>>

StoreWritesManifest ==
    /\ store.pc = "manifest"
    /\ manifest' = store.recorded
    /\ StoreDone
    /\ UNCHANGED <<files, universeFile, database, timer, edit, flush, usable, events>>

StoreUniverseOnly ==
    /\ chain # <<>> /\ store.pc = "idle" /\ usable /\ Job.scope = "universe"
    /\ universeFile' = universe
    /\ StoreDone
    /\ UNCHANGED <<files, manifest, database, timer, edit, flush, usable, events>>

\* The write fence, a query or a write throws; the files written so far stay.
StoreFails ==
    /\ chain # <<>>
    /\ Throws
    /\ chain' = Tail(chain)
    /\ store' = NoStore
    /\ history' = history \cup {"failed"}
    /\ IF Job.by = "round" THEN RoundFails
       ELSE UNCHANGED <<flags, requeued, lastFlushFailed, round>>
    /\ UNCHANGED <<timer, database, disk, edit, flush, usable>>

(***************************************************************************)
(* flush(), as shutdownWorker() calls it.                                  *)
(***************************************************************************)
FlushIs(pc, rounds) == flush' = [pc |-> pc, rounds |-> rounds]

\* Variant for mutation: settled as soon as nothing is pending.
FlushLoopFlagsOnly(rounds) ==
    \/ /\ flags = {}
       /\ FlushIs("settled", rounds)
       /\ UNCHANGED <<flags, requeued, lastFlushFailed, round, history>>
    \/ /\ flags # {}
       /\ FlushIs("awaiting", rounds)
       /\ IF InFlight
          THEN requeued' = TRUE /\ UNCHANGED <<flags, lastFlushFailed, round, history>>
          ELSE StartRound /\ UNCHANGED requeued

FlushLoop(rounds) ==
    \/ /\ rounds = MaxFlushRounds
       /\ FlushIs("limit", rounds)
       /\ UNCHANGED <<flags, requeued, lastFlushFailed, round, history>>
    \/ /\ rounds < MaxFlushRounds /\ flags = {} /\ ~InFlight
       /\ FlushIs("settled", rounds)
       /\ UNCHANGED <<flags, requeued, lastFlushFailed, round, history>>
    \/ /\ rounds < MaxFlushRounds /\ InFlight
       /\ FlushIs("awaiting", rounds)
       /\ requeued' = TRUE
       /\ UNCHANGED <<flags, lastFlushFailed, round, history>>
    \/ /\ rounds < MaxFlushRounds /\ flags # {} /\ ~InFlight
       /\ FlushIs("awaiting", rounds)
       /\ StartRound
       /\ UNCHANGED requeued

FlushCalled ==
    /\ flush.pc = "none"
    /\ timer' = FALSE
    /\ FlushLoop(0)
    /\ UNCHANGED <<database, disk, chain, store, edit, usable, events>>

\* The awaited run has settled.
FlushResumes ==
    /\ flush.pc = "awaiting" /\ ~InFlight
    /\ timer' = FALSE
    /\ IF lastFlushFailed
       THEN /\ FlushIs("failed", flush.rounds)
            /\ UNCHANGED <<flags, requeued, lastFlushFailed, round, history>>
       ELSE FlushLoop(flush.rounds + 1)
    /\ UNCHANGED <<database, disk, chain, store, edit, usable, events>>

(***************************************************************************)
(* The workspace is closed and opened again without a load.                *)
(***************************************************************************)
WorkspaceCloses ==
    /\ usable /\ Faults /\ Event
    /\ usable' = FALSE
    /\ history' = history \cup {"closed"}
    /\ UNCHANGED <<database, disk, coordinator, chain, store, edit, flush>>

WorkspaceReopens ==
    /\ ~usable
    /\ usable' = TRUE
    /\ UNCHANGED <<database, disk, coordinator, chain, store, edit, flush, history, events>>

Edit(e) ==
    \/ EditNamespace(e) \/ EditUniverse(e)
    \/ InvalidateNamespaceHash(e) \/ EditThrows(e) \/ DispatchReturns(e)

Round == TimerFires \/ RoundResolves \/ RoundQueries \/ RoundQueryFails

Store ==
    \/ StoreBegins \/ StoreExportsShared \/ StoreReadsNamespace \/ StoreSetsHash
    \/ StoreFixesOther \/ StoreWritesManifest \/ StoreUniverseOnly \/ StoreFails

Flush == FlushCalled \/ FlushResumes

AutoSaveNext ==
    \/ \E e \in Editors : Edit(e)
    \/ Round \/ ExplicitStore \/ Store \/ Flush
    \/ WorkspaceCloses \/ WorkspaceReopens

AutoSaveSpec == AutoSaveInit /\ [][AutoSaveNext]_vars

\* Timers fire, queries and file writes end, and handlers resolve.
AutoSaveFairness ==
    /\ \A e \in Editors : WF_vars(InvalidateNamespaceHash(e) \/ EditThrows(e) \/ DispatchReturns(e))
    /\ WF_vars(Round)
    /\ WF_vars(Store)
    /\ WF_vars(FlushResumes)

FairAutoSaveSpec == AutoSaveSpec /\ AutoSaveFairness
=============================================================================
