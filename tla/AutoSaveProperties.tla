------------------------- MODULE AutoSaveProperties -------------------------
(***************************************************************************)
(* What saving promises: an edit that was acknowledged reaches ria-data/   *)
(* without a call of its own, and what ria-data/ says of itself is true.   *)
(*                                                                         *)
(* history holds what a property makes an exception for: "overlap", the    *)
(* queries of an edit interleaved with those of a flush or a store;        *)
(* "failed", a store, a query or a handler threw; "closed", the workspace  *)
(* was closed while it was edited.                                         *)
(***************************************************************************)
EXTENDS AutoSave

\* The state of the database, the files, the coordinator and the store chain.
AutoSaveTypeOK ==
    /\ content \in [Ns -> Content] /\ files \in [Ns -> Content]
    /\ hash \in [Ns -> Content \cup {Dirty}]
    /\ manifest \in [Ns -> Content]
    /\ universe \in Values /\ universeFile \in Values
    /\ flags \subseteq Scopes
    /\ timer \in BOOLEAN /\ requeued \in BOOLEAN /\ lastFlushFailed \in BOOLEAN
    /\ round \in [pc : {"idle", "resolving", "querying", "storing"},
                  want : SUBSET Scopes, todo : SUBSET Ns]
    /\ chain \in Seq([by : {"round", "command"}, scope : Scopes, ns : 0..NsCount])
    /\ store.pc \in {"idle", "shared", "namespaces", "sethash", "fixup", "manifest"}
    /\ store.left \subseteq Ns /\ store.fix \subseteq Ns
    /\ edit \in [Editors -> [step : {"idle", "wrote", "handled"}, scope : Scopes, ns : 0..NsCount]]
    /\ flush \in [pc : {"none", "awaiting", "settled", "failed", "limit"},
                  rounds : 0..MaxFlushRounds]
    /\ usable \in BOOLEAN
    /\ history \subseteq {"overlap", "failed", "closed"}
    \* One round is in flight, and it has at most one store in the chain.
    /\ round.pc = "storing" <=> \E i \in DOMAIN chain : chain[i].by = "round"
    /\ \A i, j \in DOMAIN chain : chain[i].by = "round" /\ chain[j].by = "round" => i = j
    \* The timer is never armed beside a round.
    /\ timer => ~InFlight

Wanted(scopes) == scopes \cap {"namespace", "full"} # {}

Idle ==
    /\ ~InFlight /\ chain = <<>> /\ ~timer
    /\ \A e \in Editors : edit[e].step = "idle"
    /\ flush.pc \notin {"awaiting", "limit"}

Saved == content = files /\ universe = universeFile

\* A namespace that is marked dirty has a flush coming for it, however edits,
\* markDirty(), the timer, the follow-up round, flush() and explicit stores
\* interleave: a flag and something that will take it, or the running round
\* has it, or the dispatcher is about to mark it.
\* (auto-save-coordinator.ts: markDirty, startFlush, runFlush, flush.)
MarksAreFollowedUp ==
    history \subseteq {"overlap"} /\ flush.pc # "limit" =>
        \A n \in DirtyNamespaces :
            \/ /\ Wanted(flags)
               /\ timer \/ (InFlight /\ requeued) \/ flush.pc = "awaiting"
            \/ \E e \in Editors : edit[e].step = "handled" /\ edit[e].scope = "namespace"
            \/ round.pc \in {"resolving", "querying"} /\ Wanted(round.want)
            \/ round.pc = "storing" /\ ("full" \in round.want \/ n \in round.todo)

\* When everything has come to rest, what was edited is on disk, every hash is
\* the hash of what its namespace contains, and no flag is left over: flags
\* taken up front, the universe store skipped because a namespace store wrote
\* its files, and the delta skip lose nothing.
\* (runFlush, storeImpl.)
RestMeansSaved ==
    history = {} /\ Idle => Saved /\ hash = content /\ flags = {}

\* Between two stores the manifest has the hash of the files of every
\* namespace, those the last store did not export included: it rewrote the
\* cross-namespace file, which their hashes cover.  This is what a load
\* verifies, at any moment the process may die.
\* (storeImpl: the scoped-store cross-NS hash fixup.)
ManifestTruthful ==
    history = {} /\ store.pc = "idle" => manifest = files

\* flush() settles only when everything acknowledged before is on disk, although
\* a round was in flight when it was called or edits were acknowledged while it
\* waited.
\* (flush: the loop, clearTimer and the promise of the chained rounds.)
FlushSettlesSaved ==
    [][ /\ flush.pc # "settled" /\ flush'.pc = "settled"
        /\ history = {}
        /\ \A e \in Editors : edit[e].step = "idle"
        => Saved ]_vars

\* An edit reaches the disk by itself.  (markDirty to StoreSetsHash.)
EditsReachDisk ==
    (~Saved) ~> (Saved \/ history # {} \/ flush.pc = "limit")

\* auto-save-coordinator.ts:326-330: a mutation landing mid-store is covered by
\* the follow-up round.  The follow-up looks for content_hash = '', which the
\* running store has replaced by the hash of what it had read before.
MidStoreEditsSaved ==
    history \subseteq {"overlap"} /\ Idle => Saved

\* auto-save-coordinator.ts:255-258: after a failure namespace work stays marked
\* and the next flush picks it up without a flag.  A flush that is not for
\* namespaces does not query the marks.
FailedWorkPickedUp ==
    history \subseteq {"failed"} /\ Idle /\ ~lastFlushFailed => DirtyNamespaces = {}

\* auto-save-coordinator.ts:208-212: when no workspace is open the flags may be
\* dropped, the markers survive in the database.  A universe edit has no marker.
DroppedWorkIsMarked ==
    history \subseteq {"closed"} /\ Idle /\ flags = {} =>
        /\ universe = universeFile
        /\ \A n \in Ns : content[n] # files[n] => hash[n] = Dirty

\* persistor-store.ts:964-970: the hash recorded for a namespace can be
\* recomputed from its files.  Its cross-namespace slice is read later than the
\* shared file is written.
MidStoreManifestTruthful ==
    history \subseteq {"overlap"} /\ Idle => manifest = files
=============================================================================
