------------------------- MODULE SnapshotProperties -------------------------
(***************************************************************************)
(* What SnapshotSync must guarantee, stated over its variables.            *)
(***************************************************************************)
EXTENDS SnapshotSync

Content == 0..MaxEvents \cup {Empty}
Hashes == [Domains -> Content]

\* The variables keep their types.
SyncTypeOK ==
    /\ file \in Hashes /\ manifest \in Hashes /\ db \in Hashes
    /\ d \in [Domains -> Content \cup {Unknown}]
    /\ digest \in Hashes
    /\ baseline = NoBaseline \/ baseline \in Hashes
    /\ pending \in BOOLEAN /\ halfStored \in BOOLEAN
    /\ service.pc \in {"closed", "evaluating", "loading", "idle", "failed"}
    /\ load.left \subseteq load.plan /\ load.plan \subseteq Domains
    /\ store.left \subseteq Domains
    /\ service.pc = "loading" <=> load.by \in {"open", "recheck"}

\* What somebody else put into ria-data/ is not overwritten before the database
\* has loaded it, unless the user decides to: neither the fence nor an undecided
\* sync lets a store through to a version the database never held.
NoUnseenOverwrite ==
    [][\A x \in Domains :
          file'[x] # file[x] /\ store.pc = "write" /\ store'.pc = "write" /\ ~store.override
              => <<x, file[x]>> \notin unseen]_vars

\* An open workspace in which nothing is loaded holds every layer: the load of
\* a part of the domains leaves no cleared layer and no cut cross-namespace edge.
OpenMeansWhole ==
    service.pc = "idle" /\ load = NoLoad => \A x \in Domains : db[x] # Empty

\* The origin answers which file version the database consumed: it never names
\* a version from outside that was not loaded.
OriginTruthful == \A x \in Domains : <<x, d[x]>> \notin unseen

\* A load the open decided on by itself clears layer x with unsaved work, while
\* its files are still the ones the database loaded or stored last.
ClearsWork(x) ==
    /\ load.pc = "clear" /\ load'.pc = "import" /\ load.by # "command" /\ x \in load.plan
    /\ db[x] # held[x] /\ file[x] = held[x]

\* An open clears no unsaved work of a shared layer whose files nobody changed,
\* as long as no store has stopped half-way: its files then have no origin.
UnsavedSharedWorkKept == [][\A x \in Shared \ {Cross} : ClearsWork(x) => halfStored]_vars

\* The same after a store that stopped.  Violated.
HalfStoredWorkKept == [][\A x \in Shared \ {Cross} : ~ClearsWork(x)]_vars

\* Nothing a load has cleared is ever written to the files.
FilesNeverHollow == \A x \in Domains : file[x] # Empty
=============================================================================
