--------------------------- MODULE AutoSaveProofs ---------------------------
(***************************************************************************)
(* The save path, for any namespaces, values, editors and numbers of       *)
(* events and flush rounds.                                                *)
(*                                                                         *)
(* Marks, flags and timers are followed through every interleaving.        *)
(* While the queries of no edit have interleaved with those of a flush or  *)
(* a store, what a store reads does not change under it; so one can say of *)
(* each namespace whether it is saved, and otherwise who will save it, in  *)
(* every step of every store.                                              *)
(***************************************************************************)
EXTENDS AutoSaveProperties, WellFoundedInduction, TLAPS

Hashes == [Ns -> Content \cup {Dirty}]
Contents == [Ns -> Content]

RoundRecord == [pc : {"idle", "resolving", "querying", "storing"},
                want : SUBSET Scopes, todo : SUBSET Ns]
JobRecord == [by : {"round", "command"}, scope : Scopes, ns : 0..NsCount]
StoreRecord == [pc : {"shared", "namespaces", "sethash", "fixup", "manifest"},
                left : SUBSET Ns, fix : SUBSET Ns, seen : Hashes, recorded : Contents]
EditRecord == [step : {"idle", "wrote", "handled"}, scope : Scopes, ns : 0..NsCount]
FlushRecord == [pc : {"none", "awaiting", "settled", "failed", "limit"},
                rounds : 0..MaxFlushRounds]

\* A job of the round is one its flags ask for.
RoundAsksFor(r, job) ==
    \/ job.scope = "full" /\ "full" \in r.want /\ r.todo = {}
    \/ job.scope = "namespace" /\ "full" \notin r.want /\ job.ns \in r.todo
    \/ job.scope = "universe" /\ "full" \notin r.want /\ r.todo = {}

JobKept(r, job) ==
    /\ job \in JobRecord
    /\ job.ns \in Ns <=> job.scope = "namespace"
    /\ job.by = "round" => r.pc = "storing" /\ RoundAsksFor(r, job)

ChainKept(c, r) ==
    /\ c \in Seq(JobRecord)
    /\ \A i \in DOMAIN c : JobKept(r, c[i])
    /\ r.pc = "storing" => \E i \in DOMAIN c : c[i].by = "round"
    /\ \A i, j \in DOMAIN c : c[i].by = "round" /\ c[j].by = "round" => i = j

RoundKept(r) ==
    /\ r \in RoundRecord
    /\ r.pc # "storing" => r.todo = {}
    /\ r.pc = "querying" => "full" \notin r.want /\ "namespace" \in r.want

\* A store and the job it executes.
StoreKept(s, job) ==
    s = NoStore
    \/ /\ s \in StoreRecord
       /\ job.scope # "universe"
       /\ job.ns \notin s.fix
       /\ s.pc \in {"shared", "namespaces", "sethash"} => s.left # {}
       /\ s.pc \in {"shared", "namespaces", "sethash"} /\ job.scope = "namespace" => s.left = {job.ns}
       /\ s.pc = "fixup" => job.scope = "namespace" /\ s.left \subseteq s.fix
       /\ s.pc = "manifest" => s.left = {}

DataTypes ==
    /\ content \in Contents /\ files \in Contents /\ manifest \in Contents
    /\ hash \in Hashes
    /\ universe \in Values /\ universeFile \in Values

CoordinatorTypes ==
    /\ flags \subseteq Scopes
    /\ timer \in BOOLEAN /\ requeued \in BOOLEAN /\ lastFlushFailed \in BOOLEAN
    /\ RoundKept(round)
    /\ timer => ~InFlight
    /\ flush \in FlushRecord
    /\ flush.pc = "awaiting" => flush.rounds < MaxFlushRounds
    /\ lastFlushFailed => "failed" \in history

EditTypes ==
    /\ edit \in [Editors -> EditRecord]
    /\ \A e \in Editors : edit[e].step = "wrote" => edit[e].scope = "namespace" /\ edit[e].ns \in Ns
    /\ usable \in BOOLEAN
    /\ history \subseteq {"overlap", "failed", "closed"}
    /\ ~usable => "closed" \in history

StoreTypes ==
    /\ ChainKept(chain, round)
    /\ store # NoStore => chain # <<>>
    /\ chain # <<>> => StoreKept(store, Job)

Types == DataTypes /\ CoordinatorTypes /\ EditTypes /\ StoreTypes

-----------------------------------------------------------------------------
(* Who will save what.                                                     *)

Reported(scope) ==
    scope \in flags \/ \E e \in Editors : edit[e].step = "handled" /\ edit[e].scope = scope

Armed == timer \/ (InFlight /\ requeued) \/ flush.pc = "awaiting"

\* Flags are waiting for something that will take them.
FlagsArmed ==
    history \subseteq {"overlap"} /\ flush.pc # "limit" => flags = {} \/ Armed

Executes(n) == store.pc # "idle" /\ Job.by = "round" /\ n \in Targets

\* The round will store n, and if it is storing it, it has not come to it.
RoundComesTo(n) ==
    \/ round.pc \in {"resolving", "querying"} /\ Wanted(round.want)
    \/ /\ round.pc = "storing" /\ ("full" \in round.want \/ n \in round.todo)
       /\ Executes(n) => n \in store.left /\ store.seen[n] = Dirty

\* A later round will look at all marks.
LaterRound == Wanted(flags) \/ \E e \in Editors : edit[e].step = "handled" /\ edit[e].scope = "namespace"

MarksKept ==
    history \subseteq {"overlap"} /\ flush.pc # "limit" =>
        \A n \in DirtyNamespaces : LaterRound \/ RoundComesTo(n)

-----------------------------------------------------------------------------
(* While nothing has interleaved.                                          *)

EditsApart ==
    history = {} /\ HalfEdited => ~InFlight /\ chain = <<>>

SavedNs(n) == content[n] = files[n] /\ hash[n] = content[n]

\* The other sources of edges are put right after the namespace itself.
Deferred == IF Job.scope = "namespace" THEN store.fix ELSE {}

\* What a store has done so far.
StoreProgress ==
    history = {} =>
        /\ store.pc \in {"idle", "shared"} => manifest = files
        /\ store.pc = "shared" => store.recorded = files /\ store.left = Targets
        /\ store.pc \in {"shared", "namespaces", "sethash"} =>
              \A n \in store.left : hash[n] = store.seen[n]
        /\ store.pc \in {"namespaces", "sethash", "fixup", "manifest"} =>
              \A n \in Ns : files[n].cross = content[n].cross
        /\ store.pc \in {"namespaces", "sethash"} =>
              /\ \A n \in Ns \ (store.left \cup Deferred) : store.recorded[n] = files[n]
              /\ \A n \in Targets \ store.left : SavedNs(n)
        /\ store.pc = "sethash" => 
              /\ store.recorded[Min(store.left)] = files[Min(store.left)]
              /\ content[Min(store.left)] = files[Min(store.left)]
        /\ store.pc \in {"fixup", "manifest"} =>
              /\ \A n \in Ns \ store.left : store.recorded[n] = files[n]
              /\ \A n \in Targets : SavedNs(n)

-----------------------------------------------------------------------------
(* Who will save what, in contents.                                        *)

\* No command stores one namespace: that would rewrite the edges of the others.
NoScopedCommands == "namespace" \notin CommandScopes

CommandsUnscoped == \A i \in DOMAIN chain : chain[i].by = "command" => chain[i].scope # "namespace"

\* No round is needed for the namespace, or one that is still to begin has it.
NamespaceReported(n) ==
    \/ SavedNs(n)
    \/ \E e \in Editors : edit[e].step = "wrote" /\ edit[e].ns = n
    \/ Reported("full")
    \/ hash[n] = Dirty /\ round.todo = {} /\ Reported("namespace")

\* ... or the one in flight.
NamespaceComing(n) ==
    \/ NamespaceReported(n)
    \/ InFlight /\ "full" \in round.want
    \/ n \in round.todo
    \/ /\ hash[n] = Dirty /\ round.todo = {}
       /\ round.pc \in {"resolving", "querying"} /\ "namespace" \in round.want

UniverseScopes == {"universe", "full"}

\* The store that runs is of the round, and has written the universe.
Exported == store.pc \notin {"idle", "shared"} /\ Job.by = "round"

UniverseReported == universe = universeFile \/ \E scope \in UniverseScopes : Reported(scope)

UniverseComing ==
    UniverseReported \/ (InFlight /\ round.want \cap UniverseScopes # {} /\ ~Exported)

\* Everything is saved, or someone will save it.
AllComing == history = {} => UniverseComing /\ \A n \in Ns : NamespaceComing(n)
-----------------------------------------------------------------------------
(* Facts about sets of namespaces and chains of stores.                    *)

\* The least element of a set of numbers; namespaces are numbered.
LEMMA MinFacts ==
    ASSUME NEW S \in SUBSET Nat, S # {}
    PROVE  Min(S) \in S /\ \A y \in S : Min(S) <= y
<1> DEFINE Less == {ss \in Nat \X Nat : ss[1] < ss[2]}
<1>1. IsWellFoundedOn(Less, Nat)
  BY NatLessThanWellFounded DEF OpToRel
<1>2. PICK x \in S : \A y \in S : ~(<<y, x>> \in Less)
  <2> HIDE DEF Less
  <2> QED BY ONLY <1>1, WFMin, S \in SUBSET Nat, S # {}
<1>3. \A y \in S : <<y, x>> \in Nat \X Nat /\ <<y, x>>[1] = y /\ <<y, x>>[2] = x
  OBVIOUS
<1>4. \A y \in S : ~(y < x)
  BY <1>2, <1>3
<1>5. \A y \in S : x <= y
  BY <1>4
<1> QED BY <1>5, Zenon DEF Min

LEMMA NsFacts ==
    /\ Ns \subseteq Nat /\ 0 \notin Ns /\ Ns \subseteq 0..NsCount /\ 0 \in 0..NsCount
    /\ \A S \in SUBSET Ns : S # {} => Min(S) \in S
<1>1. Ns \subseteq Nat /\ 0 \notin Ns /\ Ns \subseteq 0..NsCount /\ 0 \in 0..NsCount
  BY AutoSaveAssumption DEF Ns
<1> QED BY <1>1, MinFacts

LEMMA DirtyFacts == Dirty \notin Content /\ Blank \in Content
  BY AutoSaveAssumption DEF Content, Blank

\* A store that is queued behind others leaves the one that runs alone.
LEMMA HeadOfAppend ==
    ASSUME NEW c \in Seq(JobRecord), c # <<>>, NEW job \in JobRecord
    PROVE  Head(Append(c, job)) = Head(c) /\ Append(c, job) # <<>>
  OBVIOUS

LEMMA AppendFacts ==
    ASSUME NEW c \in Seq(JobRecord), NEW job \in JobRecord
    PROVE  /\ Append(c, job) \in Seq(JobRecord)
           /\ DOMAIN Append(c, job) = DOMAIN c \cup {Len(c) + 1}
           /\ \A i \in DOMAIN c : Append(c, job)[i] = c[i]
           /\ Len(c) + 1 \notin DOMAIN c
           /\ Append(c, job)[Len(c) + 1] = job
  OBVIOUS

LEMMA TailFacts ==
    ASSUME NEW c \in Seq(JobRecord), c # <<>>
    PROVE  /\ Tail(c) \in Seq(JobRecord)
           /\ \A i \in DOMAIN Tail(c) : i + 1 \in DOMAIN c /\ Tail(c)[i] = c[i + 1] /\ i + 1 # 1
           /\ 1 \in DOMAIN c /\ Head(c) = c[1]
           /\ \A i \in DOMAIN c : i # 1 => i - 1 \in DOMAIN Tail(c) /\ Tail(c)[i - 1] = c[i]
  OBVIOUS

NoRoundJob(c) == \A i \in DOMAIN c : c[i].by # "round"

\* A job joins the chain; one of the round only when there is none.
LEMMA ChainAppends ==
    ASSUME NEW c \in Seq(JobRecord), NEW r, NEW job,
           \A i \in DOMAIN c : JobKept(r, c[i]),
           \A i, j \in DOMAIN c : c[i].by = "round" /\ c[j].by = "round" => i = j,
           JobKept(r, job),
           job.by = "round" => NoRoundJob(c),
           job.by = "round" \/ (r.pc = "storing" => ~NoRoundJob(c))
    PROVE  ChainKept(Append(c, job), r)
<1> DEFINE d == Append(c, job)
<1>1. job \in JobRecord
  BY DEF JobKept
<1>2. /\ d \in Seq(JobRecord)
      /\ DOMAIN d = DOMAIN c \cup {Len(c) + 1}
      /\ \A i \in DOMAIN c : d[i] = c[i]
      /\ d[Len(c) + 1] = job
  BY <1>1, AppendFacts
<1> HIDE DEF d
<1>3. \A i \in DOMAIN d : JobKept(r, d[i])
  BY <1>2
<1>4. r.pc = "storing" => \E i \in DOMAIN d : d[i].by = "round"
  BY <1>2 DEF NoRoundJob
<1>5. \A i, j \in DOMAIN d : d[i].by = "round" /\ d[j].by = "round" => i = j
  BY <1>2 DEF NoRoundJob
<1>6. ChainKept(d, r)
  BY <1>2, <1>3, <1>4, <1>5 DEF ChainKept
<1> QED BY <1>6 DEF d

LEMMA ChainRest ==
    ASSUME NEW c, NEW r, ChainKept(c, r), c # <<>>
    PROVE  /\ Tail(c) \in Seq(JobRecord)
           /\ \A i \in DOMAIN Tail(c) : JobKept(r, Tail(c)[i])
           /\ \A i, j \in DOMAIN Tail(c) : Tail(c)[i].by = "round" /\ Tail(c)[j].by = "round" => i = j
           /\ Head(c) \in JobRecord /\ JobKept(r, Head(c))
           /\ Head(c).by = "round" => NoRoundJob(Tail(c))
           /\ Head(c).by = "command" => (r.pc = "storing" => ~NoRoundJob(Tail(c)))
<1>1. c \in Seq(JobRecord)
  BY DEF ChainKept
<1> DEFINE d == Tail(c)
<1>2. /\ d \in Seq(JobRecord)
      /\ \A i \in DOMAIN d : i + 1 \in DOMAIN c /\ d[i] = c[i + 1] /\ i + 1 # 1
      /\ 1 \in DOMAIN c /\ Head(c) = c[1]
      /\ \A i \in DOMAIN c : i # 1 => i - 1 \in DOMAIN d /\ d[i - 1] = c[i]
  BY <1>1, TailFacts
<1>3. DOMAIN d \subseteq Nat
  BY <1>2
<1> HIDE DEF d
<1>4. \A i \in DOMAIN d : JobKept(r, d[i])
  BY <1>2 DEF ChainKept
<1>5. \A i, j \in DOMAIN d : d[i].by = "round" /\ d[j].by = "round" => i = j
  <2> SUFFICES ASSUME NEW i \in DOMAIN d, NEW j \in DOMAIN d, d[i].by = "round", d[j].by = "round"
               PROVE  i = j
    OBVIOUS
  <2>1. i + 1 = j + 1
    BY <1>2 DEF ChainKept
  <2> QED BY <2>1, <1>3
<1>6. Head(c) \in JobRecord /\ JobKept(r, Head(c))
  BY <1>2 DEF ChainKept, JobKept
<1>7. Head(c).by = "round" => NoRoundJob(d)
  BY <1>2 DEF ChainKept, NoRoundJob
<1>8. Head(c).by = "command" => (r.pc = "storing" => ~NoRoundJob(d))
  BY <1>2 DEF ChainKept, NoRoundJob
<1> QED BY <1>2, <1>4, <1>5, <1>6, <1>7, <1>8 DEF d

\* The jobs of commands do not depend on the round.
LEMMA CommandsKept ==
    ASSUME NEW c, NEW r, NEW q, \A i \in DOMAIN c : JobKept(r, c[i]), NoRoundJob(c)
    PROVE  \A i \in DOMAIN c : JobKept(q, c[i])
  BY DEF JobKept, NoRoundJob

LEMMA ChainOfCommands ==
    ASSUME NEW c \in Seq(JobRecord), NEW r, NEW q, \A i \in DOMAIN c : JobKept(r, c[i]),
           NoRoundJob(c), q.pc # "storing"
    PROVE  ChainKept(c, q)
<1>1. \A i \in DOMAIN c : JobKept(q, c[i])
  BY CommandsKept
<1> QED BY <1>1 DEF ChainKept, NoRoundJob

-----------------------------------------------------------------------------
(* Types.                                                                  *)

LEMMA InitTypes == AutoSaveInit => Types
<1> SUFFICES ASSUME AutoSaveInit PROVE Types
  OBVIOUS
<1>1. DataTypes
  BY DirtyFacts, AutoSaveAssumption DEF AutoSaveInit, DataTypes, Contents, Hashes
<1>2. CoordinatorTypes
  <2>1. RoundKept(round) /\ ~InFlight
    BY DEF AutoSaveInit, RoundKept, RoundRecord, NoRound, InFlight
  <2>2. 0 \in 0..MaxFlushRounds
    BY AutoSaveAssumption
  <2>3. flush \in FlushRecord
    BY <2>2 DEF AutoSaveInit, FlushRecord
  <2> QED BY <2>1, <2>3 DEF AutoSaveInit, CoordinatorTypes
<1>3. EditTypes
  BY NsFacts DEF AutoSaveInit, EditTypes, EditRecord, NoEdit, Scopes
<1>4. StoreTypes
  BY DEF AutoSaveInit, StoreTypes, ChainKept, NoRound, JobRecord
<1> QED BY <1>1, <1>2, <1>3, <1>4 DEF Types

LEMMA RoundMeans ==
    ASSUME StoreTypes
    PROVE  /\ round.pc # "storing" => NoRoundJob(chain)
           /\ chain # <<>> => chain \in Seq(JobRecord) /\ Job \in JobRecord /\ JobKept(round, Job)
<1>1. ChainKept(chain, round)
  BY DEF StoreTypes
<1>2. round.pc # "storing" => NoRoundJob(chain)
  BY <1>1 DEF ChainKept, JobKept, NoRoundJob
<1>3. chain # <<>> => JobKept(round, Job) /\ Job \in JobRecord
  BY <1>1, ChainRest DEF Job
<1> QED BY <1>1, <1>2, <1>3 DEF ChainKept

\* What a round that starts, or ends, leaves behind.
LEMMA StartRoundFacts ==
    ASSUME flags \subseteq Scopes, StartRound
    PROVE  /\ RoundKept(round') /\ round'.pc = "resolving" /\ round'.want = flags
           /\ round'.todo = {} /\ flags' = {} /\ lastFlushFailed' = FALSE
           /\ history' = history \/ (HalfEdited /\ history' = history \cup {"overlap"})
  BY DEF StartRound, RoundKept, RoundRecord, NoteOverlap

LEMMA RoundEndsFacts ==
    ASSUME flags \subseteq Scopes, requeued \in BOOLEAN, RoundEnds
    PROVE  /\ RoundKept(round') /\ round'.pc \in {"idle", "resolving"}
           /\ round'.todo = {} /\ requeued' = FALSE /\ lastFlushFailed' = FALSE
           /\ history' = history \/ (HalfEdited /\ history' = history \cup {"overlap"})
           /\ \/ round'.pc = "resolving" /\ flags' = {} /\ round'.want = flags
              \/ round'.pc = "idle" /\ flags' = flags /\ (~requeued \/ flags = {})
<1>1. CASE requeued /\ flags # {}
  BY <1>1, StartRoundFacts DEF RoundEnds
<1>2. CASE ~(requeued /\ flags # {})
  BY <1>2 DEF RoundEnds, NoRound, RoundKept, RoundRecord
<1> QED BY <1>1, <1>2

LEMMA RoundFailsFacts ==
    ASSUME flags \subseteq Scopes, RoundKept(round), RoundFails
    PROVE  /\ RoundKept(round') /\ round'.pc = "idle" /\ round'.todo = {}
           /\ requeued' = FALSE /\ lastFlushFailed' = TRUE
           /\ flags' \subseteq Scopes
  BY DEF RoundFails, RoundKept, RoundRecord, NoRound

LEMMA HistoryGrows ==
    ASSUME history \subseteq {"overlap", "failed", "closed"},
           history' = history \/ (HalfEdited /\ history' = history \cup {"overlap"})
    PROVE  history' \subseteq {"overlap", "failed", "closed"} /\ history \subseteq history'
  OBVIOUS

\* Steps of the coordinator beside the chain.
LEMMA ChainUntouched ==
    ASSUME StoreTypes, UNCHANGED <<chain, store>>,
           UNCHANGED round \/ (round.pc # "storing" /\ round'.pc # "storing")
    PROVE  StoreTypes'
<1>1. ChainKept(chain, round) /\ Job' = Job
  BY DEF StoreTypes, Job
<1>2. ChainKept(chain', round')
  <2>1. CASE UNCHANGED round
    BY <1>1, <2>1
  <2>2. CASE round.pc # "storing" /\ round'.pc # "storing"
    BY <1>1, <2>2, RoundMeans, ChainOfCommands DEF ChainKept
  <2> QED BY <2>1, <2>2
<1> QED BY <1>1, <1>2 DEF StoreTypes

LEMMA ChainGrows ==
    ASSUME StoreTypes, NEW job, chain' = Append(chain, job), UNCHANGED store,
           JobKept(round', job), \A i \in DOMAIN chain : JobKept(round', chain[i]),
           job.by = "round" => round.pc # "storing",
           job.by = "round" \/ UNCHANGED round
    PROVE  StoreTypes' /\ (chain # <<>> => Job' = Job)
<1>1. ChainKept(chain, round) /\ chain \in Seq(JobRecord) /\ job \in JobRecord
  BY DEF StoreTypes, ChainKept, JobKept
<1>2. ChainKept(chain', round')
  <2>1. job.by = "round" => NoRoundJob(chain)
    BY RoundMeans
  <2>2. job.by = "round" \/ (round'.pc = "storing" => ~NoRoundJob(chain))
    BY <1>1 DEF ChainKept, NoRoundJob
  <2>3. \A i, j \in DOMAIN chain : chain[i].by = "round" /\ chain[j].by = "round" => i = j
    BY <1>1 DEF ChainKept
  <2> QED BY <1>1, <2>1, <2>2, <2>3, ChainAppends
<1>3. chain' # <<>> /\ (chain # <<>> => Job' = Job)
  BY <1>1, HeadOfAppend DEF Job
<1>4. chain = <<>> => store = NoStore
  BY DEF StoreTypes
<1>5. StoreKept(store', Job')
  <2>1. CASE chain = <<>>
    BY <1>4, <2>1 DEF StoreKept
  <2>2. CASE chain # <<>>
    BY <1>3, <2>2 DEF StoreTypes
  <2> QED BY <2>1, <2>2
<1> QED BY <1>2, <1>3, <1>5 DEF StoreTypes

LEMMA StoreSteps ==
    ASSUME StoreTypes, UNCHANGED <<chain, round>>, chain # <<>>, StoreKept(store', Job)
    PROVE  StoreTypes'
<1>1. Job' = Job
  BY DEF Job
<1> QED BY <1>1 DEF StoreTypes

LEMMA StoreSettles ==
    ASSUME ChainKept(chain', round'), store' = NoStore
    PROVE  StoreTypes'
  BY DEF StoreTypes, StoreKept

\* Edits.
LEMMA EditNamespaceTypes ==
    ASSUME Types, NEW e \in Editors, EditNamespace(e)
    PROVE  Types' /\ UNCHANGED <<hash, universe, disk, coordinator, chain, store, flush, usable>>
<1> USE DEF Types
<1>1. PICK n \in Ns, scope \in {"namespace", "full"} :
        /\ \/ \E v \in Values : content' = [content EXCEPT ![n].own = v]
           \/ \E v \in Values : content' = [content EXCEPT ![n].cross = v]
        /\ edit' = [edit EXCEPT ![e] = [step |-> IF scope = "full" THEN "handled" ELSE "wrote",
                                        scope |-> scope, ns |-> n]]
        /\ NoteOverlap(InFlight \/ chain # <<>>)
  BY DEF EditNamespace
<1>2. UNCHANGED <<hash, universe, disk, coordinator, chain, store, flush, usable>>
  BY DEF EditNamespace
<1>3. history' \subseteq {"overlap", "failed", "closed"} /\ history \subseteq history'
  BY <1>1 DEF NoteOverlap, EditTypes
<1>4. content' \in Contents
  BY <1>1 DEF DataTypes, Contents, Content
<1>5. DataTypes'
  BY <1>2, <1>4 DEF DataTypes, disk
<1>6. CoordinatorTypes'
  BY <1>2, <1>3 DEF CoordinatorTypes, coordinator, InFlight
<1>7. EditTypes'
  <2>1. [step |-> IF scope = "full" THEN "handled" ELSE "wrote", scope |-> scope, ns |-> n] \in EditRecord
    BY NsFacts DEF EditRecord, Scopes
  <2>2. usable' = usable
    BY <1>2
  <2> QED BY <1>1, <1>3, <2>1, <2>2 DEF EditTypes
<1>8. StoreTypes'
  BY <1>2, ChainUntouched DEF coordinator
<1> QED BY <1>2, <1>5, <1>6, <1>7, <1>8

LEMMA OtherEditTypes ==
    ASSUME Types, NEW e \in Editors,
           EditUniverse(e) \/ InvalidateNamespaceHash(e) \/ EditThrows(e) \/ DispatchReturns(e)
    PROVE  Types'
<1> USE DEF Types
<1>1. CASE EditUniverse(e)
  <2>1. DataTypes'
    BY <1>1 DEF EditUniverse, DataTypes, disk
  <2>2. CoordinatorTypes' /\ StoreTypes'
    BY <1>1, ChainUntouched DEF EditUniverse, CoordinatorTypes, coordinator, InFlight
  <2>3. EditTypes'
    BY <1>1, NsFacts DEF EditUniverse, EditTypes, EditRecord, Scopes
  <2> QED BY <2>1, <2>2, <2>3
<1>2. CASE InvalidateNamespaceHash(e)
  <2>1. DataTypes'
    BY <1>2 DEF InvalidateNamespaceHash, DataTypes, disk, EditTypes, Hashes
  <2>2. CoordinatorTypes' /\ StoreTypes'
    BY <1>2, ChainUntouched DEF InvalidateNamespaceHash, CoordinatorTypes, coordinator, InFlight
  <2>3. EditTypes'
    BY <1>2 DEF InvalidateNamespaceHash, EditTypes, EditRecord
  <2> QED BY <2>1, <2>2, <2>3
<1>3. CASE EditThrows(e)
  <2>1. DataTypes'
    BY <1>3 DEF EditThrows, DataTypes, database, disk
  <2>2. CoordinatorTypes' /\ StoreTypes'
    BY <1>3, ChainUntouched DEF EditThrows, CoordinatorTypes, coordinator, InFlight
  <2>3. EditTypes'
    BY <1>3, NsFacts DEF EditThrows, EditTypes, EditRecord, NoEdit, Scopes
  <2> QED BY <2>1, <2>2, <2>3
<1>4. CASE DispatchReturns(e)
  <2>1. DataTypes'
    BY <1>4 DEF DispatchReturns, DataTypes, database, disk
  <2>2. UNCHANGED <<round, chain, store, lastFlushFailed, flush, history, usable>>
        /\ MarkDirty(edit[e].scope) /\ edit' = [edit EXCEPT ![e] = NoEdit]
    BY <1>4 DEF DispatchReturns
  <2>3. edit[e].scope \in Scopes
    BY DEF EditTypes, EditRecord
  <2>4. CoordinatorTypes'
    BY <2>2, <2>3 DEF MarkDirty, CoordinatorTypes, InFlight
  <2>5. StoreTypes'
    BY <2>2, ChainUntouched
  <2>6. EditTypes'
    BY <2>2, NsFacts DEF EditTypes, EditRecord, NoEdit, Scopes
  <2> QED BY <2>1, <2>4, <2>5, <2>6
<1> QED BY <1>1, <1>2, <1>3, <1>4

\* The round.
LEMMA RoundStoresFacts ==
    ASSUME Types, round.pc \in {"resolving", "querying"}, NEW scope, NEW n, NEW todo \in SUBSET Ns,
           RoundStores(scope, n, todo),
           JobKept(round', Request("round", scope, n))
    PROVE  /\ RoundKept(round') /\ round'.pc = "storing" /\ round'.want = round.want
           /\ round'.todo = todo
           /\ StoreTypes' \/ ~UNCHANGED store
           /\ chain # <<>> => Job' = Job
           /\ chain' # <<>> /\ (chain = <<>> => Job' = Request("round", scope, n))
<1> DEFINE job == Request("round", scope, n)
<1>1. /\ RoundKept(round') /\ round'.pc = "storing" /\ round'.want = round.want
      /\ round'.todo = todo
  BY DEF RoundStores, Types, CoordinatorTypes, RoundKept, RoundRecord
<1>2. chain' = Append(chain, job) /\ job.by = "round" /\ job \in JobRecord
  BY DEF RoundStores, Request, JobKept
<1>3. chain \in Seq(JobRecord) /\ ChainKept(chain, round) /\ NoRoundJob(chain)
  BY RoundMeans DEF Types, StoreTypes, ChainKept
<1>4. \A i \in DOMAIN chain : JobKept(round', chain[i])
  BY <1>3, CommandsKept DEF ChainKept
<1>5. JobKept(round', job)
  OBVIOUS
<1> HIDE DEF job
<1>6. UNCHANGED store => StoreTypes'
  BY <1>2, <1>4, <1>5, ChainGrows DEF Types
<1>7. /\ chain # <<>> => Job' = Job
      /\ chain' # <<>> /\ (chain = <<>> => Job' = job)
  BY <1>2, <1>3 DEF Job
<1> QED BY <1>1, <1>6, <1>7 DEF job

LEMMA TimerTypes == ASSUME Types, TimerFires PROVE Types'
<1> USE DEF Types
<1>1. StartRound /\ ~InFlight /\ timer' = FALSE
      /\ UNCHANGED <<requeued, database, disk, chain, store, edit, flush, usable>>
  BY DEF TimerFires, CoordinatorTypes
<1>2. /\ RoundKept(round') /\ round'.pc = "resolving" /\ flags' = {} /\ lastFlushFailed' = FALSE
      /\ history' \subseteq {"overlap", "failed", "closed"} /\ history \subseteq history'
  BY <1>1, StartRoundFacts, HistoryGrows DEF CoordinatorTypes, EditTypes
<1>3. StoreTypes'
  BY <1>1, <1>2, ChainUntouched DEF InFlight
<1>4. DataTypes'
  BY <1>1 DEF DataTypes, database, disk
<1>5. CoordinatorTypes'
  BY <1>1, <1>2 DEF CoordinatorTypes
<1>6. EditTypes'
  BY <1>1, <1>2 DEF EditTypes
<1> QED BY <1>3, <1>4, <1>5, <1>6

\* The end of a round, as far as types go.
LEMMA RoundEndsTypes ==
    ASSUME Types, RoundEnds, InFlight, UNCHANGED <<timer, edit, flush, usable>>
    PROVE  CoordinatorTypes' /\ EditTypes' /\ round'.pc # "storing"
<1>1. /\ RoundKept(round') /\ round'.pc \in {"idle", "resolving"}
      /\ requeued' = FALSE /\ lastFlushFailed' = FALSE
      /\ history' \subseteq {"overlap", "failed", "closed"} /\ history \subseteq history'
      /\ flags' = {} \/ flags' = flags
  BY RoundEndsFacts, HistoryGrows DEF Types, CoordinatorTypes, EditTypes
<1>2. timer = FALSE
  BY DEF Types, CoordinatorTypes
<1>3. CoordinatorTypes'
  BY <1>1, <1>2 DEF Types, CoordinatorTypes
<1>4. EditTypes'
  BY <1>1 DEF Types, EditTypes
<1> QED BY <1>1, <1>3, <1>4

LEMMA RoundFailsTypes ==
    ASSUME Types, RoundFails, InFlight, UNCHANGED <<timer, edit, flush, usable>>,
           history' = history \cup {"failed"}
    PROVE  CoordinatorTypes' /\ EditTypes' /\ round'.pc = "idle"
<1>1. /\ RoundKept(round') /\ round'.pc = "idle" /\ requeued' = FALSE /\ lastFlushFailed' = TRUE
      /\ flags' \subseteq Scopes
  BY RoundFailsFacts DEF Types, CoordinatorTypes
<1>2. timer = FALSE
  BY DEF Types, CoordinatorTypes
<1>3. CoordinatorTypes'
  BY <1>1, <1>2 DEF Types, CoordinatorTypes
<1>4. EditTypes'
  BY DEF Types, EditTypes
<1> QED BY <1>1, <1>3, <1>4

LEMMA StoringTypes ==
    ASSUME Types, RoundKept(round'), round'.pc = "storing", InFlight,
           UNCHANGED <<flags, requeued, lastFlushFailed, history, timer, edit, flush, usable>>
    PROVE  CoordinatorTypes' /\ EditTypes'
<1>1. timer = FALSE
  BY DEF Types, CoordinatorTypes
<1>2. CoordinatorTypes'
  BY <1>1 DEF Types, CoordinatorTypes
<1>3. EditTypes'
  BY DEF Types, EditTypes
<1> QED BY <1>2, <1>3

LEMMA RoundResolvesTypes == ASSUME Types, RoundResolves PROVE Types'
<1> USE DEF Types
<1>1. round.pc = "resolving" /\ InFlight
      /\ UNCHANGED <<timer, database, disk, store, edit, flush, usable>>
  BY DEF RoundResolves, InFlight
<1>2. DataTypes'
  BY <1>1 DEF DataTypes, database, disk
<1>3. CoordinatorTypes' /\ EditTypes' /\ StoreTypes'
  <2>1. CASE RoundEnds /\ UNCHANGED chain
    <3>1. CoordinatorTypes' /\ EditTypes' /\ round'.pc # "storing"
      BY <1>1, <2>1, RoundEndsTypes
    <3>2. StoreTypes'
      BY <1>1, <2>1, <3>1, ChainUntouched
    <3> QED BY <3>1, <3>2
  <2>2. ASSUME NEW scope \in {"full", "universe"}, RoundStores(scope, 0, {}),
               scope = "full" <=> "full" \in round.want
        PROVE  CoordinatorTypes' /\ EditTypes' /\ StoreTypes'
    <3>1. round' = [round EXCEPT !.pc = "storing", !.todo = {}]
          /\ UNCHANGED <<flags, requeued, lastFlushFailed, history>>
      BY <2>2 DEF RoundStores
    <3>2. round'.pc = "storing" /\ round'.todo = {} /\ round'.want = round.want
      BY <3>1 DEF CoordinatorTypes, RoundKept, RoundRecord
    <3>3. JobKept(round', Request("round", scope, 0))
      BY <2>2, <3>2, NsFacts DEF JobKept, JobRecord, Request, RoundAsksFor, Scopes
    <3>4. RoundKept(round') /\ StoreTypes'
      BY <1>1, <2>2, <3>3, RoundStoresFacts
    <3> QED BY <1>1, <3>1, <3>2, <3>4, StoringTypes
  <2>3. CASE /\ "full" \notin round.want /\ "namespace" \in round.want
             /\ round' = [round EXCEPT !.pc = "querying"]
             /\ UNCHANGED <<flags, requeued, lastFlushFailed, history, chain>>
    <3>1. RoundKept(round') /\ round'.pc = "querying"
      BY <1>1, <2>3 DEF CoordinatorTypes, RoundKept, RoundRecord
    <3>2. StoreTypes'
      BY <1>1, <2>3, <3>1, ChainUntouched
    <3>3. CoordinatorTypes'
      BY <1>1, <2>3, <3>1 DEF CoordinatorTypes, InFlight
    <3>4. EditTypes'
      BY <1>1, <2>3 DEF EditTypes
    <3> QED BY <3>2, <3>3, <3>4
  <2>4. \/ RoundEnds /\ UNCHANGED chain
        \/ "full" \in round.want /\ RoundStores("full", 0, {})
        \/ /\ "full" \notin round.want /\ "namespace" \in round.want
           /\ round' = [round EXCEPT !.pc = "querying"]
           /\ UNCHANGED <<flags, requeued, lastFlushFailed, history, chain>>
        \/ round.want = {"universe"} /\ RoundStores("universe", 0, {})
    BY DEF RoundResolves
  <2>5. ("full" \in round.want /\ RoundStores("full", 0, {})) => CoordinatorTypes' /\ EditTypes' /\ StoreTypes'
    BY <2>2
  <2>6. (round.want = {"universe"} /\ RoundStores("universe", 0, {}))
            => CoordinatorTypes' /\ EditTypes' /\ StoreTypes'
    BY <2>2
  <2> QED BY <2>1, <2>3, <2>4, <2>5, <2>6
<1> QED BY <1>2, <1>3

LEMMA DirtyNs == DirtyNamespaces \subseteq Ns /\ (DirtyNamespaces # {} => Min(DirtyNamespaces) \in DirtyNamespaces)
<1>1. DirtyNamespaces \in SUBSET Ns
  BY DEF DirtyNamespaces
<1> QED BY <1>1, NsFacts

LEMMA RoundQueriesTypes == ASSUME Types, RoundQueries \/ RoundQueryFails PROVE Types'
<1> USE DEF Types
<1>1. round.pc = "querying" /\ InFlight /\ "full" \notin round.want
      /\ UNCHANGED <<timer, database, disk, store, edit, flush, usable>>
  BY DEF RoundQueries, RoundQueryFails, InFlight, CoordinatorTypes, RoundKept
<1>2. DataTypes'
  BY <1>1 DEF DataTypes, database, disk
<1>3. CoordinatorTypes' /\ EditTypes' /\ StoreTypes'
  <2>1. CASE RoundEnds /\ UNCHANGED chain
    <3>1. CoordinatorTypes' /\ EditTypes' /\ round'.pc # "storing"
      BY <1>1, <2>1, RoundEndsTypes
    <3>2. StoreTypes'
      BY <1>1, <2>1, <3>1, ChainUntouched
    <3> QED BY <3>1, <3>2
  <2>2. CASE RoundFails /\ UNCHANGED chain /\ history' = history \cup {"failed"}
    <3>1. CoordinatorTypes' /\ EditTypes' /\ round'.pc # "storing"
      BY <1>1, <2>2, RoundFailsTypes
    <3>2. StoreTypes'
      BY <1>1, <2>2, <3>1, ChainUntouched
    <3> QED BY <3>1, <3>2
  <2>3. ASSUME NEW scope \in {"namespace", "universe"}, NEW n, NEW todo \in SUBSET Ns,
               RoundStores(scope, n, todo),
               scope = "namespace" => n \in todo,
               scope = "universe" => n = 0 /\ todo = {}
        PROVE  CoordinatorTypes' /\ EditTypes' /\ StoreTypes'
    <3>1. round' = [round EXCEPT !.pc = "storing", !.todo = todo]
          /\ UNCHANGED <<flags, requeued, lastFlushFailed, history>>
      BY <2>3 DEF RoundStores
    <3>2. round'.pc = "storing" /\ round'.todo = todo /\ round'.want = round.want
      BY <3>1 DEF CoordinatorTypes, RoundKept, RoundRecord
    <3>3. JobKept(round', Request("round", scope, n))
      BY <1>1, <2>3, <3>2, NsFacts DEF JobKept, JobRecord, Request, RoundAsksFor, Scopes
    <3>4. RoundKept(round') /\ StoreTypes'
      BY <1>1, <2>3, <3>3, RoundStoresFacts
    <3> QED BY <1>1, <3>1, <3>2, <3>4, StoringTypes
  <2>4. (DirtyNamespaces # {} /\ RoundStores("namespace", Min(DirtyNamespaces), DirtyNamespaces))
            => CoordinatorTypes' /\ EditTypes' /\ StoreTypes'
    BY <2>3, DirtyNs
  <2>5. RoundStores("universe", 0, {}) => CoordinatorTypes' /\ EditTypes' /\ StoreTypes'
    BY <2>3
  <2> QED BY <2>1, <2>2, <2>4, <2>5 DEF RoundQueries, RoundQueryFails
<1> QED BY <1>2, <1>3

\* The stores.
LEMMA ExplicitStoreTypes ==
    ASSUME Types, ExplicitStore
    PROVE  /\ Types' /\ (chain # <<>> => Job' = Job)
           /\ UNCHANGED <<database, disk, coordinator, store, edit, flush, usable>>
<1> USE DEF Types
<1>1. UNCHANGED <<database, disk, coordinator, store, edit, flush, usable>>
      /\ NoteOverlap(HalfEdited)
  BY DEF ExplicitStore
<1>2. PICK scope \in CommandScopes :
        \E n \in IF scope = "namespace" THEN Ns ELSE {0} :
            chain' = Append(chain, Request("command", scope, n))
  BY DEF ExplicitStore
<1>3. PICK n \in IF scope = "namespace" THEN Ns ELSE {0} :
        chain' = Append(chain, Request("command", scope, n))
  BY <1>2
<1> DEFINE job == Request("command", scope, n)
<1>4. JobKept(round, job) /\ job.by = "command"
  BY NsFacts, AutoSaveAssumption DEF JobKept, JobRecord, Request, Scopes
<1>5. round' = round /\ store' = store /\ ChainKept(chain, round)
  BY <1>1 DEF coordinator, StoreTypes
<1>6. \A i \in DOMAIN chain : JobKept(round', chain[i])
  BY <1>5 DEF ChainKept
<1>7. chain' = Append(chain, job)
  BY <1>3
<1> HIDE DEF job
<1>8. StoreTypes' /\ (chain # <<>> => Job' = Job)
  BY <1>4, <1>5, <1>6, <1>7, ChainGrows
<1>9. history' \subseteq {"overlap", "failed", "closed"} /\ history \subseteq history'
  BY <1>1 DEF NoteOverlap, EditTypes
<1>10. DataTypes' /\ CoordinatorTypes' /\ EditTypes'
  BY <1>1, <1>9 DEF DataTypes, CoordinatorTypes, EditTypes, database, disk, coordinator, InFlight
<1> QED BY <1>1, <1>8, <1>10

\* A store that runs, and the job it runs for.
LEMMA RunningFacts ==
    ASSUME Types, store.pc # "idle"
    PROVE  /\ chain # <<>> /\ Job \in JobRecord /\ JobKept(round, Job)
           /\ store \in StoreRecord /\ StoreKept(store, Job)
           /\ Job.scope \in {"full", "namespace"} /\ Targets \subseteq Ns
           /\ Job.scope = "namespace" => Job.ns \in Ns /\ Targets = {Job.ns}
           /\ Job.scope = "full" => Targets = Ns
<1>1. store # NoStore
  BY DEF NoStore
<1>2. chain # <<>> /\ StoreKept(store, Job)
  BY <1>1 DEF Types, StoreTypes
<1>3. Job \in JobRecord /\ JobKept(round, Job)
  BY <1>2, RoundMeans DEF Types
<1>4. store \in StoreRecord /\ Job.scope # "universe"
  BY <1>1, <1>2 DEF StoreKept
<1>5. Job.scope \in {"full", "namespace"}
  BY <1>3, <1>4 DEF JobRecord, Scopes
<1>6. Job.scope = "namespace" => Job.ns \in Ns /\ Targets = {Job.ns}
  BY <1>3 DEF JobKept, Targets
<1>7. Job.scope = "full" => Targets = Ns
  BY DEF Targets
<1> QED BY <1>2, <1>3, <1>4, <1>5, <1>6, <1>7

\* Within a store nothing but the files, the hashes and its own progress changes.
LEMMA StoreStepTypes ==
    ASSUME Types, chain # <<>>, StoreKept(store', Job),
           files' \in Contents, hash' \in Hashes, universeFile' \in Values,
           UNCHANGED <<content, universe, manifest, coordinator, chain, edit, flush, usable, history>>
    PROVE  Types'
<1>1. StoreTypes'
  BY StoreSteps DEF Types, coordinator
<1>2. DataTypes' /\ CoordinatorTypes' /\ EditTypes'
  BY DEF Types, DataTypes, CoordinatorTypes, EditTypes, coordinator, InFlight
<1> QED BY <1>1, <1>2 DEF Types

LEMMA StoreBeginsTypes == ASSUME Types, StoreBegins PROVE Types'
<1>1. chain # <<>> /\ Job.scope # "universe" /\ JobKept(round, Job) /\ Job \in JobRecord
  BY RoundMeans DEF StoreBegins, Types
<1>2. /\ store' = [pc |-> "shared", left |-> Targets, fix |-> {}, seen |-> hash, recorded |-> manifest]
      /\ UNCHANGED <<database, disk, coordinator, chain, edit, flush, usable, history>>
  BY DEF StoreBegins
<1>3. Targets \subseteq Ns /\ Targets # {} /\ (Job.scope = "namespace" => Targets = {Job.ns})
  BY <1>1, AutoSaveAssumption DEF JobKept, JobRecord, Scopes, Targets, Ns
<1>4. store' \in StoreRecord
  BY <1>2, <1>3 DEF StoreRecord, Types, DataTypes
<1>5. StoreKept(store', Job)
  BY <1>1, <1>2, <1>3, <1>4 DEF StoreKept
<1> QED BY <1>1, <1>2, <1>5, StoreStepTypes DEF database, disk, Types, DataTypes

LEMMA StoreExportsTypes == ASSUME Types, StoreExportsShared PROVE Types'
<1>1. store.pc = "shared"
      /\ files' = [n \in Ns |-> [files[n] EXCEPT !.cross = content[n].cross]]
      /\ universeFile' = universe
      /\ store' = [store EXCEPT !.pc = "namespaces", !.fix = CrossSources \ {Job.ns}]
      /\ UNCHANGED <<manifest, database, coordinator, chain, edit, flush, usable, history>>
  BY DEF StoreExportsShared
<1>2. /\ chain # <<>> /\ StoreKept(store, Job) /\ store \in StoreRecord
      /\ Job.scope \in {"full", "namespace"}
  BY <1>1, RunningFacts
<1>3. files' \in Contents
  BY <1>1 DEF Types, DataTypes, Contents, Content
<1>4. CrossSources \subseteq Ns
  BY DEF CrossSources
<1>5. store' \in StoreRecord /\ store'.pc = "namespaces" /\ store'.left = store.left
      /\ store'.fix = CrossSources \ {Job.ns}
  BY <1>1, <1>2, <1>4 DEF StoreRecord
<1>6. store # NoStore
  BY <1>1 DEF NoStore
<1>7. store.left # {} /\ (Job.scope = "namespace" => store.left = {Job.ns})
  BY <1>1, <1>2, <1>6 DEF StoreKept
<1>8. StoreKept(store', Job)
  BY <1>2, <1>5, <1>7 DEF StoreKept
<1> QED BY <1>1, <1>2, <1>3, <1>8, StoreStepTypes DEF database, Types, DataTypes

\* Recording a namespace and what comes next.
LEMMA RecordedFacts ==
    ASSUME Types, store.pc \in {"namespaces", "sethash"}, NEW h \in Content,
           store' = Recorded(Min(store.left), h)
    PROVE  /\ Min(store.left) \in store.left /\ store' \in StoreRecord
           /\ store'.seen = store.seen /\ store'.fix = store.fix
           /\ store'.recorded = [store.recorded EXCEPT ![Min(store.left)] = h]
           /\ \/ /\ store'.pc = "namespaces" /\ store'.left = store.left \ {Min(store.left)}
                 /\ store'.left # {} /\ Job.scope = "full"
              \/ /\ store'.pc = "fixup" /\ store'.left = store.fix
                 /\ Job.scope = "namespace" /\ store.left = {Job.ns} /\ Min(store.left) = Job.ns
              \/ /\ store'.pc = "manifest" /\ store'.left = {}
                 /\ Job.scope = "full" /\ store.left = {Min(store.left)}
<1> DEFINE n == Min(store.left)
<1>1. /\ store \in StoreRecord /\ StoreKept(store, Job) /\ Job.scope \in {"full", "namespace"}
  BY RunningFacts
<1>2. store # NoStore /\ store.left \subseteq Ns
  BY <1>1 DEF NoStore, StoreRecord
<1>3. store.left # {} /\ (Job.scope = "namespace" => store.left = {Job.ns})
  BY <1>1, <1>2 DEF StoreKept
<1>4. n \in store.left
  BY <1>2, <1>3, NsFacts
<1> DEFINE left == store.left \ {n}
           done == [store EXCEPT !.left = left, !.recorded[n] = h]
<1>5. /\ done \in StoreRecord /\ done.left = left /\ done.seen = store.seen /\ done.fix = store.fix
      /\ done.recorded = [store.recorded EXCEPT ![n] = h]
  BY <1>1, <1>4 DEF StoreRecord, Contents
<1>6. store' = IF left # {} THEN [done EXCEPT !.pc = "namespaces"]
               ELSE IF Job.scope = "namespace" THEN [done EXCEPT !.pc = "fixup", !.left = store.fix]
               ELSE [done EXCEPT !.pc = "manifest"]
  BY DEF Recorded
<1>7. store.fix \subseteq Ns
  BY <1>1 DEF StoreRecord
<1> HIDE DEF n, done
<1>8. CASE left # {}
  <2>1. store' = [done EXCEPT !.pc = "namespaces"]
    BY <1>6, <1>8
  <2>2. Job.scope = "full"
    BY <1>1, <1>3, <1>4, <1>8
  <2>3. store' \in StoreRecord /\ store'.pc = "namespaces" /\ store'.left = left /\ store'.fix = store.fix
        /\ store'.seen = store.seen /\ store'.recorded = done.recorded
    BY <2>1, <1>5 DEF StoreRecord
  <2> QED BY <1>4, <1>5, <1>8, <2>2, <2>3 DEF n
<1>9. CASE left = {} /\ Job.scope = "namespace"
  <2>1. store' = [done EXCEPT !.pc = "fixup", !.left = store.fix]
    BY <1>6, <1>9
  <2>2. store' \in StoreRecord /\ store'.pc = "fixup" /\ store'.left = store.fix /\ store'.fix = store.fix
        /\ store'.seen = store.seen /\ store'.recorded = done.recorded
    BY <2>1, <1>5, <1>7 DEF StoreRecord
  <2>3. store.left = {Job.ns} /\ n = Job.ns
    BY <1>3, <1>4, <1>9
  <2> QED BY <1>4, <1>5, <1>9, <2>2, <2>3 DEF n
<1>10. CASE left = {} /\ Job.scope # "namespace"
  <2>1. store' = [done EXCEPT !.pc = "manifest"]
    BY <1>6, <1>10
  <2>2. store' \in StoreRecord /\ store'.pc = "manifest" /\ store'.left = left /\ store'.fix = store.fix
        /\ store'.seen = store.seen /\ store'.recorded = done.recorded
    BY <2>1, <1>5 DEF StoreRecord
  <2>3. store.left = {n}
    BY <1>4, <1>10
  <2> QED BY <1>1, <1>4, <1>5, <1>10, <2>2, <2>3 DEF n
<1> QED BY <1>8, <1>9, <1>10

LEMMA RecordedKept ==
    ASSUME Types, store.pc \in {"namespaces", "sethash"}, NEW h \in Content,
           store' = Recorded(Min(store.left), h)
    PROVE  StoreKept(store', Job)
<1>1. StoreKept(store, Job) /\ store # NoStore
  BY RunningFacts DEF NoStore
<1>2. Job.scope # "universe" /\ Job.ns \notin store.fix
  BY <1>1 DEF StoreKept
<1>3. store' \in StoreRecord /\ store'.fix = store.fix
  BY RecordedFacts
<1>4. \/ store'.pc = "namespaces" /\ store'.left # {} /\ Job.scope = "full"
      \/ store'.pc = "fixup" /\ store'.left = store.fix /\ Job.scope = "namespace"
      \/ store'.pc = "manifest" /\ store'.left = {}
  BY RecordedFacts
<1> QED BY <1>2, <1>3, <1>4 DEF StoreKept

LEMMA StoreReadsTypes == ASSUME Types, StoreReadsNamespace PROVE Types'
<1> DEFINE n == Min(store.left)
<1>1. /\ store.pc = "namespaces"
      /\ UNCHANGED <<manifest, universeFile, database, coordinator, chain, edit, flush, usable, history>>
      /\ \/ store' = Recorded(n, content[n]) /\ UNCHANGED files
         \/ /\ files' = [files EXCEPT ![n].own = content[n].own]
            /\ store' = [store EXCEPT !.pc = "sethash", !.recorded[n] = content[n]]
  BY DEF StoreReadsNamespace
<1>2. chain # <<>> /\ store \in StoreRecord /\ StoreKept(store, Job) /\ store # NoStore
  BY <1>1, RunningFacts DEF NoStore
<1>3. n \in store.left /\ n \in Ns
  BY <1>1, <1>2, NsFacts DEF StoreKept, StoreRecord
<1>4. content[n] \in Content /\ content[n].own \in Values
  BY <1>3 DEF Types, DataTypes, Contents, Content
<1>5. files' \in Contents
  BY <1>1, <1>3, <1>4 DEF Types, DataTypes, Contents, Content
<1> HIDE DEF n
<1>6. StoreKept(store', Job)
  <2>1. CASE store' = Recorded(n, content[n])
    BY <1>1, <1>4, <2>1, RecordedKept DEF n
  <2>2. CASE store' = [store EXCEPT !.pc = "sethash", !.recorded[n] = content[n]]
    <3>1. store' \in StoreRecord /\ store'.pc = "sethash" /\ store'.left = store.left /\ store'.fix = store.fix
      BY <1>2, <1>3, <1>4, <2>2 DEF StoreRecord, Contents
    <3>2. /\ Job.scope # "universe" /\ Job.ns \notin store.fix /\ store.left # {}
          /\ Job.scope = "namespace" => store.left = {Job.ns}
      BY <1>1, <1>2 DEF StoreKept
    <3> QED BY <3>1, <3>2 DEF StoreKept
  <2> QED BY <1>1, <2>1, <2>2
<1> QED BY <1>1, <1>2, <1>5, <1>6, StoreStepTypes DEF database, Types, DataTypes

LEMMA StoreSetsTypes == ASSUME Types, StoreSetsHash PROVE Types'
<1> DEFINE n == Min(store.left)
<1>1. /\ store.pc = "sethash"
      /\ UNCHANGED <<content, universe, disk, coordinator, chain, edit, flush, usable, history>>
      /\ hash' = [hash EXCEPT ![n] = store.recorded[n]]
      /\ store' = Recorded(n, store.recorded[n])
  BY DEF StoreSetsHash
<1>2. chain # <<>> /\ store \in StoreRecord /\ StoreKept(store, Job) /\ store # NoStore
  BY <1>1, RunningFacts DEF NoStore
<1>3. n \in store.left /\ n \in Ns
  BY <1>1, <1>2, NsFacts DEF StoreKept, StoreRecord
<1>4. store.recorded[n] \in Content
  BY <1>2, <1>3 DEF StoreRecord, Contents
<1>5. hash' \in Hashes
  BY <1>1, <1>3, <1>4 DEF Types, DataTypes, Hashes
<1>6. StoreKept(store', Job)
  BY <1>1, <1>4, RecordedKept
<1> QED BY <1>1, <1>2, <1>5, <1>6, StoreStepTypes DEF disk, Types, DataTypes

LEMMA FixupFacts ==
    ASSUME Types, store.pc = "fixup", store.left # {}
    PROVE  /\ Min(store.left) \in store.left /\ Min(store.left) \in Ns
           /\ Job.scope = "namespace" /\ Min(store.left) # Job.ns
           /\ files[Min(store.left)] \in Content
<1>1. store \in StoreRecord /\ StoreKept(store, Job) /\ store # NoStore
  BY RunningFacts DEF NoStore
<1>2. Job.scope = "namespace" /\ store.left \subseteq store.fix /\ Job.ns \notin store.fix
  BY <1>1 DEF StoreKept
<1>3. Min(store.left) \in store.left /\ store.left \subseteq Ns
  BY <1>1, NsFacts DEF StoreRecord
<1> QED BY <1>2, <1>3 DEF Types, DataTypes, Contents

LEMMA StoreFixesTypes == ASSUME Types, StoreFixesOther PROVE Types'
<1>1. store.pc = "fixup"
      /\ UNCHANGED <<content, universe, disk, coordinator, chain, edit, flush, usable, history>>
  BY DEF StoreFixesOther
<1>2. chain # <<>> /\ store \in StoreRecord /\ StoreKept(store, Job) /\ store # NoStore
  BY <1>1, RunningFacts DEF NoStore
<1>3. Job.scope = "namespace" /\ store.left \subseteq store.fix /\ Job.ns \notin store.fix
  BY <1>1, <1>2 DEF StoreKept
<1>4. StoreKept(store', Job) /\ hash' \in Hashes
  <2>1. CASE store.left = {}
    <3>1. store' = [store EXCEPT !.pc = "manifest"] /\ UNCHANGED hash
      BY <2>1 DEF StoreFixesOther
    <3>2. store' \in StoreRecord /\ store'.pc = "manifest" /\ store'.left = {} /\ store'.fix = store.fix
      BY <1>2, <2>1, <3>1 DEF StoreRecord
    <3> QED BY <1>3, <3>1, <3>2 DEF StoreKept, Types, DataTypes
  <2>2. CASE store.left # {}
    <3> DEFINE m == Min(store.left)
    <3>1. /\ store' = [store EXCEPT !.left = @ \ {m}, !.recorded[m] = files[m]]
          /\ hash' = IF files[m] # store.recorded[m] THEN [hash EXCEPT ![m] = files[m]] ELSE hash
      BY <2>2 DEF StoreFixesOther
    <3>2. m \in Ns /\ files[m] \in Content
      BY <1>1, <2>2, FixupFacts
    <3> HIDE DEF m
    <3>3. store' \in StoreRecord /\ store'.pc = "fixup" /\ store'.left \subseteq store.left
          /\ store'.fix = store.fix
      BY <1>1, <1>2, <3>1, <3>2 DEF StoreRecord, Contents
    <3>4. hash' \in Hashes
      BY <3>1, <3>2 DEF Types, DataTypes, Hashes
    <3>5. StoreKept(store', Job)
      BY <1>3, <3>3 DEF StoreKept
    <3> QED BY <3>4, <3>5
  <2> QED BY <2>1, <2>2
<1> QED BY <1>1, <1>2, <1>4, StoreStepTypes DEF disk, Types, DataTypes

\* The end of a store, for the chain and the round.
LEMMA StoreDoneFacts ==
    ASSUME Types, StoreDone, chain # <<>>, UNCHANGED <<timer, edit, flush, usable>>
    PROVE  /\ StoreTypes' /\ CoordinatorTypes' /\ EditTypes' /\ store' = NoStore
           /\ Job \in JobRecord /\ JobKept(round, Job)
           /\ \/ /\ Job.by = "command"
                 /\ UNCHANGED <<flags, requeued, lastFlushFailed, history, round>>
              \/ /\ Job.by = "round" /\ round.pc = "storing"
                 /\ Job.scope = "namespace" /\ round'.pc = "storing"
                 /\ round'.want = round.want /\ round'.todo = round.todo \ {Job.ns}
                 /\ round'.todo # {}
                 /\ UNCHANGED <<flags, requeued, lastFlushFailed, history>>
              \/ /\ Job.by = "round" /\ round.pc = "storing"
                 /\ RoundEnds /\ round.todo \ {Job.ns} = {}
           /\ \/ chain' = Tail(chain)
              \/ \E n \in Ns : chain' = Append(Tail(chain), Request("round", "namespace", n))
<1> DEFINE todo == round.todo \ {Job.ns}
           goesOn == Job.by = "round" /\ todo # {}
<1>1. ChainKept(chain, round) /\ RoundKept(round) /\ todo \in SUBSET Ns
  BY DEF Types, StoreTypes, CoordinatorTypes, RoundKept, RoundRecord
<1>2. /\ Tail(chain) \in Seq(JobRecord)
      /\ \A i \in DOMAIN Tail(chain) : JobKept(round, Tail(chain)[i])
      /\ \A i, j \in DOMAIN Tail(chain) :
            Tail(chain)[i].by = "round" /\ Tail(chain)[j].by = "round" => i = j
      /\ Job \in JobRecord /\ JobKept(round, Job)
      /\ Job.by = "round" => NoRoundJob(Tail(chain))
      /\ Job.by = "command" => (round.pc = "storing" => ~NoRoundJob(Tail(chain)))
  BY <1>1, ChainRest DEF Job
<1>3. Job.by \in {"round", "command"}
  BY <1>2 DEF JobRecord
<1>4. store' = NoStore
  BY DEF StoreDone
<1>5. CASE Job.by = "command"
  <2>1. chain' = Tail(chain) /\ UNCHANGED <<flags, requeued, lastFlushFailed, history, round>>
    BY <1>5 DEF StoreDone
  <2>2. ChainKept(chain', round')
    BY <1>2, <1>5, <2>1 DEF ChainKept, NoRoundJob
  <2>3. CoordinatorTypes' /\ EditTypes'
    BY <2>1 DEF Types, CoordinatorTypes, EditTypes, InFlight
  <2> QED BY <1>2, <1>4, <1>5, <2>1, <2>2, <2>3, StoreSettles
<1>6. CASE goesOn
  <2>1. /\ chain' = Append(Tail(chain), Request("round", "namespace", Min(todo)))
        /\ round' = [round EXCEPT !.todo = todo]
        /\ UNCHANGED <<flags, requeued, lastFlushFailed, history>>
    BY <1>6 DEF StoreDone
  <2>2. Min(todo) \in todo
    BY <1>1, <1>6, NsFacts
  <2>3. round.pc = "storing" /\ RoundAsksFor(round, Job) /\ round.todo # {}
    BY <1>2, <1>6 DEF JobKept
  <2>4. Job.scope = "namespace" /\ "full" \notin round.want
    BY <2>3 DEF RoundAsksFor
  <2>5. round'.pc = "storing" /\ round'.want = round.want /\ round'.todo = todo /\ RoundKept(round')
    BY <1>1, <2>1, <2>3 DEF RoundKept, RoundRecord
  <2> DEFINE job == Request("round", "namespace", Min(todo))
  <2>6. JobKept(round', job) /\ job.by = "round" /\ job \in JobRecord
    BY <1>1, <2>2, <2>4, <2>5, NsFacts DEF JobKept, JobRecord, Request, RoundAsksFor, Scopes
  <2>7. NoRoundJob(Tail(chain)) /\ \A i \in DOMAIN Tail(chain) : JobKept(round', Tail(chain)[i])
    BY <1>2, <1>6, CommandsKept
  <2> HIDE DEF job, todo
  <2>8. ChainKept(Append(Tail(chain), job), round')
    BY <1>2, <2>6, <2>7, ChainAppends
  <2>9. CoordinatorTypes' /\ EditTypes'
    BY <2>1, <2>3, <2>5, StoringTypes DEF InFlight
  <2> QED BY <1>1, <1>2, <1>4, <1>6, <2>1, <2>2, <2>3, <2>4, <2>5, <2>8, <2>9, StoreSettles
          DEF job, todo
<1>7. CASE Job.by = "round" /\ todo = {}
  <2>1. chain' = Tail(chain) /\ RoundEnds
    BY <1>7 DEF StoreDone
  <2>2. round.pc = "storing" /\ InFlight
    BY <1>2, <1>7 DEF JobKept, InFlight
  <2>3. CoordinatorTypes' /\ EditTypes' /\ round'.pc # "storing"
    BY <2>1, <2>2, RoundEndsTypes
  <2>4. ChainKept(chain', round')
    BY <1>2, <1>7, <2>1, <2>3, ChainOfCommands
  <2> QED BY <1>2, <1>4, <1>7, <2>1, <2>2, <2>3, <2>4, StoreSettles
<1> QED BY <1>3, <1>5, <1>6, <1>7

LEMMA StoreEndsTypes ==
    ASSUME Types, StoreWritesManifest \/ StoreUniverseOnly
    PROVE  Types' /\ chain # <<>> /\ StoreDone /\ UNCHANGED <<timer, edit, flush, usable>>
<1>1. /\ StoreDone /\ UNCHANGED <<database, files, timer, edit, flush, usable>>
      /\ \/ store.pc = "manifest" /\ manifest' = store.recorded /\ UNCHANGED universeFile
         \/ chain # <<>> /\ universeFile' = universe /\ UNCHANGED manifest
  BY DEF StoreWritesManifest, StoreUniverseOnly
<1>2. chain # <<>>
  BY <1>1, RunningFacts
<1>3. DataTypes'
  <2>1. store.pc = "manifest" => store.recorded \in Contents
    BY RunningFacts DEF StoreRecord
  <2> QED BY <1>1, <2>1 DEF DataTypes, Types, database
<1>4. StoreTypes' /\ CoordinatorTypes' /\ EditTypes'
  BY <1>1, <1>2, StoreDoneFacts
<1> QED BY <1>1, <1>2, <1>3, <1>4 DEF Types

LEMMA StoreFailsTypes ==
    ASSUME Types, StoreFails
    PROVE  Types' /\ "failed" \in history'
<1>1. /\ chain # <<>> /\ chain' = Tail(chain) /\ store' = NoStore
      /\ history' = history \cup {"failed"}
      /\ UNCHANGED <<timer, database, disk, edit, flush, usable>>
      /\ \/ Job.by = "round" /\ RoundFails
         \/ Job.by # "round" /\ UNCHANGED <<flags, requeued, lastFlushFailed, round>>
  BY DEF StoreFails
<1>2. ChainKept(chain, round)
  BY DEF Types, StoreTypes
<1>3. /\ Tail(chain) \in Seq(JobRecord)
      /\ \A i \in DOMAIN Tail(chain) : JobKept(round, Tail(chain)[i])
      /\ \A i, j \in DOMAIN Tail(chain) :
            Tail(chain)[i].by = "round" /\ Tail(chain)[j].by = "round" => i = j
      /\ Job \in JobRecord /\ JobKept(round, Job)
      /\ Job.by = "round" => NoRoundJob(Tail(chain))
      /\ Job.by = "command" => (round.pc = "storing" => ~NoRoundJob(Tail(chain)))
  BY <1>1, <1>2, ChainRest DEF Job
<1>4. DataTypes'
  BY <1>1 DEF Types, DataTypes, database, disk
<1>5. CASE Job.by = "round" /\ RoundFails
  <2>1. round.pc = "storing" /\ InFlight
    BY <1>3, <1>5 DEF JobKept, InFlight
  <2>2. CoordinatorTypes' /\ EditTypes' /\ round'.pc = "idle"
    BY <1>1, <1>5, <2>1, RoundFailsTypes
  <2>3. ChainKept(chain', round')
    BY <1>1, <1>3, <1>5, <2>2, ChainOfCommands
  <2> QED BY <1>1, <1>4, <2>2, <2>3, StoreSettles DEF Types
<1>6. CASE Job.by # "round" /\ UNCHANGED <<flags, requeued, lastFlushFailed, round>>
  <2>1. Job.by = "command"
    BY <1>3, <1>6 DEF JobRecord
  <2>2. ChainKept(chain', round')
    BY <1>1, <1>3, <1>6, <2>1 DEF ChainKept, NoRoundJob
  <2>3. CoordinatorTypes' /\ EditTypes'
    BY <1>1, <1>6 DEF Types, CoordinatorTypes, EditTypes, InFlight
  <2> QED BY <1>1, <1>4, <2>2, <2>3, StoreSettles DEF Types
<1> QED BY <1>1, <1>5, <1>6

\* flush() and the workspace.
LEMMA FlushLoopTypes ==
    ASSUME Types, NEW rounds \in 0..MaxFlushRounds, FlushLoop(rounds), timer' = FALSE,
           UNCHANGED <<database, disk, chain, store, edit, usable>>
    PROVE  Types'
<1>1. FlushRecord = [pc : {"none", "awaiting", "settled", "failed", "limit"}, rounds : 0..MaxFlushRounds]
  BY DEF FlushRecord
<1>2. flush' \in FlushRecord /\ (flush'.pc = "awaiting" => flush'.rounds < MaxFlushRounds)
  BY <1>1 DEF FlushLoop, FlushIs
<1>3. DataTypes'
  BY DEF Types, DataTypes, database, disk
<1>4. CASE StartRound /\ ~InFlight /\ UNCHANGED requeued
  <2>1. /\ RoundKept(round') /\ round'.pc = "resolving" /\ flags' = {} /\ lastFlushFailed' = FALSE
        /\ history' \subseteq {"overlap", "failed", "closed"} /\ history \subseteq history'
    BY <1>4, StartRoundFacts, HistoryGrows DEF Types, CoordinatorTypes, EditTypes
  <2>2. StoreTypes'
    BY <1>4, <2>1, ChainUntouched DEF InFlight, Types
  <2>3. CoordinatorTypes'
    BY <1>2, <1>4, <2>1 DEF Types, CoordinatorTypes
  <2>4. EditTypes'
    BY <2>1 DEF Types, EditTypes
  <2> QED BY <1>3, <2>2, <2>3, <2>4 DEF Types
<1>5. CASE UNCHANGED <<flags, lastFlushFailed, round, history>> /\ (requeued' = TRUE \/ UNCHANGED requeued)
  <2>1. StoreTypes'
    BY <1>5, ChainUntouched DEF Types
  <2>2. CoordinatorTypes'
    BY <1>2, <1>5 DEF Types, CoordinatorTypes
  <2>3. EditTypes'
    BY <1>5 DEF Types, EditTypes
  <2> QED BY <1>3, <2>1, <2>2, <2>3 DEF Types
<1> QED BY <1>4, <1>5 DEF FlushLoop

LEMMA FlushTypes == ASSUME Types, Flush PROVE Types'
<1>1. CASE FlushCalled
  <2>1. 0 \in 0..MaxFlushRounds
    BY AutoSaveAssumption
  <2> QED BY <1>1, <2>1, FlushLoopTypes DEF FlushCalled
<1>2. CASE FlushResumes
  <2>1. flush \in FlushRecord /\ flush.rounds < MaxFlushRounds
    BY <1>2 DEF Types, CoordinatorTypes, FlushResumes
  <2>2. flush.rounds \in 0..MaxFlushRounds
    BY <2>1 DEF FlushRecord
  <2>3. CASE ~lastFlushFailed /\ FlushLoop(flush.rounds + 1)
    <3>1. flush.rounds + 1 \in 0..MaxFlushRounds
      BY <2>1, <2>2, AutoSaveAssumption
    <3> QED BY <1>2, <2>3, <3>1, FlushLoopTypes DEF FlushResumes
  <2>4. CASE FlushIs("failed", flush.rounds)
             /\ UNCHANGED <<flags, requeued, lastFlushFailed, round, history>>
    <3>1. flush' \in FlushRecord /\ flush'.pc = "failed"
      BY <2>2, <2>4 DEF FlushIs, FlushRecord
    <3>2. timer' = FALSE /\ UNCHANGED <<database, disk, chain, store, edit, usable>>
      BY <1>2 DEF FlushResumes
    <3>3. StoreTypes'
      BY <2>4, <3>2, ChainUntouched DEF Types
    <3>4. DataTypes' /\ CoordinatorTypes' /\ EditTypes'
      BY <2>4, <3>1, <3>2 DEF Types, DataTypes, CoordinatorTypes, EditTypes, database, disk
    <3> QED BY <3>3, <3>4 DEF Types
  <2> QED BY <1>2, <2>3, <2>4 DEF FlushResumes
<1> QED BY <1>1, <1>2 DEF Flush

LEMMA WorkspaceTypes == ASSUME Types, WorkspaceCloses \/ WorkspaceReopens PROVE Types'
<1>1. /\ UNCHANGED <<database, disk, coordinator, chain, store, edit, flush>>
      /\ \/ usable' = FALSE /\ history' = history \cup {"closed"}
         \/ usable' = TRUE /\ history' = history
  BY DEF WorkspaceCloses, WorkspaceReopens
<1>2. StoreTypes'
  BY <1>1, ChainUntouched DEF Types, coordinator
<1>3. DataTypes' /\ CoordinatorTypes' /\ EditTypes'
  BY <1>1 DEF Types, DataTypes, CoordinatorTypes, EditTypes, database, disk, coordinator, InFlight
<1> QED BY <1>2, <1>3 DEF Types

LEMMA TypesNext == ASSUME Types, [AutoSaveNext]_vars PROVE Types'
<1>1. CASE \E e \in Editors : Edit(e)
  BY <1>1, EditNamespaceTypes, OtherEditTypes DEF Edit
<1>2. CASE Round
  BY <1>2, TimerTypes, RoundResolvesTypes, RoundQueriesTypes DEF Round
<1>3. CASE ExplicitStore
  BY <1>3, ExplicitStoreTypes
<1>4. CASE Store
  BY <1>4, StoreBeginsTypes, StoreExportsTypes, StoreReadsTypes, StoreSetsTypes, StoreFixesTypes,
     StoreEndsTypes, StoreFailsTypes DEF Store
<1>5. CASE Flush
  BY <1>5, FlushTypes
<1>6. CASE WorkspaceCloses \/ WorkspaceReopens
  BY <1>6, WorkspaceTypes
<1>7. CASE UNCHANGED vars
  <2>1. UNCHANGED <<database, disk, coordinator, chain, store, edit, flush, usable, history>>
    BY <1>7 DEF vars
  <2>2. StoreTypes'
    BY <2>1, ChainUntouched DEF Types, coordinator
  <2>3. DataTypes' /\ CoordinatorTypes' /\ EditTypes'
    BY <2>1 DEF Types, DataTypes, CoordinatorTypes, EditTypes, database, disk, coordinator, InFlight
  <2> QED BY <2>2, <2>3 DEF Types
<1> QED BY <1>1, <1>2, <1>3, <1>4, <1>5, <1>6, <1>7 DEF AutoSaveNext

-----------------------------------------------------------------------------
(* Flags, marks and the rounds that take them.                             *)

LEMMA InitMarks == AutoSaveInit => FlagsArmed /\ MarksKept
<1> SUFFICES ASSUME AutoSaveInit PROVE FlagsArmed /\ MarksKept
  OBVIOUS
<1>1. DirtyNamespaces = {}
  BY DirtyFacts DEF AutoSaveInit, DirtyNamespaces
<1> QED BY <1>1 DEF AutoSaveInit, FlagsArmed, MarksKept

\* What the properties are silent about.
Silent == ~(history \subseteq {"overlap"} /\ flush.pc # "limit")

LEMMA SilentKept == ASSUME Silent' PROVE FlagsArmed' /\ MarksKept'
  BY DEF Silent, FlagsArmed, MarksKept

LEMMA Unarmed ==
    ASSUME FlagsArmed, ~Silent, UNCHANGED <<flags, timer, requeued, round, flush>>
    PROVE  FlagsArmed'
  BY DEF FlagsArmed, Silent, Armed, InFlight

\* The steps that change neither round nor flags, nor add a mark.
LEMMA MarksFrame ==
    ASSUME MarksKept, ~Silent, UNCHANGED <<round, flags>>,
           LaterRound => LaterRound',
           DirtyNamespaces' \subseteq DirtyNamespaces,
           \A n \in DirtyNamespaces' : (round.pc = "storing" /\ (Executes(n) => n \in store.left /\ store.seen[n] = Dirty))
               => (Executes(n)' => n \in store'.left /\ store'.seen[n] = Dirty)
    PROVE  MarksKept'
  BY DEF MarksKept, Silent, RoundComesTo

LEMMA LaterStays ==
    ASSUME flags \subseteq flags',
           \A e \in Editors : edit[e].step = "handled" => edit'[e] = edit[e]
    PROVE  LaterRound => LaterRound'
  BY DEF LaterRound, Wanted

LEMMA SameJob == ASSUME UNCHANGED chain PROVE Job' = Job /\ Targets' = Targets
  BY DEF Job, Targets

LEMMA SameExecution ==
    ASSUME UNCHANGED <<chain, store>> PROVE \A n : Executes(n)' <=> Executes(n)
  BY SameJob DEF Executes

LEMMA EditMarks ==
    ASSUME Types, FlagsArmed, MarksKept, NEW e \in Editors, Edit(e), ~Silent, ~Silent'
    PROVE  FlagsArmed' /\ MarksKept'
<1>1. CASE EditNamespace(e) \/ EditUniverse(e)
  <2>1. /\ UNCHANGED <<hash, flags, timer, requeued, round, chain, store, flush>>
        /\ edit[e].step = "idle" /\ \A f \in Editors \ {e} : edit'[f] = edit[f]
    BY <1>1 DEF EditNamespace, EditUniverse, coordinator, Types, EditTypes
  <2>2. LaterRound => LaterRound'
    BY <2>1, LaterStays
  <2>3. DirtyNamespaces' = DirtyNamespaces
    BY <2>1 DEF DirtyNamespaces
  <2> QED BY <2>1, <2>2, <2>3, Unarmed, MarksFrame, SameExecution
<1>2. CASE InvalidateNamespaceHash(e)
  <2>1. UNCHANGED <<flags, timer, requeued, round, flush>>
    BY <1>2 DEF InvalidateNamespaceHash, coordinator
  <2>2. edit[e] \in EditRecord /\ edit[e].scope = "namespace"
    BY <1>2 DEF InvalidateNamespaceHash, Types, EditTypes
  <2>3. edit'[e].step = "handled" /\ edit'[e].scope = "namespace"
    BY <1>2, <2>2 DEF InvalidateNamespaceHash, Types, EditTypes, EditRecord
  <2>4. MarksKept'
    BY <2>3 DEF MarksKept, LaterRound
  <2> QED BY <2>1, <2>4, Unarmed
<1>3. CASE EditThrows(e)
  BY <1>3 DEF EditThrows, Silent
<1>4. CASE DispatchReturns(e)
  <2>1. /\ UNCHANGED <<hash, round, chain, store, flush, history>> /\ MarkDirty(edit[e].scope)
        /\ edit[e].step = "handled" /\ \A f \in Editors \ {e} : edit'[f] = edit[f]
    BY <1>4 DEF DispatchReturns, database, Types, EditTypes
  <2>2. FlagsArmed'
    BY <2>1 DEF MarkDirty, FlagsArmed, Armed, InFlight
  <2>3. flags' = flags \cup {edit[e].scope}
    BY <2>1 DEF MarkDirty
  <2>4. LaterRound => LaterRound'
    BY <2>1, <2>3 DEF LaterRound, Wanted
  <2>5. DirtyNamespaces' = DirtyNamespaces
    BY <2>1 DEF DirtyNamespaces
  <2>6. \A n : RoundComesTo(n)' <=> RoundComesTo(n)
    <3>1. UNCHANGED <<round, chain, store>>
      BY <2>1
    <3> QED BY <3>1, SameExecution DEF RoundComesTo
  <2>7. MarksKept'
    BY <2>4, <2>5, <2>6 DEF MarksKept, Silent
  <2> QED BY <2>2, <2>7
<1> QED BY <1>1, <1>2, <1>3, <1>4 DEF Edit

\* A round takes the flags, and with them the marks.
LEMMA StartMarks ==
    ASSUME Types, MarksKept, ~Silent, StartRound, ~InFlight, UNCHANGED <<hash, edit>>
    PROVE  flags' = {} /\ MarksKept'
<1>1. round'.pc = "resolving" /\ round'.want = flags /\ flags' = {}
  BY StartRoundFacts DEF Types, CoordinatorTypes
<1>2. \A n \in DirtyNamespaces : LaterRound
  BY DEF MarksKept, Silent, RoundComesTo, InFlight
<1>3. DirtyNamespaces' = DirtyNamespaces
  BY DEF DirtyNamespaces
<1>4. LaterRound => LaterRound' \/ Wanted(round'.want)
  BY <1>1 DEF LaterRound
<1>5. MarksKept'
  BY <1>1, <1>2, <1>3, <1>4 DEF MarksKept, RoundComesTo
<1> QED BY <1>1, <1>5

LEMMA EndMarks ==
    ASSUME Types, FlagsArmed, ~Silent, RoundEnds, InFlight,
           UNCHANGED <<timer, edit, flush>>, DirtyNamespaces' = DirtyNamespaces,
           \A n \in DirtyNamespaces : LaterRound
    PROVE  FlagsArmed' /\ MarksKept'
<1>1. /\ \/ round'.pc = "resolving" /\ flags' = {} /\ round'.want = flags
         \/ round'.pc = "idle" /\ flags' = flags /\ (~requeued \/ flags = {})
  BY RoundEndsFacts DEF Types, CoordinatorTypes
<1>2. timer = FALSE
  BY DEF Types, CoordinatorTypes
<1>3. FlagsArmed'
  BY <1>1, <1>2 DEF FlagsArmed, Armed, Silent, InFlight
<1>4. LaterRound => LaterRound' \/ (round'.pc = "resolving" /\ Wanted(round'.want))
  BY <1>1 DEF LaterRound
<1>5. MarksKept'
  BY <1>4 DEF MarksKept, RoundComesTo
<1> QED BY <1>3, <1>5

LEMMA RoundMarks ==
    ASSUME Types, Types', FlagsArmed, MarksKept, Round, ~Silent, ~Silent'
    PROVE  FlagsArmed' /\ MarksKept'
<1>1. UNCHANGED <<database, disk, store, edit, usable>>
  BY DEF Round, TimerFires, RoundResolves, RoundQueries, RoundQueryFails
<1>2. DirtyNamespaces' = DirtyNamespaces /\ UNCHANGED hash
  BY <1>1 DEF DirtyNamespaces, database
<1>3. CASE TimerFires
  <2>1. StartRound /\ ~InFlight
    BY <1>3 DEF TimerFires, Types, CoordinatorTypes
  <2>2. flags' = {} /\ MarksKept'
    BY <1>1, <1>2, <2>1, StartMarks
  <2> QED BY <2>2 DEF FlagsArmed
<1>4. ASSUME round.pc \in {"resolving", "querying"}, UNCHANGED <<timer, flush>>,
             NEW scope, NEW n, NEW todo \in SUBSET Ns, RoundStores(scope, n, todo),
             \A m \in DirtyNamespaces : LaterRound \/ "full" \in round.want \/ m \in todo
      PROVE  FlagsArmed' /\ MarksKept'
  <2>1. /\ chain' = Append(chain, Request("round", scope, n))
        /\ round' = [round EXCEPT !.pc = "storing", !.todo = todo]
        /\ UNCHANGED <<flags, requeued, lastFlushFailed, history>>
    BY <1>4 DEF RoundStores
  <2>2. round'.pc = "storing" /\ round'.want = round.want /\ round'.todo = todo
    BY <2>1 DEF Types, CoordinatorTypes, RoundKept, RoundRecord
  <2>3. FlagsArmed'
    BY <1>4, <2>1, <2>2 DEF FlagsArmed, Armed, Silent, InFlight
  <2>4. \A m : ~Executes(m)'
    <3>1. CASE chain = <<>>
      <4>1. store = NoStore
        BY <3>1 DEF Types, StoreTypes
      <4> QED BY <1>1, <4>1 DEF Executes, NoStore
    <3>2. CASE chain # <<>>
      <4>1. NoRoundJob(chain) /\ chain \in Seq(JobRecord)
        BY <1>4, <3>2, RoundMeans DEF Types
      <4>2. Job' = Job /\ Job = chain[1] /\ 1 \in DOMAIN chain
        BY <2>1, <3>2, <4>1 DEF Job
      <4>3. Job'.by # "round"
        BY <4>1, <4>2 DEF NoRoundJob
      <4> QED BY <4>3 DEF Executes
    <3> QED BY <3>1, <3>2
  <2>5. LaterRound' <=> LaterRound
    BY <1>1, <2>1 DEF LaterRound
  <2> QED BY <1>2, <1>4, <2>2, <2>3, <2>4, <2>5 DEF MarksKept, RoundComesTo
<1>5. CASE RoundResolves
  <2>1. round.pc = "resolving" /\ UNCHANGED <<timer, flush>> /\ usable
    BY <1>5 DEF RoundResolves, Types, EditTypes, Silent
  <2>2. \A n \in DirtyNamespaces : LaterRound \/ Wanted(round.want)
    BY <2>1 DEF MarksKept, Silent, RoundComesTo
  <2>3. CASE "full" \in round.want /\ RoundStores("full", 0, {})
    BY <1>4, <2>1, <2>3
  <2>4. CASE round.want = {"universe"} /\ RoundStores("universe", 0, {})
    <3>1. ~Wanted(round.want)
      BY <2>4 DEF Wanted
    <3>2. \A m \in DirtyNamespaces : LaterRound
      BY <2>2, <3>1
    <3> QED BY <1>4, <2>1, <2>4, <3>2
  <2>5. CASE /\ "full" \notin round.want /\ "namespace" \in round.want
             /\ round' = [round EXCEPT !.pc = "querying"]
             /\ UNCHANGED <<flags, requeued, lastFlushFailed, history, chain>>
    <3>1. round'.pc = "querying" /\ round'.want = round.want
      BY <2>5 DEF Types, CoordinatorTypes, RoundKept, RoundRecord
    <3>2. FlagsArmed'
      BY <2>1, <2>5, <3>1 DEF FlagsArmed, Armed, Silent, InFlight
    <3>3. MarksKept'
      BY <2>5, <3>1 DEF MarksKept, RoundComesTo, Wanted
    <3> QED BY <3>2, <3>3
  <2> QED BY <1>5, <2>1, <2>3, <2>4, <2>5 DEF RoundResolves
<1>6. CASE RoundQueries
  <2>1. round.pc = "querying" /\ InFlight /\ UNCHANGED <<timer, flush>>
    BY <1>6 DEF RoundQueries, InFlight
  <2>2. CASE DirtyNamespaces # {}
    <3>1. RoundStores("namespace", Min(DirtyNamespaces), DirtyNamespaces)
      BY <1>6, <2>2 DEF RoundQueries
    <3> QED BY <1>4, <2>1, <3>1, DirtyNs
  <2>3. CASE DirtyNamespaces = {}
    <3>1. MarksKept'
      BY <1>2, <2>3 DEF MarksKept
    <3>2. CASE RoundStores("universe", 0, {})
      BY <1>4, <2>1, <2>3, <3>2
    <3>3. CASE RoundEnds
      BY <1>1, <1>2, <2>1, <2>3, <3>3, EndMarks
    <3> QED BY <1>6, <2>3, <3>2, <3>3 DEF RoundQueries
  <2> QED BY <2>2, <2>3
<1>7. CASE RoundQueryFails
  BY <1>7 DEF RoundQueryFails, Silent
<1> QED BY <1>3, <1>5, <1>6, <1>7 DEF Round

LEMMA ExplicitMarks ==
    ASSUME Types, FlagsArmed, MarksKept, ExplicitStore, ~Silent
    PROVE  FlagsArmed' /\ MarksKept'
<1>1. UNCHANGED <<hash, flags, timer, requeued, round, store, flush, edit>>
      /\ (chain # <<>> => Job' = Job)
  BY ExplicitStoreTypes DEF database, coordinator
<1>2. \A n : Executes(n)' => Executes(n)
  <2>1. CASE chain = <<>>
    <3>1. store = NoStore
      BY <2>1 DEF Types, StoreTypes
    <3> QED BY <1>1, <3>1 DEF Executes, NoStore
  <2>2. CASE chain # <<>>
    BY <1>1, <2>2 DEF Executes, Targets
  <2> QED BY <2>1, <2>2
<1>3. DirtyNamespaces' = DirtyNamespaces
  BY <1>1 DEF DirtyNamespaces
<1>4. LaterRound => LaterRound'
  BY <1>1 DEF LaterRound
<1>5. MarksKept'
  BY <1>1, <1>2, <1>3, <1>4, MarksFrame
<1> QED BY <1>1, <1>5, Unarmed

\* What the steps of a store have in common.
LEMMA StoreStepMarks ==
    ASSUME Types, FlagsArmed, MarksKept, ~Silent,
           UNCHANGED <<coordinator, chain, edit, flush>>,
           DirtyNamespaces' \subseteq DirtyNamespaces,
           \A n \in DirtyNamespaces' :
               Executes(n)' /\ (Executes(n) => n \in store.left /\ store.seen[n] = Dirty)
                   => n \in store'.left /\ store'.seen[n] = Dirty
    PROVE  FlagsArmed' /\ MarksKept'
<1>1. UNCHANGED <<flags, timer, requeued, round, flush>>
  BY DEF coordinator
<1>2. LaterRound => LaterRound'
  BY <1>1 DEF LaterRound
<1>3. MarksKept'
  BY <1>1, <1>2, MarksFrame
<1> QED BY <1>1, <1>3, Unarmed

LEMMA StoreBeginsMarks ==
    ASSUME Types, FlagsArmed, MarksKept, ~Silent, StoreBegins
    PROVE  FlagsArmed' /\ MarksKept'
<1>1. /\ store' = [pc |-> "shared", left |-> Targets, fix |-> {}, seen |-> hash, recorded |-> manifest]
      /\ UNCHANGED <<hash, coordinator, chain, edit, flush>>
  BY DEF StoreBegins, database
<1>2. DirtyNamespaces' = DirtyNamespaces
  BY <1>1 DEF DirtyNamespaces
<1>3. \A n \in DirtyNamespaces' : Executes(n)' => n \in store'.left /\ store'.seen[n] = Dirty
  BY <1>1, <1>2, SameJob DEF Executes, DirtyNamespaces
<1> QED BY <1>1, <1>2, <1>3, StoreStepMarks

LEMMA StoreExportsMarks ==
    ASSUME Types, FlagsArmed, MarksKept, ~Silent, StoreExportsShared
    PROVE  FlagsArmed' /\ MarksKept'
<1>1. /\ store.pc = "shared" /\ UNCHANGED <<hash, coordinator, chain, edit, flush>>
      /\ store' = [store EXCEPT !.pc = "namespaces", !.fix = CrossSources \ {Job.ns}]
  BY DEF StoreExportsShared, database
<1>2. store'.left = store.left /\ store'.seen = store.seen
  BY <1>1, RunningFacts DEF StoreRecord
<1>3. DirtyNamespaces' = DirtyNamespaces
  BY <1>1 DEF DirtyNamespaces
<1>4. \A n : Executes(n)' => Executes(n)
  BY <1>1, SameJob DEF Executes
<1> QED BY <1>1, <1>2, <1>3, <1>4, StoreStepMarks

\* A namespace is recorded when it is not marked, or when its mark goes with it.
LEMMA RecordMarks ==
    ASSUME Types, FlagsArmed, MarksKept, ~Silent, store.pc \in {"namespaces", "sethash"},
           NEW h \in Content, store' = Recorded(Min(store.left), h),
           UNCHANGED <<coordinator, chain, edit, flush>>,
           DirtyNamespaces' \subseteq DirtyNamespaces,
           Min(store.left) \in DirtyNamespaces' => store.seen[Min(store.left)] # Dirty
    PROVE  FlagsArmed' /\ MarksKept'
<1> DEFINE m == Min(store.left)
<1>1. /\ m \in store.left /\ store'.seen = store.seen
      /\ \/ store'.left = store.left \ {m} /\ Job.scope = "full"
         \/ Job.scope = "namespace" /\ m = Job.ns /\ store.left = {m}
  BY RecordedFacts
<1>2. \A n : Executes(n)' => Executes(n)
  BY SameJob DEF Executes
<1>3. Job.scope = "namespace" => Targets = {Job.ns}
  BY RunningFacts
<1> HIDE DEF m
<1>4. \A n \in DirtyNamespaces' :
        Executes(n)' /\ (Executes(n) => n \in store.left /\ store.seen[n] = Dirty)
            => n \in store'.left /\ store'.seen[n] = Dirty
  <2> SUFFICES ASSUME NEW n \in DirtyNamespaces', Executes(n),
                      n \in store.left, store.seen[n] = Dirty
               PROVE  n \in store'.left /\ store'.seen[n] = Dirty
    BY <1>2
  <2>1. n # m
    BY DEF m
  <2>2. n \in Targets
    BY DEF Executes
  <2> QED BY <1>1, <1>3, <2>1, <2>2
<1> QED BY <1>4, StoreStepMarks

LEMMA StoreReadsMarks ==
    ASSUME Types, FlagsArmed, MarksKept, ~Silent, StoreReadsNamespace
    PROVE  FlagsArmed' /\ MarksKept'
<1> DEFINE m == Min(store.left)
<1>1. store.pc = "namespaces" /\ UNCHANGED <<hash, coordinator, chain, edit, flush>>
  BY DEF StoreReadsNamespace, database
<1>2. DirtyNamespaces' = DirtyNamespaces
  BY <1>1 DEF DirtyNamespaces
<1>3. store \in StoreRecord /\ store # NoStore /\ StoreKept(store, Job)
  BY <1>1, RunningFacts DEF NoStore
<1>4. m \in Ns
  BY <1>1, <1>3, NsFacts DEF StoreKept, StoreRecord
<1>5. content[m] \in Content
  BY <1>4 DEF Types, DataTypes, Contents
<1>6. CASE MaySkip(m)
  <2>1. store' = Recorded(m, content[m])
    BY <1>6 DEF StoreReadsNamespace
  <2>2. store.seen[m] # Dirty
    BY <1>5, <1>6, DirtyFacts DEF MaySkip
  <2> QED BY <1>1, <1>2, <1>5, <2>1, <2>2, RecordMarks
<1>7. CASE ~MaySkip(m)
  <2>1. store' = [store EXCEPT !.pc = "sethash", !.recorded[m] = content[m]]
    BY <1>7 DEF StoreReadsNamespace
  <2>2. store'.left = store.left /\ store'.seen = store.seen
    BY <1>3, <2>1 DEF StoreRecord
  <2>3. \A n : Executes(n)' => Executes(n)
    BY <1>1, SameJob DEF Executes
  <2> QED BY <1>1, <1>2, <2>2, <2>3, StoreStepMarks
<1> QED BY <1>6, <1>7

LEMMA StoreSetsMarks ==
    ASSUME Types, FlagsArmed, MarksKept, ~Silent, StoreSetsHash
    PROVE  FlagsArmed' /\ MarksKept'
<1> DEFINE m == Min(store.left)
<1>1. /\ store.pc = "sethash" /\ UNCHANGED <<coordinator, chain, edit, flush>>
      /\ hash' = [hash EXCEPT ![m] = store.recorded[m]]
      /\ store' = Recorded(m, store.recorded[m])
  BY DEF StoreSetsHash
<1>2. store \in StoreRecord /\ store # NoStore /\ StoreKept(store, Job)
  BY <1>1, RunningFacts DEF NoStore
<1>3. m \in Ns
  BY <1>1, <1>2, NsFacts DEF StoreKept, StoreRecord
<1>4. store.recorded[m] \in Content
  BY <1>2, <1>3 DEF StoreRecord, Contents
<1>5. hash \in Hashes
  BY DEF Types, DataTypes
<1> HIDE DEF m
<1>6. DirtyNamespaces' \subseteq DirtyNamespaces /\ m \notin DirtyNamespaces'
  BY <1>1, <1>3, <1>4, <1>5, DirtyFacts DEF DirtyNamespaces, Hashes
<1> QED BY <1>1, <1>4, <1>6, RecordMarks DEF m

LEMMA StoreFixesMarks ==
    ASSUME Types, FlagsArmed, MarksKept, ~Silent, StoreFixesOther
    PROVE  FlagsArmed' /\ MarksKept'
<1>1. store.pc = "fixup" /\ UNCHANGED <<coordinator, chain, edit, flush>>
  BY DEF StoreFixesOther
<1>2. store \in StoreRecord /\ store # NoStore /\ StoreKept(store, Job)
      /\ (Job.scope = "namespace" => Targets = {Job.ns})
  BY <1>1, RunningFacts DEF NoStore
<1>3. Job.scope = "namespace" /\ Targets = {Job.ns} /\ Job.ns \notin store.left
  BY <1>1, <1>2 DEF StoreKept
<1>4. \A n : Executes(n)' => Executes(n) /\ n \in Targets
  BY <1>1, SameJob DEF Executes
<1>5. DirtyNamespaces' \subseteq DirtyNamespaces
  <2>1. CASE store.left = {}
    BY <2>1 DEF StoreFixesOther, DirtyNamespaces
  <2>2. CASE store.left # {}
    <3> DEFINE m == Min(store.left)
    <3>1. hash' = IF files[m] # store.recorded[m] THEN [hash EXCEPT ![m] = files[m]] ELSE hash
      BY <2>2 DEF StoreFixesOther
    <3>2. m \in Ns /\ files[m] \in Content /\ hash \in Hashes
      BY <1>1, <2>2, FixupFacts DEF Types, DataTypes
    <3> HIDE DEF m
    <3> QED BY <3>1, <3>2, DirtyFacts DEF DirtyNamespaces, Hashes
  <2> QED BY <2>1, <2>2
<1> QED BY <1>1, <1>3, <1>4, <1>5, StoreStepMarks

LEMMA StoreEndsMarks ==
    ASSUME Types, FlagsArmed, MarksKept, ~Silent, StoreWritesManifest \/ StoreUniverseOnly
    PROVE  FlagsArmed' /\ MarksKept'
<1>1. chain # <<>> /\ StoreDone /\ UNCHANGED <<hash, timer, edit, flush, usable>>
  BY StoreEndsTypes DEF StoreWritesManifest, StoreUniverseOnly, database
<1>2. \/ store.pc = "manifest" /\ store.left = {} /\ Job.scope # "universe"
      \/ store.pc = "idle" /\ Job.scope = "universe"
  <2>1. StoreWritesManifest => store.pc = "manifest"
    BY DEF StoreWritesManifest
  <2>2. store.pc = "manifest" => store.left = {} /\ Job.scope # "universe"
    BY RunningFacts DEF StoreKept, NoStore
  <2> QED BY <2>1, <2>2 DEF StoreUniverseOnly
<1>3. DirtyNamespaces' = DirtyNamespaces
  BY <1>1 DEF DirtyNamespaces
<1>4. store' = NoStore /\ (\A n : ~Executes(n)')
  BY <1>1, StoreDoneFacts DEF Executes, NoStore
<1>5. Job \in JobRecord /\ JobKept(round, Job)
  BY <1>1, StoreDoneFacts
\* What the round has stored is not marked, unless a later round will see it.
<1>6. ASSUME Job.by = "round", NEW n \in DirtyNamespaces, ~LaterRound
      PROVE  Job.scope = "namespace" /\ n \in round.todo \ {Job.ns}
  <2>1. RoundComesTo(n) /\ round.pc = "storing" /\ RoundAsksFor(round, Job)
    BY <1>5, <1>6 DEF MarksKept, Silent, JobKept
  <2>2. ~Executes(n)
    <3>1. CASE store.pc = "manifest"
      BY <1>2, <2>1, <3>1 DEF RoundComesTo
    <3>2. CASE store.pc = "idle"
      BY <3>2 DEF Executes
    <3> QED BY <1>2, <3>1, <3>2
  <2>3. Job.scope # "universe" => n \notin Targets
    BY <1>2, <1>6, <2>2 DEF Executes
  <2>4. Job.scope = "full" => n \in Targets
    BY DEF Targets, DirtyNamespaces
  <2>5. Job.scope = "namespace" => Targets = {Job.ns}
    BY DEF Targets
  <2> QED BY <2>1, <2>3, <2>4, <2>5 DEF RoundComesTo, RoundAsksFor
<1>7. CASE Job.by = "command" /\ UNCHANGED <<flags, requeued, lastFlushFailed, history, round>>
  <2>1. LaterRound => LaterRound'
    BY <1>1, <1>7 DEF LaterRound
  <2>2. MarksKept'
    BY <1>3, <1>4, <1>7, <2>1, MarksFrame
  <2> QED BY <1>1, <1>7, <2>2, Unarmed
<1>8. CASE /\ Job.by = "round" /\ Job.scope = "namespace" /\ round.pc = "storing" /\ round'.pc = "storing"
           /\ round'.want = round.want /\ round'.todo = round.todo \ {Job.ns}
           /\ UNCHANGED <<flags, requeued, lastFlushFailed, history>>
  <2>1. LaterRound => LaterRound'
    BY <1>1, <1>8 DEF LaterRound
  <2>2. MarksKept'
    BY <1>3, <1>4, <1>6, <1>8, <2>1 DEF MarksKept, RoundComesTo
  <2>3. FlagsArmed'
    BY <1>1, <1>8 DEF FlagsArmed, Silent, Armed, InFlight
  <2> QED BY <2>2, <2>3
<1>9. CASE Job.by = "round" /\ round.pc = "storing" /\ RoundEnds /\ round.todo \ {Job.ns} = {}
  <2>1. \A n \in DirtyNamespaces : LaterRound
    BY <1>6, <1>9
  <2>2. InFlight
    BY <1>9 DEF InFlight
  <2> QED BY <1>1, <1>3, <1>9, <2>1, <2>2, EndMarks
<1> QED BY <1>1, <1>7, <1>8, <1>9, StoreDoneFacts

LEMMA FlushMarks ==
    ASSUME Types, FlagsArmed, MarksKept, ~Silent, ~Silent', Flush
    PROVE  FlagsArmed' /\ MarksKept'
<1>1. UNCHANGED <<hash, chain, store, edit>>
  BY DEF Flush, FlushCalled, FlushResumes, database
<1>2. DirtyNamespaces' = DirtyNamespaces
  BY <1>1 DEF DirtyNamespaces
<1>3. ASSUME UNCHANGED <<flags, round>> PROVE MarksKept'
  <2>1. LaterRound => LaterRound'
    BY <1>1, <1>3 DEF LaterRound
  <2> QED BY <1>1, <1>2, <1>3, <2>1, MarksFrame, SameExecution
<1>4. ASSUME NEW rounds, FlushLoop(rounds) PROVE FlagsArmed' /\ MarksKept'
  <2>1. CASE StartRound /\ ~InFlight
    <3>1. flags' = {} /\ MarksKept'
      BY <1>1, <2>1, StartMarks
    <3> QED BY <3>1 DEF FlagsArmed
  <2>2. CASE FlushIs("limit", rounds)
    BY <2>2 DEF FlushIs, Silent
  <2>3. CASE (flags = {} \/ FlushIs("awaiting", rounds)) /\ UNCHANGED <<flags, round>>
    BY <1>3, <2>3 DEF FlagsArmed, Armed, FlushIs
  <2> QED BY <1>4, <2>1, <2>2, <2>3 DEF FlushLoop
<1>5. CASE FlushCalled
  BY <1>4, <1>5 DEF FlushCalled
<1>6. CASE FlushResumes
  <2>1. ~lastFlushFailed
    BY DEF Types, CoordinatorTypes, Silent
  <2> QED BY <1>4, <1>6, <2>1 DEF FlushResumes
<1> QED BY <1>5, <1>6 DEF Flush

\* What has happened is not forgotten.
LEMMA HistoryKept ==
    ASSUME Types, [AutoSaveNext]_vars
    PROVE  /\ history \subseteq history'
           /\ flush.pc = "limit" => flush'.pc = "limit"
<1>1. CASE \E e \in Editors : Edit(e)
  BY <1>1 DEF Edit, EditNamespace, EditUniverse, InvalidateNamespaceHash, EditThrows, DispatchReturns, NoteOverlap
<1>2. ASSUME StartRound \/ RoundEnds PROVE history \subseteq history'
  BY <1>2, StartRoundFacts, RoundEndsFacts DEF Types, CoordinatorTypes
<1>3. CASE Round
  <2>1. UNCHANGED flush
    BY <1>3 DEF Round, TimerFires, RoundResolves, RoundQueries, RoundQueryFails
  <2>2. history \subseteq history'
    BY <1>2, <1>3 DEF Round, TimerFires, RoundResolves, RoundQueries, RoundQueryFails, RoundStores
  <2> QED BY <2>1, <2>2
<1>4. CASE ExplicitStore
  BY <1>4 DEF ExplicitStore, NoteOverlap
<1>5. CASE StoreWritesManifest \/ StoreUniverseOnly
  BY <1>2, <1>5 DEF StoreWritesManifest, StoreUniverseOnly, StoreDone
<1>6. CASE StoreBegins \/ StoreExportsShared \/ StoreReadsNamespace \/ StoreSetsHash \/ StoreFixesOther
  BY <1>6 DEF StoreBegins, StoreExportsShared, StoreReadsNamespace, StoreSetsHash, StoreFixesOther
<1>7. CASE StoreFails
  BY <1>7 DEF StoreFails
<1>8. CASE Flush
  <2>1. flush.pc # "limit"
    BY <1>8 DEF Flush, FlushCalled, FlushResumes
  <2>2. ASSUME NEW rounds, FlushLoop(rounds) PROVE history \subseteq history'
    BY <1>2, <2>2 DEF FlushLoop
  <2>3. history \subseteq history'
    BY <1>8, <2>2 DEF Flush, FlushCalled, FlushResumes
  <2> QED BY <2>1, <2>3
<1>9. CASE WorkspaceCloses \/ WorkspaceReopens
  BY <1>9 DEF WorkspaceCloses, WorkspaceReopens
<1>10. CASE UNCHANGED vars
  BY <1>10 DEF vars
<1> QED BY <1>1, <1>3, <1>4, <1>5, <1>6, <1>7, <1>8, <1>9, <1>10 DEF AutoSaveNext, Store

LEMMA MarksNext ==
    ASSUME Types, Types', FlagsArmed, MarksKept, [AutoSaveNext]_vars
    PROVE  FlagsArmed' /\ MarksKept'
<1>1. CASE Silent'
  BY <1>1, SilentKept
<1>2. CASE ~Silent'
  <2>1. ~Silent
    BY <1>2, HistoryKept DEF Silent
  <2>2. CASE \E e \in Editors : Edit(e)
    BY <1>2, <2>1, <2>2, EditMarks
  <2>3. CASE Round
    BY <1>2, <2>1, <2>3, RoundMarks
  <2>4. CASE ExplicitStore
    BY <2>1, <2>4, ExplicitMarks
  <2>5. CASE Store
    <3>1. ~StoreFails
      BY <1>2, StoreFailsTypes DEF Silent
    <3> QED BY <2>1, <2>5, <3>1, StoreBeginsMarks, StoreExportsMarks, StoreReadsMarks, StoreSetsMarks,
               StoreFixesMarks, StoreEndsMarks DEF Store
  <2>6. CASE Flush
    BY <1>2, <2>1, <2>6, FlushMarks
  <2>7. CASE WorkspaceCloses \/ WorkspaceReopens \/ UNCHANGED vars
    <3>1. UNCHANGED <<database, coordinator, chain, store, edit, flush>>
      BY <2>7 DEF WorkspaceCloses, WorkspaceReopens, vars
    <3>2. UNCHANGED <<hash, flags, timer, requeued, round, chain, store, edit, flush>>
      BY <3>1 DEF database, coordinator
    <3>3. DirtyNamespaces' = DirtyNamespaces
      BY <3>2 DEF DirtyNamespaces
    <3>4. LaterRound => LaterRound'
      BY <3>2 DEF LaterRound
    <3> QED BY <2>1, <3>2, <3>3, <3>4, Unarmed, MarksFrame, SameExecution
  <2> QED BY <2>2, <2>3, <2>4, <2>5, <2>6, <2>7 DEF AutoSaveNext
<1> QED BY <1>1, <1>2

SaveInv == Types /\ FlagsArmed /\ MarksKept

\* The inductive invariant of the coordinator.
THEOREM SaveInvariant == AutoSaveSpec => []SaveInv
<1>1. AutoSaveInit => SaveInv
  BY InitTypes, InitMarks DEF SaveInv
<1>2. SaveInv /\ [AutoSaveNext]_vars => SaveInv'
  <2> SUFFICES ASSUME SaveInv, [AutoSaveNext]_vars PROVE SaveInv'
    OBVIOUS
  <2>1. Types'
    BY TypesNext DEF SaveInv
  <2> QED BY <2>1, MarksNext DEF SaveInv
<1> QED BY <1>1, <1>2, PTL DEF AutoSaveSpec

\* The state of the save path keeps its type, one round is in flight at a time
\* with at most one store in the chain, and the timer is never armed beside it.
\* (auto-save-coordinator.ts: startFlush, scheduleFlush; persistor-store.ts: store.)
THEOREM AutoSaveTypeCorrect == AutoSaveSpec => []AutoSaveTypeOK
<1>1. Types => AutoSaveTypeOK
  <2> SUFFICES ASSUME Types PROVE AutoSaveTypeOK
    OBVIOUS
  <2>1. /\ content \in [Ns -> Content] /\ files \in [Ns -> Content]
        /\ hash \in [Ns -> Content \cup {Dirty}] /\ manifest \in [Ns -> Content]
        /\ universe \in Values /\ universeFile \in Values
    BY DEF Types, DataTypes, Contents, Hashes
  <2>2. /\ flags \subseteq Scopes
        /\ timer \in BOOLEAN /\ requeued \in BOOLEAN /\ lastFlushFailed \in BOOLEAN
        /\ timer => ~InFlight
        /\ round \in RoundRecord /\ flush \in FlushRecord
    BY DEF Types, CoordinatorTypes, RoundKept
  <2>3. /\ chain \in Seq(JobRecord)
        /\ \A i, j \in DOMAIN chain : chain[i].by = "round" /\ chain[j].by = "round" => i = j
        /\ round.pc = "storing" <=> \E i \in DOMAIN chain : chain[i].by = "round"
    BY DEF Types, StoreTypes, ChainKept, JobKept
  <2>4. /\ store.pc \in {"idle", "shared", "namespaces", "sethash", "fixup", "manifest"}
        /\ store.left \subseteq Ns /\ store.fix \subseteq Ns
    BY DEF Types, StoreTypes, StoreKept, StoreRecord, NoStore
  <2>5. /\ edit \in [Editors -> EditRecord] /\ usable \in BOOLEAN
        /\ history \subseteq {"overlap", "failed", "closed"}
    BY DEF Types, EditTypes
  <2> QED BY <2>1, <2>2, <2>3, <2>4, <2>5
          DEF AutoSaveTypeOK, RoundRecord, FlushRecord, JobRecord, EditRecord
<1> QED BY <1>1, SaveInvariant, PTL DEF SaveInv

\* A namespace that is marked dirty has a flush to come, for any number of
\* editors, namespaces and stores, in every order of markDirty(), the timer, the
\* follow-up round and flush().
\* (auto-save-coordinator.ts: markDirty, startFlush, runFlush, flush.)
THEOREM AutoSaveFollowsMarks == AutoSaveSpec => []MarksAreFollowedUp
<1>1. SaveInv => MarksAreFollowedUp
  BY DEF SaveInv, FlagsArmed, MarksKept, MarksAreFollowedUp, LaterRound, RoundComesTo, Armed, Wanted
<1> QED BY <1>1, SaveInvariant, PTL

-----------------------------------------------------------------------------
(* Stores that nothing interleaves with.                                   *)

LEMMA InitQuiet == AutoSaveInit => EditsApart /\ StoreProgress
<1> SUFFICES ASSUME AutoSaveInit PROVE EditsApart /\ StoreProgress
  OBVIOUS
<1>1. EditsApart
  BY DEF AutoSaveInit, EditsApart, HalfEdited, NoEdit
<1>2. manifest = files /\ store.pc = "idle"
  BY DEF AutoSaveInit, NoStore
<1>3. StoreProgress
  BY <1>2 DEF StoreProgress
<1> QED BY <1>1, <1>3

LEMMA ApartNext ==
    ASSUME Types, EditsApart, [AutoSaveNext]_vars PROVE EditsApart'
<1> SUFFICES ASSUME history' = {}, history = {} PROVE HalfEdited' => ~InFlight' /\ chain' = <<>>
  BY HistoryKept DEF EditsApart
<1>1. HalfEdited => ~InFlight /\ chain = <<>>
  BY DEF EditsApart
<1>2. ASSUME UNCHANGED edit PROVE HalfEdited' <=> HalfEdited
  BY <1>2 DEF HalfEdited
<1>3. CASE \E e \in Editors : Edit(e)
  <2> PICK e \in Editors : Edit(e)
    BY <1>3
  <2>1. CASE EditNamespace(e)
    BY <2>1, EditNamespaceTypes DEF EditNamespace, NoteOverlap, coordinator, InFlight
  <2>2. CASE EditUniverse(e) \/ InvalidateNamespaceHash(e) \/ EditThrows(e) \/ DispatchReturns(e)
    <3>1. UNCHANGED <<round, chain>>
      BY <2>2 DEF EditUniverse, InvalidateNamespaceHash, EditThrows, DispatchReturns, coordinator
    <3>2. edit'[e].step # "wrote" /\ \A f \in Editors \ {e} : edit'[f] = edit[f]
      BY <2>2 DEF EditUniverse, InvalidateNamespaceHash, EditThrows, DispatchReturns, NoEdit,
                  Types, EditTypes, EditRecord
    <3>3. HalfEdited' => HalfEdited
      BY <3>2 DEF HalfEdited
    <3> QED BY <1>1, <3>1, <3>3 DEF InFlight
  <2> QED BY <2>1, <2>2 DEF Edit
<1>4. CASE Round
  <2>1. UNCHANGED edit
    BY <1>4 DEF Round, TimerFires, RoundResolves, RoundQueries, RoundQueryFails
  <2>2. CASE TimerFires
    <3>1. StartRound /\ ~InFlight
      BY <2>2 DEF TimerFires, Types, CoordinatorTypes
    <3>2. ~HalfEdited
      BY <3>1 DEF StartRound, NoteOverlap
    <3> QED BY <1>2, <2>1, <3>2
  <2>3. CASE RoundResolves \/ RoundQueries \/ RoundQueryFails
    <3>1. InFlight
      BY <2>3 DEF RoundResolves, RoundQueries, RoundQueryFails, InFlight
    <3> QED BY <1>1, <1>2, <2>1, <3>1
  <2> QED BY <1>4, <2>2, <2>3 DEF Round
<1>5. CASE ExplicitStore
  BY <1>2, <1>5 DEF ExplicitStore, NoteOverlap
<1>6. CASE Store
  <2>1. UNCHANGED edit
    BY <1>6 DEF Store, StoreBegins, StoreExportsShared, StoreReadsNamespace, StoreSetsHash,
                StoreFixesOther, StoreWritesManifest, StoreUniverseOnly, StoreFails
  <2>2. chain # <<>>
    BY <1>6, RunningFacts
    DEF Store, StoreBegins, StoreExportsShared, StoreReadsNamespace, StoreSetsHash,
        StoreFixesOther, StoreWritesManifest, StoreUniverseOnly, StoreFails
  <2> QED BY <1>1, <1>2, <2>1, <2>2
<1>7. CASE Flush
  <2>1. UNCHANGED <<edit, chain>>
    BY <1>7 DEF Flush, FlushCalled, FlushResumes
  <2>2. ASSUME NEW rounds, FlushLoop(rounds) PROVE HalfEdited => UNCHANGED round
    BY <2>2 DEF FlushLoop, StartRound, NoteOverlap
  <2>3. HalfEdited => UNCHANGED round
    BY <1>7, <2>2 DEF Flush, FlushCalled, FlushResumes
  <2> QED BY <1>1, <1>2, <2>1, <2>3 DEF InFlight
<1>8. CASE WorkspaceCloses \/ WorkspaceReopens \/ UNCHANGED vars
  <2>1. UNCHANGED <<edit, chain, round>>
    BY <1>8 DEF WorkspaceCloses, WorkspaceReopens, coordinator, vars
  <2> QED BY <1>1, <1>2, <2>1 DEF InFlight
<1> QED BY <1>3, <1>4, <1>5, <1>6, <1>7, <1>8 DEF AutoSaveNext

LEMMA ProgressIdle ==
    ASSUME store'.pc = "idle", history' = {} => manifest' = files' PROVE StoreProgress'
  BY DEF StoreProgress

\* A store goes on as it was while its job does.
LEMMA ProgressFrame ==
    ASSUME StoreProgress, history' = {} => history = {},
           UNCHANGED <<content, hash, files, manifest, store>>,
           store.pc # "idle" => Job' = Job
    PROVE  StoreProgress'
<1>1. CASE store.pc = "idle"
  BY <1>1, ProgressIdle DEF StoreProgress
<1>2. CASE store.pc # "idle"
  <2>1. Job' = Job /\ Targets' = Targets /\ Deferred' = Deferred
    BY <1>2 DEF Targets, Deferred
  <2>2. \A n : SavedNs(n)' <=> SavedNs(n)
    BY DEF SavedNs
  <2> QED BY <2>1, <2>2 DEF StoreProgress
<1> QED BY <1>1, <1>2

LEMMA StoreBeginsProgress ==
    ASSUME Types, StoreProgress, StoreBegins PROVE StoreProgress'
<1>1. /\ store' = [pc |-> "shared", left |-> Targets, fix |-> {}, seen |-> hash, recorded |-> manifest]
      /\ store.pc = "idle"
      /\ UNCHANGED <<hash, files, manifest, chain, history>>
  BY DEF StoreBegins, database, disk
<1>2. store'.pc = "shared" /\ store'.recorded = manifest /\ store'.seen = hash /\ store'.left = Targets'
  BY <1>1, SameJob
<1>3. history = {} => manifest = files
  BY <1>1 DEF StoreProgress
<1> QED BY <1>1, <1>2, <1>3 DEF StoreProgress

LEMMA ContentEqual ==
    ASSUME NEW c \in Content, NEW f \in Content, c.own = f.own, c.cross = f.cross PROVE c = f
  BY DEF Content

\* The shared file is written: whose slice changes is stored, or put right later.
LEMMA StoreExportsProgress ==
    ASSUME Types, StoreProgress, StoreExportsShared PROVE StoreProgress'
<1> SUFFICES ASSUME history' = {} PROVE StoreProgress'
  BY DEF StoreProgress
<1>1. /\ store.pc = "shared" /\ UNCHANGED <<hash, content, manifest, chain, history>>
      /\ files' = [n \in Ns |-> [files[n] EXCEPT !.cross = content[n].cross]]
      /\ store' = [store EXCEPT !.pc = "namespaces", !.fix = CrossSources \ {Job.ns}]
  BY DEF StoreExportsShared, database
<1>2. store \in StoreRecord /\ Job.scope \in {"full", "namespace"} /\ StoreKept(store, Job)
      /\ store # NoStore
      /\ (Job.scope = "namespace" => Targets = {Job.ns}) /\ (Job.scope = "full" => Targets = Ns)
  BY <1>1, RunningFacts DEF NoStore
<1>3. /\ store'.pc = "namespaces" /\ store'.left = store.left /\ store'.seen = store.seen
      /\ store'.recorded = store.recorded /\ store'.fix = CrossSources \ {Job.ns}
  BY <1>1, <1>2 DEF StoreRecord
<1>4. store.recorded = files /\ \A n \in store.left : hash[n] = store.seen[n]
  BY <1>1 DEF StoreProgress
<1>5. \A n \in Ns : files[n] \in Content /\ content[n] \in Content
  BY DEF Types, DataTypes, Contents
<1>6. \A n \in Ns : files'[n] = [files[n] EXCEPT !.cross = content[n].cross]
  BY <1>1
<1>7. \A n \in Ns : files'[n].cross = content[n].cross
  BY <1>5, <1>6 DEF Content
<1>8. \A n \in Ns \ CrossSources : files'[n] = files[n]
  <2> SUFFICES ASSUME NEW n \in Ns, n \notin CrossSources PROVE files'[n] = files[n]
    OBVIOUS
  <2>1. files[n].cross = 0 /\ content[n].cross = 0
    BY DEF CrossSources
  <2> QED BY <1>5, <1>6, <2>1 DEF Content
<1>9. Job' = Job /\ Targets' = Targets
  BY <1>1, SameJob
<1>10. \A n \in Ns \ (store'.left \cup Deferred') : store'.recorded[n] = files'[n]
  <2>1. store.left = Targets
    BY <1>1 DEF StoreProgress
  <2>2. CASE Job.scope = "full"
    BY <1>2, <1>3, <2>1, <2>2
  <2>3. CASE Job.scope = "namespace"
    <3>1. Deferred' = CrossSources \ {Job.ns} /\ store'.left = {Job.ns}
      BY <1>2, <1>3, <1>9, <2>1, <2>3 DEF Deferred
    <3> QED BY <1>3, <1>4, <1>8, <3>1
  <2> QED BY <1>2, <2>2, <2>3
<1>11. Targets' \ store'.left = {}
  BY <1>1, <1>3, <1>9 DEF StoreProgress
<1> QED BY <1>1, <1>3, <1>4, <1>7, <1>10, <1>11 DEF StoreProgress

\* A namespace is recorded with what its files contain.
LEMMA RecordedProgress ==
    ASSUME Types, StoreProgress, history = {}, store.pc \in {"namespaces", "sethash"},
           NEW n, n = Min(store.left), files[n] \in Content,
           store' = Recorded(n, files[n]), UNCHANGED <<content, files, chain>>,
           \A m \in Ns \ {n} : hash'[m] = hash[m], hash'[n] = content[n], content[n] = files[n]
    PROVE  StoreProgress'
<1>1. Job' = Job /\ Targets' = Targets
  BY SameJob
<1>2. /\ n \in store.left /\ store' \in StoreRecord
      /\ store'.seen = store.seen /\ store'.fix = store.fix
      /\ store'.recorded = [store.recorded EXCEPT ![n] = files[n]]
      /\ \/ /\ store'.pc = "namespaces" /\ store'.left = store.left \ {n}
            /\ store'.left # {} /\ Job.scope = "full"
         \/ /\ store'.pc = "fixup" /\ store'.left = store.fix
            /\ Job.scope = "namespace" /\ store.left = {n}
         \/ /\ store'.pc = "manifest" /\ store'.left = {}
            /\ Job.scope = "full" /\ store.left = {n}
  BY RecordedFacts
<1>3. /\ store \in StoreRecord /\ StoreKept(store, Job)
      /\ Job.scope = "namespace" => Targets = {Job.ns}
      /\ Job.scope = "full" => Targets = Ns
  BY RunningFacts
<1>4. n \in Ns /\ store.recorded \in Contents /\ store.left \subseteq Ns
  BY <1>2, <1>3 DEF StoreRecord
<1>5. /\ \A m \in store.left : hash[m] = store.seen[m]
      /\ \A m \in Ns : files[m].cross = content[m].cross
      /\ \A m \in Ns \ (store.left \cup Deferred) : store.recorded[m] = files[m]
      /\ \A m \in Targets \ store.left : SavedNs(m)
  BY DEF StoreProgress
<1>6. store'.recorded[n] = files[n] /\ \A m \in Ns \ {n} : store'.recorded[m] = store.recorded[m]
  BY <1>2, <1>4 DEF Contents
<1>7. SavedNs(n)' /\ \A m \in Ns \ {n} : SavedNs(m) => SavedNs(m)'
  BY DEF SavedNs
<1>8. Targets \subseteq Ns
  BY RunningFacts
<1>9. CASE store'.pc = "namespaces"
  <2>1. store'.left = store.left \ {n} /\ Job.scope = "full" /\ Deferred = {} /\ Deferred' = {}
    BY <1>1, <1>2, <1>9 DEF Deferred
  <2>2. \A m \in store'.left : hash'[m] = store'.seen[m]
    BY <1>2, <1>4, <1>5, <2>1
  <2>3. \A m \in Ns \ (store'.left \cup Deferred') : store'.recorded[m] = files'[m]
    BY <1>5, <1>6, <2>1
  <2>4. \A m \in Targets' \ store'.left : SavedNs(m)'
    BY <1>1, <1>5, <1>7, <1>8, <2>1
  <2> QED BY <1>5, <1>9, <2>2, <2>3, <2>4 DEF StoreProgress
<1>10. CASE store'.pc \in {"fixup", "manifest"}
  <2>1. store.left = {n} /\ store'.left = Deferred
    BY <1>2, <1>10 DEF Deferred
  <2>2. \A m \in Ns \ store'.left : store'.recorded[m] = files'[m]
    BY <1>5, <1>6, <2>1
  <2>3. \A m \in Targets' : SavedNs(m)'
    BY <1>1, <1>5, <1>7, <1>8, <2>1
  <2> QED BY <1>5, <1>10, <2>2, <2>3 DEF StoreProgress
<1> QED BY <1>2, <1>9, <1>10

\* The delta skip is taken for what is saved already; otherwise the namespace
\* is written as it was read.
LEMMA StoreReadsProgress ==
    ASSUME Types, StoreProgress, StoreReadsNamespace PROVE StoreProgress'
<1> SUFFICES ASSUME history' = {} PROVE StoreProgress'
  BY DEF StoreProgress
<1> DEFINE n == Min(store.left)
<1>1. /\ store.pc = "namespaces" /\ UNCHANGED <<hash, content, manifest, chain>> /\ history = {}
      /\ \/ MaySkip(n) /\ store' = Recorded(n, content[n]) /\ UNCHANGED files
         \/ /\ files' = [files EXCEPT ![n].own = content[n].own]
            /\ store' = [store EXCEPT !.pc = "sethash", !.recorded[n] = content[n]]
  BY DEF StoreReadsNamespace, database
<1>2. /\ store \in StoreRecord /\ StoreKept(store, Job) /\ store # NoStore
  BY <1>1, RunningFacts DEF NoStore
<1>3. n \in store.left /\ n \in Ns
  BY <1>1, <1>2, NsFacts DEF StoreKept, StoreRecord
<1>4. /\ \A m \in store.left : hash[m] = store.seen[m]
      /\ \A m \in Ns : files[m].cross = content[m].cross
      /\ \A m \in Ns \ (store.left \cup Deferred) : store.recorded[m] = files[m]
      /\ \A m \in Targets \ store.left : SavedNs(m)
  BY <1>1 DEF StoreProgress
<1>5. content[n] \in Content /\ files[n] \in Content /\ files \in Contents /\ store.recorded \in Contents
  BY <1>2, <1>3 DEF Types, DataTypes, Contents, StoreRecord
<1>6. CASE MaySkip(n) /\ store' = Recorded(n, content[n]) /\ UNCHANGED files
  <2>1. files[n] = content[n] /\ hash[n] = content[n]
    BY <1>3, <1>4, <1>6 DEF MaySkip
  <2>2. store' = Recorded(n, files[n])
    BY <1>6, <2>1
  <2> HIDE DEF n
  <2>3. n = Min(store.left)
    BY DEF n
  <2> QED BY <1>1, <1>5, <1>6, <2>1, <2>2, <2>3, RecordedProgress
<1>7. CASE /\ files' = [files EXCEPT ![n].own = content[n].own]
           /\ store' = [store EXCEPT !.pc = "sethash", !.recorded[n] = content[n]]
  <2> HIDE DEF n
  <2>1. files'[n] = [files[n] EXCEPT !.own = content[n].own] /\ \A m \in Ns \ {n} : files'[m] = files[m]
    BY <1>3, <1>5, <1>7 DEF Contents
  <2>2. files'[n] \in Content /\ files'[n].own = content[n].own /\ files'[n].cross = files[n].cross
    BY <1>5, <2>1 DEF Content
  <2>3. files'[n] = content[n]
    BY <1>3, <1>4, <1>5, <2>2, ContentEqual
  <2>4. /\ store'.pc = "sethash" /\ store'.left = store.left /\ store'.seen = store.seen
        /\ store'.fix = store.fix /\ store'.recorded = [store.recorded EXCEPT ![n] = content[n]]
    BY <1>2, <1>7 DEF StoreRecord
  <2>5. store'.recorded[n] = content[n] /\ \A m \in Ns \ {n} : store'.recorded[m] = store.recorded[m]
    BY <1>3, <1>5, <2>4 DEF Contents
  <2>6. Job' = Job /\ Targets' = Targets /\ Deferred' = Deferred
    BY <1>1, <2>4, SameJob DEF Deferred
  <2>7. Targets \subseteq Ns
    BY <1>1, RunningFacts
  <2>8. \A m \in Targets' \ store'.left : SavedNs(m)'
    BY <1>1, <1>3, <1>4, <2>1, <2>4, <2>6, <2>7 DEF SavedNs
  <2>9. \A m \in Ns : files'[m].cross = content'[m].cross
    BY <1>1, <1>4, <2>1, <2>3
  <2>10. \A m \in Ns \ (store'.left \cup Deferred') : store'.recorded[m] = files'[m]
    BY <1>3, <1>4, <2>1, <2>4, <2>5, <2>6
  <2>11. n = Min(store'.left) /\ n = Min(store.left)
    BY <2>4 DEF n
  <2>12. store'.recorded[n] = files'[n] /\ content'[n] = files'[n]
    BY <1>1, <2>3, <2>5
  <2>13. \A m \in store'.left : hash'[m] = store'.seen[m]
    BY <1>1, <1>4, <2>4
  <2> QED BY <2>4, <2>8, <2>9, <2>10, <2>11, <2>12, <2>13 DEF StoreProgress
<1> QED BY <1>1, <1>6, <1>7

LEMMA StoreSetsProgress ==
    ASSUME Types, StoreProgress, StoreSetsHash PROVE StoreProgress'
<1> SUFFICES ASSUME history' = {} PROVE StoreProgress'
  BY DEF StoreProgress
<1> DEFINE n == Min(store.left)
<1>1. /\ store.pc = "sethash" /\ UNCHANGED <<content, files, chain>> /\ history = {}
      /\ hash' = [hash EXCEPT ![n] = store.recorded[n]]
      /\ store' = Recorded(n, store.recorded[n])
  BY DEF StoreSetsHash, disk
<1>2. store.recorded[n] = files[n] /\ content[n] = files[n]
  BY <1>1 DEF StoreProgress
<1>3. store \in StoreRecord /\ StoreKept(store, Job) /\ store # NoStore
  BY <1>1, RunningFacts DEF NoStore
<1>4. n \in Ns
  BY <1>1, <1>3, NsFacts DEF StoreKept, StoreRecord
<1> HIDE DEF n
<1>5. hash'[n] = content[n] /\ \A m \in Ns \ {n} : hash'[m] = hash[m]
  BY <1>1, <1>2, <1>4 DEF Types, DataTypes, Hashes
<1>6. files[n] \in Content /\ store' = Recorded(n, files[n]) /\ n = Min(store.left)
  BY <1>1, <1>2, <1>4 DEF Types, DataTypes, Contents, n
<1> QED BY <1>1, <1>2, <1>5, <1>6, RecordedProgress

\* What is put right is not what the store was for.
LEMMA StoreFixesProgress ==
    ASSUME Types, StoreProgress, StoreFixesOther PROVE StoreProgress'
<1> SUFFICES ASSUME history' = {} PROVE StoreProgress'
  BY DEF StoreProgress
<1>1. store.pc = "fixup" /\ UNCHANGED <<content, files, chain>> /\ history = {}
  BY DEF StoreFixesOther, disk
<1>2. store \in StoreRecord
  BY <1>1, RunningFacts
<1>3. /\ \A m \in Ns : files[m].cross = content[m].cross
      /\ \A m \in Ns \ store.left : store.recorded[m] = files[m]
      /\ \A m \in Targets : SavedNs(m)
  BY <1>1 DEF StoreProgress
<1>4. Targets' = Targets
  BY <1>1, SameJob
<1>5. CASE store.left = {}
  <2>1. store' = [store EXCEPT !.pc = "manifest"] /\ UNCHANGED hash
    BY <1>5 DEF StoreFixesOther
  <2>2. store'.pc = "manifest" /\ store'.left = store.left /\ store'.recorded = store.recorded
    BY <1>2, <2>1 DEF StoreRecord
  <2>3. \A m : SavedNs(m)' <=> SavedNs(m)
    BY <1>1, <2>1 DEF SavedNs
  <2> QED BY <1>1, <1>3, <1>4, <2>2, <2>3 DEF StoreProgress
<1>6. CASE store.left # {}
  <2> DEFINE m == Min(store.left)
  <2>1. /\ store' = [store EXCEPT !.left = @ \ {m}, !.recorded[m] = files[m]]
        /\ hash' = IF files[m] # store.recorded[m] THEN [hash EXCEPT ![m] = files[m]] ELSE hash
    BY <1>6 DEF StoreFixesOther
  <2>2. m \in Ns /\ m # Job.ns /\ Targets = {Job.ns} /\ Job.ns \in Ns
    BY <1>1, <1>6, FixupFacts, RunningFacts
  <2> HIDE DEF m
  <2>3. /\ store'.pc = "fixup" /\ store'.left = store.left \ {m}
        /\ store'.recorded = [store.recorded EXCEPT ![m] = files[m]]
    BY <1>1, <1>2, <2>1 DEF StoreRecord
  <2>4. \A k \in Ns \ store'.left : store'.recorded[k] = files'[k]
    BY <1>1, <1>2, <1>3, <2>2, <2>3 DEF StoreRecord, Contents
  <2>5. \A k \in Ns \ {m} : hash'[k] = hash[k]
    BY <2>1 DEF Types, DataTypes, Hashes
  <2>6. \A k \in Targets' : SavedNs(k)'
    BY <1>1, <1>3, <1>4, <2>2, <2>5 DEF SavedNs
  <2> QED BY <1>1, <1>3, <2>3, <2>4, <2>6 DEF StoreProgress
<1> QED BY <1>5, <1>6

\* A store that ends leaves a manifest that says what is in the files.
LEMMA StoreEndsProgress ==
    ASSUME Types, StoreProgress, StoreWritesManifest \/ StoreUniverseOnly PROVE StoreProgress'
<1>1. store' = NoStore /\ UNCHANGED <<files, content>>
  BY DEF StoreWritesManifest, StoreUniverseOnly, StoreDone, database
<1>2. history' = {} => history = {}
  BY HistoryKept DEF AutoSaveNext, Store
<1>3. CASE StoreUniverseOnly
  <2>1. store.pc = "idle" /\ UNCHANGED manifest
    BY <1>3 DEF StoreUniverseOnly
  <2> QED BY <1>1, <1>2, <2>1, ProgressIdle DEF NoStore, StoreProgress
<1>4. CASE StoreWritesManifest
  <2>1. store.pc = "manifest" /\ manifest' = store.recorded
    BY <1>4 DEF StoreWritesManifest
  <2>2. store \in StoreRecord /\ store.left = {}
    BY <2>1, RunningFacts DEF StoreKept, NoStore
  <2>3. history = {} => \A n \in Ns : store.recorded[n] = files[n]
    BY <2>1, <2>2 DEF StoreProgress
  <2>4. store.recorded \in Contents /\ files \in Contents
    BY <2>2 DEF StoreRecord, Types, DataTypes
  <2>5. history = {} => store.recorded = files
    BY <2>3, <2>4 DEF Contents
  <2> QED BY <1>1, <1>2, <2>1, <2>5, ProgressIdle DEF NoStore
<1> QED BY <1>3, <1>4

\* A round leaves the store that runs alone.
LEMMA RoundJob == ASSUME Types, Round, store.pc # "idle" PROVE Job' = Job
<1>1. chain \in Seq(JobRecord) /\ chain # <<>>
  BY RunningFacts DEF Types, StoreTypes, ChainKept
<1>2. Scopes = {"namespace", "universe", "full"} /\ 0 \in 0..NsCount
  BY NsFacts DEF Scopes
<1>3. DirtyNamespaces # {} => Min(DirtyNamespaces) \in 0..NsCount
  BY NsFacts DEF DirtyNamespaces
<1>4. chain' = chain \/ \E todo : \E scope \in Scopes, n \in 0..NsCount : RoundStores(scope, n, todo)
  BY <1>2, <1>3 DEF Round, TimerFires, RoundResolves, RoundQueries, RoundQueryFails
<1>5. chain' = chain \/ \E job \in JobRecord : chain' = Append(chain, job)
  BY <1>4 DEF RoundStores, Request, JobRecord
<1> QED BY <1>1, <1>5, HeadOfAppend DEF Job

LEMMA ProgressNext ==
    ASSUME Types, Types', EditsApart, StoreProgress, [AutoSaveNext]_vars PROVE StoreProgress'
<1>1. history' = {} => history = {}
  BY HistoryKept
<1>2. ASSUME chain = <<>>, UNCHANGED <<chain, store, files, manifest>> PROVE StoreProgress'
  <2>1. store.pc = "idle"
    BY <1>2, RunningFacts
  <2> QED BY <1>1, <1>2, <2>1, ProgressIdle DEF StoreProgress
<1>3. CASE \E e \in Editors : Edit(e)
  <2> PICK e \in Editors : Edit(e)
    BY <1>3
  <2>1. UNCHANGED <<chain, store, files, manifest>>
    BY DEF Edit, EditNamespace, EditUniverse, InvalidateNamespaceHash, EditThrows, DispatchReturns, disk
  <2>2. CASE EditNamespace(e)
    <3>1. history' = {} => chain = <<>>
      BY <2>2 DEF EditNamespace, NoteOverlap
    <3> QED BY <1>2, <2>1, <3>1 DEF StoreProgress
  <2>3. CASE InvalidateNamespaceHash(e)
    <3>1. history = {} => chain = <<>>
      BY <2>3 DEF InvalidateNamespaceHash, EditsApart, HalfEdited
    <3> QED BY <1>1, <1>2, <2>1, <3>1 DEF StoreProgress
  <2>4. CASE EditUniverse(e) \/ EditThrows(e) \/ DispatchReturns(e)
    <3>1. UNCHANGED <<content, hash>>
      BY <2>4 DEF EditUniverse, EditThrows, DispatchReturns, database
    <3> QED BY <1>1, <2>1, <3>1, SameJob, ProgressFrame
  <2> QED BY <2>2, <2>3, <2>4 DEF Edit
<1>4. CASE Round
  <2>1. UNCHANGED <<content, hash, files, manifest, store>>
    BY <1>4 DEF Round, TimerFires, RoundResolves, RoundQueries, RoundQueryFails, database, disk
  <2>2. store.pc # "idle" => Job' = Job
    BY <1>4, RoundJob
  <2> QED BY <1>1, <2>1, <2>2, ProgressFrame
<1>5. CASE ExplicitStore
  <2>1. UNCHANGED <<content, hash, files, manifest, store>> /\ (store.pc # "idle" => Job' = Job)
    BY <1>5, ExplicitStoreTypes, RunningFacts DEF database, disk
  <2> QED BY <1>1, <2>1, ProgressFrame
<1>6. CASE Store
  <2>1. StoreFails => StoreProgress'
    BY StoreFailsTypes DEF StoreProgress
  <2> QED BY <1>6, <2>1, StoreBeginsProgress, StoreExportsProgress, StoreReadsProgress, StoreSetsProgress,
             StoreFixesProgress, StoreEndsProgress DEF Store
<1>7. CASE Flush \/ WorkspaceCloses \/ WorkspaceReopens \/ UNCHANGED vars
  <2>1. UNCHANGED <<content, hash, files, manifest, store, chain>>
    BY <1>7 DEF Flush, FlushCalled, FlushResumes, WorkspaceCloses, WorkspaceReopens, vars, database, disk
  <2> QED BY <1>1, <2>1, SameJob, ProgressFrame
<1> QED BY <1>3, <1>4, <1>5, <1>6, <1>7 DEF AutoSaveNext

ManifestInv == Types /\ EditsApart /\ StoreProgress

\* Between two stores the manifest has the hash of the files of every namespace,
\* for any number of namespaces, and whatever is stored by commands, by scope or
\* in full, while rounds run.
\* (persistor-store.ts, storeImpl: the scoped-store cross-NS hash fixup.)
THEOREM AutoSaveManifestTruthful == AutoSaveSpec => []ManifestTruthful
<1>1. AutoSaveInit => ManifestInv
  BY InitTypes, InitQuiet DEF ManifestInv
<1>2. ManifestInv /\ [AutoSaveNext]_vars => ManifestInv'
  <2> SUFFICES ASSUME ManifestInv, [AutoSaveNext]_vars PROVE ManifestInv'
    OBVIOUS
  <2>1. Types'
    BY TypesNext DEF ManifestInv
  <2> QED BY <2>1, ApartNext, ProgressNext DEF ManifestInv
<1>3. ManifestInv => ManifestTruthful
  BY DEF ManifestInv, StoreProgress, ManifestTruthful
<1> QED BY <1>1, <1>2, <1>3, PTL DEF AutoSaveSpec

-----------------------------------------------------------------------------
(* Every edit is saved, or someone will save it.                           *)

LEMMA CommandsNext ==
    ASSUME Types, NoScopedCommands, CommandsUnscoped, [AutoSaveNext]_vars PROVE CommandsUnscoped'
<1>1. chain \in Seq(JobRecord)
  BY DEF Types, StoreTypes, ChainKept
<1> DEFINE Fine(job) == job.by = "command" => job.scope # "namespace"
<1>2. ASSUME NEW c \in Seq(JobRecord), \A i \in DOMAIN c : Fine(c[i]), NEW job \in JobRecord, Fine(job),
             chain' = Append(c, job)
      PROVE  CommandsUnscoped'
  <2>1. /\ DOMAIN chain' = DOMAIN c \cup {Len(c) + 1}
        /\ \A i \in DOMAIN c : chain'[i] = c[i]
        /\ chain'[Len(c) + 1] = job
    BY <1>2, AppendFacts
  <2> QED BY <1>2, <2>1 DEF CommandsUnscoped
<1>3. chain # <<>> => Tail(chain) \in Seq(JobRecord) /\ \A i \in DOMAIN Tail(chain) : Fine(Tail(chain)[i])
  BY <1>1, TailFacts DEF CommandsUnscoped
<1>4. ASSUME NEW n \in Ns PROVE Request("round", "namespace", n) \in JobRecord /\ Fine(Request("round", "namespace", n))
  BY NsFacts DEF Request, JobRecord, Scopes
<1>5. ASSUME NEW scope \in {"full", "universe"}, NEW by \in {"round", "command"}
      PROVE  Request(by, scope, 0) \in JobRecord /\ Fine(Request(by, scope, 0))
  BY <1>5, NsFacts DEF Request, JobRecord, Scopes
<1>6. \A i \in DOMAIN chain : Fine(chain[i])
  BY DEF CommandsUnscoped
<1> HIDE DEF Fine
<1>7. CASE Round
  <2>1. \/ chain' = chain
        \/ chain' = Append(chain, Request("round", "namespace", Min(DirtyNamespaces))) /\ DirtyNamespaces # {}
        \/ \E scope \in {"full", "universe"} : chain' = Append(chain, Request("round", scope, 0))
    BY <1>7 DEF Round, TimerFires, RoundResolves, RoundQueries, RoundQueryFails, RoundStores
  <2>2. DirtyNamespaces # {} => Min(DirtyNamespaces) \in Ns
    BY DirtyNs
  <2>3. CASE chain' = chain
    BY <2>3 DEF CommandsUnscoped
  <2>4. CASE chain' = Append(chain, Request("round", "namespace", Min(DirtyNamespaces))) /\ DirtyNamespaces # {}
    BY <1>1, <1>2, <1>4, <1>6, <2>2, <2>4
  <2>5. CASE \E scope \in {"full", "universe"} : chain' = Append(chain, Request("round", scope, 0))
    BY <1>1, <1>2, <1>5, <1>6, <2>5
  <2> QED BY <2>1, <2>3, <2>4, <2>5
<1>8. CASE ExplicitStore
  <2>1. PICK scope \in CommandScopes : \E n \in IF scope = "namespace" THEN Ns ELSE {0} :
            chain' = Append(chain, Request("command", scope, n))
    BY <1>8 DEF ExplicitStore
  <2>2. scope \in {"full", "universe"} /\ chain' = Append(chain, Request("command", scope, 0))
    BY <2>1, AutoSaveAssumption DEF NoScopedCommands
  <2> QED BY <1>1, <1>2, <1>5, <1>6, <2>2
<1>9. CASE StoreWritesManifest \/ StoreUniverseOnly
  <2>1. chain # <<>> /\ StoreDone /\ UNCHANGED <<timer, edit, flush, usable>>
    BY <1>9, StoreEndsTypes
  <2>2. chain' = Tail(chain) \/ \E n \in Ns : chain' = Append(Tail(chain), Request("round", "namespace", n))
    BY <2>1, StoreDoneFacts
  <2>3. CASE chain' = Tail(chain)
    BY <1>3, <2>1, <2>3 DEF CommandsUnscoped, Fine
  <2>4. CASE \E n \in Ns : chain' = Append(Tail(chain), Request("round", "namespace", n))
    BY <1>2, <1>3, <1>4, <2>1, <2>4
  <2> QED BY <2>2, <2>3, <2>4
<1>10. CASE StoreFails
  BY <1>3, <1>10 DEF StoreFails, CommandsUnscoped, Fine
<1>11. CASE (\E e \in Editors : Edit(e)) \/ Flush \/ WorkspaceCloses \/ WorkspaceReopens \/ UNCHANGED vars
  <2>1. UNCHANGED chain
    BY <1>11 DEF Edit, EditNamespace, EditUniverse, InvalidateNamespaceHash, EditThrows, DispatchReturns,
                 Flush, FlushCalled, FlushResumes, WorkspaceCloses, WorkspaceReopens, vars
  <2> QED BY <2>1 DEF CommandsUnscoped
<1>12. CASE StoreBegins \/ StoreExportsShared \/ StoreReadsNamespace \/ StoreSetsHash \/ StoreFixesOther
  <2>1. UNCHANGED chain
    BY <1>12 DEF StoreBegins, StoreExportsShared, StoreReadsNamespace, StoreSetsHash, StoreFixesOther
  <2> QED BY <2>1 DEF CommandsUnscoped
<1> QED BY <1>7, <1>8, <1>9, <1>10, <1>11, <1>12 DEF AutoSaveNext, Store

LEMMA InitComing == AutoSaveInit => CommandsUnscoped /\ AllComing
<1> SUFFICES ASSUME AutoSaveInit PROVE CommandsUnscoped /\ AllComing
  OBVIOUS
<1>1. chain = <<>> /\ universe = universeFile /\ files = content /\ hash = content
  BY DEF AutoSaveInit
<1>2. UniverseComing /\ \A n \in Ns : NamespaceComing(n)
  BY <1>1 DEF UniverseComing, UniverseReported, NamespaceComing, NamespaceReported, SavedNs
<1> QED BY <1>1, <1>2 DEF AllComing, CommandsUnscoped

LEMMA ReportedFrame ==
    ASSUME UNCHANGED <<flags, edit>> PROVE \A scope : Reported(scope)' <=> Reported(scope)
  BY DEF Reported

\* A namespace that someone will save, while the round does not turn.
LEMMA ComingFrame ==
    ASSUME NEW n, NamespaceComing(n), UNCHANGED round,
           SavedNs(n) => SavedNs(n)',
           round.todo # {} \/ (hash[n] = Dirty => hash'[n] = Dirty) \/ SavedNs(n)',
           \A scope : Reported(scope) => Reported(scope)',
           \A e \in Editors : edit[e].step = "wrote" /\ edit[e].ns = n => edit'[e] = edit[e]
    PROVE  NamespaceComing(n)'
  BY DEF NamespaceComing, NamespaceReported, InFlight

LEMMA UniverseFrame ==
    ASSUME UniverseComing, UNCHANGED round,
           universe = universeFile => universe' = universeFile',
           \A scope : Reported(scope) => Reported(scope)',
           Exported' => Exported
    PROVE  UniverseComing'
  BY DEF UniverseComing, UniverseReported, InFlight

\* While no round is in flight, everything is reported.
LEMMA NoRoundFacts ==
    ASSUME Types, ~InFlight
    PROVE  /\ round.todo = {}
           /\ \A n : NamespaceComing(n) => NamespaceReported(n)
           /\ UniverseComing => UniverseReported
<1>1. round.todo = {} /\ round.pc = "idle"
  BY DEF Types, CoordinatorTypes, RoundKept, InFlight
<1> QED BY <1>1 DEF NamespaceComing, UniverseComing, InFlight

TurnsOver == StartRound \/ (round' = NoRound /\ UNCHANGED flags)

LEMMA RoundEndsTurns == RoundEnds => TurnsOver
  BY DEF RoundEnds, TurnsOver

\* A round that begins takes over what is reported.
LEMMA NamespaceTurns ==
    ASSUME NEW n, NamespaceReported(n), TurnsOver, UNCHANGED <<content, hash, files, edit>>
    PROVE  NamespaceComing(n)'
<1>1. SavedNs(n)' <=> SavedNs(n)
  BY DEF SavedNs
<1>2. round'.todo = {}
  BY DEF TurnsOver, StartRound, NoRound
<1>3. CASE StartRound
  <2>1. round'.pc = "resolving" /\ round'.want = flags
    BY <1>3 DEF StartRound
  <2>2. \A scope : Reported(scope) => Reported(scope)' \/ scope \in round'.want
    BY <2>1 DEF Reported
  <2> QED BY <1>1, <1>2, <2>1, <2>2 DEF NamespaceComing, NamespaceReported, InFlight
<1>4. CASE round' = NoRound /\ UNCHANGED flags
  BY <1>1, <1>2, <1>4, ReportedFrame DEF NamespaceComing, NamespaceReported
<1> QED BY <1>3, <1>4 DEF TurnsOver

LEMMA NotExported == ASSUME Types', round'.pc # "storing" PROVE ~Exported'
<1>1. ChainKept(chain', round') /\ (store' # NoStore => chain' # <<>>)
  BY DEF Types, StoreTypes
<1>2. chain' # <<>> => JobKept(round', Head(chain'))
  BY <1>1, ChainRest
<1> QED BY <1>1, <1>2 DEF Exported, Job, JobKept, NoStore

LEMMA UniverseTurns ==
    ASSUME Types', UniverseReported, TurnsOver, UNCHANGED <<universe, universeFile, edit>>
    PROVE  UniverseComing'
<1>1. CASE StartRound
  <2>1. round'.pc = "resolving" /\ round'.want = flags
    BY <1>1 DEF StartRound
  <2>2. \A scope : Reported(scope) => Reported(scope)' \/ scope \in round'.want
    BY <2>1 DEF Reported
  <2>3. ~Exported'
    BY <2>1, NotExported
  <2> QED BY <2>1, <2>2, <2>3 DEF UniverseComing, UniverseReported, InFlight
<1>2. CASE round' = NoRound /\ UNCHANGED flags
  BY <1>2, ReportedFrame DEF UniverseComing, UniverseReported
<1> QED BY <1>1, <1>2 DEF TurnsOver

Coming == UniverseComing /\ \A n \in Ns : NamespaceComing(n)

LEMMA EditComing ==
    ASSUME Types, EditsApart, Coming, history = {}, history' = {}, NEW e \in Editors, Edit(e)
    PROVE  Coming'
<1>1. /\ edit \in [Editors -> EditRecord] /\ edit[e] \in EditRecord
      /\ edit[e].step = "wrote" => edit[e].ns \in Ns
      /\ content \in Contents /\ hash \in Hashes
  BY DEF Types, EditTypes, DataTypes
<1>2. CASE EditNamespace(e)
  <2>1. /\ edit[e].step = "idle" /\ UNCHANGED <<hash, universe, files, universeFile, flags, round, chain, store>>
        /\ \E n \in Ns, scope \in {"namespace", "full"} :
            /\ \A m \in Ns \ {n} : content'[m] = content[m]
            /\ edit' = [edit EXCEPT ![e] =
                  [step |-> IF scope = "full" THEN "handled" ELSE "wrote", scope |-> scope, ns |-> n]]
    BY <1>1, <1>2 DEF EditNamespace, disk, coordinator, Contents
  <2>2. PICK n \in Ns, scope \in {"namespace", "full"} :
            /\ \A m \in Ns \ {n} : content'[m] = content[m]
            /\ edit' = [edit EXCEPT ![e] =
                  [step |-> IF scope = "full" THEN "handled" ELSE "wrote", scope |-> scope, ns |-> n]]
    BY <2>1
  <2>3. /\ edit'[e] = [step |-> IF scope = "full" THEN "handled" ELSE "wrote", scope |-> scope, ns |-> n]
        /\ \A f \in Editors \ {e} : edit'[f] = edit[f]
    BY <1>1, <2>2
  <2>4. \A s : Reported(s) => Reported(s)'
    BY <2>1, <2>3 DEF Reported
  <2>5. NamespaceComing(n)'
    <3>1. CASE scope = "namespace"
      BY <2>3, <3>1 DEF NamespaceComing, NamespaceReported
    <3>2. CASE scope = "full"
      BY <2>3, <3>2 DEF NamespaceComing, NamespaceReported, Reported
    <3> QED BY <3>1, <3>2
  <2>6. ASSUME NEW m \in Ns \ {n} PROVE NamespaceComing(m)'
    <3>1. SavedNs(m) => SavedNs(m)'
      BY <2>1, <2>2 DEF SavedNs
    <3>2. \A f \in Editors : edit[f].step = "wrote" /\ edit[f].ns = m => edit'[f] = edit[f]
      BY <2>1, <2>3
    <3>3. NamespaceComing(m) /\ UNCHANGED <<round, hash>>
      BY <2>1 DEF Coming
    <3> QED BY <2>4, <3>1, <3>2, <3>3, ComingFrame
  <2>7. UniverseComing'
    <3>1. Exported' <=> Exported
      BY <2>1 DEF Exported, Job
    <3> QED BY <2>1, <2>4, <3>1, UniverseFrame DEF Coming
  <2> QED BY <2>5, <2>6, <2>7 DEF Coming
<1>3. ASSUME NEW record, edit' = [edit EXCEPT ![e] = record], edit[e].step # "wrote",
             UNCHANGED <<content, hash, files, round>>, \A s : Reported(s) => Reported(s)'
      PROVE  \A n \in Ns : NamespaceComing(n)'
  <2> SUFFICES ASSUME NEW n \in Ns PROVE NamespaceComing(n)'
    OBVIOUS
  <2>1. \A f \in Editors : edit[f].step = "wrote" /\ edit[f].ns = n => edit'[f] = edit[f]
    BY <1>1, <1>3
  <2>2. SavedNs(n) => SavedNs(n)'
    BY <1>3 DEF SavedNs
  <2>3. NamespaceComing(n)
    BY DEF Coming
  <2> QED BY <1>3, <2>1, <2>2, <2>3, ComingFrame
<1>4. CASE EditUniverse(e)
  <2>1. /\ edit[e].step = "idle" /\ UNCHANGED <<content, hash, files, flags, round>>
        /\ edit' = [edit EXCEPT ![e] = [step |-> "handled", scope |-> "universe", ns |-> 0]]
    BY <1>4 DEF EditUniverse, disk, coordinator
  <2>2. edit'[e] = [step |-> "handled", scope |-> "universe", ns |-> 0]
        /\ \A f \in Editors \ {e} : edit'[f] = edit[f]
    BY <1>1, <2>1
  <2>3. \A s : Reported(s) => Reported(s)'
    BY <2>1, <2>2 DEF Reported
  <2>4. Reported("universe")'
    BY <2>2 DEF Reported
  <2> QED BY <1>3, <2>1, <2>3, <2>4 DEF Coming, UniverseComing, UniverseReported, UniverseScopes
<1>5. CASE InvalidateNamespaceHash(e)
  <2> PICK n \in Ns : n = edit[e].ns
    BY <1>5 DEF InvalidateNamespaceHash, Types, EditTypes
  <2>1. /\ edit[e].step = "wrote" /\ UNCHANGED <<content, universe, files, universeFile, flags, round, chain, store>>
        /\ hash' = [hash EXCEPT ![n] = Dirty]
        /\ edit' = [edit EXCEPT ![e].step = "handled"]
    BY <1>5 DEF InvalidateNamespaceHash, disk, coordinator
  <2>2. edit[e].scope = "namespace"
    BY <2>1 DEF Types, EditTypes
  <2>3. edit'[e].step = "handled" /\ edit'[e].scope = "namespace" /\ \A f \in Editors \ {e} : edit'[f] = edit[f]
    BY <1>1, <2>1, <2>2 DEF EditRecord
  <2>4. round.todo = {}
    BY <2>1, NoRoundFacts DEF EditsApart, HalfEdited
  <2>5. hash'[n] = Dirty /\ \A m \in Ns \ {n} : hash'[m] = hash[m]
    BY <1>1, <2>1, <2>2 DEF Hashes
  <2>6. \A s : Reported(s) => Reported(s)'
    BY <2>1, <2>3 DEF Reported
  <2>7. NamespaceComing(n)'
    BY <2>1, <2>3, <2>4, <2>5 DEF NamespaceComing, NamespaceReported, Reported
  <2>8. ASSUME NEW m \in Ns \ {n} PROVE NamespaceComing(m)'
    <3>1. SavedNs(m) => SavedNs(m)'
      BY <2>1, <2>5 DEF SavedNs
    <3>2. \A f \in Editors : edit[f].step = "wrote" /\ edit[f].ns = m => edit'[f] = edit[f]
      BY <2>3
    <3>3. NamespaceComing(m) /\ UNCHANGED round /\ hash'[m] = hash[m]
      BY <2>1, <2>5 DEF Coming
    <3> QED BY <2>6, <3>1, <3>2, <3>3, ComingFrame
  <2>9. UniverseComing'
    <3>1. Exported' <=> Exported
      BY <2>1 DEF Exported, Job
    <3> QED BY <2>1, <2>6, <3>1, UniverseFrame DEF Coming
  <2> QED BY <2>7, <2>8, <2>9 DEF Coming
<1>6. CASE EditThrows(e)
  BY <1>6 DEF EditThrows
<1>7. CASE DispatchReturns(e)
  <2>1. /\ edit[e].step = "handled" /\ flags' = flags \cup {edit[e].scope} /\ edit' = [edit EXCEPT ![e] = NoEdit]
        /\ UNCHANGED <<content, hash, files, universe, universeFile, round, chain, store>>
    BY <1>7 DEF DispatchReturns, MarkDirty, database, disk
  <2>2. edit'[e] = NoEdit /\ \A f \in Editors \ {e} : edit'[f] = edit[f]
    BY <1>1, <2>1
  <2>3. \A s : Reported(s) => Reported(s)'
    BY <2>1, <2>2 DEF Reported
  <2>4. Exported' <=> Exported
    BY <2>1 DEF Exported, Job
  <2>5. UniverseComing'
    BY <2>1, <2>3, <2>4, UniverseFrame DEF Coming
  <2> QED BY <1>3, <2>1, <2>3, <2>5 DEF Coming
<1> QED BY <1>2, <1>4, <1>5, <1>6, <1>7 DEF Edit

LEMMA RoundComing ==
    ASSUME Types, Types', Coming, history = {}, history' = {}, Round PROVE Coming'
<1>1. UNCHANGED <<content, hash, files, universe, universeFile, edit, store>>
  BY DEF Round, TimerFires, RoundResolves, RoundQueries, RoundQueryFails, database, disk
<1>2. CASE TimerFires
  <2>1. ~InFlight /\ TurnsOver
    BY <1>2 DEF TimerFires, TurnsOver, Types, CoordinatorTypes
  <2>2. UniverseReported /\ \A n \in Ns : NamespaceReported(n)
    BY <2>1, NoRoundFacts DEF Coming
  <2> QED BY <1>1, <2>1, <2>2, NamespaceTurns, UniverseTurns DEF Coming
<1> DEFINE Goes == /\ round.pc \in {"resolving", "querying"} /\ UNCHANGED flags
                   /\ round'.want = round.want /\ round'.pc # "idle"
<1>3. ASSUME Goes PROVE UniverseComing'
  <2>1. ~Exported'
    <3>1. store.pc # "idle" => Job' = Job /\ Job.by # "round"
      BY <1>3, RoundJob, RunningFacts DEF JobKept
    <3> QED BY <1>1, <3>1 DEF Exported
  <2>2. UniverseReported' <=> UniverseReported
    BY <1>1, <1>3, ReportedFrame DEF UniverseReported
  <2> QED BY <1>3, <2>1, <2>2 DEF Coming, UniverseComing, InFlight
<1>4. ASSUME NEW n \in Ns
      PROVE  /\ SavedNs(n)' <=> SavedNs(n)
             /\ UNCHANGED flags => \A scope : Reported(scope)' <=> Reported(scope)
             /\ NamespaceComing(n)
  BY <1>1, ReportedFrame DEF SavedNs, Coming
<1>5. round \in RoundRecord /\ RoundKept(round)
  BY DEF Types, CoordinatorTypes, RoundKept
<1>6. CASE RoundResolves
  <2>1. round.pc = "resolving" /\ usable /\ round.todo = {}
    BY <1>5, <1>6 DEF RoundResolves, Types, EditTypes, RoundKept
  <2>2. CASE "full" \in round.want /\ RoundStores("full", 0, {})
    <3>1. Goes /\ round'.pc = "storing"
      BY <1>5, <2>1, <2>2 DEF RoundStores, RoundRecord
    <3>2. \A n : NamespaceComing(n)'
      BY <2>2, <3>1 DEF NamespaceComing, InFlight
    <3> QED BY <1>3, <3>1, <3>2 DEF Coming
  <2>3. CASE round' = [round EXCEPT !.pc = "querying"] /\ UNCHANGED flags
    <3>1. Goes /\ round'.pc = "querying" /\ round'.todo = round.todo
      BY <1>5, <2>1, <2>3 DEF RoundRecord
    <3>2. \A n \in Ns : NamespaceComing(n)'
      BY <1>1, <1>4, <2>1, <3>1 DEF NamespaceComing, NamespaceReported, InFlight
    <3> QED BY <1>3, <3>1, <3>2 DEF Coming
  <2>4. CASE round.want = {"universe"} /\ RoundStores("universe", 0, {})
    <3>1. Goes /\ round'.pc = "storing" /\ round'.todo = {}
      BY <1>5, <2>1, <2>4 DEF RoundStores, RoundRecord
    <3>2. \A n \in Ns : NamespaceComing(n)'
      BY <1>1, <1>4, <2>1, <2>4, <3>1 DEF NamespaceComing, NamespaceReported
    <3> QED BY <1>3, <3>1, <3>2 DEF Coming
  <2> QED BY <1>6, <2>1, <2>2, <2>3, <2>4 DEF RoundResolves
<1>7. CASE RoundQueries
  <2>1. round.pc = "querying" /\ round.todo = {} /\ "full" \notin round.want
    BY <1>5, <1>7 DEF RoundQueries, RoundKept
  <2>2. CASE DirtyNamespaces # {} /\ RoundStores("namespace", Min(DirtyNamespaces), DirtyNamespaces)
    <3>1. Goes /\ round'.pc = "storing" /\ round'.todo = DirtyNamespaces
      BY <1>5, <2>1, <2>2 DEF RoundStores, RoundRecord
    <3>2. \A n \in Ns : hash[n] = Dirty => n \in round'.todo
      BY <3>1 DEF DirtyNamespaces
    <3>3. \A n \in Ns : NamespaceComing(n)'
      BY <1>1, <1>4, <2>1, <3>1, <3>2 DEF NamespaceComing, NamespaceReported
    <3> QED BY <1>3, <3>1, <3>3 DEF Coming
  <2>3. ASSUME DirtyNamespaces = {}, NEW n \in Ns PROVE NamespaceReported(n) /\ hash[n] # Dirty
    BY <1>4, <2>1, <2>3 DEF NamespaceComing, DirtyNamespaces
  <2>4. CASE DirtyNamespaces = {} /\ RoundStores("universe", 0, {})
    <3>1. Goes
      BY <1>5, <2>1, <2>4 DEF RoundStores, RoundRecord
    <3>2. \A n \in Ns : NamespaceComing(n)'
      BY <1>1, <1>4, <2>3, <2>4, <3>1 DEF NamespaceComing, NamespaceReported
    <3> QED BY <1>3, <3>1, <3>2 DEF Coming
  <2>5. CASE DirtyNamespaces = {} /\ "universe" \notin round.want /\ RoundEnds
    <3>1. UniverseReported
      BY <2>1, <2>5 DEF Coming, UniverseComing, UniverseScopes
    <3> QED BY <1>1, <2>3, <2>5, <3>1, RoundEndsTurns, NamespaceTurns, UniverseTurns DEF Coming
  <2> QED BY <1>7, <2>2, <2>4, <2>5 DEF RoundQueries
<1>8. CASE RoundQueryFails
  BY <1>8 DEF RoundQueryFails
<1> QED BY <1>2, <1>6, <1>7, <1>8 DEF Round

LEMMA FlushComing ==
    ASSUME Types, Types', Coming, Flush PROVE Coming'
<1>1. /\ UNCHANGED <<content, hash, files, universe, universeFile, chain, store, edit>>
      /\ \/ UNCHANGED <<flags, round>>
         \/ ~InFlight /\ StartRound
  BY DEF Flush, FlushCalled, FlushResumes, FlushLoop, database, disk
<1>2. CASE UNCHANGED <<flags, round>>
  <2>1. \A scope : Reported(scope)' <=> Reported(scope)
    BY <1>1, <1>2, ReportedFrame
  <2>2. \A n : SavedNs(n)' <=> SavedNs(n)
    BY <1>1 DEF SavedNs
  <2>3. Exported' <=> Exported
    BY <1>1 DEF Exported, Job
  <2> QED BY <1>1, <1>2, <2>1, <2>2, <2>3, ComingFrame, UniverseFrame DEF Coming
<1>3. CASE ~InFlight /\ StartRound
  <2>1. UniverseReported /\ \A n \in Ns : NamespaceReported(n)
    BY <1>3, NoRoundFacts DEF Coming
  <2> QED BY <1>1, <1>3, <2>1, NamespaceTurns, UniverseTurns DEF Coming, TurnsOver
<1> QED BY <1>1, <1>2, <1>3

\* While a store runs, what is saved stays saved, and no mark is lost that the
\* round does not have.
LEMMA StoreRunsComing ==
    ASSUME Types, CommandsUnscoped, StoreProgress, Coming, history = {},
           StoreBegins \/ StoreExportsShared \/ StoreReadsNamespace \/ StoreSetsHash \/ StoreFixesOther
    PROVE  Coming'
<1>1. UNCHANGED <<content, universe, round, flags, edit, chain>>
  BY DEF StoreBegins, StoreExportsShared, StoreReadsNamespace, StoreSetsHash, StoreFixesOther, database, coordinator
<1>2. \A scope : Reported(scope)' <=> Reported(scope)
  BY <1>1, ReportedFrame
<1>3. /\ content \in Contents /\ files \in Contents /\ hash \in Hashes
      /\ \A m \in Ns : files[m] \in Content /\ content[m] \in Content
  BY DEF Types, DataTypes, Contents
<1>4. ASSUME NEW n \in Ns, SavedNs(n) => SavedNs(n)',
             round.todo # {} \/ (hash[n] = Dirty => hash'[n] = Dirty) \/ SavedNs(n)'
      PROVE  NamespaceComing(n)'
  <2>1. NamespaceComing(n)
    BY DEF Coming
  <2> QED BY <1>1, <1>2, <1>4, <2>1, ComingFrame
<1>5. ASSUME UNCHANGED universeFile, Exported' => Exported PROVE UniverseComing'
  BY <1>1, <1>2, <1>5, UniverseFrame DEF Coming
<1>6. Job' = Job
  BY <1>1, SameJob
<1>7. CASE StoreBegins
  <2>1. UNCHANGED <<hash, files, universeFile>> /\ store'.pc = "shared"
    BY <1>7 DEF StoreBegins, database, disk
  <2>2. \A n : SavedNs(n)' <=> SavedNs(n)
    BY <1>1, <2>1 DEF SavedNs
  <2> QED BY <1>4, <1>5, <2>1, <2>2 DEF Coming, Exported
<1>8. CASE StoreExportsShared
  <2>1. /\ UNCHANGED hash /\ universeFile' = universe
        /\ files' = [n \in Ns |-> [files[n] EXCEPT !.cross = content[n].cross]]
    BY <1>8 DEF StoreExportsShared, database
  <2>2. UniverseComing'
    BY <1>1, <2>1 DEF UniverseComing, UniverseReported
  <2>3. ASSUME NEW n \in Ns, SavedNs(n) PROVE SavedNs(n)'
    <3>1. files'[n] = [files[n] EXCEPT !.cross = content[n].cross]
      BY <2>1
    <3>2. content[n] = files[n] /\ files[n] \in Content
      BY <1>3, <2>3 DEF SavedNs
    <3>3. files'[n] = files[n]
      BY <3>1, <3>2 DEF Content
    <3> QED BY <1>1, <2>1, <2>3, <3>3 DEF SavedNs
  <2> QED BY <1>4, <2>1, <2>2, <2>3 DEF Coming
<1>9. CASE StoreReadsNamespace
  <2>1. /\ store.pc = "namespaces" /\ UNCHANGED <<hash, universeFile>>
        /\ files' = files \/ files' = [files EXCEPT ![Min(store.left)].own = content[Min(store.left)].own]
    BY <1>9 DEF StoreReadsNamespace, database
  <2>2. ASSUME NEW n \in Ns, SavedNs(n) PROVE SavedNs(n)'
    <3>1. content[n] = files[n] /\ files[n] \in Content
      BY <1>3, <2>2 DEF SavedNs
    <3>2. \/ files'[n] = files[n]
          \/ files'[n] = [files[n] EXCEPT !.own = content[n].own]
      BY <1>3, <2>1 DEF Contents
    <3>3. files'[n] = files[n]
      BY <3>1, <3>2 DEF Content
    <3> QED BY <1>1, <2>1, <2>2, <3>3 DEF SavedNs
  <2>3. Exported' => Exported
    BY <1>6, <2>1 DEF Exported
  <2> QED BY <1>4, <1>5, <2>1, <2>2, <2>3 DEF Coming
<1>10. CASE StoreSetsHash
  <2> DEFINE m == Min(store.left)
  <2>1. /\ store.pc = "sethash" /\ UNCHANGED <<files, universeFile>>
        /\ hash' = [hash EXCEPT ![m] = store.recorded[m]]
    BY <1>10 DEF StoreSetsHash, disk
  <2>2. store.recorded[m] = files[m] /\ content[m] = files[m]
    BY <2>1 DEF StoreProgress
  <2> HIDE DEF m
  <2>3. \A n \in Ns : hash'[n] = hash[n] \/ (hash'[n] = files[n] /\ content[n] = files[n])
    BY <1>3, <2>1, <2>2 DEF Hashes
  <2>4. ASSUME NEW n \in Ns PROVE (SavedNs(n) => SavedNs(n)') /\ (hash'[n] = hash[n] \/ SavedNs(n)')
    BY <1>1, <2>1, <2>3 DEF SavedNs
  <2>5. Exported' => Exported
    BY <1>6, <2>1 DEF Exported
  <2> QED BY <1>4, <1>5, <2>1, <2>4, <2>5 DEF Coming
<1>11. CASE StoreFixesOther
  <2> DEFINE m == Min(store.left)
  <2>1. /\ store.pc = "fixup" /\ UNCHANGED <<files, universeFile>>
        /\ hash' = hash \/ (store.left # {} /\ hash' = [hash EXCEPT ![m] = files[m]])
    BY <1>11 DEF StoreFixesOther, disk
  <2>2. chain # <<>> /\ Job \in JobRecord /\ JobKept(round, Job) /\ StoreKept(store, Job) /\ store # NoStore
        /\ chain \in Seq(JobRecord)
    BY <2>1, RunningFacts DEF NoStore, Types, StoreTypes, ChainKept
  <2>3. Job.scope = "namespace"
    BY <2>1, <2>2 DEF StoreKept
  <2>4. Job.by = "round"
    BY <2>2, <2>3 DEF CommandsUnscoped, Job, JobRecord
  <2>5. round.todo # {}
    BY <2>2, <2>3, <2>4 DEF JobKept, RoundAsksFor
  <2> HIDE DEF m
  <2>6. \A n \in Ns : hash'[n] = hash[n] \/ hash'[n] = files[n]
    BY <1>3, <2>1 DEF Hashes
  <2>7. ASSUME NEW n \in Ns PROVE SavedNs(n) => SavedNs(n)'
    BY <1>1, <2>1, <2>6 DEF SavedNs
  <2>8. Exported' => Exported
    BY <1>6, <2>1 DEF Exported
  <2> QED BY <1>4, <1>5, <2>1, <2>5, <2>7, <2>8 DEF Coming
<1> QED BY <1>7, <1>8, <1>9, <1>10, <1>11

\* A store that has ended has saved what the round gives up.
LEMMA StoreEndsComing ==
    ASSUME Types, Types', StoreProgress, Coming, history = {}, StoreWritesManifest \/ StoreUniverseOnly
    PROVE  Coming'
<1>1. chain # <<>> /\ StoreDone /\ UNCHANGED <<timer, edit, flush, usable>>
  BY StoreEndsTypes
<1>2. UNCHANGED <<content, hash, files, universe>>
  BY DEF StoreWritesManifest, StoreUniverseOnly, database
<1>3. \/ store.pc = "manifest" /\ UNCHANGED universeFile
      \/ Job.scope = "universe" /\ universeFile' = universe
  BY DEF StoreWritesManifest, StoreUniverseOnly
<1>4. store' = NoStore /\ Job \in JobRecord /\ JobKept(round, Job)
  BY <1>1, StoreDoneFacts
<1>5. ~Exported'
  BY <1>4 DEF Exported, NoStore
<1>6. store.pc = "manifest" => /\ \A n \in Targets : SavedNs(n)
                               /\ Job.scope = "namespace" => Targets = {Job.ns}
                               /\ Job.scope = "full" => Targets = Ns
                               /\ Job.scope # "universe"
  BY RunningFacts DEF StoreProgress
<1>7. \A n : SavedNs(n)' <=> SavedNs(n)
  BY <1>2 DEF SavedNs
<1>8. universe = universeFile => universe' = universeFile'
  BY <1>2, <1>3
<1>9. CASE UNCHANGED <<flags, round>>
  <2>1. \A scope : Reported(scope)' <=> Reported(scope)
    BY <1>1, <1>9, ReportedFrame
  <2> QED BY <1>1, <1>2, <1>5, <1>7, <1>8, <1>9, <2>1, ComingFrame, UniverseFrame DEF Coming
<1> DEFINE Goes == /\ Job.scope = "namespace" /\ round'.pc = "storing"
                   /\ round'.want = round.want /\ round'.todo = round.todo \ {Job.ns}
                   /\ round'.todo # {} /\ UNCHANGED flags
<1>10. CASE Job.by = "round" /\ round.pc = "storing" /\ Goes
  <2>1. store.pc = "manifest" /\ Exported /\ Targets = {Job.ns} /\ UNCHANGED universeFile
    BY <1>3, <1>6, <1>10 DEF Exported
  <2>2. UniverseReported
    BY <2>1 DEF Coming, UniverseComing
  <2>3. \A scope : Reported(scope)' <=> Reported(scope)
    BY <1>1, <1>10, ReportedFrame
  <2>4. UniverseComing'
    BY <1>2, <2>1, <2>2, <2>3 DEF UniverseComing, UniverseReported
  <2>5. ASSUME NEW n \in Ns PROVE NamespaceComing(n)'
    <3>1. NamespaceComing(n) /\ round.todo # {}
      BY <1>10 DEF Coming
    <3>2. n = Job.ns => SavedNs(n)
      BY <1>6, <2>1
    <3> QED BY <1>1, <1>2, <1>7, <1>10, <2>3, <3>1, <3>2 DEF NamespaceComing, NamespaceReported, InFlight
  <2> QED BY <2>4, <2>5 DEF Coming
<1>11. CASE Job.by = "round" /\ round.pc = "storing" /\ RoundEnds /\ round.todo \ {Job.ns} = {}
  <2>1. RoundAsksFor(round, Job)
    BY <1>4, <1>11 DEF JobKept
  <2>2. ASSUME NEW n \in Ns PROVE NamespaceReported(n)
    <3>1. NamespaceComing(n)
      BY DEF Coming
    <3>2. CASE store.pc = "manifest" /\ Job.scope = "full"
      BY <1>6, <3>2 DEF NamespaceReported
    <3>3. CASE store.pc = "manifest" /\ Job.scope = "namespace"
      <4>1. "full" \notin round.want /\ round.todo = {Job.ns} /\ SavedNs(Job.ns)
        BY <1>6, <1>11, <2>1, <3>3 DEF RoundAsksFor
      <4> QED BY <1>11, <3>1, <4>1 DEF NamespaceComing, NamespaceReported
    <3>4. CASE Job.scope = "universe"
      <4>1. "full" \notin round.want /\ round.todo = {}
        BY <2>1, <3>4 DEF RoundAsksFor
      <4> QED BY <1>11, <3>1, <4>1 DEF NamespaceComing
    <3> QED BY <1>3, <1>4, <1>6, <3>2, <3>3, <3>4 DEF JobRecord, Scopes
  <2>3. \A n \in Ns : NamespaceComing(n)'
    BY <1>1, <1>2, <1>11, <2>2, RoundEndsTurns, NamespaceTurns
  <2>4. UniverseComing'
    <3>1. CASE universeFile' = universe
      BY <1>2, <3>1 DEF UniverseComing, UniverseReported
    <3>2. CASE store.pc = "manifest" /\ UNCHANGED universeFile
      <4>1. UniverseReported
        BY <1>11, <3>2 DEF Coming, UniverseComing, Exported
      <4> QED BY <1>1, <1>2, <1>11, <3>2, <4>1, RoundEndsTurns, UniverseTurns
    <3> QED BY <1>3, <3>1, <3>2
  <2> QED BY <2>3, <2>4 DEF Coming
<1>12. \/ UNCHANGED <<flags, round>>
       \/ Job.by = "round" /\ round.pc = "storing" /\ Goes
       \/ Job.by = "round" /\ round.pc = "storing" /\ RoundEnds /\ round.todo \ {Job.ns} = {}
  BY <1>1, StoreDoneFacts
<1> QED BY <1>9, <1>10, <1>11, <1>12

LEMMA OtherComing ==
    ASSUME Types, Coming, ExplicitStore \/ WorkspaceCloses \/ WorkspaceReopens \/ UNCHANGED vars
    PROVE  Coming'
<1>1. UNCHANGED <<content, hash, files, universe, universeFile, flags, round, edit, store>>
  BY DEF ExplicitStore, WorkspaceCloses, WorkspaceReopens, vars, database, disk, coordinator
<1>2. store.pc # "idle" => Job' = Job
  <2>1. ExplicitStore => (chain # <<>> => Job' = Job)
    BY ExplicitStoreTypes
  <2>2. ~ExplicitStore => UNCHANGED chain
    BY DEF WorkspaceCloses, WorkspaceReopens, vars
  <2> QED BY <2>1, <2>2, RunningFacts, SameJob
<1>3. \A scope : Reported(scope)' <=> Reported(scope)
  BY <1>1, ReportedFrame
<1>4. \A n : SavedNs(n)' <=> SavedNs(n)
  BY <1>1 DEF SavedNs
<1>5. Exported' <=> Exported
  BY <1>1, <1>2 DEF Exported
<1> QED BY <1>1, <1>3, <1>4, <1>5, ComingFrame, UniverseFrame DEF Coming

LEMMA ComingNext ==
    ASSUME Types, Types', EditsApart, CommandsUnscoped, StoreProgress, AllComing, [AutoSaveNext]_vars
    PROVE  AllComing'
<1> SUFFICES ASSUME history' = {} PROVE Coming'
  BY DEF AllComing, Coming
<1>1. history = {} /\ Coming
  BY HistoryKept DEF AllComing, Coming
<1>2. ~StoreFails
  BY StoreFailsTypes
<1> QED BY <1>1, <1>2, EditComing, RoundComing, FlushComing, StoreRunsComing, StoreEndsComing, OtherComing
       DEF AutoSaveNext, Store

RestInv == SaveInv /\ EditsApart /\ StoreProgress /\ CommandsUnscoped /\ AllComing

\* The inductive invariant of what will be saved.
THEOREM RestInvariant == ASSUME NoScopedCommands PROVE AutoSaveSpec => []RestInv
<1>1. AutoSaveInit => RestInv
  BY InitTypes, InitMarks, InitQuiet, InitComing DEF RestInv, SaveInv
<1>2. RestInv /\ [AutoSaveNext]_vars => RestInv'
  <2> SUFFICES ASSUME RestInv, [AutoSaveNext]_vars PROVE RestInv'
    OBVIOUS
  <2>1. Types'
    BY TypesNext DEF RestInv, SaveInv
  <2>2. SaveInv'
    BY <2>1, MarksNext DEF RestInv, SaveInv
  <2>3. EditsApart' /\ StoreProgress'
    BY <2>1, ApartNext, ProgressNext DEF RestInv, SaveInv
  <2>4. CommandsUnscoped' /\ AllComing'
    BY <2>1, CommandsNext, ComingNext DEF RestInv, SaveInv
  <2> QED BY <2>2, <2>3, <2>4 DEF RestInv
<1> QED BY <1>1, <1>2, PTL DEF AutoSaveSpec

\* When no edit is on its way and no round in flight or asked for, all is saved.
LEMMA NothingReported ==
    ASSUME RestInv, history = {}, ~InFlight, flags = {}, \A e \in Editors : edit[e].step = "idle"
    PROVE  Saved /\ hash = content
<1>1. Types /\ UniverseComing /\ \A n \in Ns : NamespaceComing(n)
  BY DEF RestInv, SaveInv, AllComing
<1>2. UniverseReported /\ \A n \in Ns : NamespaceReported(n)
  BY <1>1, NoRoundFacts
<1>3. \A scope : ~Reported(scope)
  BY DEF Reported
<1>4. universe = universeFile /\ \A n \in Ns : SavedNs(n)
  BY <1>2, <1>3 DEF UniverseReported, NamespaceReported
<1>5. content \in Contents /\ files \in Contents /\ hash \in Hashes
  BY <1>1 DEF Types, DataTypes
<1>6. content = files /\ hash = content
  BY <1>4, <1>5 DEF SavedNs, Contents, Hashes
<1> QED BY <1>4, <1>6 DEF Saved

\* When everything has come to rest, every edit is on disk, every hash is that
\* of the content and no flag is left over: for any number of namespaces,
\* editors, edits and stores of everything by commands.
\* (auto-save-coordinator.ts: runFlush; persistor-store.ts: storeImpl.)
THEOREM AutoSaveRestsSaved == ASSUME NoScopedCommands PROVE AutoSaveSpec => []RestMeansSaved
<1>1. RestInv => RestMeansSaved
  <2> SUFFICES ASSUME RestInv, history = {}, Idle PROVE Saved /\ hash = content /\ flags = {}
    BY DEF RestMeansSaved
  <2>1. flags = {}
    BY DEF RestInv, SaveInv, FlagsArmed, Armed, Idle
  <2> QED BY <2>1, NothingReported DEF Idle
<1> QED BY <1>1, RestInvariant, PTL

\* flush() settles only when everything that was acknowledged is on disk, with
\* a round in flight when it is called, and with edits acknowledged while it waits.
\* (auto-save-coordinator.ts: flush.)
THEOREM AutoSaveFlushSettles == ASSUME NoScopedCommands PROVE AutoSaveSpec => FlushSettlesSaved
<1>1. RestInv /\ [AutoSaveNext]_vars =>
        [ /\ flush.pc # "settled" /\ flush'.pc = "settled" /\ history = {}
          /\ \A e \in Editors : edit[e].step = "idle"
          => Saved ]_vars
  <2> SUFFICES ASSUME RestInv, AutoSaveNext, flush.pc # "settled", flush'.pc = "settled", history = {},
                      \A e \in Editors : edit[e].step = "idle"
               PROVE  Saved
    BY DEF vars
  <2>1. Flush
    BY DEF AutoSaveNext, Edit, EditNamespace, EditUniverse, InvalidateNamespaceHash, EditThrows,
           DispatchReturns, Round, TimerFires, RoundResolves, RoundQueries, RoundQueryFails, ExplicitStore,
           Store, StoreBegins, StoreExportsShared, StoreReadsNamespace, StoreSetsHash, StoreFixesOther,
           StoreWritesManifest, StoreUniverseOnly, StoreFails, WorkspaceCloses, WorkspaceReopens
  <2>2. flags = {} /\ ~InFlight
    BY <2>1 DEF Flush, FlushCalled, FlushResumes, FlushLoop, FlushIs
  <2> QED BY <2>2, NothingReported
<1> QED BY <1>1, RestInvariant, PTL DEF AutoSaveSpec, FlushSettlesSaved
=============================================================================
