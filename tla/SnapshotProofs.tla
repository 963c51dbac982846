--------------------------- MODULE SnapshotProofs ---------------------------
(***************************************************************************)
(* The snapshot and the database, for any namespaces, shared layers and    *)
(* number of events, as long as nothing else runs beside an evaluation, a  *)
(* load or a store, loads complete, and origins are written.  Stores may   *)
(* stop half-way and checkouts may go back.                                *)
(*                                                                         *)
(* A version is seen when it is not of those that came from outside and    *)
(* the database never held.  The invariant says where only seen versions   *)
(* are: in the database and in its origin at any time, in the baseline of  *)
(* a session without an open decision, and in the files of a store.        *)
(*                                                                         *)
(* The last part is about unsaved work, until a store stops half-way.      *)
(***************************************************************************)
EXTENDS SnapshotProperties, TLAPS

Undisturbed == Faults \subseteq {"store stops", "revert"}

Seen(x, v) == <<x, v>> \notin unseen

Times == 0..events
Stamps == [Domains -> Times]

ScopeNames == Namespaces \cup {"universe", "full"}

ServiceRecord == [pc : {"closed", "evaluating", "loading", "idle", "failed"},
                  by : {"none", "open", "recheck"}, manifest : Stamps \cup {<<>>}]

LoadRecord == [pc : {"clear", "import"}, by : {"open", "recheck", "command"},
               plan : SUBSET Domains, left : SUBSET Domains, manifest : Stamps,
               existing : [Namespaces -> Times \cup {Unknown}] \cup {<<>>}]

StoreRecord == [pc : {"write", "origin"}, scope : ScopeNames, override : BOOLEAN,
                left : SUBSET Domains, manifest : Stamps]

SyncTypes ==
    /\ events \in Nat /\ events <= MaxEvents
    /\ file \in Stamps /\ manifest \in Stamps /\ digest \in Stamps /\ previous \in Stamps
    /\ db \in [Domains -> Times \cup {Empty}]
    /\ d \in [Domains -> Times \cup {Unknown}]
    /\ baseline = NoBaseline \/ baseline \in Stamps
    /\ pending \in BOOLEAN
    /\ unseen \subseteq Domains \X (1..events)
    /\ service \in ServiceRecord
    /\ load = NoLoad \/ load \in LoadRecord
    /\ store = NoStore \/ store \in StoreRecord

\* Who runs beside whom.
Alternate ==
    /\ service.pc = "loading" <=> load.by \in {"open", "recheck"}
    /\ load # NoLoad => store = NoStore /\ service.pc \in {"idle", "loading"}
    /\ store # NoStore => service.pc = "idle"
    /\ service.pc = "evaluating" => service.manifest = manifest /\ service.by # "none"
    /\ service.pc = "loading" => ~pending

DatabaseSeen ==
    /\ \A x \in Domains : Seen(x, db[x]) /\ Seen(x, d[x])
    /\ \A x \in Shared : Seen(x, digest[x])

SessionSeen ==
    service.pc = "idle" =>
        /\ baseline # NoBaseline
        /\ ~pending => \A x \in Domains : /\ Seen(x, baseline[x])
                                          /\ manifest = baseline => Seen(x, file[x])

StoreSeen ==
    store # NoStore =>
        /\ store.override \/ ~pending
        /\ store.pc = "origin" => store.left = {} /\ store.manifest = manifest
        /\ \A x \in Domains : ~store.override \/ x \notin store.left =>
              Seen(x, file[x]) /\ Seen(x, store.manifest[x])
        /\ \A x \in Domains : ~store.override => Seen(x, manifest[x])
        /\ store.override => store.scope = "full"

LoadSeen ==
    load # NoLoad =>
        /\ load.manifest = file /\ manifest = file
        /\ load.left \subseteq load.plan /\ load.plan \subseteq Domains
        /\ load.pc = "clear" => load.left = load.plan
        /\ load.left \cap Namespaces # {} => Cross \in load.left
        /\ \A x \in Domains \ load.left : Seen(x, file[x])
        /\ load.pc = "import" => \A n \in Namespaces : Seen(n, load.existing[n])

\* Only a load that runs has cleared something, and it will fill it again.
Refilled ==
    \A x \in Domains : db[x] = Empty => load.pc = "import" /\ x \in load.left /\ x \notin Namespaces

SyncInv ==
    /\ SyncTypes /\ Alternate /\ DatabaseSeen /\ SessionSeen /\ StoreSeen /\ LoadSeen
    /\ Refilled

-----------------------------------------------------------------------------
LEMMA DomainFacts ==
    /\ "universe" \in Shared /\ Cross \in Shared /\ Cross \in Domains
    /\ "universe" \in Domains /\ Namespaces \subseteq Domains /\ Shared \subseteq Domains
    /\ \A x \in Shared : x \notin Namespaces
    /\ \A n \in Namespaces : n \notin Shared /\ n # "full"
    /\ "full" \notin Namespaces /\ MaxEvents \in Nat
BY SyncAssumption DEF SyncAssumption, Domains

\* What is recorded of the snapshot is never the absence of a record.
LEMMA RecordedBaseline == ASSUME NEW m \in Stamps PROVE m # NoBaseline
<1>1. "universe" \in DOMAIN m
  BY DomainFacts DEF Stamps
<1>2. DOMAIN NoBaseline = {}
  BY DEF NoBaseline
<1> QED BY <1>1, <1>2

LEMMA InitInv == SyncInit => SyncInv
<1> SUFFICES ASSUME SyncInit PROVE SyncInv
  OBVIOUS
<1>1. /\ file = [x \in Domains |-> 0] /\ manifest = file /\ db = file /\ d = file /\ digest = file
      /\ previous = file /\ events = 0 /\ unseen = {} /\ baseline = NoBaseline /\ pending = FALSE
      /\ service = Closed /\ load = NoLoad /\ store = NoStore
  BY DEF SyncInit
<1>2. MaxEvents \in Nat /\ file \in [Domains -> {0}]
  BY <1>1, DomainFacts
<1>3. SyncTypes
  <2>1. events \in Nat /\ events <= MaxEvents /\ 0 \in Times
    BY <1>1, <1>2 DEF Times
  <2>2. /\ file \in Stamps
        /\ file \in [Domains -> Times \cup {Empty}] /\ file \in [Domains -> Times \cup {Unknown}]
    BY <1>2, <2>1 DEF Stamps
  <2>3. service \in ServiceRecord
    BY <1>1 DEF ServiceRecord, Closed
  <2> QED BY ONLY <1>1, <2>1, <2>2, <2>3 DEF SyncTypes
<1>4. Alternate
  BY <1>1 DEF Alternate, Closed, NoLoad
<1>5. DatabaseSeen /\ StoreSeen /\ LoadSeen
  BY <1>1 DEF DatabaseSeen, StoreSeen, LoadSeen, Seen
<1>6. SessionSeen
  BY <1>1 DEF SessionSeen, Closed
<1>7. Refilled
  BY <1>1, <1>2 DEF Refilled, Empty
<1> QED BY <1>3, <1>4, <1>5, <1>6, <1>7 DEF SyncInv

\* A version of an event to come is not recorded anywhere.
LEMMA FreshFacts ==
    ASSUME SyncTypes
    PROVE  /\ Fresh \in Nat /\ Fresh \notin Times /\ Fresh # Empty /\ Fresh # Unknown
           /\ Empty \notin Times /\ Unknown \notin Times
           /\ Times \subseteq 0..Fresh /\ 1..events \subseteq 1..Fresh /\ Fresh \in 1..Fresh
           /\ Fresh \in 0..Fresh
           /\ \A x : Seen(x, Fresh) /\ Seen(x, Empty) /\ Seen(x, Unknown)
<1>1. events \in Nat /\ unseen \subseteq Domains \X (1..events)
  BY DEF SyncTypes
<1>2. \A x, v : <<x, v>> \in unseen => v \in 1..events
  BY <1>1
<1>3. /\ Fresh \in Nat /\ Fresh \notin Times /\ Fresh # Empty /\ Fresh # Unknown
      /\ Empty \notin Times /\ Unknown \notin Times
      /\ Times \subseteq 0..Fresh /\ 1..events \subseteq 1..Fresh /\ Fresh \in 1..Fresh
      /\ Fresh \in 0..Fresh
      /\ Fresh \notin 1..events /\ Empty \notin 1..events /\ Unknown \notin 1..events
  BY <1>1 DEF Fresh, Times, Empty, Unknown
<1> QED BY <1>2, <1>3 DEF Seen

\* What was typed before an event still is.
LEMMA TypesGrow ==
    ASSUME SyncTypes, Happens
    PROVE  /\ events' \in Nat /\ events' <= MaxEvents
           /\ Times' = 0..Fresh /\ Times \subseteq Times' /\ Fresh \in Times' /\ 1..events' = 1..Fresh
           /\ file \in Stamps' /\ manifest \in Stamps' /\ digest \in Stamps' /\ previous \in Stamps'
           /\ db \in [Domains -> Times' \cup {Empty}]
           /\ d \in [Domains -> Times' \cup {Unknown}]
           /\ baseline = NoBaseline \/ baseline \in Stamps'
           /\ unseen \subseteq Domains \X (1..events')
           /\ service \in ServiceRecord'
           /\ load = NoLoad \/ load \in LoadRecord'
           /\ store = NoStore \/ store \in StoreRecord'
<1>1. events \in Nat /\ events' = Fresh /\ events < MaxEvents /\ MaxEvents \in Nat /\ Fresh = events + 1
  BY DomainFacts DEF SyncTypes, Happens, Fresh
<1>2. events' \in Nat /\ events' <= MaxEvents
  BY <1>1
<1>3. Times' = 0..Fresh /\ Times \subseteq Times' /\ Fresh \in Times' /\ 1..events' = 1..Fresh
  BY <1>1 DEF Times
<1>4. Stamps \subseteq Stamps'
  BY <1>3 DEF Stamps
<1>5. /\ file \in Stamps' /\ manifest \in Stamps' /\ digest \in Stamps' /\ previous \in Stamps'
      /\ baseline = NoBaseline \/ baseline \in Stamps'
  BY <1>4 DEF SyncTypes
<1>6. /\ db \in [Domains -> Times' \cup {Empty}]
      /\ d \in [Domains -> Times' \cup {Unknown}]
  BY <1>3 DEF SyncTypes
<1>7. unseen \subseteq Domains \X (1..events')
  <2>1. unseen \subseteq Domains \X (1..events) /\ 1..events \subseteq 1..Fresh
    BY FreshFacts DEF SyncTypes
  <2> QED BY <1>3, <2>1
<1>8. service \in ServiceRecord'
  <2>1. service \in ServiceRecord
    BY DEF SyncTypes
  <2> QED BY <1>4, <2>1 DEF ServiceRecord
<1>9. load = NoLoad \/ load \in LoadRecord'
  <2>1. load = NoLoad \/ load \in LoadRecord
    BY DEF SyncTypes
  <2>2. [Namespaces -> Times \cup {Unknown}] \subseteq [Namespaces -> Times' \cup {Unknown}]
    BY <1>3
  <2> QED BY <1>4, <2>1, <2>2 DEF LoadRecord
<1>10. store = NoStore \/ store \in StoreRecord'
  <2>1. store = NoStore \/ store \in StoreRecord
    BY DEF SyncTypes
  <2> QED BY <1>4, <2>1 DEF StoreRecord
<1> QED BY <1>2, <1>3, <1>5, <1>6, <1>7, <1>8, <1>9, <1>10

LEMMA UndisturbedFacts ==
    ASSUME Undisturbed
    PROVE  /\ "commit during" \notin Faults /\ "overlap" \notin Faults /\ "load stops" \notin Faults
           /\ "origin lost" \notin Faults /\ "plain load" \notin Faults
           /\ "repair any time" \notin Faults
BY DEF Undisturbed

\* The parts that the world outside leaves alone, with the session and the
\* database at rest.
LEMMA RestingParts ==
    ASSUME SyncInv, Quiet, Happens, UNCHANGED <<database, session, load, store>>,
           file' \in Stamps', manifest' \in Stamps', previous' \in Stamps',
           unseen' \subseteq Domains \X (1..events'),
           \A x, v : v \in Times \cup {Empty, Unknown} => (Seen(x, v) => Seen(x, v)')
    PROVE  /\ SyncTypes' /\ Alternate' /\ DatabaseSeen' /\ StoreSeen' /\ LoadSeen' /\ Refilled'
           /\ load = NoLoad /\ store = NoStore
<1>1. /\ load = NoLoad /\ store = NoStore /\ service.pc \in {"closed", "idle", "failed"}
      /\ db' = db /\ d' = d /\ digest' = digest /\ baseline' = baseline /\ pending' = pending
      /\ service' = service /\ load' = load /\ store' = store
  BY DEF Quiet, database, session
<1>2. SyncTypes'
  <2>1. pending \in BOOLEAN
    BY DEF SyncInv, SyncTypes
  <2>2. SyncTypes
    BY DEF SyncInv
  <2> QED BY <1>1, <2>1, <2>2, TypesGrow DEF SyncTypes
<1>3. Alternate'
  <2>1. service.pc # "evaluating"
    BY <1>1
  <2>2. Alternate
    BY DEF SyncInv
  <2> QED BY ONLY <1>1, <2>1, <2>2 DEF Alternate
<1>4. DatabaseSeen'
  <2>1. DatabaseSeen /\ SyncTypes
    BY DEF SyncInv
  <2>2. /\ \A x \in Domains : db[x] \in Times \cup {Empty, Unknown} /\ d[x] \in Times \cup {Empty, Unknown}
        /\ \A x \in Shared : digest[x] \in Times
    BY <2>1, DomainFacts DEF SyncTypes, Stamps
  <2> QED BY <1>1, <2>1, <2>2 DEF DatabaseSeen
<1>5. StoreSeen' /\ LoadSeen'
  BY <1>1 DEF StoreSeen, LoadSeen
<1>6. Refilled'
  BY <1>1 DEF SyncInv, Refilled
<1> QED BY <1>1, <1>2, <1>3, <1>4, <1>5, <1>6

LEMMA CommitInv ==
    ASSUME Undisturbed, SyncInv, NEW x \in Domains, Commit({x})
    PROVE  SyncInv'
<1>0. SyncTypes
  BY DEF SyncInv
<1>1. /\ Quiet /\ Happens
      /\ file' = [y \in Domains |-> IF y \in {x} THEN Fresh ELSE file[y]]
      /\ manifest' = [y \in Domains |-> IF y \in {x} THEN Fresh ELSE manifest[y]]
      /\ unseen' = unseen \cup {<<y, Fresh>> : y \in {x}}
      /\ previous' = manifest
      /\ UNCHANGED <<database, session, load, store>>
  BY UndisturbedFacts DEF Commit
<1>2. /\ Fresh \in Times' /\ Times' = 0..Fresh /\ 1..events' = 1..Fresh
      /\ file \in Stamps' /\ manifest \in Stamps' /\ unseen \subseteq Domains \X (1..events')
      /\ Fresh \in 1..Fresh /\ Fresh \notin Times /\ Fresh # Empty /\ Fresh # Unknown
  BY <1>0, <1>1, TypesGrow, FreshFacts
<1>3. file' \in Stamps' /\ manifest' \in Stamps' /\ previous' \in Stamps'
  BY ONLY <1>1, <1>2 DEF Stamps
<1>4. unseen' \subseteq Domains \X (1..events')
  <2>1. <<x, Fresh>> \in Domains \X (1..events')
    BY <1>2
  <2>2. unseen' \subseteq unseen \cup {<<x, Fresh>>}
    BY <1>1
  <2> QED BY ONLY <1>2, <2>1, <2>2
<1>5. \A y, v : v \in Times \cup {Empty, Unknown} => (Seen(y, v) => Seen(y, v)')
  BY <1>1, <1>2 DEF Seen
<1>6. /\ SyncTypes' /\ Alternate' /\ DatabaseSeen' /\ StoreSeen' /\ LoadSeen' /\ Refilled'
      /\ load = NoLoad /\ store = NoStore
  BY <1>1, <1>3, <1>4, <1>5, RestingParts
<1>7. SessionSeen'
  <2> SUFFICES ASSUME service'.pc = "idle" PROVE SessionSeen'
    BY DEF SessionSeen
  <2>1. service' = service /\ baseline' = baseline /\ pending' = pending
    BY <1>1 DEF session
  <2>2. /\ baseline # NoBaseline /\ baseline \in Stamps
        /\ ~pending => \A y \in Domains : Seen(y, baseline[y])
    BY <2>1 DEF SyncInv, SessionSeen, SyncTypes
  <2>3. \A y \in Domains : baseline[y] \in Times
    BY <2>2 DEF Stamps
  <2>4. manifest'[x] = Fresh /\ baseline[x] # Fresh
    BY <1>1, <1>2, <2>3
  <2>5. ~pending => \A y \in Domains : Seen(y, baseline[y])'
    BY <1>5, <2>1, <2>2, <2>3
  <2> QED BY <2>1, <2>2, <2>4, <2>5 DEF SessionSeen
<1> QED BY <1>6, <1>7 DEF SyncInv

LEMMA RevertInv ==
    ASSUME SyncInv, Revert
    PROVE  SyncInv'
<1>0. SyncTypes
  BY DEF SyncInv
<1>1. /\ Quiet /\ Happens /\ file' = previous /\ manifest' = previous /\ previous' = manifest
      /\ unseen' = unseen /\ UNCHANGED <<database, session, load, store>>
  BY DEF Revert
<1>2. /\ file' \in Stamps' /\ manifest' \in Stamps' /\ previous' \in Stamps'
      /\ unseen' \subseteq Domains \X (1..events')
  BY <1>0, <1>1, TypesGrow
<1>3. \A y, v : v \in Times \cup {Empty, Unknown} => (Seen(y, v) => Seen(y, v)')
  BY <1>1 DEF Seen
<1>4. SyncTypes' /\ Alternate' /\ DatabaseSeen' /\ StoreSeen' /\ LoadSeen' /\ Refilled'
  BY <1>1, <1>2, <1>3, RestingParts
<1>5. SessionSeen'
  BY <1>1 DEF SyncInv, SessionSeen, session, Seen
<1> QED BY <1>4, <1>5 DEF SyncInv

LEMMA HandEditInv ==
    ASSUME SyncInv, NEW x \in Domains, HandEdit(x)
    PROVE  SyncInv'
<1>0. SyncTypes
  BY DEF SyncInv
<1>1. /\ Quiet /\ Happens /\ file' = [file EXCEPT ![x] = Fresh]
      /\ manifest' = manifest /\ previous' = previous
      /\ unseen' = IF service.pc = "closed" THEN unseen \cup {<<x, Fresh>>} ELSE unseen
      /\ UNCHANGED <<database, session, load, store>>
  BY DEF HandEdit
<1>2. /\ Fresh \in Times' /\ 1..events' = 1..Fresh
      /\ file \in Stamps' /\ manifest \in Stamps' /\ previous \in Stamps'
      /\ unseen \subseteq Domains \X (1..events')
      /\ Fresh \in 1..Fresh /\ Fresh \notin Times /\ Fresh # Empty /\ Fresh # Unknown
      /\ Seen(x, Fresh)
  BY <1>0, <1>1, TypesGrow, FreshFacts
<1>3. file' \in Stamps' /\ manifest' \in Stamps' /\ previous' \in Stamps'
  BY ONLY <1>1, <1>2 DEF Stamps
<1>4. unseen' \subseteq Domains \X (1..events')
  <2>1. <<x, Fresh>> \in Domains \X (1..events')
    BY <1>2
  <2>2. unseen' \subseteq unseen \cup {<<x, Fresh>>}
    BY <1>1
  <2> QED BY ONLY <1>2, <2>1, <2>2
<1>5. \A y, v : v \in Times \cup {Empty, Unknown} => (Seen(y, v) => Seen(y, v)')
  BY <1>1, <1>2 DEF Seen
<1>6. SyncTypes' /\ Alternate' /\ DatabaseSeen' /\ StoreSeen' /\ LoadSeen' /\ Refilled'
  BY <1>1, <1>3, <1>4, <1>5, RestingParts
<1>7. SessionSeen'
  <2> SUFFICES ASSUME service'.pc = "idle" PROVE SessionSeen'
    BY DEF SessionSeen
  <2>1. /\ service' = service /\ baseline' = baseline /\ pending' = pending /\ manifest' = manifest
        /\ unseen' = unseen
    BY <1>1 DEF session
  <2>2. \A y \in Domains : file'[y] = file[y] \/ (y = x /\ file'[y] = Fresh)
    BY <1>0, <1>1 DEF SyncTypes, Stamps
  <2>3. SessionSeen
    BY DEF SyncInv
  <2> QED BY <1>2, <2>1, <2>2, <2>3 DEF SessionSeen, Seen
<1> QED BY <1>6, <1>7 DEF SyncInv

LEMMA StopInv ==
    ASSUME Undisturbed, SyncInv, Stop
    PROVE  SyncInv'
<1>0. SyncTypes /\ DatabaseSeen /\ Refilled
  BY DEF SyncInv
<1>1. /\ load.pc # "import" /\ Happens
      /\ baseline' = NoBaseline /\ pending' = FALSE /\ service' = Closed
      /\ load' = NoLoad /\ store' = NoStore
      /\ file' = file /\ manifest' = manifest /\ db' = db /\ d' = d /\ digest' = digest
      /\ unseen' = unseen /\ previous' = previous
  BY UndisturbedFacts DEF Stop, disk, database, ghosts
<1>2. service' \in ServiceRecord' /\ service'.pc = "closed" /\ load'.by = "none"
  BY <1>1 DEF ServiceRecord, Closed, NoLoad
<1>3. SyncTypes'
  BY <1>0, <1>1, <1>2, TypesGrow DEF SyncTypes
<1>4. Alternate' /\ SessionSeen' /\ StoreSeen' /\ LoadSeen'
  BY <1>1, <1>2 DEF Alternate, SessionSeen, StoreSeen, LoadSeen
<1>5. DatabaseSeen'
  BY <1>0, <1>1 DEF DatabaseSeen, Seen
<1>6. Refilled'
  BY <1>0, <1>1 DEF Refilled
<1> QED BY <1>3, <1>4, <1>5, <1>6 DEF SyncInv

\* A store and an edit find the workspace open and nothing else under way.
LEMMA UsableFacts ==
    ASSUME Undisturbed, Usable
    PROVE  service.pc = "idle" /\ load = NoLoad
BY UndisturbedFacts DEF Usable

LEMMA EditInv ==
    ASSUME Undisturbed, SyncInv, NEW n \in Namespaces, NEW x \in Shared \cup {n}, Edit(x, n)
    PROVE  SyncInv'
<1>0. SyncTypes /\ DatabaseSeen /\ Refilled /\ Alternate /\ SessionSeen /\ StoreSeen
  BY DEF SyncInv
<1>1. /\ Happens /\ db' = [db EXCEPT ![x] = Fresh]
      /\ d' = IF x \in {n, Cross} THEN [d EXCEPT ![n] = Unknown] ELSE d
      /\ baseline' = baseline /\ pending' = pending /\ service' = service
      /\ load' = load /\ store' = store
      /\ file' = file /\ manifest' = manifest /\ digest' = digest
      /\ unseen' = unseen /\ previous' = previous
  BY DEF Edit, disk, session, ghosts
<1>2. x \in Domains /\ n \in Domains /\ load = NoLoad
  BY DomainFacts, UsableFacts DEF Edit, Domains
<1>3. Fresh # Empty /\ \A y : Seen(y, Fresh) /\ Seen(y, Unknown)
  BY <1>0, FreshFacts
<1>4. SyncTypes'
  <2>1. db' \in [Domains -> Times' \cup {Empty}] /\ d' \in [Domains -> Times' \cup {Unknown}]
    BY <1>0, <1>1, TypesGrow
  <2>2. pending \in BOOLEAN
    BY <1>0 DEF SyncTypes
  <2> QED BY <1>0, <1>1, <2>1, <2>2, TypesGrow DEF SyncTypes
<1>5. Alternate'
  BY ONLY <1>0, <1>1 DEF Alternate
<1>6. DatabaseSeen'
  <2>1. /\ \A y \in Domains : db'[y] = db[y] \/ db'[y] = Fresh
        /\ \A y \in Domains : d'[y] = d[y] \/ d'[y] = Unknown
    BY <1>0, <1>1, <1>2 DEF SyncTypes
  <2>2. \A y \in Domains : Seen(y, db'[y]) /\ Seen(y, d'[y])
    BY ONLY <1>0, <1>3, <2>1 DEF DatabaseSeen
  <2>3. unseen' = unseen /\ digest' = digest
    BY <1>1
  <2> QED BY ONLY <1>0, <2>2, <2>3 DEF DatabaseSeen, Seen
<1>7. SessionSeen' /\ StoreSeen'
  BY <1>0, <1>1 DEF SessionSeen, StoreSeen, Seen
<1>8. LoadSeen' /\ Refilled'
  <2>1. \A y \in Domains : db'[y] = db[y] \/ db'[y] = Fresh
    BY <1>0, <1>1, <1>2 DEF SyncTypes
  <2> QED BY <1>0, <1>1, <1>2, <1>3, <2>1 DEF LoadSeen, Refilled
<1> QED BY <1>4, <1>5, <1>6, <1>7, <1>8 DEF SyncInv

LEMMA WrittenFacts ==
    ASSUME NEW scope \in ScopeNames
    PROVE  Written(scope) \subseteq Domains /\ Written("full") = Domains
<1>1. Written("full") = Domains
  BY DEF Written
<1>2. CASE scope = "full"
  BY <1>1, <1>2
<1>3. CASE scope = "universe"
  BY <1>3, DomainFacts DEF Written
<1>4. CASE scope \in Namespaces
  <2>1. scope # "full" /\ scope # "universe"
    BY <1>4, DomainFacts
  <2>2. Written(scope) = Shared \cup {scope}
    BY <2>1 DEF Written
  <2> QED BY <1>1, <1>4, <2>2, DomainFacts
<1> QED BY <1>1, <1>2, <1>3, <1>4 DEF ScopeNames

\* The fence: a store that is let through finds only seen versions.
LEMMA StoreBeginsInv ==
    ASSUME Undisturbed, SyncInv, NEW scope \in ScopeNames, NEW override \in BOOLEAN,
           StoreBegins(scope, override)
    PROVE  SyncInv'
<1>0. SyncTypes /\ DatabaseSeen /\ Refilled /\ Alternate /\ SessionSeen
  BY DEF SyncInv
<1>1. /\ service.pc = "idle" /\ load = NoLoad /\ store = NoStore
      /\ IF override THEN scope = "full" ELSE ~Refused
      /\ store' = [pc |-> "write", scope |-> scope, override |-> override,
                   left |-> Written(scope), manifest |-> manifest]
      /\ baseline' = baseline /\ pending' = pending /\ service' = service /\ load' = load
      /\ file' = file /\ manifest' = manifest /\ db' = db /\ d' = d /\ digest' = digest
      /\ unseen' = unseen /\ previous' = previous /\ events' = events
  BY UsableFacts DEF StoreBegins, disk, database, session, ghosts
<1>2. /\ Times' = Times /\ Stamps' = Stamps /\ ServiceRecord' = ServiceRecord
      /\ LoadRecord' = LoadRecord /\ StoreRecord' = StoreRecord
  BY <1>1 DEF Times, Stamps, ServiceRecord, LoadRecord, StoreRecord
<1>3. manifest \in Stamps /\ Written(scope) \subseteq Domains /\ Written("full") = Domains
  BY <1>0, WrittenFacts DEF SyncTypes
<1>4. store' \in StoreRecord
  BY ONLY <1>1, <1>3, scope \in ScopeNames, override \in BOOLEAN DEF StoreRecord
<1>5. SyncTypes'
  BY <1>0, <1>1, <1>2, <1>4 DEF SyncTypes
<1>6. Alternate' /\ DatabaseSeen' /\ SessionSeen' /\ LoadSeen' /\ Refilled'
  BY <1>0, <1>1 DEF Alternate, DatabaseSeen, SessionSeen, LoadSeen, Refilled, Seen
<1>7. /\ store'.pc = "write" /\ store'.scope = scope /\ store'.override = override
      /\ store'.left = Written(scope) /\ store'.manifest = manifest
  BY <1>1
<1>8. StoreSeen'
  <2>1. CASE override
    BY <1>1, <1>3, <1>7, <2>1 DEF StoreSeen
  <2>2. CASE ~override
    <3>1. ~pending /\ manifest = baseline
      BY <1>0, <1>1, <2>2 DEF Refused, Drifted, SessionSeen
    <3>2. \A y \in Domains : Seen(y, file[y]) /\ Seen(y, manifest[y])
      BY <1>0, <1>1, <3>1 DEF SessionSeen
    <3> QED BY <1>1, <1>7, <2>2, <3>1, <3>2 DEF StoreSeen, Seen
  <2> QED BY <2>1, <2>2
<1> QED BY <1>5, <1>6, <1>8 DEF SyncInv

LEMMA StoreWritesInv ==
    ASSUME SyncInv, NEW X \in SUBSET Domains, StoreWrites(X)
    PROVE  SyncInv'
<1>0. SyncTypes /\ DatabaseSeen /\ Refilled /\ Alternate /\ SessionSeen /\ StoreSeen
  BY DEF SyncInv
<1>1. /\ store.pc = "write"
      /\ file' = [x \in Domains |-> IF x \in X THEN db[x] ELSE file[x]]
      /\ d' = [x \in Domains |-> IF x \in X \cap Namespaces THEN db[x] ELSE d[x]]
      /\ store' = [store EXCEPT !.left = @ \ X,
                     !.manifest = [x \in Domains |-> IF x \in X THEN db[x] ELSE @[x]]]
      /\ baseline' = baseline /\ pending' = pending /\ service' = service /\ load' = load
      /\ manifest' = manifest /\ db' = db /\ digest' = digest
      /\ unseen' = unseen /\ previous' = previous /\ events' = events
  BY DEF StoreWrites, session
<1>2. /\ Times' = Times /\ Stamps' = Stamps /\ ServiceRecord' = ServiceRecord
      /\ LoadRecord' = LoadRecord /\ StoreRecord' = StoreRecord
  BY <1>1 DEF Times, Stamps, ServiceRecord, LoadRecord, StoreRecord
<1>3. /\ store # NoStore /\ store \in StoreRecord /\ load = NoLoad
      /\ file \in Stamps /\ db \in [Domains -> Times \cup {Empty}] /\ d \in [Domains -> Times \cup {Unknown}]
  BY <1>0, <1>1 DEF SyncTypes, Alternate, NoStore
<1>4. \A x \in Domains : db[x] \in Times /\ Seen(x, db[x])
  <2>1. load.pc # "import"
    BY <1>3 DEF NoLoad
  <2> QED BY <1>0, <1>3, <2>1 DEF Refilled, DatabaseSeen
<1>5. /\ store.left \subseteq Domains /\ store.manifest \in Stamps
      /\ store'.pc = "write" /\ store'.override = store.override /\ store'.scope = store.scope
      /\ store'.left = store.left \ X
      /\ store'.manifest = [x \in Domains |-> IF x \in X THEN db[x] ELSE store.manifest[x]]
      /\ store' # NoStore
  BY ONLY <1>1, <1>3 DEF StoreRecord, NoStore
<1>6. file' \in Stamps /\ store'.manifest \in Stamps /\ d' \in [Domains -> Times \cup {Unknown}]
  BY <1>1, <1>3, <1>4, <1>5 DEF Stamps
<1>7. store' \in StoreRecord
  BY ONLY <1>1, <1>3, <1>5, <1>6 DEF StoreRecord
<1>8. SyncTypes'
  BY <1>0, <1>1, <1>2, <1>6, <1>7 DEF SyncTypes
<1>9. Alternate' /\ Refilled' /\ LoadSeen'
  BY <1>0, <1>1, <1>3 DEF Alternate, Refilled, LoadSeen
<1>10. /\ \A x \in Domains : file'[x] = IF x \in X THEN db[x] ELSE file[x]
       /\ \A x \in Domains : store'.manifest[x] = IF x \in X THEN db[x] ELSE store.manifest[x]
       /\ \A x \in Domains : d'[x] = db[x] \/ d'[x] = d[x]
  BY <1>1, <1>5
<1>11. DatabaseSeen'
  BY <1>0, <1>1, <1>4, <1>10 DEF DatabaseSeen, Seen
<1>12. SessionSeen'
  BY <1>0, <1>1, <1>4, <1>10 DEF SessionSeen, Seen
<1>13. StoreSeen'
  BY <1>0, <1>1, <1>3, <1>4, <1>5, <1>10 DEF StoreSeen, Seen
<1> QED BY <1>8, <1>9, <1>11, <1>12, <1>13 DEF SyncInv

\* Between events the types are the same sets.
LEMMA SameTimes ==
    ASSUME events' = events
    PROVE  /\ Times' = Times /\ Stamps' = Stamps /\ ServiceRecord' = ServiceRecord
           /\ LoadRecord' = LoadRecord /\ StoreRecord' = StoreRecord
BY DEF Times, Stamps, ServiceRecord, LoadRecord, StoreRecord

LEMMA StoreWritesManifestInv ==
    ASSUME SyncInv, StoreWritesManifest
    PROVE  SyncInv'
<1>0. SyncTypes /\ DatabaseSeen /\ Refilled /\ Alternate /\ SessionSeen /\ StoreSeen
  BY DEF SyncInv
<1>1. /\ store.pc = "write" /\ store.left = {}
      /\ manifest' = IF store.scope = "universe"
                       THEN [manifest EXCEPT !["universe"] = store.manifest["universe"]]
                       ELSE store.manifest
      /\ store' = [store EXCEPT !.pc = "origin", !.manifest = manifest']
      /\ baseline' = baseline /\ pending' = pending /\ service' = service /\ load' = load
      /\ file' = file /\ db' = db /\ d' = d /\ digest' = digest
      /\ unseen' = unseen /\ previous' = previous /\ events' = events
  BY DEF StoreWritesManifest, database, session, ghosts
<1>2. /\ Times' = Times /\ Stamps' = Stamps /\ ServiceRecord' = ServiceRecord
      /\ LoadRecord' = LoadRecord /\ StoreRecord' = StoreRecord
  BY <1>1, SameTimes
<1>3. store # NoStore /\ store \in StoreRecord /\ load = NoLoad /\ manifest \in Stamps
  BY <1>0, <1>1 DEF SyncTypes, Alternate, NoStore
<1>4. store.manifest \in Stamps
  BY <1>3 DEF StoreRecord
<1>5. /\ manifest' \in Stamps
      /\ \A x \in Domains : \/ manifest'[x] = store.manifest[x]
                            \/ manifest'[x] = manifest[x] /\ store.scope = "universe"
  BY <1>1, <1>3, <1>4, DomainFacts DEF Stamps
<1>6. /\ store'.pc = "origin" /\ store'.override = store.override /\ store'.scope = store.scope
      /\ store'.left = {} /\ store'.manifest = manifest' /\ store' # NoStore
  BY ONLY <1>1, <1>3 DEF StoreRecord, NoStore
<1>7. store' \in StoreRecord
  BY ONLY <1>1, <1>3, <1>5 DEF StoreRecord
<1>8. SyncTypes'
  BY <1>0, <1>1, <1>2, <1>5, <1>7 DEF SyncTypes
<1>9. Alternate' /\ Refilled' /\ LoadSeen' /\ DatabaseSeen'
  <2>1. service.pc = "idle"
    BY <1>0, <1>3 DEF Alternate
  <2>2. Alternate'
    BY ONLY <1>0, <1>1, <1>3, <2>1 DEF Alternate
  <2> QED BY <1>0, <1>1, <1>3, <2>2 DEF Refilled, LoadSeen, DatabaseSeen, Seen
<1>10. \A x \in Domains : Seen(x, file[x]) /\ Seen(x, store.manifest[x])
  BY <1>0, <1>1, <1>3 DEF StoreSeen
<1>11. \A x \in Domains : Seen(x, manifest'[x])
  <2>1. store.scope = "universe" => ~store.override
    BY <1>0, <1>3 DEF StoreSeen
  <2>2. ~store.override => \A x \in Domains : Seen(x, manifest[x])
    BY <1>0, <1>3 DEF StoreSeen
  <2> QED BY ONLY <1>5, <1>10, <2>1, <2>2
<1>12. SessionSeen'
  BY <1>0, <1>1, <1>10 DEF SessionSeen, Seen
<1>13. StoreSeen'
  <2>1. store.override \/ ~pending
    BY <1>0, <1>3 DEF StoreSeen
  <2>2. store.override => store.scope = "full"
    BY <1>0, <1>3 DEF StoreSeen
  <2>3. file' = file /\ unseen' = unseen /\ pending' = pending
    BY <1>1
  <2> QED BY ONLY <1>6, <1>10, <1>11, <2>1, <2>2, <2>3 DEF StoreSeen, Seen
<1> QED BY <1>8, <1>9, <1>12, <1>13 DEF SyncInv

LEMMA StoreFailsInv ==
    ASSUME SyncInv, StoreFails
    PROVE  SyncInv'
<1>0. SyncTypes /\ DatabaseSeen /\ Refilled /\ Alternate /\ SessionSeen /\ LoadSeen
  BY DEF SyncInv
<1>1. /\ Happens /\ store' = NoStore /\ store.pc = "write"
      /\ baseline' = baseline /\ pending' = pending /\ service' = service /\ load' = load
      /\ file' = file /\ manifest' = manifest /\ db' = db /\ d' = d /\ digest' = digest
      /\ unseen' = unseen /\ previous' = previous
  BY DEF StoreFails, disk, database, session, ghosts
<1>2. pending \in BOOLEAN
  BY <1>0 DEF SyncTypes
<1>3. SyncTypes'
  BY <1>0, <1>1, <1>2, TypesGrow DEF SyncTypes
<1>4. Alternate'
  BY ONLY <1>0, <1>1 DEF Alternate
<1>5. DatabaseSeen' /\ SessionSeen' /\ LoadSeen'
  BY ONLY <1>0, <1>1 DEF DatabaseSeen, SessionSeen, LoadSeen, Seen
<1>6. Refilled' /\ StoreSeen'
  BY ONLY <1>0, <1>1 DEF Refilled, StoreSeen
<1> QED BY <1>3, <1>4, <1>5, <1>6 DEF SyncInv

LEMMA StoreEndsInv ==
    ASSUME Undisturbed, SyncInv, StoreEnds
    PROVE  SyncInv'
<1>0. SyncTypes /\ DatabaseSeen /\ Refilled /\ Alternate /\ SessionSeen /\ StoreSeen
  BY DEF SyncInv
<1>1. /\ store.pc = "origin"
      /\ d' = [x \in Domains |-> IF x \in Shared THEN store.manifest[x] ELSE d[x]]
      /\ digest' = store.manifest
      /\ baseline' = manifest /\ pending' = (pending /\ ~store.override) /\ store' = NoStore
      /\ service' = service /\ load' = load
      /\ file' = file /\ manifest' = manifest /\ db' = db
      /\ unseen' = unseen /\ previous' = previous /\ events' = events
  BY UndisturbedFacts DEF StoreEnds, OriginFrom, disk, ghosts
<1>2. /\ Times' = Times /\ Stamps' = Stamps /\ ServiceRecord' = ServiceRecord
      /\ LoadRecord' = LoadRecord /\ StoreRecord' = StoreRecord
  BY <1>1, SameTimes
<1>3. store # NoStore /\ store \in StoreRecord /\ load = NoLoad /\ manifest \in Stamps
  BY <1>0, <1>1 DEF SyncTypes, Alternate, NoStore
<1>4. store.manifest = manifest /\ \A x \in Domains : Seen(x, file[x]) /\ Seen(x, manifest[x])
  BY <1>0, <1>1, <1>3 DEF StoreSeen
<1>5. manifest # NoBaseline
  BY <1>3, RecordedBaseline
<1>6. SyncTypes'
  <2>1. pending \in BOOLEAN /\ store.override \in BOOLEAN
    BY <1>0, <1>3 DEF SyncTypes, StoreRecord
  <2>2. d' \in [Domains -> Times \cup {Unknown}]
    BY <1>0, <1>1, <1>3, <1>4 DEF SyncTypes, Stamps
  <2>3. pending' \in BOOLEAN /\ baseline' \in Stamps /\ digest' \in Stamps
    BY <1>1, <1>3, <1>4, <2>1
  <2> QED BY <1>0, <1>1, <1>2, <2>2, <2>3 DEF SyncTypes
<1>7. Alternate'
  <2>1. service.pc = "idle"
    BY <1>0, <1>3 DEF Alternate
  <2> QED BY ONLY <1>0, <1>1, <1>3, <2>1 DEF Alternate
<1>8. DatabaseSeen'
  <2>1. \A x \in Domains : Seen(x, db[x]) /\ Seen(x, d'[x])
    BY <1>0, <1>1, <1>4 DEF DatabaseSeen
  <2>2. \A x \in Shared : Seen(x, digest'[x])
    BY <1>1, <1>4, DomainFacts
  <2> QED BY ONLY <1>1, <2>1, <2>2 DEF DatabaseSeen, Seen
<1>9. SessionSeen'
  BY ONLY <1>1, <1>4, <1>5 DEF SessionSeen, Seen
<1>10. Refilled' /\ LoadSeen' /\ StoreSeen'
  BY ONLY <1>0, <1>1, <1>3 DEF Refilled, LoadSeen, StoreSeen
<1> QED BY <1>6, <1>7, <1>8, <1>9, <1>10 DEF SyncInv

\* An evaluation is the service's and touches nothing.
LEMMA EvaluationBeginsInv ==
    ASSUME SyncInv, NEW by \in {"open", "recheck"}, NEW p \in BOOLEAN,
           service' = [pc |-> "evaluating", by |-> by, manifest |-> manifest],
           pending' = p, load = NoLoad, store = NoStore,
           UNCHANGED <<disk, database, baseline, load, store, ghosts, events>>
    PROVE  SyncInv'
<1>0. SyncTypes /\ DatabaseSeen /\ Refilled /\ Alternate
  BY DEF SyncInv
<1>1. /\ baseline' = baseline /\ load' = load /\ store' = store
      /\ file' = file /\ manifest' = manifest /\ db' = db /\ d' = d /\ digest' = digest
      /\ unseen' = unseen /\ previous' = previous /\ events' = events
  BY DEF disk, database, ghosts
<1>2. /\ Times' = Times /\ Stamps' = Stamps /\ ServiceRecord' = ServiceRecord
      /\ LoadRecord' = LoadRecord /\ StoreRecord' = StoreRecord
  BY <1>1, SameTimes
<1>3. /\ service' \in ServiceRecord /\ service'.pc = "evaluating" /\ service'.manifest = manifest
      /\ service'.by = by /\ load'.by = "none"
  <2>1. manifest \in Stamps
    BY <1>0 DEF SyncTypes
  <2> QED BY <1>1, <2>1 DEF ServiceRecord, NoLoad
<1>4. SyncTypes'
  BY <1>0, <1>1, <1>2, <1>3 DEF SyncTypes
<1>5. Alternate'
  BY <1>1, <1>3 DEF Alternate
<1>6. DatabaseSeen' /\ SessionSeen' /\ StoreSeen' /\ LoadSeen'
  BY <1>0, <1>1, <1>3 DEF DatabaseSeen, SessionSeen, StoreSeen, LoadSeen, Seen
<1>7. Refilled'
  BY <1>0, <1>1 DEF Refilled
<1> QED BY <1>4, <1>5, <1>6, <1>7 DEF SyncInv

LEMMA OpenInv == ASSUME SyncInv, Open PROVE SyncInv'
<1>1. /\ service.pc = "closed" /\ pending' = FALSE
      /\ service' = [pc |-> "evaluating", by |-> "open", manifest |-> manifest]
      /\ UNCHANGED <<disk, database, baseline, load, store, ghosts, events>>
  BY DEF Open
<1>2. load = NoLoad /\ store = NoStore
  BY <1>1 DEF SyncInv, Alternate
<1> QED BY <1>1, <1>2, EvaluationBeginsInv

LEMMA RecheckInv == ASSUME Undisturbed, SyncInv, Recheck PROVE SyncInv'
<1>1. /\ load = NoLoad /\ store = NoStore /\ pending' = pending
      /\ service' = [pc |-> "evaluating", by |-> "recheck", manifest |-> manifest]
      /\ UNCHANGED <<disk, database, baseline, load, store, ghosts, events>>
  BY UndisturbedFacts DEF Recheck
<1>2. pending \in BOOLEAN
  BY DEF SyncInv, SyncTypes
<1> QED BY <1>1, <1>2, EvaluationBeginsInv

\* A repair makes the manifest what the files are.
LEMMA RepairedFacts ==
    ASSUME SyncTypes
    PROVE  Repaired(manifest, Domains) = file
<1>1. file \in [Domains -> Times]
  BY DEF SyncTypes, Stamps
<1>2. Repaired(manifest, Domains) = [x \in Domains |-> file[x]]
  BY DEF Repaired
<1> QED BY <1>1, <1>2

\* A load that begins with a manifest that says what the files are.
LEMMA LoadBeginsFacts ==
    ASSUME SyncTypes, NEW by \in {"open", "recheck", "command"}, NEW plan \in SUBSET Domains,
           plan \cap Namespaces # {} => Cross \in plan,
           \A x \in Domains \ plan : Seen(x, file[x]),
           LoadBegins(by, plan, file), manifest' = file, file' = file, unseen' = unseen
    PROVE  load' \in LoadRecord /\ LoadSeen' /\ load'.by = by /\ load'.pc = "clear"
<1>1. file \in Stamps
  BY DEF SyncTypes
<1>2. load' = [pc |-> "clear", by |-> by, plan |-> plan, left |-> plan, manifest |-> file,
               existing |-> <<>>]
  BY DEF LoadBegins
<1>3. load' \in LoadRecord
  BY ONLY <1>1, <1>2, by \in {"open", "recheck", "command"}, plan \in SUBSET Domains DEF LoadRecord
<1>4. /\ load'.pc = "clear" /\ load'.by = by /\ load'.plan = plan /\ load'.left = plan
      /\ load'.manifest = file
  BY <1>2
<1>5. LoadSeen'
  BY <1>4 DEF LoadSeen, Seen
<1> QED BY <1>3, <1>4, <1>5

LEMMA CommandLoadInv ==
    ASSUME Undisturbed, SyncInv, NEW accept \in BOOLEAN, CommandLoad(accept)
    PROVE  SyncInv'
<1>0. SyncTypes /\ DatabaseSeen /\ Refilled /\ Alternate /\ SessionSeen
  BY DEF SyncInv
<1>1. /\ service.pc = "idle" /\ load = NoLoad /\ store = NoStore
      /\ manifest' = file /\ LoadBegins("command", Domains, file)
      /\ baseline' = baseline /\ pending' = pending /\ service' = service /\ store' = store
      /\ file' = file /\ db' = db /\ d' = d /\ digest' = digest
      /\ unseen' = unseen /\ previous' = previous /\ events' = events
  BY <1>0, UndisturbedFacts, RepairedFacts DEF CommandLoad, database, session
<1>2. /\ Times' = Times /\ Stamps' = Stamps /\ ServiceRecord' = ServiceRecord
      /\ LoadRecord' = LoadRecord /\ StoreRecord' = StoreRecord
  BY <1>1, SameTimes
<1>3. load' \in LoadRecord /\ LoadSeen' /\ load'.by = "command" /\ load'.pc = "clear"
  BY <1>0, <1>1, DomainFacts, LoadBeginsFacts
<1>4. SyncTypes'
  BY <1>0, <1>1, <1>2, <1>3 DEF SyncTypes
<1>5. Alternate'
  BY ONLY <1>0, <1>1, <1>3 DEF Alternate
<1>6. DatabaseSeen' /\ StoreSeen'
  BY ONLY <1>0, <1>1 DEF DatabaseSeen, StoreSeen, Seen
<1>7. SessionSeen'
  BY ONLY <1>0, <1>1 DEF SessionSeen, Seen
<1>8. Refilled'
  BY ONLY <1>0, <1>1 DEF Refilled, NoLoad
<1> QED BY <1>3, <1>4, <1>5, <1>6, <1>7, <1>8 DEF SyncInv

LEMMA LoadClearsInv ==
    ASSUME SyncInv, LoadClears
    PROVE  SyncInv'
<1>0. SyncTypes /\ DatabaseSeen /\ Refilled /\ Alternate /\ SessionSeen /\ LoadSeen
  BY DEF SyncInv
<1>1. /\ load.pc = "clear"
      /\ db' = [x \in Domains |-> IF x \in load.plan \cap Shared THEN Empty ELSE db[x]]
      /\ load' = [load EXCEPT !.pc = "import", !.existing = [n \in Namespaces |-> d[n]]]
      /\ baseline' = baseline /\ pending' = pending /\ service' = service /\ store' = store
      /\ file' = file /\ manifest' = manifest /\ d' = d /\ digest' = digest
      /\ unseen' = unseen /\ previous' = previous /\ events' = events
  BY DEF LoadClears, disk, session, ghosts
<1>2. /\ Times' = Times /\ Stamps' = Stamps /\ ServiceRecord' = ServiceRecord
      /\ LoadRecord' = LoadRecord /\ StoreRecord' = StoreRecord
  BY <1>1, SameTimes
<1>3. load # NoLoad /\ load \in LoadRecord /\ store = NoStore
  BY <1>0, <1>1 DEF SyncTypes, Alternate, NoLoad
<1>4. /\ db \in [Domains -> Times \cup {Empty}]
      /\ [n \in Namespaces |-> d[n]] \in [Namespaces -> Times \cup {Unknown}]
  BY <1>0, DomainFacts DEF SyncTypes
<1>5. /\ load'.pc = "import" /\ load'.by = load.by /\ load'.plan = load.plan
      /\ load'.left = load.left /\ load'.manifest = load.manifest
      /\ load'.existing = [n \in Namespaces |-> d[n]] /\ load' # NoLoad
  BY ONLY <1>1, <1>3 DEF LoadRecord, NoLoad
<1>6. load' \in LoadRecord
  BY ONLY <1>1, <1>3, <1>4 DEF LoadRecord
<1>7. db' \in [Domains -> Times \cup {Empty}]
  BY ONLY <1>1, <1>4
<1>8. SyncTypes'
  BY <1>0, <1>1, <1>2, <1>6, <1>7 DEF SyncTypes
<1>9. /\ \A x \in Domains : db'[x] = db[x] \/ (db'[x] = Empty /\ x \in load.plan /\ x \in Shared)
      /\ \A x \in Domains : db'[x] = db[x] \/ Seen(x, db'[x])
  BY <1>0, <1>1, FreshFacts
<1>10. \A x \in Domains : db[x] # Empty
  BY <1>0, <1>1 DEF Refilled
<1>11. Alternate'
  BY ONLY <1>0, <1>1, <1>3, <1>5 DEF Alternate
<1>12. DatabaseSeen'
  <2>1. \A x \in Domains : Seen(x, db'[x])
    BY <1>0, <1>9 DEF DatabaseSeen
  <2>2. unseen' = unseen /\ digest' = digest /\ d' = d
    BY <1>1
  <2> QED BY ONLY <1>0, <2>1, <2>2 DEF DatabaseSeen, Seen
<1>13. SessionSeen' /\ StoreSeen'
  BY ONLY <1>0, <1>1, <1>3 DEF SessionSeen, StoreSeen, Seen
<1>14. LoadSeen'
  <2>1. \A n \in Namespaces : Seen(n, load'.existing[n])
    BY <1>0, <1>5, DomainFacts DEF DatabaseSeen
  <2>2. /\ load.manifest = file /\ manifest = file /\ load.left \subseteq load.plan
        /\ load.plan \subseteq Domains /\ (load.left \cap Namespaces # {} => Cross \in load.left)
        /\ \A x \in Domains \ load.left : Seen(x, file[x])
    BY <1>0, <1>3 DEF LoadSeen
  <2>3. file' = file /\ manifest' = manifest /\ unseen' = unseen
    BY <1>1
  <2> QED BY ONLY <1>5, <2>1, <2>2, <2>3 DEF LoadSeen, Seen
<1>15. Refilled'
  <2>1. load.left = load.plan
    BY <1>0, <1>1, <1>3 DEF LoadSeen
  <2>2. \A x \in Domains : db'[x] = Empty => x \in load.left /\ x \in Shared
    BY <1>9, <1>10, <2>1
  <2> QED BY ONLY <1>5, <2>2, DomainFacts DEF Refilled
<1> QED BY <1>8, <1>11, <1>12, <1>13, <1>14, <1>15 DEF SyncInv

\* What an import that takes a domain off its list needs to show.
LEMMA ImportStep ==
    ASSUME SyncInv, NEW x \in Domains, load.pc = "import", x \in load.left,
           load' = [load EXCEPT !.left = @ \ {x}],
           UNCHANGED <<disk, digest, session, store, previous, events>>,
           db' \in [Domains -> Times \cup {Empty}], d' \in [Domains -> Times \cup {Unknown}],
           unseen' \subseteq unseen,
           \A y \in Domains : Seen(y, db[y])' /\ Seen(y, d[y])',
           Seen(x, file[x])',
           \A y \in Domains : db'[y] = Empty => y \in load.left \ {x} /\ y \notin Namespaces,
           x = Cross => load.left \cap Namespaces = {}
    PROVE  SyncInv'
<1>0. SyncTypes /\ DatabaseSeen /\ Alternate /\ SessionSeen /\ LoadSeen
  BY DEF SyncInv
<1>1. /\ baseline' = baseline /\ pending' = pending /\ service' = service /\ store' = store
      /\ file' = file /\ manifest' = manifest /\ digest' = digest
      /\ previous' = previous /\ events' = events
  BY DEF disk, session
<1>2. /\ Times' = Times /\ Stamps' = Stamps /\ ServiceRecord' = ServiceRecord
      /\ LoadRecord' = LoadRecord /\ StoreRecord' = StoreRecord
  BY <1>1, SameTimes
<1>3. load # NoLoad /\ load \in LoadRecord /\ store = NoStore
  BY <1>0 DEF SyncTypes, Alternate, NoLoad
<1>4. /\ load'.pc = "import" /\ load'.by = load.by /\ load'.plan = load.plan
      /\ load'.left = load.left \ {x} /\ load'.manifest = load.manifest
      /\ load'.existing = load.existing /\ load' # NoLoad
  BY ONLY <1>3, load.pc = "import", load' = [load EXCEPT !.left = @ \ {x}] DEF LoadRecord, NoLoad
<1>5. load' \in LoadRecord
  BY ONLY <1>3, load' = [load EXCEPT !.left = @ \ {x}] DEF LoadRecord
<1>6. unseen' \subseteq Domains \X (1..events)
  BY <1>0 DEF SyncTypes
<1>7. SyncTypes'
  BY <1>0, <1>1, <1>2, <1>5, <1>6 DEF SyncTypes
<1>8. Alternate'
  BY ONLY <1>0, <1>1, <1>3, <1>4 DEF Alternate
<1>9. \A y, v : Seen(y, v) => Seen(y, v)'
  BY DEF Seen
<1>10. DatabaseSeen'
  BY ONLY <1>0, <1>1, <1>9, \A y \in Domains : Seen(y, db[y])' /\ Seen(y, d[y])' DEF DatabaseSeen, Seen
<1>11. SessionSeen' /\ StoreSeen'
  BY ONLY <1>0, <1>1, <1>3, <1>9 DEF SessionSeen, StoreSeen, Seen
<1>12. LoadSeen'
  <2>1. /\ load.manifest = file /\ manifest = file /\ load.left \subseteq load.plan
        /\ load.plan \subseteq Domains /\ (load.left \cap Namespaces # {} => Cross \in load.left)
        /\ \A y \in Domains \ load.left : Seen(y, file[y])
        /\ \A n \in Namespaces : Seen(n, load.existing[n])
    BY <1>0, <1>3 DEF LoadSeen
  <2>2. \A y \in Domains \ load'.left : Seen(y, file[y])'
    BY <1>1, <1>4, <1>9, <2>1
  <2>3. \A n \in Namespaces : Seen(n, load.existing[n])'
    BY <1>9, <2>1
  <2>4. load'.left \cap Namespaces # {} => Cross \in load'.left
    BY <1>4, <2>1
  <2>5. load'.left \subseteq load'.plan /\ load'.plan \subseteq Domains
    BY <1>4, <2>1
  <2>6. load'.pc # "clear" /\ load'.manifest = file /\ load'.existing = load.existing
    BY <1>4, <2>1
  <2> QED BY ONLY <1>1, <2>1, <2>2, <2>3, <2>4, <2>5, <2>6 DEF LoadSeen, Seen
<1>13. Refilled'
  BY <1>4 DEF Refilled
<1> QED BY <1>7, <1>8, <1>10, <1>11, <1>12, <1>13 DEF SyncInv

LEMMA LoadNamespaceInv ==
    ASSUME SyncInv, NEW n \in Namespaces, LoadNamespace(n)
    PROVE  SyncInv'
<1>0. SyncTypes /\ DatabaseSeen /\ Alternate /\ LoadSeen /\ Refilled
  BY DEF SyncInv
<1>1. /\ load.pc = "import" /\ n \in load.left /\ load' = [load EXCEPT !.left = @ \ {n}]
      /\ UNCHANGED <<disk, digest, session, store, previous, events>>
  BY DEF LoadNamespace
<1>2. /\ n \in Domains /\ Cross \in Domains /\ n # Cross /\ Cross \notin Namespaces
      /\ load # NoLoad /\ Empty \notin Times /\ file' = file
  BY <1>0, <1>1, DomainFacts, FreshFacts DEF NoLoad, disk
<1>3. load.manifest = file /\ Cross \in load.left
  BY <1>0, <1>1, <1>2 DEF LoadSeen
<1>4. /\ db \in [Domains -> Times \cup {Empty}] /\ d \in [Domains -> Times \cup {Unknown}]
      /\ file \in [Domains -> Times]
  BY <1>0 DEF SyncTypes, Stamps
<1>5. CASE load.existing[n] = load.manifest[n] /\ UNCHANGED <<db, d, unseen, held>>
  <2>1. Seen(n, load.existing[n])
    BY <1>0, <1>1, <1>2 DEF LoadSeen
  <2>2. Seen(n, file[n])'
    BY <1>2, <1>3, <1>5, <2>1 DEF Seen
  <2>3. \A y \in Domains : Seen(y, db[y])' /\ Seen(y, d[y])'
    BY <1>0, <1>5 DEF DatabaseSeen, Seen
  <2>4. \A y \in Domains : db'[y] = Empty => y \in load.left \ {n} /\ y \notin Namespaces
    BY <1>0, <1>5 DEF Refilled
  <2> QED BY <1>1, <1>2, <1>4, <1>5, <2>2, <2>3, <2>4, ImportStep
<1>6. CASE /\ db' = [db EXCEPT ![n] = file[n], ![Cross] = Empty]
           /\ d' = [d EXCEPT ![n] = load.manifest[n]]
           /\ Consumes(n)
  <2>1. unseen' = unseen \ {<<n, file[n]>>}
    BY <1>6 DEF Consumes
  <2>2. Seen(n, file[n])' /\ \A y, v : Seen(y, v) => Seen(y, v)'
    BY <1>2, <2>1 DEF Seen
  <2>3. /\ \A y \in Domains \ {n, Cross} : db'[y] = db[y] /\ d'[y] = d[y]
        /\ db'[n] = file[n] /\ d'[n] = file[n] /\ db'[Cross] = Empty /\ d'[Cross] = d[Cross]
    BY <1>2, <1>3, <1>4, <1>6
  <2>4. \A y \in Domains : Seen(y, db[y]) /\ Seen(y, d[y]) /\ Seen(y, Empty)
    BY <1>0, FreshFacts DEF DatabaseSeen
  <2>5. \A y \in Domains : Seen(y, db[y])' /\ Seen(y, d[y])'
    <3>1. Seen(n, db[n])' /\ Seen(n, d[n])'
      BY <1>2, <2>2, <2>3 DEF Seen
    <3>2. \A y \in Domains \ {n} : Seen(y, db'[y]) /\ Seen(y, d'[y])
      BY <2>3, <2>4
    <3> QED BY <2>1, <3>1, <3>2 DEF Seen
  <2>6. \A y \in Domains : db'[y] = Empty => y \in load.left \ {n} /\ y \notin Namespaces
    BY <1>0, <1>2, <1>3, <1>4, <2>3 DEF Refilled
  <2>7. db' \in [Domains -> Times \cup {Empty}] /\ d' \in [Domains -> Times \cup {Unknown}]
    BY <1>2, <1>3, <1>4, <1>6
  <2> QED BY <1>1, <1>2, <2>1, <2>2, <2>5, <2>6, <2>7, ImportStep
<1> QED BY <1>5, <1>6 DEF LoadNamespace

LEMMA LoadSharedInv ==
    ASSUME SyncInv, NEW x \in Domains, LoadShared(x)
    PROVE  SyncInv'
<1>0. SyncTypes /\ DatabaseSeen /\ Alternate /\ LoadSeen /\ Refilled
  BY DEF SyncInv
<1>1. /\ load.pc = "import" /\ x \in load.left /\ load' = [load EXCEPT !.left = @ \ {x}]
      /\ x = "sourcemaster" \/ load.left \cap Namespaces = {}
      /\ db' = [db EXCEPT ![x] = file[x]] /\ d' = d /\ file' = file
      /\ unseen' = unseen \ {<<x, file[x]>>}
      /\ UNCHANGED <<disk, digest, session, store, previous, events>>
  BY DEF LoadShared, Consumes, disk
<1>2. Empty \notin Times /\ (x = Cross => load.left \cap Namespaces = {})
  BY <1>0, <1>1, FreshFacts DEF Cross
<1>3. /\ db \in [Domains -> Times \cup {Empty}] /\ d \in [Domains -> Times \cup {Unknown}]
      /\ file \in [Domains -> Times]
  BY <1>0 DEF SyncTypes, Stamps
<1>4. \A y \in Domains : db'[y] = IF y = x THEN file[x] ELSE db[y]
  BY <1>1, <1>3
<1>5. Seen(x, file[x])'
  BY <1>1 DEF Seen
<1>6. \A y \in Domains : Seen(y, db[y])' /\ Seen(y, d[y])'
  <2>1. \A y \in Domains : Seen(y, db[y]) /\ Seen(y, d[y])
    BY <1>0 DEF DatabaseSeen
  <2>2. \A y \in Domains : y # x => db'[y] = db[y]
    BY <1>4
  <2>3. db'[x] = file[x] /\ unseen' = unseen \ {<<x, file[x]>>} /\ d' = d
    BY <1>1, <1>4
  <2> QED BY ONLY <2>1, <2>2, <2>3 DEF Seen
<1>7. \A y \in Domains : db'[y] = Empty => y \in load.left \ {x} /\ y \notin Namespaces
  BY <1>0, <1>2, <1>3, <1>4 DEF Refilled
<1>8. db' \in [Domains -> Times \cup {Empty}] /\ d' \in [Domains -> Times \cup {Unknown}]
  BY <1>1, <1>3
<1>9. unseen' \subseteq unseen
  BY <1>1
<1> QED BY <1>1, <1>2, <1>5, <1>6, <1>7, <1>8, <1>9, ImportStep

LEMMA LoadEndsInv ==
    ASSUME SyncInv, LoadEnds
    PROVE  SyncInv'
<1>0. SyncTypes /\ DatabaseSeen /\ Alternate /\ LoadSeen /\ Refilled
  BY DEF SyncInv
<1>1. /\ load.pc = "import" /\ load.left = {}
      /\ d' = [x \in Domains |-> IF x \in Shared THEN load.manifest[x] ELSE d[x]]
      /\ digest' = load.manifest /\ load' = NoLoad /\ baseline' = manifest
      /\ pending' = (pending /\ load.by # "command")
      /\ service' = IF load.by = "command" THEN service ELSE [Closed EXCEPT !.pc = "idle"]
      /\ file' = file /\ manifest' = manifest /\ db' = db /\ store' = store
      /\ unseen' = unseen /\ previous' = previous /\ events' = events
  BY DEF LoadEnds, OriginFrom, disk, ghosts
<1>2. /\ Times' = Times /\ Stamps' = Stamps /\ ServiceRecord' = ServiceRecord
      /\ LoadRecord' = LoadRecord /\ StoreRecord' = StoreRecord
  BY <1>1, SameTimes
<1>3. load # NoLoad /\ load \in LoadRecord /\ store = NoStore /\ manifest \in Stamps
  BY <1>0, <1>1 DEF SyncTypes, Alternate, NoLoad
<1>4. load.manifest = manifest /\ manifest = file /\ \A x \in Domains : Seen(x, file[x])
  BY <1>0, <1>1, <1>3 DEF LoadSeen
<1>5. /\ service' \in ServiceRecord
      /\ load.by = "command" => service' = service /\ service'.pc = "idle"
      /\ load.by # "command" => service'.pc = "idle"
  <2>1. service \in ServiceRecord
    BY <1>0 DEF SyncTypes
  <2>2. load.by = "command" => service.pc = "idle"
    BY <1>0, <1>3 DEF Alternate
  <2>3. [Closed EXCEPT !.pc = "idle"] = [pc |-> "idle", by |-> "none", manifest |-> <<>>]
    BY DEF Closed
  <2>4. [Closed EXCEPT !.pc = "idle"] \in ServiceRecord /\ [Closed EXCEPT !.pc = "idle"].pc = "idle"
    BY <2>3 DEF ServiceRecord
  <2> QED BY ONLY <1>1, <2>1, <2>2, <2>4
<1>6. SyncTypes'
  <2>1. d' \in [Domains -> Times \cup {Unknown}]
    BY <1>0, <1>1, <1>3, <1>4 DEF SyncTypes, Stamps
  <2>2. pending' \in BOOLEAN /\ baseline' \in Stamps /\ digest' \in Stamps
    BY <1>0, <1>1, <1>3, <1>4 DEF SyncTypes
  <2> QED BY <1>0, <1>1, <1>2, <1>5, <2>1, <2>2 DEF SyncTypes
<1>7. Alternate'
  <2>1. service'.pc = "idle" /\ load'.by = "none" /\ load' = NoLoad /\ store' = NoStore
    BY <1>1, <1>3, <1>5 DEF NoLoad
  <2> QED BY ONLY <2>1 DEF Alternate
<1>8. DatabaseSeen'
  <2>1. \A x \in Domains : Seen(x, db[x]) /\ Seen(x, d'[x])
    BY <1>0, <1>1, <1>4 DEF DatabaseSeen
  <2>2. \A x \in Shared : Seen(x, digest'[x])
    BY <1>1, <1>4, DomainFacts
  <2> QED BY ONLY <1>1, <2>1, <2>2 DEF DatabaseSeen, Seen
<1>9. SessionSeen'
  <2>1. manifest # NoBaseline
    BY <1>3, RecordedBaseline
  <2> QED BY ONLY <1>1, <1>4, <2>1 DEF SessionSeen, Seen
<1>10. StoreSeen' /\ LoadSeen' /\ Refilled'
  BY ONLY <1>0, <1>1, <1>3 DEF StoreSeen, LoadSeen, Refilled
<1> QED BY <1>6, <1>7, <1>8, <1>9, <1>10 DEF SyncInv

LEMMA LoadFailsInv ==
    ASSUME Undisturbed, SyncInv, LoadFails
    PROVE  SyncInv'
<1>0. SyncTypes /\ DatabaseSeen /\ Alternate /\ SessionSeen /\ LoadSeen /\ Refilled
  BY DEF SyncInv
<1>1. /\ load' = NoLoad
      /\ IF load.by = "command"
           THEN service' = service /\ baseline' = baseline
           ELSE /\ service' = [Closed EXCEPT !.pc = IF load.by = "open" THEN "failed" ELSE "idle"]
                /\ baseline' = manifest
      /\ pending' = pending /\ store' = store
      /\ file' = file /\ manifest' = manifest /\ db' = db /\ d' = d /\ digest' = digest
      /\ unseen' = unseen /\ previous' = previous /\ events' = events
  BY DEF LoadFails, OpenReturns, disk, database, ghosts
<1>2. /\ Times' = Times /\ Stamps' = Stamps /\ ServiceRecord' = ServiceRecord
      /\ LoadRecord' = LoadRecord /\ StoreRecord' = StoreRecord
  BY <1>1, SameTimes
<1>3. load.pc = "clear" /\ load.by # "recheck"
  <2>1. load.pc = "import" => load.manifest = file
    BY <1>0 DEF LoadSeen, NoLoad
  <2>2. \A n \in Namespaces : load.pc = "import" => file[n] = load.manifest[n]
    BY <2>1
  <2> QED BY <2>2, UndisturbedFacts DEF LoadFails
<1>4. load # NoLoad /\ load \in LoadRecord /\ store = NoStore /\ manifest \in Stamps
  BY <1>0, <1>3 DEF SyncTypes, Alternate, NoLoad
<1>5. /\ service' \in ServiceRecord /\ service'.pc \in {"idle", "failed"}
      /\ service'.pc = "idle" => service' = service /\ baseline' = baseline
      /\ baseline' = NoBaseline \/ baseline' \in Stamps
  <2>1. service \in ServiceRecord /\ (baseline = NoBaseline \/ baseline \in Stamps)
    BY <1>0 DEF SyncTypes
  <2>2. load.by = "command" => service.pc = "idle"
    BY <1>0, <1>4 DEF Alternate
  <2>3. CASE load.by = "command"
    BY ONLY <1>1, <2>1, <2>2, <2>3
  <2>4. CASE load.by = "open"
    <3>1. service' = [pc |-> "failed", by |-> "none", manifest |-> <<>>]
      BY <1>1, <2>4 DEF Closed
    <3>2. service' \in ServiceRecord /\ service'.pc = "failed"
      BY <3>1 DEF ServiceRecord
    <3> QED BY ONLY <1>1, <1>4, <2>4, <3>2
  <2> QED BY <1>3, <1>4, <2>3, <2>4 DEF LoadRecord
<1>6. SyncTypes'
  BY <1>0, <1>1, <1>2, <1>5 DEF SyncTypes
<1>7. Alternate'
  <2>1. load'.by = "none" /\ load' = NoLoad /\ store' = NoStore
    BY <1>1, <1>4 DEF NoLoad
  <2> QED BY ONLY <1>5, <2>1 DEF Alternate
<1>8. DatabaseSeen'
  BY ONLY <1>0, <1>1 DEF DatabaseSeen, Seen
<1>9. SessionSeen'
  BY ONLY <1>0, <1>1, <1>5 DEF SessionSeen, Seen
<1>10. StoreSeen' /\ LoadSeen'
  BY ONLY <1>1, <1>4 DEF StoreSeen, LoadSeen
<1>11. Refilled'
  BY <1>0, <1>1, <1>3 DEF Refilled
<1> QED BY <1>6, <1>7, <1>8, <1>9, <1>10, <1>11 DEF SyncInv

LEMMA RepairManifestInv ==
    ASSUME Undisturbed, SyncInv, RepairManifest
    PROVE  SyncInv'
<1>0. SyncTypes /\ DatabaseSeen /\ Alternate /\ SessionSeen /\ LoadSeen /\ Refilled
  BY DEF SyncInv
<1>1. /\ load = NoLoad /\ store = NoStore /\ service.pc \in {"closed", "idle", "failed"}
      /\ service.pc = "idle" => pending
      /\ manifest' = file /\ baseline' = file
      /\ pending' = pending /\ service' = service /\ load' = load /\ store' = store
      /\ file' = file /\ db' = db /\ d' = d /\ digest' = digest
      /\ unseen' = unseen /\ previous' = previous /\ events' = events
  BY <1>0, RepairedFacts, UndisturbedFacts DEF RepairManifest, RepairOffered, Quiet, database
<1>2. /\ Times' = Times /\ Stamps' = Stamps /\ ServiceRecord' = ServiceRecord
      /\ LoadRecord' = LoadRecord /\ StoreRecord' = StoreRecord
  BY <1>1, SameTimes
<1>3. SyncTypes'
  BY <1>0, <1>1, <1>2 DEF SyncTypes
<1>4. file # NoBaseline
  BY <1>0, RecordedBaseline DEF SyncTypes
<1>5. Alternate'
  BY ONLY <1>0, <1>1 DEF Alternate
<1>6. DatabaseSeen'
  BY ONLY <1>0, <1>1 DEF DatabaseSeen, Seen
<1>7. SessionSeen'
  BY ONLY <1>1, <1>4 DEF SessionSeen
<1>8. StoreSeen' /\ LoadSeen' /\ Refilled'
  BY ONLY <1>0, <1>1 DEF StoreSeen, LoadSeen, Refilled
<1> QED BY <1>3, <1>5, <1>6, <1>7, <1>8 DEF SyncInv

\* What the five states say of a domain: the manifest is the files' in S1 and
\* S2, and the database has consumed them in S1 and S4.
LEMMA StateFacts ==
    ASSUME NEW m, NEW f, NEW c
    PROVE  /\ StateOf(m, f, c) \in {"S1", "S2", "S3", "S4", "S5"}
           /\ StateOf(m, f, c) \in {"S1", "S2"} => m = f
           /\ StateOf(m, f, c) \in {"S1", "S4"} => c = f
BY DEF StateOf

LEMMA EvaluationFacts ==
    ASSUME SyncInv, NEW x \in Domains
    PROVE  /\ Evaluation(manifest)[x] \in {"S1", "S2", "S3", "S4", "S5"}
           /\ Evaluation(manifest)[x] \in {"S1", "S2"} => manifest[x] = file[x]
           /\ Evaluation(manifest)[x] \in {"S1", "S4"} => Seen(x, file[x])
<1> DEFINE consumed == IF x \in Shared /\ digest = manifest THEN manifest[x] ELSE d[x]
<1>1. Evaluation(manifest)[x] = StateOf(manifest[x], file[x], consumed)
  BY DEF Evaluation
<1>2. Seen(x, consumed)
  BY DEF SyncInv, DatabaseSeen
<1> HIDE DEF consumed
<1> QED BY <1>1, <1>2, StateFacts

LEMMA OutcomeFacts ==
    ASSUME NEW states
    PROVE  /\ Outcome(states) = "consistent"
                => \A x \in Domains : states[x] \notin {"S2", "S3", "S4", "S5"}
           /\ Outcome(states) = "repair_manifest"
                => \A x \in Domains : states[x] \notin {"S2", "S3", "S5"}
           /\ Outcome(states) = "load" => \A x \in Domains : states[x] \notin {"S3", "S5"}
           /\ Outcome(states) \in {"needs_decision", "load", "repair_manifest", "consistent"}
<1> DEFINE some(S) == \E x \in Domains : states[x] \in S
<1>1. CASE some({"S3", "S5"})
  <2>1. Outcome(states) = "needs_decision"
    BY <1>1, Zenon DEF Outcome
  <2> QED BY <2>1
<1>2. CASE ~some({"S3", "S5"}) /\ some({"S2"})
  <2>1. Outcome(states) = "load"
    BY <1>2, Zenon DEF Outcome
  <2> QED BY <1>2, <2>1
<1>3. CASE ~some({"S3", "S5"}) /\ ~some({"S2"}) /\ some({"S4"})
  <2>1. ~some({"S2", "S3", "S5"})
    BY <1>3
  <2>2. Outcome(states) = "repair_manifest"
    BY <1>3, <2>1, Zenon DEF Outcome
  <2> QED BY <2>1, <2>2
<1>4. CASE ~some({"S3", "S5"}) /\ ~some({"S2"}) /\ ~some({"S4"})
  <2>1. Outcome(states) = "consistent"
    BY <1>4, Zenon DEF Outcome
  <2> QED BY <1>4, <2>1
<1> QED BY <1>1, <1>2, <1>3, <1>4

\* The evaluation ends and leaves the workspace open.
LEMMA EvaluationReturns ==
    ASSUME SyncInv, service.pc = "evaluating", OpenReturns("idle", manifest'),
           manifest' \in {manifest, file}, pending' \in BOOLEAN,
           ~pending' => \A x \in Domains : Seen(x, manifest'[x]) /\ Seen(x, file[x]),
           UNCHANGED <<file, database, load, store, ghosts, events>>
    PROVE  SyncInv'
<1>0. SyncTypes /\ DatabaseSeen /\ Refilled /\ Alternate
  BY DEF SyncInv
<1>1. /\ service' = [Closed EXCEPT !.pc = "idle"] /\ baseline' = manifest'
      /\ load' = load /\ store' = store /\ file' = file /\ db' = db /\ d' = d /\ digest' = digest
      /\ unseen' = unseen /\ previous' = previous /\ events' = events
  BY DEF OpenReturns, database, ghosts
<1>2. /\ Times' = Times /\ Stamps' = Stamps /\ ServiceRecord' = ServiceRecord
      /\ LoadRecord' = LoadRecord /\ StoreRecord' = StoreRecord
  BY <1>1, SameTimes
<1>3. load = NoLoad /\ store = NoStore /\ manifest' \in Stamps
  BY <1>0 DEF SyncTypes, Alternate
<1>4. service' \in ServiceRecord /\ service'.pc = "idle"
  <2>1. service' = [pc |-> "idle", by |-> "none", manifest |-> <<>>]
    BY <1>1 DEF Closed
  <2> QED BY <2>1 DEF ServiceRecord
<1>5. SyncTypes'
  BY <1>0, <1>1, <1>2, <1>3, <1>4 DEF SyncTypes
<1>6. Alternate'
  BY <1>1, <1>3, <1>4 DEF Alternate, NoLoad
<1>7. DatabaseSeen'
  BY ONLY <1>0, <1>1 DEF DatabaseSeen, Seen
<1>8. SessionSeen'
  <2>1. \A m \in Stamps : m # NoBaseline
    BY RecordedBaseline
  <2>2. ~pending' => \A x \in Domains : Seen(x, manifest'[x]) /\ Seen(x, file[x])
    OBVIOUS
  <2> QED BY ONLY <1>1, <1>3, <2>1, <2>2 DEF SessionSeen, Seen
<1>9. StoreSeen' /\ LoadSeen' /\ Refilled'
  BY ONLY <1>0, <1>1, <1>3 DEF StoreSeen, LoadSeen, Refilled
<1> QED BY <1>5, <1>6, <1>7, <1>8, <1>9 DEF SyncInv

LEMMA PlanFacts ==
    ASSUME NEW states
    PROVE  /\ PlanLoad(states) \subseteq Domains
           /\ PlanLoad(states) \cap Namespaces # {} => Cross \in PlanLoad(states)
           /\ \A x \in Domains : x \notin PlanLoad(states) => states[x] \in {"S1", "S4"}
<1>1. NeedsLoad(states) \subseteq Domains
  BY DEF NeedsLoad
<1>2. \A x \in Domains : x \notin NeedsLoad(states) => states[x] \in {"S1", "S4"}
  BY DEF NeedsLoad
<1>3. NeedsLoad(states) \subseteq PlanLoad(states)
  BY <1>1, DomainFacts DEF PlanLoad, Domains
<1>4. PlanLoad(states) \subseteq Domains
  BY <1>1, DomainFacts DEF PlanLoad
<1>5. PlanLoad(states) \cap Namespaces # {} => Cross \in PlanLoad(states)
  BY DomainFacts DEF PlanLoad
<1> QED BY <1>2, <1>3, <1>4, <1>5

LEMMA EvaluateInv ==
    ASSUME SyncInv, Evaluate
    PROVE  SyncInv'
<1> DEFINE states == Evaluation(manifest)
<1>0. SyncTypes /\ DatabaseSeen /\ Refilled /\ Alternate /\ service.pc = "evaluating"
  BY DEF SyncInv, Evaluate
<1>1. /\ service.manifest = manifest /\ service.by \in {"open", "recheck"}
      /\ load = NoLoad /\ store = NoStore
  BY <1>0 DEF Alternate, SyncTypes, ServiceRecord
<1>2. /\ pending' = (Outcome(states) = "needs_decision")
      /\ UNCHANGED <<file, database, store, ghosts, events>>
  BY <1>1 DEF Evaluate
<1>3. /\ \A x \in Domains : states[x] \in {"S1", "S2", "S3", "S4", "S5"}
      /\ \A x \in Domains : states[x] \in {"S1", "S2"} => manifest[x] = file[x]
      /\ \A x \in Domains : states[x] \in {"S1", "S4"} => Seen(x, file[x])
  BY EvaluationFacts
<1>4. CASE /\ Outcome(states) \in {"needs_decision", "consistent"}
           /\ OpenReturns("idle", manifest) /\ UNCHANGED <<manifest, load>>
  <2>1. ~pending' => \A x \in Domains : Seen(x, manifest'[x]) /\ Seen(x, file[x])
    <3> SUFFICES ASSUME Outcome(states) = "consistent", NEW x \in Domains
                 PROVE  Seen(x, manifest[x]) /\ Seen(x, file[x])
      BY <1>2, <1>4
    <3>1. states[x] = "S1"
      BY <1>3, OutcomeFacts
    <3> QED BY <1>3, <3>1
  <2> QED BY <1>0, <1>2, <1>4, <2>1, EvaluationReturns
<1>5. CASE /\ Outcome(states) = "repair_manifest" /\ manifest' = Repaired(manifest, Domains)
           /\ OpenReturns("idle", manifest') /\ UNCHANGED load
  <2>1. manifest' = file
    BY <1>0, <1>5, RepairedFacts
  <2>2. \A x \in Domains : Seen(x, file[x])
    <3> SUFFICES ASSUME NEW x \in Domains PROVE Seen(x, file[x])
      OBVIOUS
    <3>1. states[x] \in {"S1", "S4"}
      BY <1>3, <1>5, OutcomeFacts
    <3> QED BY <1>3, <3>1
  <2> QED BY <1>0, <1>2, <1>5, <2>1, <2>2, EvaluationReturns
<1>6. CASE EvaluationLoads(states)
  <2> DEFINE stale == {x \in Domains : states[x] = "S4"}
  <2>1. Outcome(states) = "load" /\ pending' = FALSE
    BY <1>2, <1>6 DEF EvaluationLoads
  <2>2. \A x \in Domains : states[x] \in {"S1", "S2", "S4"}
    BY <1>3, <2>1, OutcomeFacts
  <2>3. Repaired(manifest, stale) = file
    <3>1. \A x \in Domains : (IF x \in stale THEN file[x] ELSE manifest[x]) = file[x]
      BY <1>3, <2>2
    <3>2. file = [x \in Domains |-> file[x]]
      BY <1>0 DEF SyncTypes, Stamps
    <3> QED BY <3>1, <3>2 DEF Repaired
  <2>4. Intact(file)
    BY DEF Intact
  <2>5. /\ manifest' = file /\ LoadBegins(service.by, PlanLoad(states), file)
        /\ service' = [service EXCEPT !.pc = "loading"] /\ baseline' = baseline
    BY <1>1, <1>6, <2>3, <2>4 DEF EvaluationLoads
  <2>6. /\ file' = file /\ db' = db /\ d' = d /\ digest' = digest /\ store' = store
        /\ unseen' = unseen /\ previous' = previous /\ events' = events
    BY <1>2 DEF database, ghosts
  <2>7. /\ PlanLoad(states) \subseteq Domains
        /\ PlanLoad(states) \cap Namespaces # {} => Cross \in PlanLoad(states)
        /\ \A x \in Domains \ PlanLoad(states) : Seen(x, file[x])
    BY <1>3, PlanFacts
  <2>8. load' \in LoadRecord /\ LoadSeen' /\ load'.by = service.by /\ load'.pc = "clear"
    BY <1>0, <1>1, <2>5, <2>6, <2>7, LoadBeginsFacts
  <2>9. service' \in ServiceRecord /\ service'.pc = "loading"
    <3>1. service \in ServiceRecord
      BY <1>0 DEF SyncTypes
    <3> QED BY ONLY <2>5, <3>1 DEF ServiceRecord
  <2>10. /\ Times' = Times /\ Stamps' = Stamps /\ ServiceRecord' = ServiceRecord
         /\ LoadRecord' = LoadRecord /\ StoreRecord' = StoreRecord
    BY <2>6, SameTimes
  <2>11. baseline' = baseline /\ manifest' = file
    BY <2>5
  <2>12. pending' \in BOOLEAN
    BY <2>1
  <2>13. SyncTypes'
    BY ONLY <1>0, <1>1, <2>6, <2>8, <2>9, <2>10, <2>11, <2>12 DEF SyncTypes
  <2>14. Alternate'
    BY ONLY <1>1, <2>1, <2>6, <2>8, <2>9 DEF Alternate
  <2>15. DatabaseSeen' /\ SessionSeen' /\ StoreSeen'
    BY ONLY <1>0, <1>1, <2>6, <2>9 DEF DatabaseSeen, SessionSeen, StoreSeen, Seen
  <2>16. Refilled'
    <3>1. \A x \in Domains : db[x] # Empty
      BY <1>0, <1>1 DEF Refilled, NoLoad
    <3> QED BY ONLY <2>6, <3>1 DEF Refilled
  <2> QED BY <2>8, <2>13, <2>14, <2>15, <2>16 DEF SyncInv
<1> QED BY <1>1, <1>4, <1>5, <1>6 DEF Evaluate

LEMMA StutterInv == ASSUME SyncInv, UNCHANGED vars PROVE SyncInv'
<1>1. /\ file' = file /\ manifest' = manifest /\ db' = db /\ d' = d /\ digest' = digest
      /\ baseline' = baseline /\ pending' = pending /\ service' = service
      /\ load' = load /\ store' = store
      /\ unseen' = unseen /\ previous' = previous /\ events' = events
  BY DEF vars, disk, database, session, ghosts
<1>2. /\ Times' = Times /\ Stamps' = Stamps /\ ServiceRecord' = ServiceRecord
      /\ LoadRecord' = LoadRecord /\ StoreRecord' = StoreRecord
  BY <1>1, SameTimes
<1>3. SyncTypes' /\ Alternate' /\ Refilled'
  BY <1>1, <1>2 DEF SyncInv, SyncTypes, Alternate, Refilled
<1>4. DatabaseSeen' /\ SessionSeen' /\ StoreSeen' /\ LoadSeen'
  BY <1>1 DEF SyncInv, DatabaseSeen, SessionSeen, StoreSeen, LoadSeen, Seen
<1> QED BY <1>3, <1>4 DEF SyncInv

LEMMA StepInv == ASSUME Undisturbed, SyncInv, [SyncNext]_vars PROVE SyncInv'
<1>1. CASE \E x \in Domains : Commit({x})
  BY <1>1, CommitInv
<1>2. CASE \E x \in Domains : HandEdit(x)
  BY <1>2, HandEditInv
<1>3. CASE \E x \in Domains : LoadShared(x)
  BY <1>3, LoadSharedInv
<1>4. CASE Revert \/ Stop \/ Edits
  BY <1>4, RevertInv, StopInv, EditInv DEF Edits
<1>5. CASE \E scope \in Namespaces \cup {"universe", "full"}, override \in BOOLEAN :
            StoreBegins(scope, override)
  BY <1>5, StoreBeginsInv DEF ScopeNames
<1>6. CASE \E X \in SUBSET Domains : StoreWrites(X)
  BY <1>6, StoreWritesInv
<1>7. CASE StoreWritesManifest \/ StoreFails \/ StoreEnds
  BY <1>7, StoreWritesManifestInv, StoreFailsInv, StoreEndsInv
<1>8. CASE Open \/ Recheck \/ Evaluate
  BY <1>8, OpenInv, RecheckInv, EvaluateInv
<1>9. CASE (\E accept \in BOOLEAN : CommandLoad(accept)) \/ LoadClears \/ LoadEnds \/ LoadFails
  BY <1>9, CommandLoadInv, LoadClearsInv, LoadEndsInv, LoadFailsInv
<1>10. CASE \E n \in Namespaces : LoadNamespace(n)
  BY <1>10, LoadNamespaceInv
<1>11. CASE RepairManifest
  BY <1>11, RepairManifestInv
<1>12. CASE UNCHANGED vars
  BY <1>12, StutterInv
<1> QED BY <1>1, <1>2, <1>3, <1>4, <1>5, <1>6, <1>7, <1>8, <1>9, <1>10, <1>11, <1>12 DEF SyncNext

-----------------------------------------------------------------------------
\* Every behaviour in which loads complete and run alone keeps the invariant.
THEOREM SyncInvariant == ASSUME Undisturbed PROVE SyncSpec => []SyncInv
<1>1. SyncInit => SyncInv
  BY InitInv
<1>2. SyncInv /\ [SyncNext]_vars => SyncInv'
  BY StepInv
<1> QED BY <1>1, <1>2, PTL DEF SyncSpec

\* Only a store that stops half-way is remembered, and for good.
LEMMA HalfStoredStep ==
    ASSUME halfStored \in BOOLEAN, [SyncNext]_vars
    PROVE  halfStored' \in BOOLEAN /\ (halfStored => halfStored')
<1>1. CASE \/ \E x \in Domains : Commit({x}) \/ HandEdit(x) \/ LoadShared(x)
           \/ Revert \/ StoreFails \/ RepairManifest
           \/ \E X \in SUBSET Domains : StoreWrites(X)
           \/ \E n \in Namespaces : LoadNamespace(n)
           \/ \E accept \in BOOLEAN : CommandLoad(accept)
  BY <1>1 DEF Commit, HandEdit, LoadShared, Revert, StoreFails, RepairManifest, StoreWrites,
              LoadNamespace, CommandLoad
<1>2. CASE Stop
  BY <1>2 DEF Stop
<1>3. CASE Edits
  BY <1>3 DEF Edits, Edit, ghosts
<1>4. CASE \/ \E scope \in Namespaces \cup {"universe", "full"}, override \in BOOLEAN :
                StoreBegins(scope, override)
           \/ StoreWritesManifest \/ StoreEnds \/ Open \/ Recheck \/ Evaluate
           \/ LoadClears \/ LoadEnds \/ LoadFails \/ UNCHANGED vars
  BY <1>4 DEF StoreBegins, StoreWritesManifest, StoreEnds, Open, Recheck, Evaluate,
              LoadClears, LoadEnds, LoadFails, vars, ghosts
<1> QED BY <1>1, <1>2, <1>3, <1>4 DEF SyncNext

LEMMA HalfStoredTyped == SyncSpec => [](halfStored \in BOOLEAN)
<1>1. SyncInit => halfStored \in BOOLEAN
  BY DEF SyncInit
<1>2. halfStored \in BOOLEAN /\ [SyncNext]_vars => (halfStored \in BOOLEAN)'
  BY HalfStoredStep
<1> QED BY <1>1, <1>2, PTL DEF SyncSpec

LEMMA InvTypeOK == SyncInv /\ halfStored \in BOOLEAN => SyncTypeOK
<1> SUFFICES ASSUME SyncInv, halfStored \in BOOLEAN PROVE SyncTypeOK
  OBVIOUS
<1>1. SyncTypes /\ Alternate /\ LoadSeen
  BY DEF SyncInv
<1>2. Times \subseteq Content
  <2>1. events \in Nat /\ events <= MaxEvents /\ MaxEvents \in Nat
    BY <1>1, DomainFacts DEF SyncTypes
  <2> QED BY <2>1 DEF Times, Content
<1>3. Stamps \subseteq Hashes
  BY <1>2 DEF Stamps, Hashes
<1>4. /\ file \in Hashes /\ manifest \in Hashes /\ digest \in Hashes
      /\ baseline = NoBaseline \/ baseline \in Hashes
  BY <1>1, <1>3 DEF SyncTypes
<1>5. db \in Hashes /\ d \in [Domains -> Content \cup {Unknown}]
  BY <1>1, <1>2 DEF SyncTypes, Hashes, Content
<1>6. pending \in BOOLEAN /\ service.pc \in {"closed", "evaluating", "loading", "idle", "failed"}
  BY <1>1 DEF SyncTypes, ServiceRecord
<1>7. load.left \subseteq load.plan /\ load.plan \subseteq Domains
  BY <1>1 DEF LoadSeen, NoLoad
<1>8. store.left \subseteq Domains
  BY <1>1 DEF SyncTypes, StoreRecord, NoStore
<1>9. service.pc = "loading" <=> load.by \in {"open", "recheck"}
  BY <1>1 DEF Alternate
<1> QED BY <1>4, <1>5, <1>6, <1>7, <1>8, <1>9 DEF SyncTypeOK

\* The variables keep their types.
THEOREM SyncTypeCorrect == ASSUME Undisturbed PROVE SyncSpec => []SyncTypeOK
BY SyncInvariant, HalfStoredTyped, InvTypeOK, PTL

\* An open workspace in which nothing is loaded holds every layer.
THEOREM SyncOpenIsWhole == ASSUME Undisturbed PROVE SyncSpec => []OpenMeansWhole
<1>1. SyncInv => OpenMeansWhole
  BY DEF SyncInv, Refilled, OpenMeansWhole, NoLoad
<1> QED BY <1>1, SyncInvariant, PTL

\* The origin never names a version from outside that was not loaded.
THEOREM SyncOriginTruthful == ASSUME Undisturbed PROVE SyncSpec => []OriginTruthful
<1>1. SyncInv => OriginTruthful
  BY DEF SyncInv, DatabaseSeen, OriginTruthful, Seen
<1> QED BY <1>1, SyncInvariant, PTL

\* Nothing a load has cleared is ever written to the files.
THEOREM SyncFilesNeverHollow == ASSUME Undisturbed PROVE SyncSpec => []FilesNeverHollow
<1>1. SyncInv => FilesNeverHollow
  BY FreshFacts DEF SyncInv, SyncTypes, Stamps, FilesNeverHollow
<1> QED BY <1>1, SyncInvariant, PTL

\* A store without the user's word overwrites no version from outside that the
\* database never held.
THEOREM SyncOverwritesNothingUnseen == ASSUME Undisturbed PROVE SyncSpec => NoUnseenOverwrite
<1> DEFINE Overwrite ==
      \A x \in Domains :
          file'[x] # file[x] /\ store.pc = "write" /\ store'.pc = "write" /\ ~store.override
              => <<x, file[x]>> \notin unseen
<1>1. SyncInv => [Overwrite]_vars
  <2> SUFFICES ASSUME SyncInv, NEW x \in Domains, store.pc = "write", ~store.override
               PROVE  <<x, file[x]>> \notin unseen
    OBVIOUS
  <2>1. store # NoStore
    BY DEF NoStore
  <2> QED BY <2>1 DEF SyncInv, StoreSeen, Seen
<1> QED BY <1>1, SyncInvariant, PTL DEF NoUnseenOverwrite

-----------------------------------------------------------------------------
(***************************************************************************)
(* The unsaved work of a shared layer.  A load that an open decides on     *)
(* clears the layers whose origin differs from their files.  It loses no   *)
(* work if these are then not the files the database loaded or stored      *)
(* last, hence if a version the database has held and the manifest may     *)
(* name, now or after a checkout, is always the one the origin names.      *)
(* A store that stops half-way ends this: what it has written is then      *)
(* in the files, may come into the manifest by a repair, and has no origin.*)
(***************************************************************************)
\* What the origin says of a shared layer, or will say at the end of the store
\* or the load that has come to it.
Recorded(x) ==
    IF store.pc = "origin" \/ (load # NoLoad /\ x \in load.plan \ load.left)
      THEN manifest[x] ELSE d[x]

\* The store under way has written the files of x.
Rewritten(x) == store.pc = "write" /\ x \in Written(store.scope) \ store.left

NotNamed(x, v) == v \notin {manifest[x], previous[x]}

HeldTypes == held \in [Domains -> Times \cup {Empty, Unknown}]

\* The digest and the rows of the origin are of one manifest.
OriginWhole == \A x \in Shared : d[x] = digest[x]

\* In a session without an open decision the baseline is the origin.
BaselineRecorded ==
    service.pc = "idle" /\ ~pending => \A x \in Shared : baseline[x] = d[x]

\* What a version the database holds or has held can be.
HoldingsRecorded ==
    \A x \in Shared : \A v \in {db[x], held[x]} :
        v = Recorded(x) \/ (NotNamed(x, v) /\ (Rewritten(x) \/ v # file[x]))

\* What a store writes over is recorded; what it has written it will record.
StoreRecords ==
    store.pc = "write" =>
        /\ store.left \subseteq Written(store.scope)
        /\ ~store.override => \A x \in Shared : manifest[x] = d[x]
        /\ \A x \in Shared : Rewritten(x) =>
              /\ file[x] = held[x] /\ store.manifest[x] = held[x]
              /\ db[x] = held[x] \/ (NotNamed(x, db[x]) /\ db[x] # file[x])

\* A load leaves out what is recorded as it is, and one that was not asked for
\* clears nothing else.
PlanIsStale ==
    load # NoLoad =>
        /\ \A x \in Shared \ load.plan : d[x] = manifest[x]
        /\ load.pc = "clear" /\ load.by # "command" =>
              \A x \in load.plan \cap (Shared \ {Cross}) : d[x] # manifest[x]

WorkInv ==
    /\ HeldTypes /\ OriginWhole /\ BaselineRecorded /\ HoldingsRecorded
    /\ StoreRecords /\ PlanIsStale

\* The invariant at rest: nothing is written, loaded or about to be recorded.
LEMMA RestFacts ==
    ASSUME load = NoLoad, store = NoStore
    PROVE  \A x \in Shared : Recorded(x) = d[x] /\ ~Rewritten(x)
BY DEF Recorded, Rewritten, NoStore

LEMMA ValueFacts ==
    ASSUME SyncTypes, HeldTypes
    PROVE  /\ \A x \in Shared : /\ x \in Domains
                                /\ db[x] \in Times \cup {Empty} /\ held[x] \in Times \cup {Empty, Unknown}
                                /\ d[x] \in Times \cup {Unknown}
                                /\ manifest[x] \in Times /\ previous[x] \in Times /\ file[x] \in Times
           /\ Fresh \notin Times \cup {Empty, Unknown}
           /\ Empty \notin Times /\ Unknown \notin Times
<1>1. \A x \in Shared : x \in Domains
  BY DomainFacts
<1>2. /\ \A x \in Shared : /\ db[x] \in Times \cup {Empty}
                           /\ held[x] \in Times \cup {Empty, Unknown}
                           /\ d[x] \in Times \cup {Unknown}
      /\ \A x \in Shared : /\ manifest[x] \in Times /\ previous[x] \in Times
                           /\ file[x] \in Times
  BY <1>1 DEF SyncTypes, HeldTypes, Stamps
<1> QED BY <1>1, <1>2, FreshFacts

LEMMA WorkInit == SyncInit => WorkInv
<1> SUFFICES ASSUME SyncInit PROVE WorkInv
  OBVIOUS
<1>1. /\ file = [x \in Domains |-> 0] /\ manifest = file /\ db = file /\ d = file /\ digest = file
      /\ previous = file /\ held = file /\ events = 0
      /\ service = Closed /\ load = NoLoad /\ store = NoStore
  BY DEF SyncInit
<1>2. HeldTypes
  BY <1>1 DEF HeldTypes, Times
<1>3. OriginWhole /\ HoldingsRecorded
  BY <1>1, RestFacts DEF OriginWhole, HoldingsRecorded
<1>4. BaselineRecorded /\ StoreRecords /\ PlanIsStale
  BY <1>1 DEF BaselineRecorded, StoreRecords, PlanIsStale, Closed, NoStore
<1> QED BY <1>2, <1>3, <1>4 DEF WorkInv

\* A change of the files outside makes new versions, or brings back the last.
LEMMA WorkRests ==
    ASSUME SyncInv, WorkInv, Quiet, Happens, UNCHANGED <<database, session, load, store, held>>,
           \A x \in Shared : {file'[x], manifest'[x], previous'[x]}
                                \subseteq {file[x], manifest[x], previous[x], Fresh}
    PROVE  WorkInv'
<1>0. SyncTypes /\ HeldTypes /\ OriginWhole /\ BaselineRecorded /\ HoldingsRecorded
  BY DEF SyncInv, WorkInv
<1>1. /\ load = NoLoad /\ store = NoStore /\ load' = load /\ store' = store /\ held' = held
      /\ db' = db /\ d' = d /\ digest' = digest /\ baseline' = baseline /\ pending' = pending
      /\ service' = service
  BY DEF Quiet, database, session
<1>2. HeldTypes'
  BY <1>0, <1>1, TypesGrow DEF HeldTypes
<1>3. OriginWhole' /\ BaselineRecorded'
  BY ONLY <1>0, <1>1 DEF OriginWhole, BaselineRecorded
<1>4. HoldingsRecorded'
  <2>1. \A x \in Shared : Recorded(x) = d[x] /\ ~Rewritten(x)
    BY <1>1, RestFacts
  <2>2. \A x \in Shared : Recorded(x)' = d[x] /\ ~Rewritten(x)'
    BY <1>1 DEF Recorded, Rewritten, NoStore
  <2>3. \A x \in Shared : db[x] # Fresh /\ held[x] # Fresh
    BY <1>0, ValueFacts
  <2> QED BY <1>0, <1>1, <2>1, <2>2, <2>3 DEF HoldingsRecorded, NotNamed
<1>5. StoreRecords' /\ PlanIsStale'
  BY <1>1 DEF StoreRecords, PlanIsStale, NoStore
<1> QED BY <1>2, <1>3, <1>4, <1>5 DEF WorkInv

LEMMA OutsideWork ==
    ASSUME Undisturbed, SyncInv, WorkInv,
           Revert \/ \E x \in Domains : Commit({x}) \/ HandEdit(x)
    PROVE  WorkInv'
<1>0. SyncTypes
  BY DEF SyncInv
<1>1. CASE Revert
  <2>1. /\ Quiet /\ Happens /\ UNCHANGED <<database, session, load, store, held>>
        /\ file' = previous /\ manifest' = previous /\ previous' = manifest
    BY <1>1 DEF Revert
  <2> QED BY <2>1, WorkRests
<1>2. ASSUME NEW x \in Domains, Commit({x}) PROVE WorkInv'
  <2>1. /\ Quiet /\ Happens /\ UNCHANGED <<database, session, load, store, held>>
        /\ file' = [y \in Domains |-> IF y \in {x} THEN Fresh ELSE file[y]]
        /\ manifest' = [y \in Domains |-> IF y \in {x} THEN Fresh ELSE manifest[y]]
        /\ previous' = manifest
    BY <1>2, UndisturbedFacts DEF Commit
  <2>2. \A y \in Shared : {file'[y], manifest'[y], previous'[y]}
                             \subseteq {file[y], manifest[y], previous[y], Fresh}
    BY <2>1, DomainFacts
  <2> QED BY <2>1, <2>2, WorkRests
<1>3. ASSUME NEW x \in Domains, HandEdit(x) PROVE WorkInv'
  <2>1. /\ Quiet /\ Happens /\ UNCHANGED <<database, session, load, store, held>>
        /\ file' = [file EXCEPT ![x] = Fresh] /\ manifest' = manifest /\ previous' = previous
    BY <1>3 DEF HandEdit
  <2>2. \A y \in Shared : file'[y] \in {file[y], Fresh}
    BY <1>0, <2>1, DomainFacts DEF SyncTypes, Stamps
  <2> QED BY <2>1, <2>2, WorkRests
<1> QED BY <1>1, <1>2, <1>3

\* Nothing that is half recorded is stopped.
LEMMA StopWork ==
    ASSUME Undisturbed, SyncInv, WorkInv, Stop, ~halfStored'
    PROVE  WorkInv'
<1>0. SyncTypes /\ HeldTypes /\ OriginWhole /\ HoldingsRecorded
  BY DEF SyncInv, WorkInv
<1>1. /\ load.pc # "import" /\ store.pc # "write" /\ store.pc # "origin" /\ Happens
      /\ pending' = FALSE /\ service' = Closed /\ load' = NoLoad /\ store' = NoStore
      /\ file' = file /\ manifest' = manifest /\ db' = db /\ d' = d /\ digest' = digest
      /\ held' = held /\ previous' = previous
  BY UndisturbedFacts DEF Stop, disk, database, ghosts
<1>2. HeldTypes'
  BY <1>0, <1>1, TypesGrow DEF HeldTypes
<1>3. OriginWhole' /\ BaselineRecorded'
  BY <1>0, <1>1 DEF OriginWhole, BaselineRecorded, Closed
<1>4. HoldingsRecorded'
  <2>1. load = NoLoad \/ load.left = load.plan
    BY <1>1 DEF SyncInv, SyncTypes, LoadSeen, LoadRecord
  <2>2. \A x \in Shared : Recorded(x) = d[x] /\ ~Rewritten(x)
    BY <1>1, <2>1 DEF Recorded, Rewritten
  <2>3. \A x \in Shared : Recorded(x)' = d[x] /\ ~Rewritten(x)'
    BY <1>1 DEF Recorded, Rewritten, NoStore
  <2> QED BY <1>0, <1>1, <2>2, <2>3 DEF HoldingsRecorded, NotNamed
<1>5. StoreRecords' /\ PlanIsStale'
  BY <1>1 DEF StoreRecords, PlanIsStale, NoStore
<1> QED BY <1>2, <1>3, <1>4, <1>5 DEF WorkInv

\* An edit makes a version nobody has named, and records nothing.
LEMMA EditWork ==
    ASSUME Undisturbed, SyncInv, WorkInv,
           NEW n \in Namespaces, NEW x \in Shared \cup {n}, Edit(x, n)
    PROVE  WorkInv'
<1>0. SyncTypes /\ WorkInv
  BY DEF SyncInv
<1>1. /\ Happens /\ db' = [db EXCEPT ![x] = Fresh]
      /\ d' = IF x \in {n, Cross} THEN [d EXCEPT ![n] = Unknown] ELSE d
      /\ baseline' = baseline /\ pending' = pending /\ service' = service
      /\ load' = load /\ store' = store
      /\ file' = file /\ manifest' = manifest /\ digest' = digest
      /\ held' = held /\ previous' = previous
  BY DEF Edit, disk, session, ghosts
<1>2. load = NoLoad
  BY UndisturbedFacts, UsableFacts DEF Edit
<1>3. \A y \in Shared : d'[y] = d[y] /\ db'[y] \in {db[y], Fresh}
  BY <1>0, <1>1, DomainFacts DEF SyncTypes
<1>4. \A y \in Shared : Recorded(y)' = Recorded(y) /\ Rewritten(y)' = Rewritten(y)
  BY <1>1, <1>2, <1>3 DEF Recorded, Rewritten
<1>5. HeldTypes'
  BY <1>0, <1>1, TypesGrow DEF WorkInv, HeldTypes
<1>6. OriginWhole' /\ BaselineRecorded'
  BY <1>0, <1>1, <1>3 DEF WorkInv, OriginWhole, BaselineRecorded
<1>7. \A y \in Shared : NotNamed(y, Fresh) /\ Fresh # file[y]
  BY <1>0, ValueFacts DEF WorkInv, NotNamed
<1>8. HoldingsRecorded'
  <2>1. HoldingsRecorded
    BY <1>0 DEF WorkInv
  <2>2. file' = file /\ held' = held /\ manifest' = manifest /\ previous' = previous
    BY <1>1
  <2> QED BY ONLY <1>3, <1>4, <1>7, <2>1, <2>2 DEF HoldingsRecorded, NotNamed
<1>9. StoreRecords'
  <2>1. StoreRecords
    BY <1>0 DEF WorkInv
  <2>2. \A y \in Shared : db'[y] = db[y] \/ (NotNamed(y, db'[y]) /\ db'[y] # file[y])
    BY <1>3, <1>7
  <2>3. file' = file /\ held' = held /\ store' = store /\ manifest' = manifest /\ previous' = previous
    BY <1>1
  <2> QED BY ONLY <1>3, <1>4, <2>1, <2>2, <2>3 DEF StoreRecords, NotNamed
<1>10. PlanIsStale'
  BY <1>1, <1>2 DEF PlanIsStale
<1> QED BY <1>5, <1>6, <1>8, <1>9, <1>10 DEF WorkInv

\* A store that is let through finds the origin's own version recorded.
LEMMA StoreBeginsWork ==
    ASSUME Undisturbed, SyncInv, WorkInv,
           NEW scope \in ScopeNames, NEW override \in BOOLEAN, StoreBegins(scope, override)
    PROVE  WorkInv'
<1>0. SessionSeen /\ WorkInv
  BY DEF SyncInv
<1>1. /\ service.pc = "idle" /\ load = NoLoad /\ store = NoStore
      /\ ~override => ~pending /\ (baseline # NoBaseline => manifest = baseline)
      /\ store' = [pc |-> "write", scope |-> scope, override |-> override,
                   left |-> Written(scope), manifest |-> manifest]
      /\ baseline' = baseline /\ pending' = pending /\ service' = service /\ load' = load
      /\ file' = file /\ manifest' = manifest /\ db' = db /\ d' = d /\ digest' = digest
      /\ held' = held /\ previous' = previous /\ events' = events
  BY UndisturbedFacts, UsableFacts DEF StoreBegins, Refused, Drifted, disk, database, session, ghosts
<1>2. /\ store'.pc = "write" /\ store'.override = override /\ store'.scope = scope
      /\ store'.left = Written(scope)
  BY <1>1
<1>3. HeldTypes' /\ OriginWhole' /\ BaselineRecorded' /\ PlanIsStale'
  BY <1>0, <1>1, SameTimes DEF WorkInv, HeldTypes, OriginWhole, BaselineRecorded, PlanIsStale
<1>4. \A x \in Shared : Recorded(x)' = d[x] /\ ~Rewritten(x)'
  BY <1>1, <1>2 DEF Recorded, Rewritten
<1>5. HoldingsRecorded'
  BY <1>0, <1>1, <1>4, RestFacts DEF WorkInv, HoldingsRecorded, NotNamed
<1>6. StoreRecords'
  <2>1. ~override => \A x \in Shared : manifest[x] = d[x]
    BY <1>0, <1>1 DEF SessionSeen, WorkInv, BaselineRecorded
  <2> QED BY <1>1, <1>2, <1>4, <2>1 DEF StoreRecords
<1> QED BY <1>3, <1>5, <1>6 DEF WorkInv

\* What is written was recorded or had no name, and still has none.
LEMMA StoreWritesWork ==
    ASSUME SyncInv, WorkInv, NEW X \in SUBSET Domains, StoreWrites(X)
    PROVE  WorkInv'
<1>0. SyncTypes /\ Alternate /\ WorkInv
  BY DEF SyncInv
<1>1. /\ store.pc = "write"
      /\ X = store.left \cap Shared \/ (store.left \cap Shared = {} /\ \E n \in store.left : X = {n})
      /\ file' = [x \in Domains |-> IF x \in X THEN db[x] ELSE file[x]]
      /\ d' = [x \in Domains |-> IF x \in X \cap Namespaces THEN db[x] ELSE d[x]]
      /\ held' = [x \in Domains |-> IF x \in X THEN db[x] ELSE held[x]]
      /\ store' = [store EXCEPT !.left = @ \ X,
                     !.manifest = [x \in Domains |-> IF x \in X THEN db[x] ELSE @[x]]]
      /\ baseline' = baseline /\ pending' = pending /\ service' = service /\ load' = load
      /\ manifest' = manifest /\ db' = db /\ digest' = digest
      /\ previous' = previous /\ events' = events
  BY DEF StoreWrites, session
<1>2. store # NoStore /\ store \in StoreRecord /\ load = NoLoad
  BY <1>0, <1>1 DEF SyncTypes, Alternate, NoStore
<1>3. /\ store'.pc = "write" /\ store'.override = store.override /\ store'.scope = store.scope
      /\ store'.left = store.left \ X
      /\ store'.manifest = [x \in Domains |-> IF x \in X THEN db[x] ELSE store.manifest[x]]
  BY ONLY <1>1, <1>2 DEF StoreRecord
<1>4. X \subseteq store.left
  BY <1>1
<1>5. HeldTypes'
  BY <1>0, <1>1, SameTimes DEF SyncTypes, WorkInv, HeldTypes
<1>6. \A x \in Shared : /\ d'[x] = d[x]
                        /\ file'[x] = IF x \in X THEN db[x] ELSE file[x]
                        /\ held'[x] = IF x \in X THEN db[x] ELSE held[x]
                        /\ store'.manifest[x] = IF x \in X THEN db[x] ELSE store.manifest[x]
  BY <1>1, <1>3, DomainFacts
<1>7. OriginWhole' /\ BaselineRecorded'
  BY <1>0, <1>1, <1>6 DEF WorkInv, OriginWhole, BaselineRecorded
<1>8. StoreRecords
  BY <1>0 DEF WorkInv
<1>9. \A x \in Shared : /\ Recorded(x) = d[x] /\ Recorded(x)' = d[x]
                        /\ Rewritten(x)' = (Rewritten(x) \/ x \in X)
                        /\ x \in X => ~Rewritten(x)
  <2>1. store.left \subseteq Written(store.scope)
    BY <1>1, <1>8 DEF StoreRecords
  <2> QED BY ONLY <1>1, <1>2, <1>3, <1>4, <1>6, <2>1 DEF Recorded, Rewritten
<1>10. \A x, v : NotNamed(x, v)' = NotNamed(x, v)
  BY <1>1 DEF NotNamed
<1>11. HoldingsRecorded'
  <2>1. HoldingsRecorded
    BY <1>0 DEF WorkInv
  <2>2. db' = db /\ manifest' = manifest /\ previous' = previous
    BY <1>1
  <2> QED BY ONLY <1>6, <1>9, <2>1, <2>2 DEF HoldingsRecorded, NotNamed
<1>12. StoreRecords'
  <2>1. store'.left \subseteq Written(store'.scope)
    BY <1>1, <1>3, <1>8 DEF StoreRecords
  <2>2. ~store'.override => \A x \in Shared : manifest'[x] = d'[x]
    BY <1>1, <1>3, <1>6, <1>8 DEF StoreRecords
  <2>3. ASSUME NEW x \in Shared, Rewritten(x)'
        PROVE  /\ file'[x] = held'[x] /\ store'.manifest[x] = held'[x]
               /\ db'[x] = held'[x] \/ (NotNamed(x, db[x])' /\ db'[x] # file'[x])
    <3>1. CASE x \in X
      BY <1>1, <1>6, <3>1
    <3>2. CASE x \notin X
      <4>1. Rewritten(x) /\ file'[x] = file[x] /\ held'[x] = held[x]
            /\ store'.manifest[x] = store.manifest[x]
        BY <1>6, <1>9, <2>3, <3>2
      <4> QED BY <1>1, <1>8, <1>10, <4>1 DEF StoreRecords
    <3> QED BY <3>1, <3>2
  <2> QED BY <2>1, <2>2, <2>3 DEF StoreRecords
<1>13. PlanIsStale'
  BY <1>1, <1>2 DEF PlanIsStale
<1> QED BY <1>5, <1>7, <1>11, <1>12, <1>13 DEF WorkInv

LEMMA ScopeFacts ==
    ASSUME NEW scope \in ScopeNames
    PROVE  scope # "universe" => Shared \subseteq Written(scope)
<1>1. CASE scope = "full"
  BY <1>1, DomainFacts, WrittenFacts
<1>2. CASE scope \in Namespaces
  <2>1. scope # "full" /\ scope # "universe"
    BY <1>2, DomainFacts
  <2> QED BY <2>1 DEF Written
<1> QED BY <1>1, <1>2 DEF ScopeNames

\* The manifest of a store names what it wrote; the rest stays as recorded.
LEMMA StoreWritesManifestWork ==
    ASSUME SyncInv, WorkInv, StoreWritesManifest
    PROVE  WorkInv'
<1>0. SyncTypes /\ Alternate /\ StoreSeen /\ WorkInv
  BY DEF SyncInv
<1>1. /\ store.pc = "write" /\ store.left = {}
      /\ manifest' = IF store.scope = "universe"
                       THEN [manifest EXCEPT !["universe"] = store.manifest["universe"]]
                       ELSE store.manifest
      /\ store' = [store EXCEPT !.pc = "origin", !.manifest = manifest']
      /\ baseline' = baseline /\ pending' = pending /\ service' = service /\ load' = load
      /\ file' = file /\ db' = db /\ d' = d /\ digest' = digest
      /\ held' = held /\ previous' = previous /\ events' = events
  BY DEF StoreWritesManifest, database, session, ghosts
<1>2. store # NoStore /\ store \in StoreRecord /\ load = NoLoad /\ manifest \in Stamps
  BY <1>0, <1>1 DEF SyncTypes, Alternate, NoStore
<1>3. store.scope \in ScopeNames /\ store'.pc = "origin"
  BY ONLY <1>1, <1>2 DEF StoreRecord
<1>4. ASSUME NEW x \in Shared
      PROVE  manifest'[x] = IF Rewritten(x) THEN store.manifest[x] ELSE manifest[x]
  <2>1. CASE store.scope = "universe"
    <3>1. Rewritten(x) <=> x = "universe"
      BY <1>1, <2>1 DEF Rewritten, Written
    <3> QED BY <1>1, <1>2, <2>1, <3>1, DomainFacts DEF Stamps
  <2>2. CASE store.scope # "universe"
    <3>1. Rewritten(x)
      BY <1>1, <1>3, <2>2, ScopeFacts DEF Rewritten
    <3> QED BY <1>1, <2>2, <3>1
  <2> QED BY <2>1, <2>2
<1>5. \A x \in Shared : ~Rewritten(x) => manifest[x] = d[x]
  <2>1. ASSUME NEW x \in Shared, ~Rewritten(x) PROVE ~store.override
    <3>1. store.scope = "universe"
      BY <1>1, <1>3, <2>1, ScopeFacts DEF Rewritten
    <3> QED BY <1>0, <1>2, <3>1 DEF StoreSeen
  <2> QED BY <1>0, <1>1, <2>1 DEF WorkInv, StoreRecords
<1>6. \A x \in Shared : Recorded(x) = d[x] /\ Recorded(x)' = manifest'[x] /\ ~Rewritten(x)'
  BY <1>1, <1>2, <1>3 DEF Recorded, Rewritten
<1>7. HoldingsRecorded'
  <2> SUFFICES ASSUME NEW x \in Shared, NEW v \in {db[x], held[x]}
               PROVE  v = manifest'[x] \/ (v \notin {manifest'[x], previous[x]} /\ v # file[x])
    BY <1>1, <1>6 DEF HoldingsRecorded, NotNamed
  <2>1. v = d[x] \/ (NotNamed(x, v) /\ (Rewritten(x) \/ v # file[x]))
    BY <1>0, <1>6 DEF WorkInv, HoldingsRecorded
  <2>2. CASE Rewritten(x)
    <3>1. /\ file[x] = held[x] /\ manifest'[x] = held[x]
          /\ db[x] = held[x] \/ (NotNamed(x, db[x]) /\ db[x] # file[x])
      BY <1>0, <1>1, <1>4, <2>2 DEF WorkInv, StoreRecords
    <3> QED BY <3>1 DEF NotNamed
  <2>3. CASE ~Rewritten(x)
    BY <1>4, <1>5, <2>1, <2>3 DEF NotNamed
  <2> QED BY <2>2, <2>3
<1>8. HeldTypes' /\ OriginWhole' /\ BaselineRecorded'
  BY <1>0, <1>1, SameTimes DEF WorkInv, HeldTypes, OriginWhole, BaselineRecorded
<1>9. StoreRecords' /\ PlanIsStale'
  BY <1>1, <1>2, <1>3 DEF StoreRecords, PlanIsStale
<1> QED BY <1>7, <1>8, <1>9 DEF WorkInv

LEMMA StoreEndsWork ==
    ASSUME Undisturbed, SyncInv, WorkInv, StoreEnds
    PROVE  WorkInv'
<1>0. SyncTypes /\ Alternate /\ StoreSeen /\ WorkInv
  BY DEF SyncInv
<1>1. /\ store.pc = "origin"
      /\ d' = [x \in Domains |-> IF x \in Shared THEN store.manifest[x] ELSE d[x]]
      /\ digest' = store.manifest
      /\ baseline' = manifest /\ store' = NoStore /\ service' = service /\ load' = load
      /\ file' = file /\ manifest' = manifest /\ db' = db
      /\ held' = held /\ previous' = previous /\ events' = events
  BY UndisturbedFacts DEF StoreEnds, OriginFrom, disk, ghosts
<1>2. store # NoStore /\ load = NoLoad
  BY <1>0, <1>1 DEF Alternate, NoStore
<1>3. store.manifest = manifest
  BY <1>0, <1>1, <1>2 DEF StoreSeen
<1>4. \A x \in Shared : d'[x] = manifest[x] /\ digest'[x] = manifest[x]
  BY <1>1, <1>3, DomainFacts
<1>5. \A x \in Shared : /\ Recorded(x) = manifest[x] /\ Recorded(x)' = manifest[x]
                        /\ ~Rewritten(x) /\ ~Rewritten(x)'
  BY <1>1, <1>2, <1>4 DEF Recorded, Rewritten, NoStore
<1>6. HoldingsRecorded'
  BY <1>0, <1>1, <1>5 DEF WorkInv, HoldingsRecorded, NotNamed
<1>7. HeldTypes' /\ OriginWhole' /\ BaselineRecorded'
  BY <1>0, <1>1, <1>4, SameTimes DEF WorkInv, HeldTypes, OriginWhole, BaselineRecorded
<1>8. StoreRecords' /\ PlanIsStale'
  BY <1>1, <1>2 DEF StoreRecords, PlanIsStale, NoStore
<1> QED BY <1>6, <1>7, <1>8 DEF WorkInv

LEMMA EvaluationBeginsWork ==
    ASSUME Undisturbed, SyncInv, WorkInv, Open \/ Recheck
    PROVE  WorkInv'
<1>0. Alternate /\ WorkInv
  BY DEF SyncInv
<1>1. /\ service'.pc = "evaluating" /\ load = NoLoad /\ store = NoStore
      /\ UNCHANGED <<disk, database, baseline, load, store, ghosts, events>>
  <2>1. CASE Open
    <3>1. service'.pc = "evaluating" /\ service.pc = "closed"
      BY <2>1 DEF Open
    <3> QED BY <1>0, <2>1, <3>1 DEF Open, Alternate
  <2>2. CASE Recheck
    <3>1. service'.pc = "evaluating" /\ load = NoLoad /\ store = NoStore
      BY <2>2, UndisturbedFacts DEF Recheck
    <3> QED BY <2>2, <3>1 DEF Recheck
  <2> QED BY <2>1, <2>2
<1>2. /\ load' = load /\ store' = store /\ file' = file /\ manifest' = manifest
      /\ db' = db /\ d' = d /\ digest' = digest
      /\ held' = held /\ previous' = previous /\ events' = events
  BY <1>1 DEF disk, database, ghosts
<1>3. HeldTypes' /\ OriginWhole' /\ BaselineRecorded' /\ PlanIsStale'
  BY <1>0, <1>1, <1>2, SameTimes DEF WorkInv, HeldTypes, OriginWhole, BaselineRecorded, PlanIsStale
<1>4. HoldingsRecorded' /\ StoreRecords'
  BY <1>0, <1>2 DEF WorkInv, HoldingsRecorded, StoreRecords, Recorded, Rewritten, NotNamed
<1> QED BY <1>3, <1>4 DEF WorkInv

\* The manifest is repaired while nothing runs: it names what the files are,
\* which the database does not hold unless the origin says so.
LEMMA RepairedHoldings ==
    ASSUME WorkInv, load = NoLoad, store = NoStore, NEW x \in Shared,
           NEW v, v \in {db[x], held[x]}
    PROVE  v = d[x] \/ v \notin {manifest[x], previous[x], file[x]}
BY RestFacts DEF WorkInv, HoldingsRecorded, NotNamed

\* The digest short-circuit answers what the rows would: D is the origin's.
LEMMA SharedStates ==
    ASSUME WorkInv, NEW x \in Shared
    PROVE  Evaluation(manifest)[x] = StateOf(manifest[x], file[x], d[x])
<1>1. digest = manifest => d[x] = manifest[x]
  BY DEF WorkInv, OriginWhole
<1> QED BY <1>1, DomainFacts DEF Evaluation

LEMMA EvaluateWork ==
    ASSUME SyncInv, WorkInv, Evaluate
    PROVE  WorkInv'
<1> DEFINE states == Evaluation(manifest)
<1>0. SyncTypes /\ Alternate /\ WorkInv /\ service.pc = "evaluating"
  BY DEF SyncInv, Evaluate
<1>1. /\ service.manifest = manifest /\ service.by \in {"open", "recheck"}
      /\ load = NoLoad /\ store = NoStore
  BY <1>0 DEF Alternate, SyncTypes, ServiceRecord
<1>2. /\ pending' = (Outcome(states) = "needs_decision")
      /\ file' = file /\ db' = db /\ d' = d /\ digest' = digest /\ store' = store
      /\ held' = held /\ previous' = previous /\ events' = events
  BY <1>1 DEF Evaluate, database, ghosts
<1>3. /\ \A x \in Domains : states[x] \in {"S1", "S2", "S3", "S4", "S5"}
      /\ \A x \in Domains : states[x] \in {"S1", "S2"} => manifest[x] = file[x]
      /\ \A x \in Shared : states[x] \in {"S1", "S4"} => d[x] = file[x]
      /\ \A x \in Shared : states[x] = "S2" => d[x] # file[x]
  <2>1. \A x \in Shared : states[x] = "S2" => d[x] # file[x]
    BY SharedStates DEF StateOf
  <2> QED BY <2>1, EvaluationFacts, SharedStates, StateFacts
<1>4. HeldTypes' /\ OriginWhole' /\ StoreRecords'
  BY <1>0, <1>1, <1>2, SameTimes DEF WorkInv, HeldTypes, OriginWhole, StoreRecords, NoStore
<1>5. ASSUME manifest' = manifest \/ manifest' = file,
             load' = NoLoad \/ load'.left = load'.plan
      PROVE  HoldingsRecorded'
  <2>1. \A x \in Shared : Recorded(x)' = d[x] /\ ~Rewritten(x)'
    BY <1>1, <1>2, <1>5 DEF Recorded, Rewritten, NoStore
  <2> SUFFICES ASSUME NEW x \in Shared, NEW v, v \in {db[x], held[x]}
               PROVE  v = d[x] \/ (v \notin {manifest'[x], previous[x]} /\ v # file[x])
    BY <1>2, <2>1 DEF HoldingsRecorded, NotNamed
  <2>2. v = d[x] \/ v \notin {manifest[x], previous[x], file[x]}
    BY <1>0, <1>1, RepairedHoldings
  <2> QED BY <1>5, <2>2
<1>6. CASE /\ Outcome(states) \in {"needs_decision", "consistent"}
           /\ OpenReturns("idle", manifest) /\ UNCHANGED <<manifest, load>>
  <2>1. BaselineRecorded'
    <3> SUFFICES ASSUME Outcome(states) = "consistent", NEW x \in Shared
                 PROVE  manifest[x] = d[x]
      BY <1>2, <1>6 DEF BaselineRecorded, OpenReturns
    <3>1. x \in Domains /\ states[x] = "S1"
      BY <1>3, OutcomeFacts, DomainFacts
    <3> QED BY <1>3, <3>1
  <2>2. HoldingsRecorded' /\ PlanIsStale'
    BY <1>1, <1>5, <1>6 DEF PlanIsStale
  <2> QED BY <1>4, <2>1, <2>2 DEF WorkInv
<1>7. CASE /\ Outcome(states) = "repair_manifest" /\ manifest' = Repaired(manifest, Domains)
           /\ OpenReturns("idle", manifest') /\ UNCHANGED load
  <2>1. manifest' = file
    BY <1>0, <1>7, RepairedFacts
  <2>2. BaselineRecorded'
    <3>1. \A x \in Shared : states[x] \in {"S1", "S4"}
      BY <1>3, <1>7, OutcomeFacts, DomainFacts
    <3> QED BY <1>2, <1>3, <1>7, <2>1, <3>1 DEF BaselineRecorded, OpenReturns
  <2>3. HoldingsRecorded' /\ PlanIsStale'
    BY <1>1, <1>5, <1>7, <2>1 DEF PlanIsStale
  <2> QED BY <1>4, <2>2, <2>3 DEF WorkInv
<1>8. CASE EvaluationLoads(states)
  <2> DEFINE stale == {x \in Domains : states[x] = "S4"}
  <2>1. Outcome(states) = "load"
    BY <1>8 DEF EvaluationLoads
  <2>2. \A x \in Domains : states[x] \in {"S1", "S2", "S4"}
    BY <1>3, <2>1, OutcomeFacts
  <2>3. Repaired(manifest, stale) = file
    <3>1. \A x \in Domains : (IF x \in stale THEN file[x] ELSE manifest[x]) = file[x]
      BY <1>3, <2>2
    <3>2. file = [x \in Domains |-> file[x]]
      BY <1>0 DEF SyncTypes, Stamps
    <3> QED BY <3>1, <3>2 DEF Repaired
  <2>4. /\ manifest' = file /\ LoadBegins(service.by, PlanLoad(states), file)
        /\ service' = [service EXCEPT !.pc = "loading"]
    BY <1>1, <1>8, <2>3 DEF EvaluationLoads, Intact
  <2>5. /\ load'.plan = PlanLoad(states) /\ load'.left = PlanLoad(states)
        /\ service'.pc = "loading"
    BY <1>0, <2>4 DEF LoadBegins, SyncTypes, ServiceRecord
  <2>6. HoldingsRecorded'
    BY <1>5, <2>4, <2>5
  <2>7. BaselineRecorded'
    BY <2>5 DEF BaselineRecorded
  <2>8. PlanIsStale'
    <3>1. \A x \in Shared \ PlanLoad(states) : d[x] = file[x]
      BY <1>3, PlanFacts, DomainFacts
    <3>2. ASSUME NEW x \in PlanLoad(states) \cap (Shared \ {Cross}) PROVE d[x] # file[x]
      <4>1. x \in NeedsLoad(states)
        BY <3>2, DomainFacts DEF PlanLoad
      <4>2. states[x] = "S2"
        BY <2>2, <4>1 DEF NeedsLoad
      <4> QED BY <1>3, <3>2, <4>2
    <3> QED BY <1>2, <2>4, <2>5, <3>1, <3>2 DEF PlanIsStale
  <2> QED BY <1>4, <2>6, <2>7, <2>8 DEF WorkInv
<1> QED BY <1>1, <1>6, <1>7, <1>8 DEF Evaluate

\* The user's word for the files: what the database had written there is not
\* counted any more.
LEMMA AuthorityFacts ==
    ASSUME SyncInv, WorkInv, load = NoLoad, store = NoStore,
           manifest' = file, held' = Authority(manifest'),
           UNCHANGED <<file, db, d, previous>>,
           load' = NoLoad \/ load'.left = load'.plan, store' = NoStore, events' = events
    PROVE  HeldTypes' /\ HoldingsRecorded'
<1>0. SyncTypes /\ HeldTypes
  BY DEF SyncInv, WorkInv
<1>1. \A x \in Domains : held'[x] \in {held[x], Unknown}
  BY DEF Authority
<1>2. HeldTypes'
  BY <1>0, SameTimes DEF HeldTypes, Authority
<1>3. \A x \in Shared : Recorded(x)' = d[x] /\ ~Rewritten(x)'
  BY DEF Recorded, Rewritten, NoStore
<1>4. HoldingsRecorded'
  <2> SUFFICES ASSUME NEW x \in Shared, NEW v, v \in {db[x], held'[x]}
               PROVE  v = d[x] \/ v \notin {file[x], previous[x]}
    BY <1>3 DEF HoldingsRecorded, NotNamed
  <2>1. v \in {db[x], held[x]} \/ v = Unknown
    BY <1>1, DomainFacts
  <2>2. CASE v \in {db[x], held[x]}
    BY <2>2, RepairedHoldings
  <2>3. CASE v = Unknown
    BY <1>0, <2>3, ValueFacts
  <2> QED BY <2>1, <2>2, <2>3
<1> QED BY <1>2, <1>4

LEMMA CommandLoadWork ==
    ASSUME Undisturbed, SyncInv, WorkInv, NEW accept \in BOOLEAN, CommandLoad(accept)
    PROVE  WorkInv'
<1>0. SyncTypes /\ WorkInv
  BY DEF SyncInv
<1>1. /\ load = NoLoad /\ store = NoStore /\ manifest' = file
      /\ LoadBegins("command", Domains, file) /\ held' = Authority(manifest')
      /\ baseline' = baseline /\ pending' = pending /\ service' = service /\ store' = store
      /\ file' = file /\ db' = db /\ d' = d /\ digest' = digest
      /\ previous' = previous /\ events' = events
  BY <1>0, UndisturbedFacts, RepairedFacts DEF CommandLoad, database, session
<1>2. load'.plan = Domains /\ load'.left = Domains /\ load'.by = "command"
  BY <1>1 DEF LoadBegins
<1>3. HeldTypes' /\ HoldingsRecorded'
  BY <1>1, <1>2, AuthorityFacts
<1>4. OriginWhole' /\ BaselineRecorded' /\ StoreRecords'
  BY <1>0, <1>1 DEF WorkInv, OriginWhole, BaselineRecorded, StoreRecords, NoStore
<1>5. PlanIsStale'
  BY <1>2, DomainFacts DEF PlanIsStale
<1> QED BY <1>3, <1>4, <1>5 DEF WorkInv

LEMMA RepairManifestWork ==
    ASSUME Undisturbed, SyncInv, WorkInv, RepairManifest
    PROVE  WorkInv'
<1>0. SyncTypes /\ WorkInv
  BY DEF SyncInv
<1>1. /\ load = NoLoad /\ store = NoStore /\ manifest' = file /\ held' = Authority(manifest')
      /\ service.pc = "idle" => pending
      /\ pending' = pending /\ service' = service /\ load' = load /\ store' = store
      /\ file' = file /\ db' = db /\ d' = d /\ digest' = digest
      /\ previous' = previous /\ events' = events
  BY <1>0, RepairedFacts, UndisturbedFacts DEF RepairManifest, RepairOffered, Quiet, database
<1>2. HeldTypes' /\ HoldingsRecorded'
  BY <1>1, AuthorityFacts
<1>3. OriginWhole' /\ BaselineRecorded' /\ StoreRecords' /\ PlanIsStale'
  BY <1>0, <1>1 DEF WorkInv, OriginWhole, BaselineRecorded, StoreRecords, PlanIsStale, NoStore
<1> QED BY <1>2, <1>3 DEF WorkInv

\* A load at any point, with the manifest and the files as they are.
LEMMA LoadRuns ==
    ASSUME SyncInv, load.pc \in {"clear", "import"}
    PROVE  /\ load # NoLoad /\ load \in LoadRecord /\ store = NoStore
           /\ load.manifest = file /\ manifest = file /\ load.left \subseteq load.plan
           /\ load.pc = "clear" => load.left = load.plan
           /\ \A x \in Shared : ~Rewritten(x)
           /\ \A x \in Shared : Recorded(x) = IF x \in load.plan \ load.left THEN manifest[x] ELSE d[x]
<1>1. load # NoLoad /\ load \in LoadRecord /\ store = NoStore
  BY DEF SyncInv, SyncTypes, Alternate, NoLoad
<1> QED BY <1>1 DEF SyncInv, LoadSeen, Recorded, Rewritten, NoStore

LEMMA LoadClearsWork ==
    ASSUME SyncInv, WorkInv, LoadClears
    PROVE  WorkInv'
<1>0. SyncTypes /\ WorkInv
  BY DEF SyncInv
<1>1. /\ load.pc = "clear"
      /\ db' = [x \in Domains |-> IF x \in load.plan \cap Shared THEN Empty ELSE db[x]]
      /\ load' = [load EXCEPT !.pc = "import", !.existing = [n \in Namespaces |-> d[n]]]
      /\ baseline' = baseline /\ pending' = pending /\ service' = service /\ store' = store
      /\ file' = file /\ manifest' = manifest /\ d' = d /\ digest' = digest
      /\ held' = held /\ previous' = previous /\ events' = events
  BY DEF LoadClears, disk, session, ghosts
<1>2. load # NoLoad /\ load \in LoadRecord /\ store = NoStore
  BY <1>1, LoadRuns
<1>3. load'.pc = "import" /\ load'.plan = load.plan /\ load'.left = load.left /\ load' # NoLoad
  BY ONLY <1>1, <1>2 DEF LoadRecord, NoLoad
<1>4. \A x \in Shared : Recorded(x)' = Recorded(x) /\ ~Rewritten(x)' /\ ~Rewritten(x)
  BY <1>1, <1>2, <1>3 DEF Recorded, Rewritten, NoStore
<1>5. HoldingsRecorded'
  <2>1. \A x \in Shared : db'[x] \in {db[x], Empty}
    BY <1>1, DomainFacts
  <2>2. \A x \in Shared : Empty \notin {manifest[x], previous[x], file[x]}
    BY <1>0, ValueFacts DEF WorkInv
  <2>3. HoldingsRecorded /\ held' = held /\ file' = file /\ manifest' = manifest /\ previous' = previous
    BY <1>0, <1>1 DEF WorkInv
  <2> QED BY ONLY <1>4, <2>1, <2>2, <2>3 DEF HoldingsRecorded, NotNamed
<1>6. HeldTypes' /\ OriginWhole' /\ BaselineRecorded' /\ StoreRecords'
  BY <1>0, <1>1, <1>2, SameTimes
     DEF WorkInv, HeldTypes, OriginWhole, BaselineRecorded, StoreRecords, NoStore
<1>7. PlanIsStale'
  <2>1. PlanIsStale
    BY <1>0 DEF WorkInv
  <2> QED BY ONLY <1>1, <1>2, <1>3, <2>1 DEF PlanIsStale
<1> QED BY <1>5, <1>6, <1>7 DEF WorkInv

\* An import of x takes it off the list, and what it puts into the database of
\* a shared layer is what the origin will say.
LEMMA ImportWork ==
    ASSUME SyncInv, WorkInv, NEW x \in Domains, load.pc = "import", x \in load.left,
           load' = [load EXCEPT !.left = @ \ {x}],
           UNCHANGED <<disk, digest, session, store, previous, events>>,
           held' \in [Domains -> Times \cup {Empty, Unknown}],
           \A y \in Shared :
              /\ d'[y] = d[y]
              /\ y = x => db'[y] = file[y] /\ held'[y] = file[y]
              /\ y # x => db'[y] \in {db[y], Empty} /\ held'[y] = held[y]
    PROVE  WorkInv'
<1>0. SyncTypes /\ WorkInv
  BY DEF SyncInv
<1>1. /\ baseline' = baseline /\ pending' = pending /\ service' = service /\ store' = store
      /\ file' = file /\ manifest' = manifest /\ digest' = digest
      /\ previous' = previous /\ events' = events
  BY DEF disk, session
<1>2. /\ load # NoLoad /\ load \in LoadRecord /\ store = NoStore /\ manifest = file
      /\ load.left \subseteq load.plan
      /\ \A y \in Shared : Recorded(y) = IF y \in load.plan \ load.left THEN manifest[y] ELSE d[y]
  BY LoadRuns
<1>3. /\ load'.pc = "import" /\ load'.plan = load.plan /\ load'.left = load.left \ {x}
      /\ load' # NoLoad
  BY ONLY <1>2, load.pc = "import", load' = [load EXCEPT !.left = @ \ {x}] DEF LoadRecord, NoLoad
<1>4. ASSUME NEW y \in Shared
      PROVE  /\ Recorded(y)' = IF y = x THEN manifest[y] ELSE Recorded(y)
             /\ ~Rewritten(y)' /\ ~Rewritten(y)
  <2>1. ~Rewritten(y)' /\ ~Rewritten(y)
    BY <1>1, <1>2 DEF Rewritten, NoStore
  <2>2. Recorded(y)' = IF y \in load.plan \ (load.left \ {x}) THEN manifest[y] ELSE d[y]
    BY <1>1, <1>2, <1>3 DEF Recorded, NoStore
  <2> QED BY <1>2, <2>1, <2>2
<1>5. HoldingsRecorded'
  <2> SUFFICES ASSUME NEW y \in Shared, NEW v, v \in {db'[y], held'[y]}
               PROVE  v = Recorded(y)' \/ v \notin {manifest[y], previous[y], file[y]}
    BY <1>1 DEF HoldingsRecorded, NotNamed
  <2>1. (y # x /\ v \in {db[y], held[y]}) \/ v = Empty \/ (y = x /\ v = manifest[y])
    BY <1>2
  <2>2. CASE y # x /\ v \in {db[y], held[y]}
    BY <1>0, <1>4, <2>2 DEF WorkInv, HoldingsRecorded, NotNamed
  <2>3. CASE v = Empty
    BY <1>0, <2>3, ValueFacts DEF WorkInv
  <2>4. CASE y = x /\ v = manifest[y]
    BY <1>4, <2>4
  <2> QED BY <2>1, <2>2, <2>3, <2>4
<1>6. HeldTypes' /\ OriginWhole' /\ BaselineRecorded' /\ StoreRecords'
  BY <1>0, <1>1, <1>2, SameTimes
     DEF WorkInv, HeldTypes, OriginWhole, BaselineRecorded, StoreRecords, NoStore
<1>7. PlanIsStale'
  BY <1>0, <1>1, <1>2, <1>3 DEF WorkInv, PlanIsStale
<1> QED BY <1>5, <1>6, <1>7 DEF WorkInv

LEMMA LoadNamespaceWork ==
    ASSUME SyncInv, WorkInv, NEW n \in Namespaces, LoadNamespace(n)
    PROVE  WorkInv'
<1>0. SyncTypes /\ HeldTypes
  BY DEF SyncInv, WorkInv
<1>1. /\ load.pc = "import" /\ n \in load.left /\ load' = [load EXCEPT !.left = @ \ {n}]
      /\ UNCHANGED <<disk, digest, session, store, previous, events>>
  BY DEF LoadNamespace
<1>2. n \in Domains /\ n \notin Shared
  BY DomainFacts
<1>3. CASE UNCHANGED <<db, d, unseen, held>>
  BY <1>0, <1>1, <1>2, <1>3, ImportWork DEF HeldTypes
<1>4. CASE /\ db' = [db EXCEPT ![n] = file[n], ![Cross] = Empty]
           /\ d' = [d EXCEPT ![n] = load.manifest[n]]
           /\ Consumes(n)
  <2>1. held' = [held EXCEPT ![n] = file[n]]
    BY <1>4 DEF Consumes
  <2>2. held' \in [Domains -> Times \cup {Empty, Unknown}]
    BY <1>0, <1>2, <2>1 DEF SyncTypes, HeldTypes, Stamps
  <2>3. \A y \in Shared : d'[y] = d[y] /\ db'[y] \in {db[y], Empty} /\ held'[y] = held[y]
    BY <1>0, <1>2, <1>4, <2>1, DomainFacts DEF SyncTypes, HeldTypes
  <2> QED BY <1>1, <1>2, <2>2, <2>3, ImportWork
<1> QED BY <1>3, <1>4 DEF LoadNamespace

LEMMA LoadSharedWork ==
    ASSUME SyncInv, WorkInv, NEW x \in Domains, LoadShared(x)
    PROVE  WorkInv'
<1>0. SyncTypes /\ HeldTypes
  BY DEF SyncInv, WorkInv
<1>1. /\ load.pc = "import" /\ x \in load.left /\ load' = [load EXCEPT !.left = @ \ {x}]
      /\ db' = [db EXCEPT ![x] = file[x]] /\ held' = [held EXCEPT ![x] = file[x]] /\ d' = d
      /\ UNCHANGED <<disk, digest, session, store, previous, events>>
  BY DEF LoadShared, Consumes
<1>2. held' \in [Domains -> Times \cup {Empty, Unknown}]
  BY <1>0, <1>1 DEF SyncTypes, HeldTypes, Stamps
<1>3. \A y \in Shared : /\ d'[y] = d[y]
                        /\ db'[y] = IF y = x THEN file[y] ELSE db[y]
                        /\ held'[y] = IF y = x THEN file[y] ELSE held[y]
  BY <1>0, <1>1, DomainFacts DEF SyncTypes, HeldTypes
<1> QED BY <1>1, <1>2, <1>3, ImportWork

LEMMA LoadEndsWork ==
    ASSUME SyncInv, WorkInv, LoadEnds
    PROVE  WorkInv'
<1>0. WorkInv
  OBVIOUS
<1>1. /\ load.pc = "import" /\ load.left = {}
      /\ d' = [x \in Domains |-> IF x \in Shared THEN load.manifest[x] ELSE d[x]]
      /\ digest' = load.manifest /\ load' = NoLoad /\ baseline' = manifest
      /\ file' = file /\ manifest' = manifest /\ db' = db /\ store' = store
      /\ held' = held /\ previous' = previous /\ events' = events
  BY DEF LoadEnds, OriginFrom, disk, ghosts
<1>2. /\ load # NoLoad /\ store = NoStore /\ load.manifest = manifest
      /\ \A x \in Shared : ~Rewritten(x)
      /\ \A x \in Shared : Recorded(x) = IF x \in load.plan THEN manifest[x] ELSE d[x]
  BY <1>1, LoadRuns
<1>3. \A x \in Shared : d'[x] = manifest[x] /\ digest'[x] = manifest[x]
  BY <1>1, <1>2, DomainFacts
<1>4. \A x \in Shared : Recorded(x) = manifest[x]
  BY <1>0, <1>2 DEF WorkInv, PlanIsStale
<1>5. \A x \in Shared : Recorded(x)' = manifest[x] /\ ~Rewritten(x)'
  BY <1>1, <1>2, <1>3 DEF Recorded, Rewritten, NoStore
<1>6. HoldingsRecorded'
  BY <1>0, <1>1, <1>2, <1>4, <1>5 DEF WorkInv, HoldingsRecorded, NotNamed
<1>7. HeldTypes' /\ OriginWhole' /\ BaselineRecorded'
  BY <1>0, <1>1, <1>3, SameTimes DEF WorkInv, HeldTypes, OriginWhole, BaselineRecorded
<1>8. StoreRecords' /\ PlanIsStale'
  BY <1>1, <1>2 DEF StoreRecords, PlanIsStale, NoStore
<1> QED BY <1>6, <1>7, <1>8 DEF WorkInv

\* A load fails before it has cleared anything.
LEMMA LoadFailsWork ==
    ASSUME Undisturbed, SyncInv, WorkInv, LoadFails
    PROVE  WorkInv'
<1>0. SyncTypes /\ WorkInv
  BY DEF SyncInv
<1>1. /\ load' = NoLoad /\ pending' = pending /\ store' = store
      /\ file' = file /\ manifest' = manifest /\ db' = db /\ d' = d /\ digest' = digest
      /\ held' = held /\ previous' = previous /\ events' = events
  BY DEF LoadFails, disk, database, ghosts
<1>2. load.pc \in {"clear", "import"}
  BY <1>0, UndisturbedFacts DEF LoadFails
<1>3. load.pc = "clear" /\ load.by # "recheck"
  BY <1>2, LoadRuns, UndisturbedFacts DEF LoadFails
<1>4. /\ load # NoLoad /\ load \in LoadRecord /\ store = NoStore
      /\ \A x \in Shared : Recorded(x) = d[x] /\ ~Rewritten(x)
  BY <1>3, LoadRuns
<1>5. BaselineRecorded'
  <2>1. CASE load.by = "command"
    <3>1. service' = service /\ baseline' = baseline
      BY <2>1 DEF LoadFails
    <3> QED BY <1>0, <1>1, <3>1 DEF WorkInv, BaselineRecorded
  <2>2. CASE load.by # "command"
    <3>1. load.by = "open"
      BY <1>3, <1>4, <2>2 DEF LoadRecord
    <3>2. service' = [Closed EXCEPT !.pc = "failed"]
      BY <3>1 DEF LoadFails, OpenReturns
    <3> QED BY <3>2 DEF BaselineRecorded, Closed
  <2> QED BY <2>1, <2>2
<1>6. HoldingsRecorded'
  <2>1. \A x \in Shared : Recorded(x)' = d[x] /\ ~Rewritten(x)'
    BY <1>1, <1>4 DEF Recorded, Rewritten, NoStore
  <2> QED BY <1>0, <1>1, <1>4, <2>1 DEF WorkInv, HoldingsRecorded, NotNamed
<1>7. HeldTypes' /\ OriginWhole' /\ StoreRecords' /\ PlanIsStale'
  BY <1>0, <1>1, <1>4, SameTimes
     DEF WorkInv, HeldTypes, OriginWhole, StoreRecords, PlanIsStale, NoStore
<1> QED BY <1>5, <1>6, <1>7 DEF WorkInv

LEMMA StutterWork == ASSUME WorkInv, UNCHANGED vars PROVE WorkInv'
<1>1. /\ file' = file /\ manifest' = manifest /\ db' = db /\ d' = d /\ digest' = digest
      /\ baseline' = baseline /\ pending' = pending /\ service' = service
      /\ load' = load /\ store' = store
      /\ held' = held /\ previous' = previous /\ events' = events
  BY DEF vars, disk, database, session, ghosts
<1>2. HeldTypes' /\ OriginWhole' /\ BaselineRecorded' /\ PlanIsStale'
  BY <1>1, SameTimes DEF WorkInv, HeldTypes, OriginWhole, BaselineRecorded, PlanIsStale
<1>3. HoldingsRecorded' /\ StoreRecords'
  BY <1>1 DEF WorkInv, HoldingsRecorded, StoreRecords, Recorded, Rewritten, NotNamed
<1> QED BY <1>2, <1>3 DEF WorkInv

LEMMA StepWork ==
    ASSUME Undisturbed, SyncInv, WorkInv, [SyncNext]_vars, ~halfStored'
    PROVE  WorkInv'
<1>1. CASE Revert \/ \E x \in Domains : Commit({x}) \/ HandEdit(x)
  BY <1>1, OutsideWork
<1>2. CASE \E x \in Domains : LoadShared(x)
  BY <1>2, LoadSharedWork
<1>3. CASE Stop \/ Edits
  BY <1>3, StopWork, EditWork DEF Edits
<1>4. CASE \E scope \in Namespaces \cup {"universe", "full"}, override \in BOOLEAN :
            StoreBegins(scope, override)
  BY <1>4, StoreBeginsWork DEF ScopeNames
<1>5. CASE \E X \in SUBSET Domains : StoreWrites(X)
  BY <1>5, StoreWritesWork
<1>6. CASE StoreWritesManifest \/ StoreFails \/ StoreEnds
  BY <1>6, UndisturbedFacts, StoreWritesManifestWork, StoreEndsWork DEF StoreFails
<1>7. CASE Open \/ Recheck \/ Evaluate
  BY <1>7, EvaluationBeginsWork, EvaluateWork
<1>8. CASE (\E accept \in BOOLEAN : CommandLoad(accept)) \/ LoadClears \/ LoadEnds \/ LoadFails
  BY <1>8, CommandLoadWork, LoadClearsWork, LoadEndsWork, LoadFailsWork
<1>9. CASE \E n \in Namespaces : LoadNamespace(n)
  BY <1>9, LoadNamespaceWork
<1>10. CASE RepairManifest
  BY <1>10, RepairManifestWork
<1>11. CASE UNCHANGED vars
  BY <1>11, StutterWork
<1> QED BY <1>1, <1>2, <1>3, <1>4, <1>5, <1>6, <1>7, <1>8, <1>9, <1>10, <1>11 DEF SyncNext

\* Whatever is edited, changed outside, stored, repaired, loaded or refused, as
\* long as no store has stopped half-way, the database holds no version of a
\* shared layer that the files may name and the origin does not.
THEOREM SyncWorkInvariant ==
    ASSUME Undisturbed
    PROVE  SyncSpec => [](SyncInv /\ (halfStored \/ WorkInv))
<1> DEFINE Whole == SyncInv /\ halfStored \in BOOLEAN /\ (halfStored \/ WorkInv)
<1>1. SyncInit => Whole
  BY InitInv, WorkInit DEF SyncInit
<1>2. Whole /\ [SyncNext]_vars => Whole'
  BY StepInv, StepWork, HalfStoredStep
<1> QED BY <1>1, <1>2, PTL DEF SyncSpec

\* A load the open decides on by itself does not clear a layer with unsaved
\* work while its files are still the ones the database loaded or stored last.
THEOREM SyncUnsavedWorkKept == ASSUME Undisturbed PROVE SyncSpec => UnsavedSharedWorkKept
<1>1. SyncInv /\ (halfStored \/ WorkInv)
        => [\A x \in Shared \ {Cross} : ClearsWork(x) => halfStored]_vars
  <2> SUFFICES ASSUME SyncInv, WorkInv, NEW x \in Shared \ {Cross},
                      load.pc = "clear", load.by # "command", x \in load.plan
               PROVE  file[x] # held[x]
    BY DEF ClearsWork
  <2>1. load # NoLoad /\ manifest = file /\ Recorded(x) = d[x]
    BY LoadRuns
  <2>2. d[x] # manifest[x]
    BY <2>1 DEF WorkInv, PlanIsStale
  <2>3. held[x] = d[x] \/ held[x] # manifest[x]
    BY <2>1 DEF WorkInv, HoldingsRecorded, NotNamed
  <2> QED BY <2>1, <2>2, <2>3
<1> QED BY <1>1, SyncWorkInvariant, PTL DEF UnsavedSharedWorkKept
=============================================================================
