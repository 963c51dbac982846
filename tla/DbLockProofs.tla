---------------------------- MODULE DbLockProofs ----------------------------
(***************************************************************************)
(* The database lock for any number of clients, reclaimers and resets: its *)
(* safety, and that it implements the abstract lock.                       *)
(*                                                                         *)
(* The argument: every action of DbLock is some change of the request      *)
(* table followed by dispatch().  The invariant is therefore stated of the *)
(* arguments dispatch() is given (Consistent), lemma DispatchConsistent    *)
(* shows that dispatch() preserves it, and each action only has to hand    *)
(* dispatch() consistent arguments.                                        *)
(***************************************************************************)
EXTENDS DbLockRefinement, TLAPS, FiniteSetTheorems, SequenceTheorems, WellFoundedInduction

\* The queue holds each queued client once, with the kind it asked for.
QueueExact(q, req) ==
    /\ \A i \in DOMAIN q :
         /\ req[q[i].who].st = "queued"
         /\ req[q[i].who].kind = q[i].kind
    /\ \A i, j \in DOMAIN q : q[i].who = q[j].who => i = j

\* The counters are the holders of epoch e, and they exclude each other.
HoldersExact(readers, writer, e, req) ==
    /\ readers = Cardinality(Holding(req, "read", e))
    /\ writer <=> (Holding(req, "write", e) # {})
    /\ \A c, d \in Holding(req, "write", e) : c = d
    /\ writer => readers = 0
    /\ \A c \in Clients : req[c].st = "held" => req[c].epoch <= e

Consistent(q, readers, writer, e, req) ==
    /\ q \in Seq(Waiter)
    /\ readers \in Nat
    /\ writer \in BOOLEAN
    /\ e \in Nat
    /\ req \in [Clients -> Request]
    /\ QueueExact(q, req)
    /\ HoldersExact(readers, writer, e, req)

\* The inductive invariant.
LockInv ==
    /\ Consistent(queue, activeReaders, activeWriter, epoch, request)
    /\ writerIsTransaction \in BOOLEAN
    /\ staleHolders = Cardinality(HoldingElsewhere(request, epoch))
    /\ reclaim \in [Reclaimers -> Reclaim]
    /\ \A w \in Reclaimers : reclaim[w].epoch <= epoch
    /\ ReclaimIsSafe

-----------------------------------------------------------------------------
\* A non-empty set of naturals has a least element.
LEMMA LeastNatural ==
    ASSUME NEW S \in SUBSET Nat, S # {}
    PROVE  \E n \in S : \A m \in S : n <= m
<1>1. \E n \in S : \A m \in S : ~(<<m, n>> \in OpToRel(<, Nat))
  BY NatLessThanWellFounded, WFMin
<1>2. \A m, n \in S : ~(<<m, n>> \in OpToRel(<, Nat)) => n <= m
  BY DEF OpToRel
<1> QED BY <1>1, <1>2

\* LeadingReads() finds the reads at the head of the queue, all of them.
LEMMA LeadingReadsExact ==
    ASSUME NEW q \in Seq(Waiter)
    PROVE  /\ LeadingReads(q) \in 0..Len(q)
           /\ \A i \in 1..LeadingReads(q) : q[i].kind = "read"
           /\ LeadingReads(q) < Len(q) => q[LeadingReads(q) + 1].kind = "write"
<1> DEFINE P(n) == /\ \A i \in 1..n : q[i].kind = "read"
                   /\ n < Len(q) => q[n + 1].kind = "write"
           Writes == {i \in 1..Len(q) : q[i].kind = "write"}
<1>0. Len(q) \in Nat /\ \A i \in 1..Len(q) : q[i].kind \in Kinds
  <2>1. \A i \in 1..Len(q) : q[i] \in Waiter
    BY ElementOfSeq
  <2> QED BY <2>1, LenProperties DEF Waiter
<1>1. \E n \in 0..Len(q) : P(n)
  <2>1. CASE Writes = {}
    BY <2>1, <1>0 DEF Kinds
  <2>2. CASE Writes # {}
    <3>1. PICK k \in Writes : \A m \in Writes : k <= m
      <4>1. Writes \in SUBSET Nat
        BY <1>0
      <4> QED BY <2>2, <4>1, LeastNatural
    <3>2. P(k - 1) /\ k - 1 \in 0..Len(q)
      BY <3>1, <1>0 DEF Kinds
    <3> QED BY <3>2
  <2> QED BY <2>1, <2>2
<1>2. LeadingReads(q) = CHOOSE n \in 0..Len(q) : P(n)
  BY DEF LeadingReads
<1>3. LeadingReads(q) \in 0..Len(q) /\ P(LeadingReads(q))
  BY <1>1, <1>2
<1> QED BY <1>3

\* The waiters a grant of length n takes off the queue are n different clients.
LEMMA GrantedCardinality ==
    ASSUME NEW q \in Seq(Waiter), NEW n \in 0..Len(q),
           \A i, j \in DOMAIN q : q[i].who = q[j].who => i = j
    PROVE  LET granted == {q[i].who : i \in 1..n}
           IN /\ IsFiniteSet(granted)
              /\ Cardinality(granted) = n
<1> DEFINE granted == {q[i].who : i \in 1..n}
           f == [i \in 1..n |-> q[i].who]
<1>1. DOMAIN q = 1..Len(q) /\ Len(q) \in Nat
  BY LenProperties
<1>2. f \in Bijection(1..n, granted)
  BY <1>1 DEF Bijection, Injection, Surjection, IsInjective
<1>3. ExistsBijection(1..n, granted)
  BY <1>2 DEF ExistsBijection
<1>4. IsFiniteSet(1..n) /\ Cardinality(1..n) = n
  BY FS_Interval, <1>1
<1> QED BY <1>3, <1>4, FS_Bijection

\* dispatch() preserves consistency, leaves the superseded holders alone, and
\* changes a request only to grant it in the current epoch.
LEMMA DispatchConsistent ==
    ASSUME NEW q, NEW readers, NEW writer, NEW txn \in BOOLEAN, NEW e, NEW req,
           Consistent(q, readers, writer, e, req),
           Dispatch(q, readers, writer, txn, e, req)
    PROVE  /\ Consistent(queue', activeReaders', activeWriter', e, request')
           /\ writerIsTransaction' \in BOOLEAN
           /\ HoldingElsewhere(request', e) = HoldingElsewhere(req, e)
           /\ \A c \in Clients : \/ request'[c] = req[c]
                                 \/ request'[c].st = "held" /\ request'[c].epoch = e
<1> DEFINE n == GrantCount(q, readers, writer)
           granted == {q[i].who : i \in 1..n}
           grantsWrite == n > 0 /\ q[1].kind = "write"
<1>1. /\ q \in Seq(Waiter) /\ readers \in Nat /\ writer \in BOOLEAN
      /\ e \in Nat /\ req \in [Clients -> Request]
      /\ QueueExact(q, req) /\ HoldersExact(readers, writer, e, req)
  BY DEF Consistent
<1>2. /\ queue' = SubSeq(q, n + 1, Len(q))
      /\ activeReaders' = IF grantsWrite THEN readers ELSE readers + n
      /\ activeWriter' = (writer \/ grantsWrite)
      /\ writerIsTransaction' = IF grantsWrite THEN q[1].txn ELSE txn
      /\ request' = [c \in Clients |->
                       IF c \in granted
                       THEN [req[c] EXCEPT !.st = "held", !.epoch = e]
                       ELSE req[c]]
  BY DEF Dispatch
<1>3. /\ Len(q) \in Nat /\ DOMAIN q = 1..Len(q)
      /\ \A i \in 1..Len(q) : q[i] \in Waiter
  BY <1>1, LenProperties, ElementOfSeq
<1>4. /\ n \in 0..Len(q)
      /\ n > 0 => ~writer
      /\ grantsWrite => n = 1 /\ readers = 0
      /\ ~grantsWrite => \A i \in 1..n : q[i].kind = "read"
  <2>1. CASE writer \/ q = <<>>
    BY <2>1, <1>3 DEF GrantCount
  <2>2. CASE ~writer /\ q # <<>> /\ q[1].kind = "write"
    BY <2>2, <1>1, <1>3, EmptySeq DEF GrantCount
  <2>3. CASE ~writer /\ q # <<>> /\ q[1].kind # "write"
    <3>1. n = LeadingReads(q)
      BY <2>3 DEF GrantCount
    <3> QED BY <3>1, <2>3, <1>1, LeadingReadsExact
  <2> QED BY <2>1, <2>2, <2>3
<1>5. /\ \A i \in 1..Len(q) : /\ req[q[i].who].st = "queued"
                              /\ req[q[i].who].kind = q[i].kind
                              /\ q[i].who \in Clients
      /\ \A i, j \in 1..Len(q) : q[i].who = q[j].who => i = j
  BY <1>1, <1>3 DEF QueueExact, Waiter
<1>6. IsFiniteSet(granted) /\ Cardinality(granted) = n
  BY <1>1, <1>3, <1>4, <1>5, GrantedCardinality
<1>7. /\ queue' \in Seq(Waiter)
      /\ Len(queue') = Len(q) - n
      /\ \A i \in 1..Len(queue') : queue'[i] = q[n + i]
  <2>1. \A i \in n + 1..Len(q) : q[i] \in Waiter
    BY <1>3, <1>4
  <2>2. n + 1 \in Int /\ Len(q) \in Int
    BY <1>3, <1>4
  <2>3. /\ SubSeq(q, n + 1, Len(q)) \in Seq(Waiter)
        /\ Len(SubSeq(q, n + 1, Len(q))) = IF n + 1 <= Len(q) THEN Len(q) - (n + 1) + 1 ELSE 0
        /\ \A i \in 1..(Len(q) - (n + 1) + 1) : SubSeq(q, n + 1, Len(q))[i] = q[n + 1 + i - 1]
    BY <2>1, <2>2, SubSeqProperties
  <2>4. Len(queue') = Len(q) - n
    <3>1. n \in 0..Len(q) /\ Len(q) \in Nat
      BY <1>3, <1>4
    <3>2. Len(queue') = IF n + 1 <= Len(q) THEN Len(q) - (n + 1) + 1 ELSE 0
      BY <2>3, <1>2
    <3> HIDE DEF n
    <3> QED BY <3>1, <3>2
  <2>5. ASSUME NEW i \in 1..Len(queue') PROVE queue'[i] = q[n + i]
    <3>1. i \in 1..(Len(q) - (n + 1) + 1) /\ n + 1 + i - 1 = n + i
      BY <2>4, <1>3, <1>4
    <3> QED BY <3>1, <2>3, <1>2
  <2> QED BY <2>3, <2>4, <2>5, <1>2
<1>8. /\ request' \in [Clients -> Request]
      /\ \A c \in granted : /\ c \in Clients
                            /\ req[c].st = "queued"
                            /\ request'[c].st = "held"
                            /\ request'[c].epoch = e
                            /\ request'[c].kind = req[c].kind
                            /\ req[c].kind = IF grantsWrite THEN "write" ELSE "read"
      /\ \A c \in Clients \ granted : request'[c] = req[c]
  <2>1. \A c \in granted : /\ c \in Clients
                           /\ req[c].st = "queued"
                           /\ req[c].kind = IF grantsWrite THEN "write" ELSE "read"
    BY <1>3, <1>4, <1>5
  <2>2. \A c \in Clients : /\ req[c] \in Request
                           /\ [req[c] EXCEPT !.st = "held", !.epoch = e] \in Request
    BY <1>1 DEF Request
  <2>3. \A c \in Clients : LET r == [req[c] EXCEPT !.st = "held", !.epoch = e]
                           IN r.st = "held" /\ r.epoch = e /\ r.kind = req[c].kind
    BY <2>2 DEF Request
  <2> QED BY <2>1, <2>2, <2>3, <1>2
<1>9. QueueExact(queue', request')
  <2>1. DOMAIN queue' = 1..Len(queue')
    BY <1>7, LenProperties
  <2>2. \A i \in 1..Len(queue') : n + i \in 1..Len(q) /\ queue'[i].who \notin granted
    BY <1>3, <1>4, <1>5, <1>7
  <2>3. \A i \in 1..Len(queue') : /\ request'[queue'[i].who].st = "queued"
                                  /\ request'[queue'[i].who].kind = queue'[i].kind
    BY <2>2, <1>5, <1>7, <1>8
  <2>4. \A i, j \in 1..Len(queue') : queue'[i].who = queue'[j].who => i = j
    BY <2>2, <1>3, <1>4, <1>5, <1>7
  <2> QED BY <2>1, <2>3, <2>4 DEF QueueExact
<1>10. /\ Holding(request', "read", e) =
            IF grantsWrite THEN Holding(req, "read", e)
                           ELSE Holding(req, "read", e) \cup granted
       /\ Holding(request', "write", e) =
            IF grantsWrite THEN Holding(req, "write", e) \cup granted
                           ELSE Holding(req, "write", e)
       /\ Holding(req, "read", e) \cap granted = {}
       /\ HoldingElsewhere(request', e) = HoldingElsewhere(req, e)
  BY <1>8 DEF Holding, HoldingElsewhere
<1>11. HoldersExact(activeReaders', activeWriter', e, request')
  <2>1. IsFiniteSet(Holding(req, "read", e))
    BY LockAssumption, FS_Subset DEF Holding
  <2>2. activeReaders' = Cardinality(Holding(request', "read", e))
    <3>1. CASE grantsWrite
      BY <3>1, <1>1, <1>2, <1>10 DEF HoldersExact
    <3>2. CASE ~grantsWrite
      <4>1. Cardinality(Holding(req, "read", e) \cup granted) =
              Cardinality(Holding(req, "read", e)) + n - Cardinality({})
        BY <2>1, <1>6, <1>10, FS_Union
      <4>2. Cardinality(Holding(req, "read", e)) = readers
        BY <1>1 DEF HoldersExact
      <4>3. /\ activeReaders' = readers + n
            /\ Holding(request', "read", e) = Holding(req, "read", e) \cup granted
        BY <3>2, <1>2, <1>10
      <4>4. readers + n - Cardinality({}) = readers + n
        <5> HIDE DEF n
        <5> QED BY <1>1, <1>3, <1>4, FS_EmptySet
      <4> QED BY <4>1, <4>2, <4>3, <4>4
    <3> QED BY <3>1, <3>2
  <2>3. activeWriter' <=> (Holding(request', "write", e) # {})
    <3>1. CASE grantsWrite
      <4>1. 1 \in 1..n
        BY <3>1, <1>4
      <4>2. q[1].who \in granted
        BY <4>1
      <4> QED BY <4>2, <3>1, <1>2, <1>10
    <3>2. CASE ~grantsWrite
      BY <3>2, <1>1, <1>2, <1>10 DEF HoldersExact
    <3> QED BY <3>1, <3>2
  <2>4. \A c, d \in Holding(request', "write", e) : c = d
    <3>1. CASE grantsWrite
      <4>1. Holding(req, "write", e) = {} /\ n = 1
        BY <3>1, <1>1, <1>4 DEF HoldersExact
      <4> QED BY <4>1, <3>1, <1>10
    <3>2. CASE ~grantsWrite
      BY <3>2, <1>1, <1>10 DEF HoldersExact
    <3> QED BY <3>1, <3>2
  <2>5. activeWriter' => activeReaders' = 0
    <3>1. CASE grantsWrite
      BY <3>1, <1>2, <1>4
    <3>2. CASE ~grantsWrite
      <4>1. activeWriter' => writer
        BY <3>2, <1>2
      <4>2. writer => readers = 0 /\ n = 0
        <5>1. n \in Nat /\ (n > 0 => ~writer) /\ (writer => readers = 0)
          BY <1>1, <1>3, <1>4 DEF HoldersExact
        <5> HIDE DEF n
        <5> QED BY <5>1
      <4>3. activeReaders' = readers + n
        BY <3>2, <1>2
      <4> HIDE DEF n
      <4> QED BY <4>1, <4>2, <4>3
    <3> QED BY <3>1, <3>2
  <2>6. \A c \in Clients : request'[c].st = "held" => request'[c].epoch <= e
    BY <1>1, <1>8 DEF HoldersExact
  <2> QED BY <2>2, <2>3, <2>4, <2>5, <2>6 DEF HoldersExact
<1>12. activeReaders' \in Nat /\ activeWriter' \in BOOLEAN /\ writerIsTransaction' \in BOOLEAN
  <2>1. activeReaders' \in Nat
    <3>1. n \in Nat /\ readers \in Nat
      BY <1>1, <1>3, <1>4
    <3>2. readers + n \in Nat
      <4> HIDE DEF n
      <4> QED BY <3>1
    <3> QED BY <3>1, <3>2, <1>2
  <2>2. grantsWrite => q[1].txn \in BOOLEAN
    <3>1. grantsWrite => 1 \in 1..Len(q)
      BY <1>3, <1>4
    <3> QED BY <3>1, <1>3 DEF Waiter
  <2>3. activeWriter' \in BOOLEAN
    BY <1>2
  <2> QED BY <2>1, <2>2, <2>3, <1>2
<1> QED BY <1>1, <1>7, <1>8, <1>9, <1>10, <1>11, <1>12 DEF Consistent

-----------------------------------------------------------------------------
LEMMA LockInitInv == LockInit => LockInv
<1> SUFFICES ASSUME LockInit PROVE LockInv
  OBVIOUS
<1>1. \A c \in Clients : request[c] = NoRequest /\ NoRequest \in Request
  BY DEF LockInit, NoRequest, Request, Kinds
<1>2. /\ Holding(request, "read", epoch) = {}
      /\ Holding(request, "write", epoch) = {}
      /\ HoldingElsewhere(request, epoch) = {}
  BY <1>1 DEF Holding, HoldingElsewhere, NoRequest
<1>3. HoldersExact(activeReaders, activeWriter, epoch, request)
  BY <1>1, <1>2, FS_EmptySet DEF HoldersExact, LockInit, NoRequest
<1>4. QueueExact(queue, request)
  BY DEF LockInit, QueueExact
<1>5. request \in [Clients -> Request]
  BY <1>1 DEF LockInit
<1>6. Consistent(queue, activeReaders, activeWriter, epoch, request)
  <2>1. queue \in Seq(Waiter) /\ activeReaders \in Nat /\ epoch \in Nat
    BY EmptySeq DEF LockInit
  <2>2. activeWriter \in BOOLEAN
    BY DEF LockInit
  <2> QED BY <2>1, <2>2, <1>3, <1>4, <1>5 DEF Consistent
<1>7. reclaim \in [Reclaimers -> Reclaim] /\ \A w \in Reclaimers : reclaim[w].epoch = 0
  BY DEF LockInit, Reclaim
<1>8. ReclaimIsSafe
  BY <1>1 DEF ReclaimIsSafe, Held, NoRequest
<1>9. staleHolders = Cardinality(HoldingElsewhere(request, epoch)) /\ epoch = 0
  BY <1>2, FS_EmptySet DEF LockInit
<1>10. writerIsTransaction \in BOOLEAN
  BY DEF LockInit
<1> QED BY <1>6, <1>7, <1>8, <1>9, <1>10 DEF LockInv

\* An action that is a change of the request table in the current epoch, which
\* grants nothing by itself and leaves the superseded holders alone, followed
\* by dispatch(), preserves the invariant.
LEMMA DispatchStep ==
    ASSUME LockInv, NEW q, NEW readers, NEW writer, NEW txn \in BOOLEAN, NEW req,
           Consistent(q, readers, writer, epoch, req),
           Dispatch(q, readers, writer, txn, epoch, req),
           HoldingElsewhere(req, epoch) = HoldingElsewhere(request, epoch),
           \A c \in Clients : req[c] = request[c] \/ req[c].st # "held",
           UNCHANGED <<epoch, staleHolders, reclaim>>
    PROVE  LockInv'
<1>1. /\ Consistent(queue', activeReaders', activeWriter', epoch, request')
      /\ writerIsTransaction' \in BOOLEAN
      /\ HoldingElsewhere(request', epoch) = HoldingElsewhere(req, epoch)
      /\ \A c \in Clients : \/ request'[c] = req[c]
                            \/ request'[c].st = "held" /\ request'[c].epoch = epoch
  BY DispatchConsistent
<1>2. ReclaimIsSafe'
  <2> SUFFICES ASSUME NEW w \in Reclaimers, NEW c \in Clients,
                      reclaim'[w].st = "resolved", request'[c].st = "held"
               PROVE  request'[c].epoch >= reclaim'[w].epoch
    BY DEF ReclaimIsSafe, Held
  <2>1. reclaim'[w] = reclaim[w] /\ epoch >= reclaim[w].epoch
    BY DEF LockInv, Consistent, Reclaim
  <2>2. CASE request'[c].epoch = epoch
    BY <2>1, <2>2
  <2>3. CASE request'[c] = req[c] /\ req[c] = request[c]
    BY <2>1, <2>3 DEF LockInv, ReclaimIsSafe, Held
  <2> QED BY <1>1, <2>2, <2>3
<1> QED BY <1>1, <1>2 DEF LockInv

\* What such an action has to hand over, apart from the queue and the counters.
OnlyCurrent(req) ==
    /\ HoldingElsewhere(req, epoch) = HoldingElsewhere(request, epoch)
    /\ \A c \in Clients : req[c] = request[c] \/ req[c].st # "held"

LEMMA AcquireConsistent ==
    ASSUME LockInv, NEW c \in Clients, NEW kind \in Kinds, NEW txn \in BOOLEAN,
           NEW timed \in BOOLEAN, request[c].st = "idle"
    PROVE  LET q == Append(queue, [who |-> c, kind |-> kind, txn |-> txn])
               req == [request EXCEPT ![c] = [st |-> "queued", kind |-> kind,
                                              timed |-> timed, epoch |-> 0]]
           IN  Consistent(q, activeReaders, activeWriter, epoch, req) /\ OnlyCurrent(req)
<1> DEFINE w == [who |-> c, kind |-> kind, txn |-> txn]
           r == [st |-> "queued", kind |-> kind, timed |-> timed, epoch |-> 0]
           req == [request EXCEPT ![c] = r]
           q == Append(queue, w)
<1>1. /\ queue \in Seq(Waiter) /\ request \in [Clients -> Request]
      /\ QueueExact(queue, request)
      /\ HoldersExact(activeReaders, activeWriter, epoch, request)
      /\ request[c].st = "idle"
  BY DEF LockInv, Consistent
<1>2. w \in Waiter /\ r \in Request
  BY DEF Waiter, Request
<1>3. /\ req \in [Clients -> Request]
      /\ req[c] = r
      /\ \A d \in Clients \ {c} : req[d] = request[d]
  BY <1>1, <1>2
<1>4. /\ q \in Seq(Waiter) /\ Len(q) = Len(queue) + 1 /\ Len(queue) \in Nat
      /\ DOMAIN q = 1..Len(queue) + 1 /\ DOMAIN queue = 1..Len(queue)
      /\ \A i \in 1..Len(queue) : q[i] = queue[i] /\ queue[i].who # c
      /\ \A i \in 1..Len(queue) : queue[i].who \in Clients
      /\ q[Len(queue) + 1] = w
  <2>1. Len(queue) \in Nat /\ DOMAIN queue = 1..Len(queue) /\ \A i \in 1..Len(queue) : queue[i] \in Waiter
    BY <1>1, LenProperties, ElementOfSeq
  <2>2. q \in Seq(Waiter) /\ Len(q) = Len(queue) + 1 /\ q[Len(queue) + 1] = w
        /\ \A i \in 1..Len(queue) : q[i] = queue[i]
    BY <1>1, <1>2, AppendProperties
  <2>3. DOMAIN q = 1..Len(queue) + 1
    BY <2>2, LenProperties
  <2> QED BY <2>1, <2>2, <2>3, <1>1 DEF QueueExact, Waiter
<1>5. QueueExact(q, req)
  BY <1>1, <1>3, <1>4 DEF QueueExact
<1>6. /\ Holding(req, "read", epoch) = Holding(request, "read", epoch)
      /\ Holding(req, "write", epoch) = Holding(request, "write", epoch)
      /\ HoldingElsewhere(req, epoch) = HoldingElsewhere(request, epoch)
  BY <1>1, <1>3 DEF Holding, HoldingElsewhere
<1>7. HoldersExact(activeReaders, activeWriter, epoch, req)
  BY <1>1, <1>3, <1>6 DEF HoldersExact
<1>8. Consistent(q, activeReaders, activeWriter, epoch, req)
  BY <1>3, <1>4, <1>5, <1>7 DEF LockInv, Consistent
<1>9. \A d \in Clients : req[d] = request[d] \/ req[d].st # "held"
  BY <1>3
<1> QED BY <1>6, <1>8, <1>9 DEF OnlyCurrent

LEMMA AcquireInv ==
    ASSUME LockInv, NEW c \in Clients, NEW kind \in Kinds, NEW txn \in BOOLEAN,
           NEW timed \in BOOLEAN, Acquire(c, kind, txn, timed)
    PROVE  LockInv'
<1> DEFINE q == Append(queue, [who |-> c, kind |-> kind, txn |-> txn])
           req == [request EXCEPT ![c] = [st |-> "queued", kind |-> kind,
                                          timed |-> timed, epoch |-> 0]]
<1>1. Consistent(q, activeReaders, activeWriter, epoch, req) /\ OnlyCurrent(req)
  BY AcquireConsistent DEF Acquire
<1>2. /\ Dispatch(q, activeReaders, activeWriter, writerIsTransaction, epoch, req)
      /\ UNCHANGED <<epoch, staleHolders, reclaim>>
      /\ writerIsTransaction \in BOOLEAN
  BY DEF Acquire, LockInv
<1> HIDE DEF q, req
<1> QED BY <1>1, <1>2, DispatchStep DEF OnlyCurrent

\* Ending a request that is held or has just left the queue.
LEMMA ForgetRequest ==
    ASSUME NEW q \in Seq(Waiter), NEW c \in Clients, NEW req,
           request \in [Clients -> Request], QueueExact(q, request),
           \A i \in DOMAIN q : q[i].who # c,
           req = [request EXCEPT ![c] = NoRequest]
    PROVE  /\ req \in [Clients -> Request]
           /\ QueueExact(q, req)
           /\ \A d \in Clients : req[d] = request[d] \/ req[d].st # "held"
           /\ Holding(req, "read", epoch) = Holding(request, "read", epoch) \ {c}
           /\ Holding(req, "write", epoch) = Holding(request, "write", epoch) \ {c}
           /\ HoldingElsewhere(req, epoch) = HoldingElsewhere(request, epoch) \ {c}
<1>1. NoRequest \in Request /\ NoRequest.st = "idle"
  BY DEF NoRequest, Request, Kinds
<1>2. /\ req \in [Clients -> Request]
      /\ req[c] = NoRequest
      /\ \A d \in Clients \ {c} : req[d] = request[d]
  BY <1>1
<1>3. \A i \in DOMAIN q : q[i].who \in Clients
  <2>1. \A i \in DOMAIN q : q[i] \in Waiter
    BY LenProperties, ElementOfSeq
  <2> QED BY <2>1 DEF Waiter
<1>4. QueueExact(q, req)
  BY <1>2, <1>3 DEF QueueExact
<1> QED BY <1>1, <1>2, <1>4 DEF Holding, HoldingElsewhere

\* What the proofs below need of the state before a release by holder c.
LEMMA HolderFacts ==
    ASSUME LockInv, NEW c \in Clients, Held(c)
    PROVE  /\ queue \in Seq(Waiter) /\ request \in [Clients -> Request]
           /\ QueueExact(queue, request)
           /\ HoldersExact(activeReaders, activeWriter, epoch, request)
           /\ \A i \in DOMAIN queue : queue[i].who # c
           /\ activeReaders \in Nat /\ activeWriter \in BOOLEAN /\ epoch \in Nat
           /\ writerIsTransaction \in BOOLEAN
BY DEF LockInv, Consistent, Held, QueueExact

LEMMA ReleaseReadConsistent ==
    ASSUME LockInv, NEW c \in Clients, ReleaseRead(c)
    PROVE  LET readers == IF activeReaders > 0 THEN activeReaders - 1 ELSE activeReaders
               req == [request EXCEPT ![c] = NoRequest]
           IN  Consistent(queue, readers, activeWriter, epoch, req) /\ OnlyCurrent(req)
<1> DEFINE req == [request EXCEPT ![c] = NoRequest]
           readers == IF activeReaders > 0 THEN activeReaders - 1 ELSE activeReaders
<1>1. Held(c) /\ request[c].epoch = epoch /\ request[c].kind = "read"
  BY DEF ReleaseRead, Current
<1>2. /\ req \in [Clients -> Request]
      /\ QueueExact(queue, req)
      /\ \A d \in Clients : req[d] = request[d] \/ req[d].st # "held"
      /\ Holding(req, "read", epoch) = Holding(request, "read", epoch) \ {c}
      /\ Holding(req, "write", epoch) = Holding(request, "write", epoch) \ {c}
      /\ HoldingElsewhere(req, epoch) = HoldingElsewhere(request, epoch) \ {c}
  <2>1. /\ queue \in Seq(Waiter) /\ request \in [Clients -> Request]
        /\ QueueExact(queue, request) /\ \A i \in DOMAIN queue : queue[i].who # c
    BY <1>1, HolderFacts
  <2>2. req = [request EXCEPT ![c] = NoRequest]
    OBVIOUS
  <2> HIDE DEF req
  <2> QED BY <2>1, <2>2, ForgetRequest
<1>3. /\ c \in Holding(request, "read", epoch)
      /\ c \notin Holding(request, "write", epoch)
      /\ c \notin HoldingElsewhere(request, epoch)
  BY <1>1 DEF Holding, HoldingElsewhere, Held
<1>4. IsFiniteSet(Holding(request, "read", epoch))
  BY LockAssumption, FS_Subset DEF Holding
<1>5. readers = Cardinality(Holding(req, "read", epoch)) /\ readers \in Nat
  <2>1. Cardinality(Holding(request, "read", epoch)) = activeReaders
    BY <1>1, HolderFacts DEF HoldersExact
  <2>2. activeReaders # 0
    BY <2>1, <1>3, <1>4, FS_EmptySet
  <2>3. Cardinality(Holding(request, "read", epoch) \ {c}) = activeReaders - 1
    BY <2>1, <1>3, <1>4, FS_RemoveElement
  <2>4. activeReaders \in Nat
    BY <1>1, HolderFacts
  <2>5. readers = activeReaders - 1 /\ readers \in Nat
    BY <2>2, <2>4
  <2>6. Holding(req, "read", epoch) = Holding(request, "read", epoch) \ {c}
    BY <1>2
  <2> HIDE DEF readers, req
  <2> QED BY <2>3, <2>5, <2>6
<1>6. HoldersExact(readers, activeWriter, epoch, req)
  <2>1. HoldersExact(activeReaders, activeWriter, epoch, request) /\ activeReaders \in Nat
    BY <1>1, HolderFacts
  <2>2. Holding(req, "write", epoch) = Holding(request, "write", epoch)
    BY <1>2, <1>3
  <2>3. activeWriter => readers = 0
    BY <2>1 DEF HoldersExact
  <2>4. \A d \in Clients : req[d].st = "held" => req[d].epoch <= epoch
    BY <2>1, <1>2 DEF HoldersExact
  <2> HIDE DEF readers, req
  <2> QED BY <2>1, <2>2, <2>3, <2>4, <1>5 DEF HoldersExact
<1>7. Consistent(queue, readers, activeWriter, epoch, req)
  BY <1>1, <1>2, <1>5, <1>6, HolderFacts DEF Consistent
<1>8. HoldingElsewhere(req, epoch) = HoldingElsewhere(request, epoch)
  BY <1>2, <1>3
<1> QED BY <1>2, <1>7, <1>8 DEF OnlyCurrent

LEMMA ReleaseReadInv ==
    ASSUME LockInv, NEW c \in Clients, ReleaseRead(c)
    PROVE  LockInv'
<1> DEFINE readers == IF activeReaders > 0 THEN activeReaders - 1 ELSE activeReaders
           req == [request EXCEPT ![c] = NoRequest]
<1>1. Consistent(queue, readers, activeWriter, epoch, req) /\ OnlyCurrent(req)
  BY ReleaseReadConsistent
<1>2. /\ Dispatch(queue, readers, activeWriter, writerIsTransaction, epoch, req)
      /\ UNCHANGED <<epoch, staleHolders, reclaim>>
      /\ writerIsTransaction \in BOOLEAN
  BY DEF ReleaseRead, LockInv
<1> HIDE DEF readers, req
<1> QED BY <1>1, <1>2, DispatchStep DEF OnlyCurrent

LEMMA ReleaseWriteConsistent ==
    ASSUME LockInv, NEW c \in Clients, ReleaseWrite(c)
    PROVE  LET req == [request EXCEPT ![c] = NoRequest]
           IN  Consistent(queue, activeReaders, FALSE, epoch, req) /\ OnlyCurrent(req)
<1> DEFINE req == [request EXCEPT ![c] = NoRequest]
<1>1. Held(c) /\ request[c].epoch = epoch /\ request[c].kind = "write"
  BY DEF ReleaseWrite, Current
<1>2. /\ req \in [Clients -> Request]
      /\ QueueExact(queue, req)
      /\ \A d \in Clients : req[d] = request[d] \/ req[d].st # "held"
      /\ Holding(req, "read", epoch) = Holding(request, "read", epoch) \ {c}
      /\ Holding(req, "write", epoch) = Holding(request, "write", epoch) \ {c}
      /\ HoldingElsewhere(req, epoch) = HoldingElsewhere(request, epoch) \ {c}
  <2>1. /\ queue \in Seq(Waiter) /\ request \in [Clients -> Request]
        /\ QueueExact(queue, request) /\ \A i \in DOMAIN queue : queue[i].who # c
    BY <1>1, HolderFacts
  <2>2. req = [request EXCEPT ![c] = NoRequest]
    OBVIOUS
  <2> HIDE DEF req
  <2> QED BY <2>1, <2>2, ForgetRequest
<1>3. /\ c \notin Holding(request, "read", epoch)
      /\ c \in Holding(request, "write", epoch)
      /\ c \notin HoldingElsewhere(request, epoch)
  BY <1>1 DEF Holding, HoldingElsewhere, Held
<1>4. HoldersExact(activeReaders, FALSE, epoch, req)
  <2>1. HoldersExact(activeReaders, activeWriter, epoch, request)
    BY <1>1, HolderFacts
  <2>2. Holding(req, "read", epoch) = Holding(request, "read", epoch)
    BY <1>2, <1>3
  <2>3. Holding(req, "write", epoch) = {}
    BY <2>1, <1>2, <1>3 DEF HoldersExact
  <2>4. \A d \in Clients : req[d].st = "held" => req[d].epoch <= epoch
    BY <2>1, <1>2 DEF HoldersExact
  <2> HIDE DEF req
  <2> QED BY <2>1, <2>2, <2>3, <2>4 DEF HoldersExact
<1>5. Consistent(queue, activeReaders, FALSE, epoch, req)
  BY <1>1, <1>2, <1>4, HolderFacts DEF Consistent
<1>6. HoldingElsewhere(req, epoch) = HoldingElsewhere(request, epoch)
  BY <1>2, <1>3
<1> QED BY <1>2, <1>5, <1>6 DEF OnlyCurrent

LEMMA ReleaseWriteInv ==
    ASSUME LockInv, NEW c \in Clients, ReleaseWrite(c)
    PROVE  LockInv'
<1> DEFINE req == [request EXCEPT ![c] = NoRequest]
<1>1. Consistent(queue, activeReaders, FALSE, epoch, req) /\ OnlyCurrent(req)
  BY ReleaseWriteConsistent
<1>2. /\ Dispatch(queue, activeReaders, FALSE, FALSE, epoch, req)
      /\ UNCHANGED <<epoch, staleHolders, reclaim>>
  BY DEF ReleaseWrite
<1> HIDE DEF req
<1> QED BY <1>1, <1>2, DispatchStep DEF OnlyCurrent

\* The queue without its k-th waiter is the others in their order.
LEMMA WithoutPositions ==
    ASSUME NEW source \in Seq(Waiter), NEW k \in DOMAIN source
    PROVE  /\ Without(source, k) \in Seq(Waiter)
           /\ DOMAIN Without(source, k) = 1..Len(source) - 1
           /\ \A i \in 1..Len(source) - 1 :
                Without(source, k)[i] = source[IF i < k THEN i ELSE i + 1]
<1> DEFINE q == Without(source, k)
           pos(i) == IF i < k THEN i ELSE i + 1
           s == SubSeq(source, 1, k - 1)
           t == SubSeq(source, k + 1, Len(source))
<1>0. /\ Len(source) \in Nat /\ DOMAIN source = 1..Len(source)
      /\ k \in 1..Len(source)
      /\ \A i \in 1..Len(source) : source[i] \in Waiter
  BY LenProperties, ElementOfSeq
<1>1. /\ s \in Seq(Waiter) /\ Len(s) = k - 1
      /\ \A i \in 1..k - 1 : s[i] = source[i]
  <2>1. \A i \in 1..k - 1 : source[i] \in Waiter
    BY <1>0
  <2>2. /\ s \in Seq(Waiter) /\ Len(s) = IF 1 <= k - 1 THEN k - 1 - 1 + 1 ELSE 0
        /\ \A i \in 1..(k - 1) - 1 + 1 : s[i] = source[1 + i - 1]
    BY <2>1, <1>0, SubSeqProperties
  <2> QED BY <2>2, <1>0
<1>2. /\ t \in Seq(Waiter) /\ Len(t) = Len(source) - k
      /\ \A i \in 1..Len(source) - k : t[i] = source[k + i]
  <2>1. \A i \in k + 1..Len(source) : source[i] \in Waiter
    BY <1>0
  <2>2. /\ t \in Seq(Waiter)
        /\ Len(t) = IF k + 1 <= Len(source) THEN Len(source) - (k + 1) + 1 ELSE 0
        /\ \A i \in 1..Len(source) - (k + 1) + 1 : t[i] = source[k + 1 + i - 1]
    BY <2>1, <1>0, SubSeqProperties
  <2>3. ASSUME NEW i \in 1..Len(source) - k PROVE t[i] = source[k + i]
    <3>1. i \in 1..Len(source) - (k + 1) + 1 /\ k + 1 + i - 1 = k + i
      BY <1>0
    <3> QED BY <3>1, <2>2
  <2> QED BY <2>2, <2>3, <1>0
<1>3. q = s \o t
  BY DEF Without
<1> HIDE DEF s, t, q
<1>4. /\ q \in Seq(Waiter) /\ Len(q) = Len(s) + Len(t)
      /\ \A i \in 1..Len(s) + Len(t) : q[i] = IF i <= Len(s) THEN s[i] ELSE t[i - Len(s)]
  BY <1>1, <1>2, <1>3, ConcatProperties
<1>5. Len(q) = Len(source) - 1
  BY <1>1, <1>2, <1>4, <1>0
<1>6. DOMAIN q = 1..Len(source) - 1
  BY <1>4, <1>5, LenProperties
<1>7. ASSUME NEW i \in 1..Len(source) - 1 PROVE q[i] = source[pos(i)]
  <2>1. CASE i < k
    BY <2>1, <1>1, <1>2, <1>4, <1>0
  <2>2. CASE i >= k
    <3>1. /\ i \in 1..Len(s) + Len(t) /\ ~(i <= Len(s))
          /\ i - Len(s) \in 1..Len(source) - k /\ k + (i - Len(s)) = i + 1
      BY <2>2, <1>1, <1>2, <1>0
    <3>2. pos(i) = i + 1
      BY <2>2, <1>0
    <3> HIDE DEF pos
    <3> QED BY <3>1, <3>2, <1>2, <1>4
  <2> QED BY <2>1, <2>2, <1>0
<1> QED BY <1>4, <1>6, <1>7 DEF q

LEMMA WithdrawConsistent ==
    ASSUME LockInv, NEW c \in Clients, NEW k \in DOMAIN queue, queue[k].who = c
    PROVE  LET req == [request EXCEPT ![c] = NoRequest]
           IN  /\ Consistent(Without(queue, k), activeReaders, activeWriter, epoch, req)
               /\ OnlyCurrent(req)
<1> DEFINE req == [request EXCEPT ![c] = NoRequest]
           q == Without(queue, k)
           pos(i) == IF i < k THEN i ELSE i + 1
<1>2. /\ queue \in Seq(Waiter) /\ request \in [Clients -> Request]
      /\ QueueExact(queue, request)
      /\ HoldersExact(activeReaders, activeWriter, epoch, request)
      /\ request[c].st = "queued"
  BY DEF LockInv, Consistent, QueueExact
<1>3. /\ Len(queue) \in Nat /\ DOMAIN queue = 1..Len(queue)
      /\ k \in 1..Len(queue)
      /\ \A i \in 1..Len(queue) : queue[i] \in Waiter
  BY <1>2, LenProperties, ElementOfSeq
<1>4. /\ q \in Seq(Waiter)
      /\ DOMAIN q = 1..Len(queue) - 1
      /\ \A i \in 1..Len(queue) - 1 : q[i] = queue[pos(i)]
  BY <1>2, WithoutPositions
<1>5. \A i \in 1..Len(queue) - 1 : pos(i) \in 1..Len(queue) /\ pos(i) # k
  BY <1>3
<1>6. \A i, j \in 1..Len(queue) - 1 : pos(i) = pos(j) => i = j
  BY <1>3
<1>7. QueueExact(q, request) /\ \A i \in DOMAIN q : q[i].who # c
  <2> HIDE DEF q, pos
  <2>1. \A i \in DOMAIN q : /\ q[i] = queue[pos(i)]
                            /\ pos(i) \in DOMAIN queue
                            /\ pos(i) # k
    BY <1>3, <1>4, <1>5
  <2>2. \A i, j \in DOMAIN q : pos(i) = pos(j) => i = j
    BY <1>4, <1>6
  <2> QED BY <2>1, <2>2, <1>2 DEF QueueExact
<1>8. req = [request EXCEPT ![c] = NoRequest]
  OBVIOUS
<1> HIDE DEF q, req
<1>9. /\ req \in [Clients -> Request]
      /\ QueueExact(q, req)
      /\ \A d \in Clients : req[d] = request[d] \/ req[d].st # "held"
      /\ Holding(req, "read", epoch) = Holding(request, "read", epoch) \ {c}
      /\ Holding(req, "write", epoch) = Holding(request, "write", epoch) \ {c}
      /\ HoldingElsewhere(req, epoch) = HoldingElsewhere(request, epoch) \ {c}
  <2>1. q \in Seq(Waiter) /\ request \in [Clients -> Request]
    BY <1>2, <1>4
  <2> QED BY <2>1, <1>7, <1>8, ForgetRequest
<1>10. /\ c \notin Holding(request, "read", epoch)
       /\ c \notin Holding(request, "write", epoch)
       /\ c \notin HoldingElsewhere(request, epoch)
  BY <1>2 DEF Holding, HoldingElsewhere
<1>11. HoldersExact(activeReaders, activeWriter, epoch, req)
  <2>1. /\ Holding(req, "read", epoch) = Holding(request, "read", epoch)
        /\ Holding(req, "write", epoch) = Holding(request, "write", epoch)
    BY <1>9, <1>10
  <2> QED BY <2>1, <1>2, <1>9 DEF HoldersExact
<1>12. Consistent(q, activeReaders, activeWriter, epoch, req)
  BY <1>4, <1>9, <1>11 DEF LockInv, Consistent
<1>13. HoldingElsewhere(req, epoch) = HoldingElsewhere(request, epoch)
  BY <1>9, <1>10
<1> QED BY <1>9, <1>12, <1>13 DEF OnlyCurrent, q, req

LEMMA WithdrawInv ==
    ASSUME LockInv, NEW c \in Clients, Withdraw(c)
    PROVE  LockInv'
<1> DEFINE req == [request EXCEPT ![c] = NoRequest]
<1>1. PICK k \in DOMAIN queue :
        /\ queue[k].who = c
        /\ Dispatch(Without(queue, k), activeReaders, activeWriter,
                    writerIsTransaction, epoch, req)
  BY DEF Withdraw
<1>2. Consistent(Without(queue, k), activeReaders, activeWriter, epoch, req) /\ OnlyCurrent(req)
  BY <1>1, WithdrawConsistent
<1>3. /\ UNCHANGED <<epoch, staleHolders, reclaim>>
      /\ writerIsTransaction \in BOOLEAN
  BY DEF Withdraw, LockInv
<1> HIDE DEF req
<1> QED BY <1>1, <1>2, <1>3, DispatchStep DEF OnlyCurrent

LEMMA ReleaseStaleInv ==
    ASSUME LockInv, NEW c \in Clients, ReleaseStale(c)
    PROVE  LockInv'
<1>1. Held(c) /\ request[c].epoch # epoch
  BY DEF ReleaseStale, Stale
<1>2. /\ request' = [request EXCEPT ![c] = NoRequest]
      /\ UNCHANGED <<queue, activeReaders, activeWriter, writerIsTransaction, epoch>>
      /\ NoteStaleRelease
  BY DEF ReleaseStale
<1>3. /\ request' \in [Clients -> Request]
      /\ QueueExact(queue, request')
      /\ \A d \in Clients : request'[d] = request[d] \/ request'[d].st # "held"
      /\ Holding(request', "read", epoch) = Holding(request, "read", epoch) \ {c}
      /\ Holding(request', "write", epoch) = Holding(request, "write", epoch) \ {c}
      /\ HoldingElsewhere(request', epoch) = HoldingElsewhere(request, epoch) \ {c}
  <2>1. /\ queue \in Seq(Waiter) /\ request \in [Clients -> Request]
        /\ QueueExact(queue, request) /\ \A i \in DOMAIN queue : queue[i].who # c
    BY <1>1, HolderFacts
  <2> QED BY <2>1, <1>2, ForgetRequest
<1>4. /\ c \notin Holding(request, "read", epoch)
      /\ c \notin Holding(request, "write", epoch)
      /\ c \in HoldingElsewhere(request, epoch)
  BY <1>1 DEF Holding, HoldingElsewhere, Held
<1>5. Consistent(queue', activeReaders', activeWriter', epoch', request')
  <2>1. /\ Holding(request', "read", epoch) = Holding(request, "read", epoch)
        /\ Holding(request', "write", epoch) = Holding(request, "write", epoch)
    BY <1>3, <1>4
  <2>2. HoldersExact(activeReaders, activeWriter, epoch, request')
    BY <2>1, <1>1, <1>3, HolderFacts DEF HoldersExact
  <2> QED BY <2>2, <1>1, <1>2, <1>3, HolderFacts DEF Consistent
<1>6. IsFiniteSet(HoldingElsewhere(request, epoch))
  BY LockAssumption, FS_Subset DEF HoldingElsewhere
<1>7. staleHolders' = Cardinality(HoldingElsewhere(request', epoch'))
  <2>1. staleHolders = Cardinality(HoldingElsewhere(request, epoch)) /\ staleHolders \in Nat
    BY <1>6, FS_CardinalityType DEF LockInv
  <2>2. staleHolders # 0
    BY <2>1, <1>4, <1>6, FS_EmptySet
  <2>3. staleHolders' = staleHolders - 1
    BY <2>1, <2>2, <1>2 DEF NoteStaleRelease
  <2>4. Cardinality(HoldingElsewhere(request, epoch) \ {c}) = staleHolders - 1
    BY <2>1, <1>4, <1>6, FS_RemoveElement
  <2> QED BY <2>3, <2>4, <1>2, <1>3
<1>8. /\ reclaim' \in [Reclaimers -> Reclaim]
      /\ \A w \in Reclaimers : /\ reclaim'[w].epoch = reclaim[w].epoch
                               /\ \/ reclaim'[w].st = reclaim[w].st
                                  \/ staleHolders' = 0
      /\ \A w \in Reclaimers : reclaim[w].epoch <= epoch /\ reclaim[w].epoch \in Nat
  <2>1. reclaim \in [Reclaimers -> Reclaim] /\ \A w \in Reclaimers : reclaim[w].epoch <= epoch
    BY DEF LockInv
  <2>2. \A w \in Reclaimers : /\ reclaim[w] \in Reclaim
                              /\ [reclaim[w] EXCEPT !.st = "resolved"] \in Reclaim
    BY <2>1 DEF Reclaim
  <2> QED BY <2>1, <2>2, <1>2 DEF NoteStaleRelease, Reclaim
<1>9. ReclaimIsSafe'
  <2> SUFFICES ASSUME NEW w \in Reclaimers, NEW d \in Clients,
                      reclaim'[w].st = "resolved", request'[d].st = "held"
               PROVE  request'[d].epoch >= reclaim'[w].epoch
    BY DEF ReclaimIsSafe, Held
  <2>1. request'[d] = request[d] /\ epoch \in Nat
    BY <1>1, <1>3, HolderFacts
  <2>2. CASE staleHolders' = 0
    <3>1. HoldingElsewhere(request', epoch') = {}
      BY <2>2, <1>2, <1>3, <1>6, <1>7, FS_Subset, FS_EmptySet
    <3>2. request'[d].epoch = epoch
      BY <3>1, <1>2 DEF HoldingElsewhere
    <3> QED BY <3>2, <2>1, <1>8
  <2>3. CASE reclaim'[w].st = reclaim[w].st
    BY <2>1, <2>3, <1>8 DEF LockInv, ReclaimIsSafe, Held
  <2> QED BY <2>2, <2>3, <1>8
<1>10. \A w \in Reclaimers : reclaim'[w].epoch <= epoch'
  BY <1>2, <1>8
<1>11. writerIsTransaction' \in BOOLEAN
  BY <1>2 DEF LockInv
<1> QED BY <1>5, <1>7, <1>8, <1>9, <1>10, <1>11 DEF LockInv

LEMMA ResetConsistent ==
    ASSUME LockInv
    PROVE  /\ Consistent(queue, 0, FALSE, epoch + 1, request)
           /\ HoldingElsewhere(request, epoch + 1) =
                (HoldingElsewhere(request, epoch) \cup Holding(request, "read", epoch))
                  \cup Holding(request, "write", epoch)
           /\ HoldingElsewhere(request, epoch) \cap Holding(request, "read", epoch) = {}
           /\ (HoldingElsewhere(request, epoch) \cup Holding(request, "read", epoch))
                \cap Holding(request, "write", epoch) = {}
<1> DEFINE e == epoch + 1
<1>1. /\ queue \in Seq(Waiter) /\ request \in [Clients -> Request]
      /\ QueueExact(queue, request)
      /\ HoldersExact(activeReaders, activeWriter, epoch, request)
      /\ epoch \in Nat /\ e \in Nat
      /\ activeReaders \in Nat
      /\ staleHolders = Cardinality(HoldingElsewhere(request, epoch))
  BY DEF LockInv, Consistent
<1>3. \A c \in Clients : /\ request[c].st \in {"idle", "queued", "held"}
                         /\ request[c].kind \in Kinds
                         /\ request[c].epoch \in Nat
                         /\ request[c].st = "held" => request[c].epoch <= epoch
  <2>1. \A c \in Clients : request[c] \in Request
    BY <1>1
  <2> QED BY <2>1, <1>1 DEF HoldersExact, Request
<1>4. /\ Holding(request, "read", e) = {}
      /\ Holding(request, "write", e) = {}
      /\ HoldingElsewhere(request, e) =
           (HoldingElsewhere(request, epoch) \cup Holding(request, "read", epoch))
             \cup Holding(request, "write", epoch)
      /\ HoldingElsewhere(request, epoch) \cap Holding(request, "read", epoch) = {}
      /\ (HoldingElsewhere(request, epoch) \cup Holding(request, "read", epoch))
           \cap Holding(request, "write", epoch) = {}
  <2>1. ASSUME NEW c \in Clients, request[c].st = "held" PROVE request[c].epoch # e
    <3>1. request[c].epoch \in Nat /\ request[c].epoch <= epoch /\ epoch \in Nat
      BY <2>1, <1>1, <1>3
    <3> QED BY <3>1
  <2>2. \A c \in Clients : request[c].kind = "read" \/ request[c].kind = "write"
    BY <1>3 DEF Kinds
  <2> HIDE DEF e
  <2>3. \A c : c \in HoldingElsewhere(request, e) <=> c \in Clients /\ request[c].st = "held"
    BY <2>1 DEF HoldingElsewhere
  <2> QED BY <2>1, <2>2, <2>3 DEF Holding, HoldingElsewhere
<1>5. HoldersExact(0, FALSE, e, request)
  <2>1. ASSUME NEW c \in Clients, request[c].st = "held" PROVE request[c].epoch <= e
    <3>1. request[c].epoch \in Nat /\ request[c].epoch <= epoch /\ epoch \in Nat
      BY <2>1, <1>1, <1>3
    <3> QED BY <3>1
  <2> HIDE DEF e
  <2> QED BY <2>1, <1>4, FS_EmptySet DEF HoldersExact
<1>6. Consistent(queue, 0, FALSE, e, request)
  BY <1>1, <1>5 DEF Consistent
<1> QED BY <1>4, <1>6

\* Those reset() discards are all who hold the lock, of whatever epoch.
LEMMA DiscardedCounted ==
    ASSUME LockInv
    PROVE  staleHolders + activeReaders + (IF activeWriter THEN 1 ELSE 0)
             = Cardinality(HoldingElsewhere(request, epoch + 1))
<1> DEFINE A == HoldingElsewhere(request, epoch)
           R == Holding(request, "read", epoch)
           W == Holding(request, "write", epoch)
           e == epoch + 1
<1>1. /\ HoldersExact(activeReaders, activeWriter, epoch, request)
      /\ activeReaders \in Nat
      /\ staleHolders = Cardinality(A)
  BY DEF LockInv, Consistent
<1>2. IsFiniteSet(A) /\ IsFiniteSet(R) /\ IsFiniteSet(W)
  BY LockAssumption, FS_Subset DEF Holding, HoldingElsewhere
<1>3. Cardinality(W) = IF activeWriter THEN 1 ELSE 0
  <2>1. CASE activeWriter
    <3>1. \E c : W = {c}
      BY <2>1, <1>1 DEF HoldersExact
    <3> QED BY <2>1, <3>1, <1>2, FS_Singleton
  <2>2. CASE ~activeWriter
    <3>1. W = {}
      BY <2>2, <1>1 DEF HoldersExact
    <3> QED BY <2>2, <3>1, FS_EmptySet
  <2> QED BY <2>1, <2>2
<1>4. Cardinality(R) = activeReaders /\ staleHolders \in Nat
  BY <1>1, <1>2, FS_CardinalityType DEF HoldersExact
<1>5. A \cap R = {} /\ (A \cup R) \cap W = {} /\ HoldingElsewhere(request, e) = (A \cup R) \cup W
  BY ResetConsistent
<1> HIDE DEF A, R, W, e
<1>6. IsFiniteSet(A \cup R) /\ Cardinality(A \cup R) = staleHolders + activeReaders
  <2>1. IsFiniteSet(A \cup R) /\ Cardinality(A \cup R) = staleHolders + activeReaders - Cardinality({})
    BY <1>1, <1>2, <1>4, <1>5, FS_Union
  <2> QED BY <2>1, <1>1, <1>4, FS_EmptySet
<1>7. Cardinality((A \cup R) \cup W) = staleHolders + activeReaders + Cardinality(W)
  <2>1. Cardinality((A \cup R) \cup W) = Cardinality(A \cup R) + Cardinality(W) - Cardinality({})
    BY <1>2, <1>5, <1>6, FS_Union
  <2>2. Cardinality(W) \in Nat
    BY <1>2, FS_CardinalityType
  <2> QED BY <2>1, <2>2, <1>1, <1>4, <1>6, FS_EmptySet
<1> QED BY <1>3, <1>5, <1>7 DEF e

\* A reset, whatever ends with it and whoever waits for those it discards: the
\* counters start again, and staleHolders counts the holders of earlier epochs.
LEMMA DiscardInv ==
    ASSUME LockInv, NEW req,
           Consistent(queue, 0, FALSE, epoch + 1, req),
           \A c \in Clients : req[c] = request[c] \/ req[c].st # "held",
           epoch' = epoch + 1,
           staleHolders' = Cardinality(HoldingElsewhere(req, epoch + 1)),
           Dispatch(queue, 0, FALSE, FALSE, epoch + 1, req),
           reclaim' \in [Reclaimers -> Reclaim],
           \A w \in Reclaimers : reclaim'[w].epoch <= epoch + 1,
           \A w \in Reclaimers : \/ reclaim'[w].st # "resolved" \/ reclaim'[w] = reclaim[w]
                                 \/ staleHolders' = 0
    PROVE  LockInv'
<1> DEFINE e == epoch + 1
<1>1. epoch \in Nat /\ e \in Nat /\ epoch < e /\ epoch' = e
  BY DEF LockInv, Consistent
<1>2. /\ Consistent(queue', activeReaders', activeWriter', e, request')
      /\ writerIsTransaction' \in BOOLEAN
      /\ HoldingElsewhere(request', e) = HoldingElsewhere(req, e)
      /\ \A c \in Clients : \/ request'[c] = req[c]
                            \/ request'[c].st = "held" /\ request'[c].epoch = e
  <2>1. \E readers, writer : \E txn \in BOOLEAN :
          /\ Consistent(queue, readers, writer, e, req)
          /\ Dispatch(queue, readers, writer, txn, e, req)
    BY DEF e
  <2> HIDE DEF e
  <2> QED BY <2>1, DispatchConsistent
<1>3. staleHolders' = Cardinality(HoldingElsewhere(request', epoch'))
  BY <1>1, <1>2
<1>4. \A w \in Reclaimers : /\ reclaim[w].epoch \in Nat /\ reclaim[w].epoch <= epoch
                            /\ reclaim'[w].epoch \in Nat /\ reclaim'[w].epoch <= epoch'
  BY DEF LockInv, Reclaim
<1>5. ReclaimIsSafe'
  <2> SUFFICES ASSUME NEW w \in Reclaimers, NEW c \in Clients,
                      reclaim'[w].st = "resolved", request'[c].st = "held"
               PROVE  request'[c].epoch >= reclaim'[w].epoch
    BY DEF ReclaimIsSafe, Held
  <2>1. CASE request'[c].epoch = e
    BY <2>1, <1>1, <1>4
  <2>2. CASE request'[c] = request[c] /\ reclaim'[w] = reclaim[w]
    BY <2>2 DEF LockInv, ReclaimIsSafe, Held
  <2>3. CASE staleHolders' = 0
    <3>1. IsFiniteSet(HoldingElsewhere(request', epoch'))
      BY LockAssumption, FS_Subset DEF HoldingElsewhere
    <3>2. HoldingElsewhere(request', epoch') = {}
      BY <2>3, <1>3, <3>1, FS_EmptySet
    <3>3. request'[c].epoch = e
      BY <3>2, <1>1 DEF HoldingElsewhere
    <3> QED BY <3>3, <2>1
  <2>4. \/ request'[c].epoch = e
        \/ request'[c] = request[c]
    BY <1>2
  <2> QED BY <2>1, <2>2, <2>3, <2>4
<1> HIDE DEF e
<1> QED BY <1>1, <1>2, <1>3, <1>4, <1>5 DEF LockInv

LEMMA ResetInv ==
    ASSUME LockInv, Reset
    PROVE  LockInv'
<1>1. /\ epoch' = epoch + 1
      /\ staleHolders' = staleHolders + activeReaders + (IF activeWriter THEN 1 ELSE 0)
      /\ Dispatch(queue, 0, FALSE, FALSE, epoch + 1, request)
      /\ reclaim' = reclaim
  BY DEF Reset
<1>2. /\ Consistent(queue, 0, FALSE, epoch + 1, request)
      /\ staleHolders' = Cardinality(HoldingElsewhere(request, epoch + 1))
  BY <1>1, ResetConsistent, DiscardedCounted
<1>3. /\ reclaim' \in [Reclaimers -> Reclaim]
      /\ \A w \in Reclaimers : reclaim'[w].epoch <= epoch + 1
  BY <1>1 DEF LockInv, Consistent, Reclaim
<1> QED BY <1>1, <1>2, <1>3, DiscardInv

LEMMA WhenStaleHoldersReleasedInv ==
    ASSUME LockInv, NEW w \in Reclaimers, WhenStaleHoldersReleased(w)
    PROVE  LockInv'
<1> DEFINE r == [st |-> IF staleHolders = 0 THEN "resolved" ELSE "waiting",
                 epoch |-> epoch]
<1>1. /\ reclaim' = [reclaim EXCEPT ![w] = r]
      /\ UNCHANGED <<queue, activeReaders, activeWriter, writerIsTransaction,
                     epoch, staleHolders, request>>
  BY DEF WhenStaleHoldersReleased
<1>2. /\ reclaim \in [Reclaimers -> Reclaim] /\ epoch \in Nat
      /\ \A v \in Reclaimers : reclaim[v].epoch <= epoch
      /\ HoldersExact(activeReaders, activeWriter, epoch, request)
      /\ staleHolders = Cardinality(HoldingElsewhere(request, epoch))
  BY DEF LockInv, Consistent
<1>3. reclaim' \in [Reclaimers -> Reclaim] /\ \A v \in Reclaimers : reclaim'[v].epoch <= epoch'
  BY <1>1, <1>2 DEF Reclaim
<1>4. ReclaimIsSafe'
  <2> SUFFICES ASSUME NEW v \in Reclaimers, NEW c \in Clients,
                      reclaim'[v].st = "resolved", request'[c].st = "held"
               PROVE  request'[c].epoch >= reclaim'[v].epoch
    BY DEF ReclaimIsSafe, Held
  <2>1. CASE v # w
    BY <2>1, <1>1 DEF LockInv, ReclaimIsSafe, Held
  <2>2. CASE v = w
    <3>1. staleHolders = 0 /\ reclaim'[v].epoch = epoch
      BY <2>2, <1>1, <1>2
    <3>2. IsFiniteSet(HoldingElsewhere(request, epoch))
      BY LockAssumption, FS_Subset DEF HoldingElsewhere
    <3>3. HoldingElsewhere(request, epoch) = {}
      BY <3>1, <3>2, <1>2, FS_EmptySet
    <3>4. request'[c].epoch = epoch
      BY <3>3, <1>1 DEF HoldingElsewhere
    <3> QED BY <3>1, <3>4, <1>2
  <2> QED BY <2>1, <2>2
<1>5. Consistent(queue', activeReaders', activeWriter', epoch', request')
  BY <1>1 DEF LockInv
<1>6. /\ writerIsTransaction' \in BOOLEAN
      /\ staleHolders' = Cardinality(HoldingElsewhere(request', epoch'))
  BY <1>1 DEF LockInv
<1> QED BY <1>3, <1>4, <1>5, <1>6 DEF LockInv

-----------------------------------------------------------------------------
LEMMA LockStepInv == LockInv /\ [LockNext]_lockVars => LockInv'
<1> SUFFICES ASSUME LockInv, [LockNext]_lockVars PROVE LockInv'
  OBVIOUS
<1>1. ASSUME NEW c \in Clients, Read(c) \/ Write(c) \/ AcquireWrite(c) \/ TryAcquireWrite(c)
      PROVE  LockInv'
  <2>1. "read" \in Kinds /\ "write" \in Kinds
    BY DEF Kinds
  <2> QED BY <1>1, <2>1, AcquireInv DEF Read, Write, AcquireWrite, TryAcquireWrite
<1>2. ASSUME NEW c \in Clients, ReleaseStale(c) PROVE LockInv'
  BY <1>2, ReleaseStaleInv
<1>3. ASSUME NEW c \in Clients, ReleaseRead(c) PROVE LockInv'
  BY <1>3, ReleaseReadInv
<1>4. ASSUME NEW c \in Clients, ReleaseWrite(c) PROVE LockInv'
  BY <1>4, ReleaseWriteInv
<1>5. ASSUME NEW c \in Clients, Withdraw(c) PROVE LockInv'
  BY <1>5, WithdrawInv
<1>6. CASE Reset
  BY <1>6, ResetInv
<1>7. ASSUME NEW w \in Reclaimers, WhenStaleHoldersReleased(w) PROVE LockInv'
  BY <1>7, WhenStaleHoldersReleasedInv
<1>8. CASE UNCHANGED lockVars
  BY <1>8 DEF LockInv, Consistent, lockVars, QueueExact, HoldersExact, Holding,
              HoldingElsewhere, ReclaimIsSafe, Held
<1> QED BY <1>1, <1>2, <1>3, <1>4, <1>5, <1>6, <1>7, <1>8 DEF LockNext

THEOREM LockInvariant == LockSpec => []LockInv
BY LockInitInv, LockStepInv, PTL DEF LockSpec

\* Every variable of the lock keeps its type.
THEOREM LockTypeCorrect == LockSpec => []LockTypeOK
<1>1. LockInv => LockTypeOK
  <2> SUFFICES ASSUME LockInv PROVE LockTypeOK
    OBVIOUS
  <2>1. IsFiniteSet(HoldingElsewhere(request, epoch))
    BY LockAssumption, FS_Subset DEF HoldingElsewhere
  <2>2. staleHolders \in Nat
    BY <2>1, FS_CardinalityType DEF LockInv
  <2> QED BY <2>2 DEF LockInv, Consistent, LockTypeOK
<1> QED BY <1>1, LockInvariant, PTL

\* The counters of db-lock.ts are the holders, in every reachable state.
THEOREM LockCountersExact == LockSpec => []CountersExact
<1>1. LockInv => CountersExact
  BY DEF LockInv, Consistent, HoldersExact, CountersExact
<1> QED BY <1>1, LockInvariant, PTL

\* A holder for writing is the only holder of its epoch.
LEMMA HoldersExclude == LockInv => MutualExclusion
<1> SUFFICES ASSUME LockInv, NEW c \in Clients, NEW d \in Clients, c # d,
                    Current(c), Current(d), request[c].kind = "write"
             PROVE  FALSE
  <2> SUFFICES ASSUME LockInv PROVE MutualExclusion
    OBVIOUS
  <2>1. \A b \in Clients : request[b] \in Request
    BY DEF LockInv, Consistent
  <2>2. \A b \in Clients : request[b].kind \in {"read", "write"}
    BY <2>1 DEF Request, Kinds
  <2> QED BY <2>2 DEF MutualExclusion
<1>1. /\ HoldersExact(activeReaders, activeWriter, epoch, request)
      /\ request \in [Clients -> Request]
  BY DEF LockInv, Consistent
<1>2. c \in Holding(request, "write", epoch)
  BY DEF Holding, Current, Held
<1>3. activeWriter /\ activeReaders = 0
  BY <1>1, <1>2 DEF HoldersExact
<1>4. CASE request[d].kind = "write"
  BY <1>1, <1>2, <1>4 DEF HoldersExact, Holding, Current, Held
<1>5. CASE request[d].kind = "read"
  <2>1. IsFiniteSet(Holding(request, "read", epoch))
    BY LockAssumption, FS_Subset DEF Holding
  <2>2. Holding(request, "read", epoch) = {}
    BY <1>1, <1>3, <2>1, FS_EmptySet DEF HoldersExact
  <2> QED BY <2>2, <1>5 DEF Holding, Current, Held
<1> QED BY <1>1, <1>4, <1>5 DEF Request, Kinds

\* A writer excludes every other holder of its epoch.
THEOREM LockMutualExclusion == LockSpec => []MutualExclusion
BY HoldersExclude, LockInvariant, PTL

\* whenStaleHoldersReleased() resolves only once nobody granted before the call
\* was superseded still holds the lock: a deferred close frees no handle in use.
THEOREM LockReclaimIsSafe == LockSpec => []ReclaimIsSafe
<1>1. LockInv => ReclaimIsSafe
  BY DEF LockInv
<1> QED BY <1>1, LockInvariant, PTL

-----------------------------------------------------------------------------
(***************************************************************************)
(* The order in which the lock serves: no wake-up is lost, nobody is       *)
(* overtaken, and the release of a discarded holder disturbs nobody.       *)
(*                                                                         *)
(* The argument: a step of the lock either hands dispatch() a queue in     *)
(* which everybody who waits is, in the order of before (Hands), or leaves *)
(* the queue and the counters alone and grants nothing (Quiet).  Either    *)
(* way it keeps the order (InOrder), which is shown once for dispatch().   *)
(***************************************************************************)
InQueue(q, c) == \E i \in DOMAIN q : q[i].who = c

AheadIn(q, d, c) == \E i, j \in DOMAIN q : i < j /\ q[i].who = d /\ q[j].who = c

\* Whoever waits is in the queue: its promise has not been forgotten.
QueueComplete == \A c \in Clients : request[c].st = "queued" => InQueue(queue, c)

OrderInv == LockInv /\ QueueComplete /\ NoLostWakeup

\* What each operation of the lock hands to dispatch().
Hands(q, req) ==
    /\ q \in Seq(Waiter)
    /\ req \in [Clients -> Request]
    /\ \A c \in Clients : req[c].st = "held" => request[c].st = "held"
    /\ \A c \in Clients : req[c].st = "queued" => InQueue(q, c)
    /\ \A c, d \in Clients :
         (c # d /\ request[c].st = "queued" /\ AheadIn(q, d, c)) => AheadIn(queue, d, c)

\* A step that does not end in dispatch().
Quiet ==
    /\ UNCHANGED <<queue, activeReaders, activeWriter>>
    /\ \A c \in Clients :
         /\ request'[c].st = "held" => request[c].st = "held"
         /\ request'[c].st = "queued" => request[c].st = "queued"

\* What a step may not do to those who wait.
KeepsOrder ==
    \A c, d \in Clients :
        (/\ c # d
         /\ request[c].st = "queued"
         /\ request'[c].st = "queued"
         /\ ~Held(d)
         /\ ~Ahead(d, c)) => ~Held(d)' /\ ~Ahead(d, c)'

InOrder == QueueComplete' /\ NoLostWakeup' /\ KeepsOrder

-----------------------------------------------------------------------------
\* dispatch() takes a prefix off the queue, grants exactly the clients in it,
\* and stops only where a holder blocks the next waiter.
LEMMA DispatchEffect ==
    ASSUME NEW q \in Seq(Waiter), NEW readers \in Nat, NEW writer \in BOOLEAN,
           NEW txn, NEW e, NEW req \in [Clients -> Request],
           Dispatch(q, readers, writer, txn, e, req)
    PROVE  /\ \E n \in 0..Len(q) :
                /\ DOMAIN queue' = 1..Len(q) - n
                /\ \A i \in 1..Len(q) - n : queue'[i] = q[n + i]
                /\ \A c \in Clients :
                     IF \E i \in 1..n : q[i].who = c
                     THEN request'[c].st = "held"
                     ELSE request'[c] = req[c]
           /\ NoLostWakeup'
<1> DEFINE n == GrantCount(q, readers, writer)
           granted == {q[i].who : i \in 1..n}
           grantsWrite == n > 0 /\ q[1].kind = "write"
<1>1. /\ queue' = SubSeq(q, n + 1, Len(q))
      /\ activeReaders' = IF grantsWrite THEN readers ELSE readers + n
      /\ activeWriter' = (writer \/ grantsWrite)
      /\ request' = [c \in Clients |->
                       IF c \in granted
                       THEN [req[c] EXCEPT !.st = "held", !.epoch = e]
                       ELSE req[c]]
  BY DEF Dispatch
<1>2. /\ Len(q) \in Nat
      /\ \A i \in 1..Len(q) : q[i] \in Waiter
  BY LenProperties, ElementOfSeq
<1>3. \A i \in 1..Len(q) : q[i].kind \in {"read", "write"}
  BY <1>2 DEF Waiter, Kinds
\* Where dispatch() stops.
<1>4. /\ n \in 0..Len(q)
      /\ n < Len(q) =>
           \/ writer
           \/ grantsWrite
           \/ q[n + 1].kind = "write" /\ (n > 0 \/ readers > 0)
  <2>1. CASE q = <<>>
    <3>1. n = 0 /\ Len(q) = 0
      BY <2>1, EmptySeq DEF GrantCount
    <3> QED BY <3>1
  <2>2. CASE writer
    BY <2>2, <1>2 DEF GrantCount
  <2>3. CASE ~writer /\ q # <<>> /\ q[1].kind = "write"
    <3>1. n = IF readers > 0 THEN 0 ELSE 1
      BY <2>3 DEF GrantCount
    <3>2. Len(q) > 0
      BY <2>3, <1>2, EmptySeq
    <3> HIDE DEF n
    <3> QED BY <3>1, <3>2, <2>3, <1>2
  <2>4. CASE ~writer /\ q # <<>> /\ q[1].kind # "write"
    <3>1. n = LeadingReads(q)
      BY <2>4 DEF GrantCount
    <3>2. n \in 0..Len(q) /\ (n < Len(q) => q[n + 1].kind = "write")
      BY <3>1, LeadingReadsExact
    <3>3. n = 0 => n + 1 = 1
      OBVIOUS
    <3> HIDE DEF n
    <3> QED BY <3>2, <3>3, <2>4, <1>2
  <2> QED BY <2>1, <2>2, <2>3, <2>4
<1>5. /\ queue' \in Seq(Waiter)
      /\ Len(queue') = Len(q) - n
      /\ \A i \in 1..Len(q) - n : queue'[i] = q[n + i]
  <2> HIDE DEF n
  <2>1. \A i \in n + 1..Len(q) : q[i] \in Waiter
    BY <1>2, <1>4
  <2>2. n + 1 \in Int /\ Len(q) \in Int
    BY <1>2, <1>4
  <2>3. /\ SubSeq(q, n + 1, Len(q)) \in Seq(Waiter)
        /\ Len(SubSeq(q, n + 1, Len(q))) = IF n + 1 <= Len(q) THEN Len(q) - (n + 1) + 1 ELSE 0
        /\ \A i \in 1..(Len(q) - (n + 1) + 1) : SubSeq(q, n + 1, Len(q))[i] = q[n + 1 + i - 1]
    BY <2>1, <2>2, SubSeqProperties
  <2>4. Len(queue') = Len(q) - n
    <3>1. n \in 0..Len(q) /\ Len(q) \in Nat
      BY <1>2, <1>4
    <3>2. Len(queue') = IF n + 1 <= Len(q) THEN Len(q) - (n + 1) + 1 ELSE 0
      BY <2>3, <1>1
    <3> QED BY <3>1, <3>2
  <2>5. ASSUME NEW i \in 1..Len(q) - n PROVE queue'[i] = q[n + i]
    <3>1. i \in 1..(Len(q) - (n + 1) + 1) /\ n + 1 + i - 1 = n + i
      BY <1>2, <1>4
    <3> QED BY <3>1, <2>3, <1>1
  <2> QED BY <2>3, <2>4, <2>5, <1>1
<1>6. DOMAIN queue' = 1..Len(q) - n
  BY <1>5, LenProperties
<1>7. ASSUME NEW c \in Clients
      PROVE  IF \E i \in 1..n : q[i].who = c
             THEN request'[c].st = "held"
             ELSE request'[c] = req[c]
  <2>1. req[c] \in Request
    OBVIOUS
  <2>2. [req[c] EXCEPT !.st = "held", !.epoch = e].st = "held"
    BY <2>1 DEF Request
  <2>3. c \in granted <=> \E i \in 1..n : q[i].who = c
    OBVIOUS
  <2>4. request'[c] = IF c \in granted
                      THEN [req[c] EXCEPT !.st = "held", !.epoch = e]
                      ELSE req[c]
    BY <1>1
  <2> HIDE DEF n, granted
  <2> QED BY <2>2, <2>3, <2>4
<1>8. NoLostWakeup'
  <2> SUFFICES ASSUME queue' # <<>>, ~activeWriter'
               PROVE  Head(queue').kind = "write" /\ activeReaders' > 0
    BY DEF NoLostWakeup
  <2>1. Len(queue') # 0
    BY <1>5, EmptySeq
  <2> HIDE DEF n
  <2>2. n < Len(q) /\ 1 \in 1..Len(q) - n
    BY <2>1, <1>2, <1>4, <1>5
  <2>3. Head(queue') = q[n + 1]
    BY <2>2, <1>5
  <2>4. ~grantsWrite /\ ~writer /\ activeReaders' = readers + n
    BY <1>1
  <2> HIDE DEF grantsWrite
  <2> QED BY <2>2, <2>3, <2>4, <1>4
<1> QED BY <1>4, <1>6, <1>5, <1>7, <1>8

\* The queue of an operation that keeps the order keeps it through dispatch():
\* whoever still waits is in the queue, and was behind whoever is ahead of it or
\* was granted.
LEMMA DispatchOrder ==
    ASSUME NEW q, NEW req, NEW readers \in Nat, NEW writer \in BOOLEAN, NEW txn, NEW e,
           Hands(q, req), Dispatch(q, readers, writer, txn, e, req)
    PROVE  InOrder
<1>1. /\ q \in Seq(Waiter) /\ req \in [Clients -> Request]
      /\ \A c \in Clients : req[c].st = "held" => request[c].st = "held"
      /\ \A c \in Clients : req[c].st = "queued" => InQueue(q, c)
      /\ \A c, d \in Clients :
           (c # d /\ request[c].st = "queued" /\ AheadIn(q, d, c)) => AheadIn(queue, d, c)
  BY DEF Hands
<1>2. PICK n \in 0..Len(q) :
        /\ DOMAIN queue' = 1..Len(q) - n
        /\ \A i \in 1..Len(q) - n : queue'[i] = q[n + i]
        /\ \A c \in Clients :
             IF \E i \in 1..n : q[i].who = c
             THEN request'[c].st = "held"
             ELSE request'[c] = req[c]
  BY <1>1, DispatchEffect
<1>3. Len(q) \in Nat /\ DOMAIN q = 1..Len(q)
  BY <1>1, LenProperties
<1>4. ASSUME NEW c \in Clients, request'[c].st = "queued"
      PROVE  \E j \in n + 1..Len(q) : q[j].who = c
  <2>1. ~\E i \in 1..n : q[i].who = c
    BY <1>2, <1>4
  <2>2. req[c].st = "queued"
    BY <1>2, <1>4, <2>1
  <2>3. PICK j \in 1..Len(q) : q[j].who = c
    BY <1>1, <1>3, <2>2 DEF InQueue
  <2>4. j \in n + 1..Len(q)
    BY <1>2, <1>3, <2>1, <2>3
  <2> QED BY <2>3, <2>4
<1>5. QueueComplete'
  <2> SUFFICES ASSUME NEW c \in Clients, request'[c].st = "queued"
               PROVE  \E i \in DOMAIN queue' : queue'[i].who = c
    BY DEF QueueComplete, InQueue
  <2>1. PICK j \in n + 1..Len(q) : q[j].who = c
    BY <1>4
  <2>2. j - n \in 1..Len(q) - n /\ n + (j - n) = j
    BY <1>2, <1>3
  <2>3. queue'[j - n] = q[j]
    BY <1>2, <2>2
  <2> QED BY <1>2, <2>1, <2>2, <2>3
<1>6. ASSUME NEW c \in Clients, NEW d \in Clients, c # d,
             request[c].st = "queued", request'[c].st = "queued", ~Held(d),
             ~AheadIn(queue, d, c)
      PROVE  ~Held(d)' /\ ~AheadIn(queue', d, c)
  <2>1. ~AheadIn(q, d, c)
    BY <1>1, <1>6
  <2>2. PICK j \in n + 1..Len(q) : q[j].who = c
    BY <1>4, <1>6
  <2>3. ~\E i \in 1..n : q[i].who = d
    <3> SUFFICES ASSUME NEW i \in 1..n, q[i].who = d PROVE FALSE
      OBVIOUS
    <3>1. i \in DOMAIN q /\ j \in DOMAIN q /\ i < j
      BY <1>2, <1>3
    <3> QED BY <2>1, <2>2, <3>1 DEF AheadIn
  <2>4. ~Held(d)'
    <3>1. request'[d] = req[d]
      BY <1>2, <2>3
    <3> QED BY <1>1, <1>6, <3>1 DEF Held
  <2>5. ~AheadIn(queue', d, c)
    <3> SUFFICES ASSUME NEW i \in DOMAIN queue', NEW k \in DOMAIN queue',
                        i < k, queue'[i].who = d, queue'[k].who = c
                 PROVE  FALSE
      BY DEF AheadIn
    <3>0. i \in 1..Len(q) - n /\ k \in 1..Len(q) - n
      BY <1>2
    <3>1. queue'[i] = q[n + i] /\ queue'[k] = q[n + k]
      BY <1>2, <3>0
    <3>2. n \in Nat /\ Len(q) \in Nat /\ i \in Nat /\ k \in Nat
      BY <1>3, <3>0
    <3>3. n + i \in 1..Len(q) /\ n + k \in 1..Len(q) /\ n + i < n + k
      BY <3>0, <3>2
    <3> QED BY <2>1, <1>3, <3>1, <3>3 DEF AheadIn
  <2> QED BY <2>4, <2>5
<1>7. KeepsOrder
  BY <1>6 DEF KeepsOrder, Ahead, AheadIn
<1>8. NoLostWakeup'
  BY <1>1, DispatchEffect
<1> QED BY <1>5, <1>7, <1>8 DEF InOrder

-----------------------------------------------------------------------------
(***************************************************************************)
(* Every step keeps the order, one lemma for each operation.               *)
(***************************************************************************)
\* A new waiter goes to the end of the queue.
LEMMA AcquireInOrder ==
    ASSUME LockInv, QueueComplete, NEW c \in Clients, NEW kind \in Kinds,
           NEW txn \in BOOLEAN, NEW timed \in BOOLEAN, Acquire(c, kind, txn, timed)
    PROVE  InOrder
<1> DEFINE w == [who |-> c, kind |-> kind, txn |-> txn]
           r == [st |-> "queued", kind |-> kind, timed |-> timed, epoch |-> 0]
           req == [request EXCEPT ![c] = r]
           q == Append(queue, w)
<1>1. /\ queue \in Seq(Waiter) /\ request \in [Clients -> Request]
      /\ activeReaders \in Nat /\ activeWriter \in BOOLEAN
      /\ request[c].st = "idle"
      /\ Dispatch(q, activeReaders, activeWriter, writerIsTransaction, epoch, req)
  BY DEF LockInv, Consistent, Acquire
<1>2. w \in Waiter /\ r \in Request /\ r.st = "queued"
  BY DEF Waiter, Request
<1>3. /\ req \in [Clients -> Request]
      /\ req[c] = r
      /\ \A d \in Clients \ {c} : req[d] = request[d]
  BY <1>1, <1>2
<1>4. /\ q \in Seq(Waiter)
      /\ Len(queue) \in Nat
      /\ DOMAIN q = 1..Len(queue) + 1 /\ DOMAIN queue = 1..Len(queue)
      /\ \A i \in 1..Len(queue) : q[i] = queue[i]
      /\ q[Len(queue) + 1] = w
  <2>1. /\ q \in Seq(Waiter) /\ Len(q) = Len(queue) + 1 /\ q[Len(queue) + 1] = w
        /\ \A i \in 1..Len(queue) : q[i] = queue[i]
    BY <1>1, <1>2, AppendProperties
  <2> QED BY <2>1, <1>1, LenProperties
<1>5. w.who = c
  OBVIOUS
<1> HIDE DEF q, req, w, r
<1>6. ASSUME NEW d \in Clients, req[d].st = "queued" PROVE InQueue(q, d)
  <2>1. CASE d = c
    BY <2>1, <1>4, <1>5 DEF InQueue
  <2>2. CASE d # c
    <3>1. PICK i \in 1..Len(queue) : queue[i].who = d
      BY <2>2, <1>3, <1>4, <1>6 DEF QueueComplete, InQueue
    <3>2. i \in DOMAIN q /\ q[i] = queue[i]
      BY <1>4
    <3> QED BY <3>1, <3>2 DEF InQueue
  <2> QED BY <2>1, <2>2
<1>7. ASSUME NEW a \in Clients, NEW d \in Clients, a # d,
             request[a].st = "queued", AheadIn(q, d, a)
      PROVE  AheadIn(queue, d, a)
  <2>1. PICK i \in DOMAIN q, j \in DOMAIN q : i < j /\ q[i].who = d /\ q[j].who = a
    BY <1>7 DEF AheadIn
  <2>2. j # Len(queue) + 1
    BY <2>1, <1>1, <1>4, <1>5, <1>7
  <2>3. i \in DOMAIN queue /\ j \in DOMAIN queue /\ q[i] = queue[i] /\ q[j] = queue[j]
    BY <2>1, <2>2, <1>4
  <2> QED BY <2>1, <2>3 DEF AheadIn
<1>8. \A d \in Clients : req[d].st = "held" => request[d].st = "held"
  BY <1>2, <1>3
<1>9. Hands(q, req)
  BY <1>3, <1>4, <1>6, <1>7, <1>8 DEF Hands
<1> QED BY <1>1, <1>9, DispatchOrder

\* A release and a reset hand over the queue as it is.
LEMMA SameQueueHands ==
    ASSUME LockInv, QueueComplete, NEW req \in [Clients -> Request],
           \A c \in Clients : req[c] = request[c] \/ req[c].st = "idle"
    PROVE  Hands(queue, req)
<1>1. queue \in Seq(Waiter)
  BY DEF LockInv, Consistent
<1>2. \A c \in Clients : req[c].st # "idle" => req[c].st = request[c].st
  OBVIOUS
<1> QED BY <1>1, <1>2 DEF Hands, QueueComplete

\* The request table once c's request has ended.
LEMMA ForgottenRequest ==
    ASSUME LockInv, NEW c \in Clients
    PROVE  /\ [request EXCEPT ![c] = NoRequest] \in [Clients -> Request]
           /\ \A d \in Clients : \/ [request EXCEPT ![c] = NoRequest][d] = request[d]
                                 \/ [request EXCEPT ![c] = NoRequest][d].st = "idle"
           /\ [request EXCEPT ![c] = NoRequest][c].st = "idle"
<1>1. request \in [Clients -> Request]
  BY DEF LockInv, Consistent
<1>2. NoRequest \in Request /\ NoRequest.st = "idle"
  BY DEF NoRequest, Request, Kinds
<1> QED BY <1>1, <1>2

\* A release hands over the queue as it is.
LEMMA ReleaseInOrder ==
    ASSUME LockInv, QueueComplete, NEW c \in Clients, ReleaseRead(c) \/ ReleaseWrite(c)
    PROVE  InOrder
<1> DEFINE req == [request EXCEPT ![c] = NoRequest]
           readers == IF activeReaders > 0 THEN activeReaders - 1 ELSE activeReaders
<1>1. activeReaders \in Nat /\ activeWriter \in BOOLEAN
  BY DEF LockInv, Consistent
<1>2. readers \in Nat
  BY <1>1
<1>3. Hands(queue, req)
  BY ForgottenRequest, SameQueueHands
<1>4. \/ Dispatch(queue, readers, activeWriter, writerIsTransaction, epoch, req)
      \/ Dispatch(queue, activeReaders, FALSE, FALSE, epoch, req)
  BY DEF ReleaseRead, ReleaseWrite
<1> HIDE DEF req, readers
<1> QED BY <1>1, <1>2, <1>3, <1>4, DispatchOrder

\* So does a reset.
LEMMA ResetInOrder ==
    ASSUME LockInv, QueueComplete, Reset
    PROVE  InOrder
<1>1. request \in [Clients -> Request]
  BY DEF LockInv, Consistent
<1>2. Hands(queue, request)
  BY <1>1, SameQueueHands
<1>3. Dispatch(queue, 0, FALSE, FALSE, epoch + 1, request)
  BY DEF Reset
<1> QED BY <1>2, <1>3, DispatchOrder

\* A withdrawal takes one waiter out and keeps the others in order.
LEMMA WithdrawInOrder ==
    ASSUME LockInv, QueueComplete, NEW c \in Clients, Withdraw(c)
    PROVE  InOrder
<1> DEFINE req == [request EXCEPT ![c] = NoRequest]
<1>1. PICK k \in DOMAIN queue :
        /\ queue[k].who = c
        /\ Dispatch(Without(queue, k), activeReaders, activeWriter,
                    writerIsTransaction, epoch, req)
  BY DEF Withdraw
<1> DEFINE q == Without(queue, k)
           pos(i) == IF i < k THEN i ELSE i + 1
<1>2. /\ queue \in Seq(Waiter) /\ activeReaders \in Nat /\ activeWriter \in BOOLEAN
      /\ Len(queue) \in Nat /\ DOMAIN queue = 1..Len(queue)
  BY LenProperties DEF LockInv, Consistent
<1>3. /\ q \in Seq(Waiter)
      /\ DOMAIN q = 1..Len(queue) - 1
      /\ \A i \in 1..Len(queue) - 1 : q[i] = queue[pos(i)]
  BY <1>2, WithoutPositions
<1>4. /\ req \in [Clients -> Request]
      /\ \A d \in Clients : req[d] = request[d] \/ req[d].st = "idle"
      /\ req[c].st = "idle"
  BY ForgottenRequest
<1> HIDE DEF q, req
<1>5. ASSUME NEW d \in Clients, req[d].st = "queued" PROVE InQueue(q, d)
  <2>1. d # c /\ request[d].st = "queued"
    BY <1>4, <1>5
  <2>2. PICK j \in 1..Len(queue) : queue[j].who = d
    BY <2>1, <1>2 DEF QueueComplete, InQueue
  <2>3. j # k
    BY <2>1, <2>2, <1>1
  <2>4. CASE j < k
    <3>1. j \in 1..Len(queue) - 1 /\ pos(j) = j
      BY <2>4, <1>2, <1>1
    <3> QED BY <3>1, <2>2, <1>3 DEF InQueue
  <2>5. CASE j > k
    <3>1. j - 1 \in 1..Len(queue) - 1 /\ pos(j - 1) = j
      BY <2>5, <1>2, <1>1
    <3> HIDE DEF pos
    <3> QED BY <3>1, <2>2, <1>3 DEF InQueue
  <2> QED BY <2>3, <2>4, <2>5, <1>1, <1>2
<1>6. ASSUME NEW a \in Clients, NEW d \in Clients, AheadIn(q, d, a)
      PROVE  AheadIn(queue, d, a)
  <2>1. PICK i \in DOMAIN q, j \in DOMAIN q : i < j /\ q[i].who = d /\ q[j].who = a
    BY <1>6 DEF AheadIn
  <2>2. pos(i) \in DOMAIN queue /\ pos(j) \in DOMAIN queue /\ pos(i) < pos(j)
    BY <2>1, <1>1, <1>2, <1>3
  <2> HIDE DEF pos
  <2> QED BY <2>1, <2>2, <1>3 DEF AheadIn
<1>7. \A d \in Clients : req[d].st = "held" => request[d].st = "held"
  BY <1>4
<1>8. Hands(q, req)
  BY <1>3, <1>4, <1>5, <1>6, <1>7 DEF Hands
<1>9. Dispatch(q, activeReaders, activeWriter, writerIsTransaction, epoch, req)
  BY <1>1 DEF q, req
<1> QED BY <1>2, <1>8, <1>9, DispatchOrder

\* A step that grants nothing and leaves the queue alone.
LEMMA QuietInOrder ==
    ASSUME OrderInv, Quiet
    PROVE  InOrder
<1>1. QueueComplete'
  BY DEF OrderInv, Quiet, QueueComplete, InQueue
<1>2. NoLostWakeup'
  BY DEF OrderInv, Quiet, NoLostWakeup
<1>3. KeepsOrder
  BY DEF Quiet, KeepsOrder, Held, Ahead
<1> QED BY <1>1, <1>2, <1>3 DEF InOrder

\* The release of a discarded holder is one.
LEMMA ReleaseStaleQuiet ==
    ASSUME LockInv, NEW c \in Clients, ReleaseStale(c)
    PROVE  Quiet
<1>1. /\ UNCHANGED <<queue, activeReaders, activeWriter>>
      /\ request' = [request EXCEPT ![c] = NoRequest]
  BY DEF ReleaseStale
<1>2. \A d \in Clients : request'[d] = request[d] \/ request'[d].st = "idle"
  BY <1>1, ForgottenRequest
<1> QED BY <1>1, <1>2 DEF Quiet

\* Every step of the lock keeps the order.
LEMMA StepInOrder ==
    ASSUME OrderInv, [LockNext]_lockVars
    PROVE  InOrder
<1>0. LockInv /\ QueueComplete
  BY DEF OrderInv
<1>1. ASSUME NEW c \in Clients, Read(c) \/ Write(c) \/ AcquireWrite(c) \/ TryAcquireWrite(c)
      PROVE  InOrder
  <2>1. "read" \in Kinds /\ "write" \in Kinds
    BY DEF Kinds
  <2> QED BY <1>0, <1>1, <2>1, AcquireInOrder DEF Read, Write, AcquireWrite, TryAcquireWrite
<1>2. ASSUME NEW c \in Clients, ReleaseStale(c) PROVE InOrder
  BY <1>0, <1>2, ReleaseStaleQuiet, QuietInOrder
<1>3. ASSUME NEW c \in Clients, ReleaseRead(c) \/ ReleaseWrite(c) PROVE InOrder
  BY <1>0, <1>3, ReleaseInOrder
<1>4. ASSUME NEW c \in Clients, Withdraw(c) PROVE InOrder
  BY <1>0, <1>4, WithdrawInOrder
<1>5. CASE Reset
  BY <1>0, <1>5, ResetInOrder
<1>6. ASSUME NEW w \in Reclaimers, WhenStaleHoldersReleased(w) PROVE InOrder
  <2>1. Quiet
    BY <1>6 DEF WhenStaleHoldersReleased, Quiet
  <2> QED BY <2>1, QuietInOrder
<1>7. CASE UNCHANGED lockVars
  <2>1. Quiet
    BY <1>7 DEF lockVars, Quiet
  <2> QED BY <2>1, QuietInOrder
<1> QED BY <1>1, <1>2, <1>3, <1>4, <1>5, <1>6, <1>7 DEF LockNext

-----------------------------------------------------------------------------
\* The order invariant holds at first.
LEMMA OrderInitInv == LockInit => OrderInv
<1> SUFFICES ASSUME LockInit PROVE OrderInv
  OBVIOUS
<1>1. QueueComplete
  BY DEF LockInit, QueueComplete, NoRequest
<1>2. NoLostWakeup
  BY DEF LockInit, NoLostWakeup
<1> QED BY <1>1, <1>2, LockInitInv DEF OrderInv

\* And every step preserves it.
LEMMA OrderStepInv == OrderInv /\ [LockNext]_lockVars => OrderInv'
BY LockStepInv, StepInOrder DEF OrderInv, InOrder

\* Whoever waits is in the queue, and the head of the queue is blocked by a
\* holder: every promise acquire() has handed out will be resolved by a release.
THEOREM LockOrderInvariant == LockSpec => []OrderInv
BY OrderInitInv, OrderStepInv, PTL DEF LockSpec

\* Whenever somebody waits, a holder blocks the head of the queue.
THEOREM LockNoLostWakeup == LockSpec => []NoLostWakeup
<1>1. OrderInv => NoLostWakeup
  BY DEF OrderInv
<1> QED BY <1>1, LockOrderInvariant, PTL

\* Nobody who was not ahead of a waiter gets ahead of it, whatever releases,
\* timeouts and resets happen (db-lock.ts:46, "strictly in arrival order").
THEOREM LockNoOvertaking == LockSpec => NoOvertaking
<1>1. OrderInv /\ [LockNext]_lockVars => [KeepsOrder]_lockVars
  BY StepInOrder DEF InOrder
<1>2. LockSpec => [][KeepsOrder]_lockVars
  BY <1>1, LockOrderInvariant, PTL DEF LockSpec
<1> QED BY <1>2 DEF NoOvertaking, KeepsOrder

\* dispatch() takes the lock from nobody.
LEMMA DispatchKeepsHolders ==
    ASSUME NEW q, NEW readers, NEW writer, NEW txn, NEW e, NEW req,
           NEW c \in Clients, req \in [Clients -> Request], req[c].st = "held",
           Dispatch(q, readers, writer, txn, e, req)
    PROVE  request'[c].st # "idle"
<1> DEFINE granted == {q[i].who : i \in 1..GrantCount(q, readers, writer)}
<1>1. request'[c] = IF c \in granted
                    THEN [req[c] EXCEPT !.st = "held", !.epoch = e]
                    ELSE req[c]
  BY DEF Dispatch
<1>2. req[c] \in Request
  OBVIOUS
<1>3. [req[c] EXCEPT !.st = "held", !.epoch = e].st = "held"
  BY <1>2 DEF Request
<1> HIDE DEF granted
<1> QED BY <1>1, <1>3

\* No step but its own release ends the request of a discarded holder.
LEMMA OthersKeepStaleHolder ==
    ASSUME LockInv, NEW c \in Clients, Stale(c),
           \/ \E d \in Clients : \/ Read(d) \/ Write(d) \/ AcquireWrite(d)
                                 \/ TryAcquireWrite(d) \/ ReleaseRead(d)
                                 \/ ReleaseWrite(d) \/ Withdraw(d)
           \/ Reset
    PROVE  request'[c].st # "idle"
<1>1. request \in [Clients -> Request] /\ request[c].st = "held"
  BY DEF LockInv, Consistent, Stale, Held
<1>2. ASSUME NEW d \in Clients, NEW kind \in Kinds, NEW txn \in BOOLEAN,
             NEW timed \in BOOLEAN, Acquire(d, kind, txn, timed)
      PROVE  request'[c].st # "idle"
  <2> DEFINE r == [st |-> "queued", kind |-> kind, timed |-> timed, epoch |-> 0]
             req == [request EXCEPT ![d] = r]
             q == Append(queue, [who |-> d, kind |-> kind, txn |-> txn])
  <2>1. r \in Request
    BY DEF Request
  <2>2. d # c /\ Dispatch(q, activeReaders, activeWriter, writerIsTransaction, epoch, req)
    BY <1>1, <1>2 DEF Acquire
  <2> HIDE DEF r, q
  <2>3. req \in [Clients -> Request] /\ req[c] = request[c]
    BY <1>1, <2>1, <2>2
  <2> HIDE DEF req
  <2> QED BY <1>1, <2>2, <2>3, DispatchKeepsHolders
<1>3. ASSUME NEW d \in Clients, Read(d) \/ Write(d) \/ AcquireWrite(d) \/ TryAcquireWrite(d)
      PROVE  request'[c].st # "idle"
  <2>1. "read" \in Kinds /\ "write" \in Kinds
    BY DEF Kinds
  <2> QED BY <1>2, <1>3, <2>1 DEF Read, Write, AcquireWrite, TryAcquireWrite
<1>4. ASSUME NEW d \in Clients, ReleaseRead(d) \/ ReleaseWrite(d) \/ Withdraw(d)
      PROVE  request'[c].st # "idle"
  <2> DEFINE req == [request EXCEPT ![d] = NoRequest]
  <2>1. d # c
    BY <1>1, <1>4 DEF ReleaseRead, ReleaseWrite, Withdraw, Current, Stale
  <2>2. req \in [Clients -> Request] /\ req[c] = request[c]
    BY <1>1, <2>1, ForgottenRequest
  <2>3. \E q, readers, writer, txn : Dispatch(q, readers, writer, txn, epoch, req)
    BY <1>4 DEF ReleaseRead, ReleaseWrite, Withdraw
  <2> HIDE DEF req
  <2> QED BY <1>1, <2>2, <2>3, DispatchKeepsHolders
<1>5. CASE Reset
  <2>1. Dispatch(queue, 0, FALSE, FALSE, epoch + 1, request)
    BY <1>5 DEF Reset
  <2> QED BY <1>1, <2>1, DispatchKeepsHolders
<1> QED BY <1>3, <1>4, <1>5

\* The release of a holder discarded by reset() changes neither the counters nor
\* the queue (db-lock.ts, releaseRead and releaseWrite).
THEOREM LockStaleReleaseIsInert == LockSpec => StaleReleaseIsInert
<1> DEFINE Inert ==
             \A c \in Clients :
               (Stale(c) /\ request'[c].st = "idle") =>
                  UNCHANGED <<queue, activeReaders, activeWriter, writerIsTransaction>>
<1>1. LockInv /\ [LockNext]_lockVars => [Inert]_lockVars
  <2> SUFFICES ASSUME LockInv, [LockNext]_lockVars, NEW c \in Clients,
                      Stale(c), request'[c].st = "idle"
               PROVE  UNCHANGED <<queue, activeReaders, activeWriter, writerIsTransaction>>
    OBVIOUS
  <2>1. \/ \E d \in Clients : ReleaseStale(d)
        \/ \E w \in Reclaimers : WhenStaleHoldersReleased(w)
        \/ UNCHANGED lockVars
    BY OthersKeepStaleHolder DEF LockNext
  <2> QED BY <2>1 DEF ReleaseStale, WhenStaleHoldersReleased, lockVars
<1>2. LockSpec => [][Inert]_lockVars
  BY <1>1, LockInvariant, PTL DEF LockSpec
<1> QED BY <1>2 DEF StaleReleaseIsInert

-----------------------------------------------------------------------------
(***************************************************************************)
(* DbLock implements ReadersWriterLock for any number of clients,          *)
(* reclaimers and resets.                                                  *)
(*                                                                         *)
(* The argument: every operation changes the table of requests, and with   *)
(* it the abstract calls, in one place; what dispatch() adds is a set of   *)
(* grants that the abstract lock allows (DispatchGrants, shown once, in    *)
(* the state after it, where the counters say who holds).  Each operation  *)
(* then only has to hand over a table and a queue that stand for what the  *)
(* abstract action says of its calls and of who is ahead of whom.          *)
(***************************************************************************)
\* What stands for the abstract calls and for who came before whom, of any
\* table of requests and any queue.
CallIn(req, e, c) ==
    [st   |-> CASE req[c].st = "queued" -> "waits"
                [] req[c].st = "held" /\ req[c].epoch = e -> "holds"
                [] req[c].st = "held" /\ req[c].epoch # e -> "discarded"
                [] OTHER -> "idle",
     kind |-> req[c].kind]

CallsIn(req, e) == [c \in Clients |-> CallIn(req, e, c)]

OrderIn(q) == [c \in Clients |-> {d \in Clients : AheadIn(q, d, c)}]

Complete(q, req) == \A c \in Clients : req[c].st = "queued" => InQueue(q, c)

LEMMA Mapped ==
    /\ [c \in Clients |-> CallOf(c)] = CallsIn(request, epoch)
    /\ [c \in Clients |-> {d \in Clients : Ahead(d, c)}] = OrderIn(queue)
    /\ [c \in Clients |-> CallOf(c)]' = CallsIn(request', epoch')
    /\ [c \in Clients |-> {d \in Clients : Ahead(d, c)}]' = OrderIn(queue')
BY DEF CallsIn, CallIn, CallOf, Current, Stale, Held, OrderIn, AheadIn, Ahead

\* The abstract state of a client, read off its request.
LEMMA CallStates ==
    ASSUME NEW req, NEW e, NEW c \in Clients
    PROVE  /\ CallsIn(req, e)[c].kind = req[c].kind
           /\ (CallsIn(req, e)[c].st = "idle") <=> (req[c].st \notin {"queued", "held"})
           /\ (CallsIn(req, e)[c].st = "waits") <=> (req[c].st = "queued")
           /\ (CallsIn(req, e)[c].st = "holds") <=> (req[c].st = "held" /\ req[c].epoch = e)
           /\ (CallsIn(req, e)[c].st = "discarded") <=> (req[c].st = "held" /\ req[c].epoch # e)
BY DEF CallsIn, CallIn

\* The holders of one epoch are compatible when the counters are exact.
LEMMA HoldersCompatible ==
    ASSUME NEW q, NEW readers, NEW writer, NEW e, NEW req,
           Consistent(q, readers, writer, e, req),
           NEW c \in Clients, NEW d \in Clients, c # d,
           req[c].st = "held", req[c].epoch = e, req[d].st = "held", req[d].epoch = e
    PROVE  req[c].kind = "read"
<1> SUFFICES ASSUME req[c].kind # "read" PROVE FALSE
  OBVIOUS
<1>1. req[c].kind = "write" /\ req[d].kind \in {"read", "write"}
  BY DEF Consistent, Request, Kinds
<1>2. writer /\ readers = 0
  BY <1>1 DEF Consistent, HoldersExact, Holding
<1>3. Holding(req, "read", e) = {}
  <2>1. IsFiniteSet(Holding(req, "read", e))
    BY LockAssumption, FS_Subset DEF Holding
  <2> QED BY <2>1, <1>2, FS_EmptySet DEF Consistent, HoldersExact
<1>4. req[d].kind = "write"
  BY <1>1, <1>3 DEF Holding
<1> QED BY <1>1, <1>4 DEF Consistent, HoldersExact, Holding

-----------------------------------------------------------------------------
\* The grants of G, which the abstract lock allows, are what dispatch() did.
GrantsExactly(q, e, req, G) ==
    /\ \A c \in G : req[c].st = "queued"
    /\ AbstractLock!Grantable(CallsIn(req, e), OrderIn(q), G)
    /\ CallsIn(request', e) =
         [c \in Clients |-> IF c \in G THEN [CallsIn(req, e)[c] EXCEPT !.st = "holds"]
                            ELSE CallsIn(req, e)[c]]
    /\ OrderIn(queue') = [c \in Clients |-> IF c \in G THEN {} ELSE OrderIn(q)[c] \ G]

\* What dispatch() does to the abstract lock: it grants a set of waiters that
\* the abstract lock may grant, and no more has to be granted.
LEMMA DispatchGrants ==
    ASSUME NEW q, NEW readers, NEW writer, NEW txn \in BOOLEAN, NEW e, NEW req,
           Consistent(q, readers, writer, e, req), Complete(q, req),
           Dispatch(q, readers, writer, txn, e, req)
    PROVE  \E G \in SUBSET Clients : GrantsExactly(q, e, req, G)
<1>1. /\ q \in Seq(Waiter) /\ readers \in Nat /\ writer \in BOOLEAN
      /\ req \in [Clients -> Request] /\ QueueExact(q, req)
  BY DEF Consistent
<1>2. Len(q) \in Nat /\ DOMAIN q = 1..Len(q) /\ \A i \in 1..Len(q) : q[i].who \in Clients
  <2>1. \A i \in 1..Len(q) : q[i] \in Waiter
    BY <1>1, ElementOfSeq
  <2> QED BY <1>1, <2>1, LenProperties DEF Waiter
<1>3. PICK n \in 0..Len(q) :
        /\ DOMAIN queue' = 1..Len(q) - n
        /\ \A i \in 1..Len(q) - n : queue'[i] = q[n + i]
        /\ \A c \in Clients :
             IF \E i \in 1..n : q[i].who = c
             THEN request'[c].st = "held"
             ELSE request'[c] = req[c]
  BY <1>1, DispatchEffect
<1>4. NoLostWakeup'
  BY <1>1, DispatchEffect
<1>5. /\ Consistent(queue', activeReaders', activeWriter', e, request')
      /\ \A c \in Clients : \/ request'[c] = req[c]
                            \/ request'[c].st = "held" /\ request'[c].epoch = e
  BY DispatchConsistent
<1>6. \A c \in Clients : request'[c].kind = req[c].kind
  <2>1. \A c \in Clients : req[c] \in Request
    BY <1>1
  <2>2. \A c \in Clients : \/ request'[c] = req[c]
                           \/ request'[c] = [req[c] EXCEPT !.st = "held", !.epoch = e]
    BY DEF Dispatch
  <2>3. \A c \in Clients : [req[c] EXCEPT !.st = "held", !.epoch = e].kind = req[c].kind
    BY <2>1 DEF Request
  <2> QED BY <2>2, <2>3
<1> DEFINE G == {q[i].who : i \in 1..n}
<1>7. G \subseteq Clients /\ \A c \in G : \E i \in 1..n : q[i].who = c
  BY <1>2, <1>3
<1>8. \A c \in G : req[c].st = "queued"
  BY <1>1, <1>2, <1>3 DEF QueueExact
<1>9. /\ \A c \in G : request'[c].st = "held" /\ request'[c].epoch = e
      /\ \A c \in Clients \ G : request'[c] = req[c]
  <2>1. ASSUME NEW c \in G PROVE request'[c].st = "held" /\ request'[c].epoch = e
    <3>1. request'[c].st = "held"
      BY <1>3, <1>7
    <3> QED BY <3>1, <1>5, <1>7, <1>8
  <2>2. ASSUME NEW c \in Clients \ G PROVE request'[c] = req[c]
    BY <1>3
  <2> QED BY <2>1, <2>2
<1>10. ASSUME NEW i \in 1..Len(q), q[i].who \in G PROVE i \in 1..n
  <2>1. PICK j \in 1..n : q[j].who = q[i].who
    BY <1>7, <1>10
  <2>2. j \in DOMAIN q /\ i \in DOMAIN q
    BY <1>2, <1>3
  <2> QED BY <2>1, <2>2, <1>1 DEF QueueExact
<1> HIDE DEF G
<1>11. CallsIn(request', e) =
         [c \in Clients |-> IF c \in G THEN [CallsIn(req, e)[c] EXCEPT !.st = "holds"]
                            ELSE CallsIn(req, e)[c]]
  <2>1. ASSUME NEW c \in G PROVE CallIn(request', e, c) = [CallIn(req, e, c) EXCEPT !.st = "holds"]
    BY <1>6, <1>7, <1>9 DEF CallIn
  <2>2. ASSUME NEW c \in Clients \ G PROVE CallIn(request', e, c) = CallIn(req, e, c)
    BY <1>9 DEF CallIn
  <2> QED BY <2>1, <2>2 DEF CallsIn
<1>12. OrderIn(queue') = [c \in Clients |-> IF c \in G THEN {} ELSE OrderIn(q)[c] \ G]
  <2>1. ASSUME NEW c \in Clients, NEW d \in Clients
        PROVE  AheadIn(queue', d, c) <=> AheadIn(q, d, c) /\ c \notin G /\ d \notin G
    <3>1. ASSUME AheadIn(queue', d, c)
          PROVE  AheadIn(q, d, c) /\ c \notin G /\ d \notin G
      <4>0. PICK i \in DOMAIN queue', j \in DOMAIN queue' :
              i < j /\ queue'[i].who = d /\ queue'[j].who = c
        BY <3>1 DEF AheadIn
      <4>1. /\ i \in 1..Len(q) - n /\ j \in 1..Len(q) - n
            /\ i < j /\ q[n + i].who = d /\ q[n + j].who = c
        BY <4>0, <1>3
      <4>2. n + i \in 1..Len(q) /\ n + j \in 1..Len(q) /\ n + i < n + j
            /\ n + i \notin 1..n /\ n + j \notin 1..n
        BY <4>1, <1>2, <1>3
      <4> QED BY <4>1, <4>2, <1>2, <1>10 DEF AheadIn
    <3>2. ASSUME AheadIn(q, d, c), c \notin G, d \notin G
          PROVE  AheadIn(queue', d, c)
      <4>1. PICK i \in 1..Len(q), j \in 1..Len(q) : i < j /\ q[i].who = d /\ q[j].who = c
        BY <3>2, <1>2 DEF AheadIn
      <4>2. i \notin 1..n /\ j \notin 1..n
        BY <3>2, <4>1 DEF G
      <4>3. i - n \in 1..Len(q) - n /\ j - n \in 1..Len(q) - n /\ i - n < j - n
            /\ n + (i - n) = i /\ n + (j - n) = j
        BY <4>1, <4>2, <1>2, <1>3
      <4>4. queue'[i - n].who = d /\ queue'[j - n].who = c
        BY <4>1, <4>3, <1>3
      <4> QED BY <4>3, <4>4, <1>3 DEF AheadIn
    <3> QED BY <3>1, <3>2
  <2> QED BY <2>1 DEF OrderIn
\* The grants keep the order, are compatible, and leave nobody for no reason.
<1> DEFINE calls == CallsIn(req, e)
           order == OrderIn(q)
           holders == {c \in Clients : request'[c].st = "held" /\ request'[c].epoch = e}
           holding == AbstractLock!Those(calls, "holds") \cup G
           waiting == AbstractLock!Those(calls, "waits")
<1>13. /\ holding = holders /\ waiting = {c \in Clients : req[c].st = "queued"}
       /\ \A c \in Clients : calls[c].kind = request'[c].kind
  <2>1. \A c \in Clients : /\ (calls[c].st = "waits") <=> (req[c].st = "queued")
                           /\ (calls[c].st = "holds") <=> (req[c].st = "held" /\ req[c].epoch = e)
                           /\ calls[c].kind = req[c].kind
    BY CallStates
  <2> HIDE DEF calls
  <2> QED BY <2>1, <1>6, <1>7, <1>9 DEF AbstractLock!Those
<1>14. \A c \in G : order[c] \subseteq G
  <2> SUFFICES ASSUME NEW c \in G, NEW d \in Clients, AheadIn(q, d, c) PROVE d \in G
    BY <1>7 DEF OrderIn
  <2>1. PICK i \in 1..Len(q), j \in 1..Len(q) : i < j /\ q[i].who = d /\ q[j].who = c
    BY <1>2 DEF AheadIn
  <2>2. j \in 1..n
    BY <2>1, <1>10
  <2>3. i \in 1..n
    BY <2>1, <2>2, <1>2, <1>3
  <2> QED BY <2>1, <2>3 DEF G
<1>15. AbstractLock!Compatible(calls, holding)
  <2>1. \A c, d \in holders : c # d => request'[c].kind = "read" /\ request'[d].kind = "read"
    BY <1>5, HoldersCompatible
  <2> HIDE DEF calls
  <2> QED BY <2>1, <1>13 DEF AbstractLock!Compatible
<1>16. ASSUME NEW c \in waiting \ G, order[c] \subseteq G
       PROVE  ~AbstractLock!Compatible(calls, holding \cup {c})
  <2>1. c \in Clients /\ req[c].st = "queued" /\ request'[c] = req[c] /\ c \notin holders
    BY <1>13, <1>16, <1>9
  \* Nobody but those granted is ahead of it: it is at the head.
  <2>2. PICK k \in 1..Len(q) : q[k].who = c
    BY <2>1, <1>2 DEF Complete, InQueue
  <2>3. k \notin 1..n
    BY <2>2, <1>16 DEF G
  <2>4. k = n + 1
    <3> SUFFICES ASSUME k # n + 1 PROVE FALSE
      OBVIOUS
    <3>1. n + 1 \in 1..Len(q) /\ n + 1 < k /\ n + 1 \notin 1..n
      BY <2>3, <1>2, <1>3
    <3>2. AheadIn(q, q[n + 1].who, c)
      BY <3>1, <2>2, <1>2 DEF AheadIn
    <3>3. q[n + 1].who \in G
      BY <3>1, <3>2, <2>1, <1>2, <1>16 DEF OrderIn
    <3> QED BY <3>1, <3>3, <1>10
  <2>5. 1 \in 1..Len(q) - n /\ queue'[1].who = c /\ queue'[1].kind = req[c].kind
    <3>1. 1 \in 1..Len(q) - n
      BY <2>2, <2>4, <1>2, <1>3
    <3>2. queue'[1] = q[k]
      BY <3>1, <2>4, <1>3
    <3> QED BY <3>1, <3>2, <2>2, <1>1, <1>2 DEF QueueExact
  <2>6. queue' # <<>> /\ Head(queue') = queue'[1]
    <3>1. queue' \in Seq(Waiter)
      BY <1>5 DEF Consistent
    <3>2. queue' # <<>>
      BY <2>5, <1>3
    <3> QED BY <3>1, <3>2, HeadTailProperties
  \* A holder that excludes it blocks the head.
  <2>7. PICK d \in holders : request'[d].kind # "read" \/ req[c].kind # "read"
    <3>1. CASE activeWriter'
      BY <3>1, <1>5 DEF Consistent, HoldersExact, Holding
    <3>2. CASE ~activeWriter'
      <4>1. req[c].kind = "write" /\ activeReaders' > 0
        BY <3>2, <2>5, <2>6, <1>4 DEF NoLostWakeup
      <4>2. Holding(request', "read", e) # {}
        <5>1. activeReaders' = Cardinality(Holding(request', "read", e))
          BY <1>5 DEF Consistent, HoldersExact
        <5>2. Cardinality({}) = 0
          BY FS_EmptySet
        <5> SUFFICES ASSUME Holding(request', "read", e) = {} PROVE FALSE
          OBVIOUS
        <5>3. activeReaders' = 0
          BY <5>1, <5>2
        <5> QED BY <4>1, <5>3
      <4> QED BY <4>1, <4>2 DEF Holding
    <3> QED BY <3>1, <3>2
  <2>8. calls[d].kind # "read" \/ calls[c].kind # "read"
    BY <2>1, <2>7, <1>13
  <2> HIDE DEF calls
  <2> QED BY <2>1, <2>7, <2>8, <1>13 DEF AbstractLock!Compatible
<1>17. AbstractLock!Grantable(calls, order, G)
  <2> HIDE DEF calls, order
  <2> QED BY <1>14, <1>15, <1>16 DEF AbstractLock!Grantable
<1> QED BY <1>7, <1>8, <1>11, <1>12, <1>17 DEF GrantsExactly

\* The same of the variables of the abstract lock.
LEMMA Granting ==
    ASSUME NEW q, NEW readers, NEW writer, NEW txn \in BOOLEAN, NEW e, NEW req,
           Consistent(q, readers, writer, e, req), Complete(q, req),
           Dispatch(q, readers, writer, txn, e, req), epoch' = e
    PROVE  AbstractLock!ThenGrants(CallsIn(req, e), OrderIn(q))
<1>1. PICK G \in SUBSET Clients : GrantsExactly(q, e, req, G)
  <2>1. /\ txn \in BOOLEAN /\ Consistent(q, readers, writer, e, req) /\ Complete(q, req)
        /\ Dispatch(q, readers, writer, txn, e, req)
    OBVIOUS
  <2> QED BY ONLY <2>1, DispatchGrants
<1>2. G \subseteq AbstractLock!Those(CallsIn(req, e), "waits")
  BY <1>1, CallStates DEF AbstractLock!Those, GrantsExactly
<1> QED BY <1>1, <1>2, Mapped DEF AbstractLock!ThenGrants, GrantsExactly

\* Grants do not change whom a reclaimer waits for: it is those granted in an
\* earlier epoch, and they are neither granted nor forgotten.
LEMMA GrantsOweNothing ==
    ASSUME LockInv, NEW q, NEW readers, NEW writer, NEW txn \in BOOLEAN, NEW e, NEW req,
           Consistent(q, readers, writer, e, req),
           Dispatch(q, readers, writer, txn, e, req), epoch <= e, UNCHANGED reclaim,
           \A c \in Clients :
             \/ req[c] = request[c]
             \/ req[c].st # "held" /\ (request[c].st = "held" => request[c].epoch = epoch)
    PROVE  UNCHANGED <<[w \in Reclaimers |-> reclaim[w].st], [w \in Reclaimers |-> OwedTo(w)]>>
<1>1. /\ HoldingElsewhere(request', e) = HoldingElsewhere(req, e)
      /\ \A c \in Clients : \/ request'[c] = req[c]
                            \/ request'[c].st = "held" /\ request'[c].epoch = e
  <2>1. /\ txn \in BOOLEAN /\ Consistent(q, readers, writer, e, req)
        /\ Dispatch(q, readers, writer, txn, e, req)
    OBVIOUS
  <2> QED BY ONLY <2>1, DispatchConsistent
<1>2. /\ epoch \in Nat /\ e \in Nat
      /\ \A w \in Reclaimers : reclaim[w].epoch \in Nat /\ reclaim[w].epoch <= epoch
      /\ \A c \in Clients : request[c].epoch \in Nat
  BY DEF LockInv, Consistent, Reclaim, Request
<1>3. ASSUME NEW w \in Reclaimers, NEW c \in Clients
      PROVE  (request'[c].st = "held" /\ request'[c].epoch < reclaim[w].epoch)
               <=> (request[c].st = "held" /\ request[c].epoch < reclaim[w].epoch)
  <2>1. ASSUME request[c].st = "held", request[c].epoch < reclaim[w].epoch
        PROVE  request'[c] = request[c]
    <3>1. request[c].epoch # epoch /\ request[c].epoch # e
      BY <2>1, <1>2
    <3>2. req[c] = request[c]
      BY <2>1, <3>1
    <3>3. c \in HoldingElsewhere(request', e)
      BY <2>1, <3>1, <3>2, <1>1 DEF HoldingElsewhere
    <3> QED BY <3>2, <3>3, <1>1 DEF HoldingElsewhere
  <2>2. ASSUME request'[c].st = "held", request'[c].epoch < reclaim[w].epoch
        PROVE  request'[c] = request[c]
    <3>1. request'[c].epoch # e
      BY <2>2, <1>2
    <3>2. request'[c] = req[c]
      BY <3>1, <1>1
    <3> QED BY <2>2, <3>2
  <2> QED BY <2>1, <2>2
<1>4. \A w \in Reclaimers : OwedTo(w)' = OwedTo(w)
  BY <1>3 DEF OwedTo, Held
<1> QED BY <1>4

-----------------------------------------------------------------------------
(***************************************************************************)
(* Every operation of the lock is a step of the abstract one.              *)
(***************************************************************************)
\* acquire() asks.
LEMMA AcquireImplements ==
    ASSUME LockInv, QueueComplete, NEW c \in Clients, NEW kind \in Kinds,
           NEW txn \in BOOLEAN, NEW timed \in BOOLEAN, Acquire(c, kind, txn, timed)
    PROVE  AbstractLock!Ask(c, kind)
<1> DEFINE w == [who |-> c, kind |-> kind, txn |-> txn]
           r == [st |-> "queued", kind |-> kind, timed |-> timed, epoch |-> 0]
           q == Append(queue, w)
           req == [request EXCEPT ![c] = r]
<1>1. /\ queue \in Seq(Waiter) /\ request \in [Clients -> Request]
      /\ QueueExact(queue, request) /\ epoch \in Nat
      /\ writerIsTransaction \in BOOLEAN
      /\ request[c].st = "idle"
      /\ Dispatch(q, activeReaders, activeWriter, writerIsTransaction, epoch, req)
      /\ UNCHANGED <<epoch, staleHolders, reclaim>>
  BY DEF LockInv, Consistent, Acquire
<1>2. Consistent(q, activeReaders, activeWriter, epoch, req) /\ OnlyCurrent(req)
  BY <1>1, AcquireConsistent
<1>3. /\ req[c] = r /\ r.st = "queued" /\ r.kind = kind
      /\ \A d \in Clients \ {c} : req[d] = request[d]
  BY <1>1
<1>4. /\ Len(queue) \in Nat
      /\ DOMAIN q = 1..Len(queue) + 1 /\ DOMAIN queue = 1..Len(queue)
      /\ \A i \in 1..Len(queue) : q[i] = queue[i]
      /\ q[Len(queue) + 1].who = c
      /\ \A i \in 1..Len(queue) : queue[i].who # c
  <2>1. w \in Waiter /\ w.who = c
    BY DEF Waiter
  <2>2. /\ q \in Seq(Waiter) /\ Len(q) = Len(queue) + 1 /\ q[Len(queue) + 1] = w
        /\ \A i \in 1..Len(queue) : q[i] = queue[i]
    BY <1>1, <2>1, AppendProperties
  <2>3. Len(queue) \in Nat /\ DOMAIN queue = 1..Len(queue) /\ DOMAIN q = 1..Len(q)
    BY <1>1, <2>2, LenProperties
  <2> QED BY <2>1, <2>2, <2>3, <1>1 DEF QueueExact
<1> HIDE DEF q, req, w, r
<1>5. Complete(q, req)
  <2> SUFFICES ASSUME NEW d \in Clients, req[d].st = "queued"
               PROVE  \E i \in DOMAIN q : q[i].who = d
    BY DEF Complete, InQueue
  <2>1. CASE d = c
    BY <2>1, <1>4
  <2>2. CASE d # c
    <3>1. \E i \in DOMAIN queue : queue[i].who = d
      BY <2>2, <1>3 DEF QueueComplete, InQueue
    <3> QED BY <3>1, <1>4
  <2> QED BY <2>1, <2>2
<1>6. CallsIn(req, epoch) = [CallsIn(request, epoch) EXCEPT ![c] = [st |-> "waits", kind |-> kind]]
  <2>1. CallIn(req, epoch, c) = [st |-> "waits", kind |-> kind]
    BY <1>3 DEF CallIn
  <2>2. \A d \in Clients \ {c} : CallIn(req, epoch, d) = CallIn(request, epoch, d)
    BY <1>3 DEF CallIn
  <2> QED BY <2>1, <2>2 DEF CallsIn
\* The new waiter is behind everybody who waits.
<1>7. OrderIn(q) = [OrderIn(queue) EXCEPT ![c] = AbstractLock!Those(CallsIn(request, epoch), "waits")]
  <2>1. ASSUME NEW a \in Clients \ {c}, NEW d \in Clients
        PROVE  AheadIn(q, d, a) <=> AheadIn(queue, d, a)
    <3>1. ASSUME NEW i \in DOMAIN q, NEW j \in DOMAIN q, i < j, q[j].who = a
          PROVE  i \in DOMAIN queue /\ j \in DOMAIN queue
      <4>1. j # Len(queue) + 1
        BY <3>1, <1>4
      <4> QED BY <3>1, <4>1, <1>4
    <3> QED BY <3>1, <1>4 DEF AheadIn
  <2>2. ASSUME NEW d \in Clients
        PROVE  AheadIn(q, d, c) <=> request[d].st = "queued"
    <3>1. ASSUME AheadIn(q, d, c) PROVE request[d].st = "queued"
      <4>1. PICK i \in DOMAIN q, j \in DOMAIN q : i < j /\ q[i].who = d /\ q[j].who = c
        BY <3>1 DEF AheadIn
      <4>2. i \in DOMAIN queue
        BY <4>1, <1>4
      <4> QED BY <4>1, <4>2, <1>1, <1>4 DEF QueueExact
    <3>2. ASSUME request[d].st = "queued" PROVE AheadIn(q, d, c)
      <4>1. PICK i \in DOMAIN queue : queue[i].who = d
        BY <3>2 DEF QueueComplete, InQueue
      <4>2. i \in DOMAIN q /\ Len(queue) + 1 \in DOMAIN q /\ i < Len(queue) + 1
        BY <4>1, <1>4
      <4> QED BY <4>1, <4>2, <1>4 DEF AheadIn
    <3> QED BY <3>1, <3>2
  <2>3. {d \in Clients : AheadIn(q, d, c)} = AbstractLock!Those(CallsIn(request, epoch), "waits")
    BY <2>2, CallStates DEF AbstractLock!Those
  <2> QED BY <2>1, <2>3 DEF OrderIn
<1>8. AbstractLock!ThenGrants(CallsIn(req, epoch), OrderIn(q))
  BY <1>1, <1>2, <1>5, Granting
<1>9. UNCHANGED <<[v \in Reclaimers |-> reclaim[v].st], [v \in Reclaimers |-> OwedTo(v)]>>
  <2>1. \A d \in Clients : \/ req[d] = request[d]
                           \/ req[d].st # "held" /\ (request[d].st = "held" => request[d].epoch = epoch)
    BY <1>1, <1>3
  <2> QED BY <2>1, <1>1, <1>2, GrantsOweNothing
<1>10. CallsIn(request, epoch)[c].st = "idle"
  BY <1>1, CallStates
<1> QED BY <1>6, <1>7, <1>8, <1>9, <1>10, Mapped DEF AbstractLock!Ask

\* Whoever gives its place or the lock back leaves.
LEMMA Leaving ==
    ASSUME LockInv, NEW c \in Clients, request[c].st = "queued" \/ Current(c),
           NEW q, NEW readers, NEW writer, NEW txn \in BOOLEAN, NEW req,
           req = [request EXCEPT ![c] = NoRequest],
           Consistent(q, readers, writer, epoch, req),
           Dispatch(q, readers, writer, txn, epoch, req),
           UNCHANGED <<epoch, reclaim>>,
           Complete(q, req),
           \A a, d \in Clients : AheadIn(q, d, a) <=> (a # c /\ d # c /\ AheadIn(queue, d, a))
    PROVE  AbstractLock!Leave(c)
<1>1. /\ request \in [Clients -> Request] /\ epoch \in Nat
      /\ txn \in BOOLEAN /\ Consistent(q, readers, writer, epoch, req) /\ Complete(q, req)
      /\ Dispatch(q, readers, writer, txn, epoch, req) /\ epoch' = epoch
  BY DEF LockInv, Consistent
<1>2. AbstractLock!ThenGrants(CallsIn(req, epoch), OrderIn(q))
  BY ONLY <1>1, Granting
<1>3. CallsIn(req, epoch) = [CallsIn(request, epoch) EXCEPT ![c] = AbstractLock!Idle]
  <2>1. CallIn(req, epoch, c) = AbstractLock!Idle
    <3>1. req[c] = NoRequest
      BY <1>1
    <3> QED BY <3>1 DEF CallIn, NoRequest, AbstractLock!Idle
  <2>2. \A d \in Clients \ {c} : CallIn(req, epoch, d) = CallIn(request, epoch, d)
    <3>1. \A d \in Clients \ {c} : req[d] = request[d]
      BY <1>1
    <3> QED BY <3>1 DEF CallIn
  <2> QED BY <2>1, <2>2 DEF CallsIn
<1>4. OrderIn(q) = [d \in Clients |-> IF d = c THEN {} ELSE OrderIn(queue)[d] \ {c}]
  BY DEF OrderIn
<1>5. CallsIn(request, epoch)[c].st \in {"waits", "holds"}
  BY CallStates DEF Current, Held
<1>6. UNCHANGED <<[v \in Reclaimers |-> reclaim[v].st], [v \in Reclaimers |-> OwedTo(v)]>>
  <2>1. \A d \in Clients : \/ req[d] = request[d]
                           \/ req[d].st # "held" /\ (request[d].st = "held" => request[d].epoch = epoch)
    BY <1>1 DEF Current, NoRequest
  <2>2. LockInv /\ epoch <= epoch /\ UNCHANGED reclaim
    BY <1>1
  <2> QED BY ONLY <2>1, <2>2, <1>1, GrantsOweNothing
<1> QED BY <1>2, <1>3, <1>4, <1>5, <1>6, Mapped DEF AbstractLock!Leave

\* A request that has ended leaves the others in the queue.
LEMMA CompleteWithout ==
    ASSUME LockInv, QueueComplete, NEW c \in Clients, NEW q,
           \A d \in Clients \ {c} : InQueue(queue, d) => InQueue(q, d)
    PROVE  Complete(q, [request EXCEPT ![c] = NoRequest])
BY ForgottenRequest DEF Complete, QueueComplete

\* A release does.
LEMMA ReleaseImplements ==
    ASSUME LockInv, QueueComplete, NEW c \in Clients, ReleaseRead(c) \/ ReleaseWrite(c)
    PROVE  AbstractLock!Leave(c)
<1> DEFINE req == [request EXCEPT ![c] = NoRequest]
<1>1. Current(c) /\ UNCHANGED <<epoch, reclaim>>
  BY DEF ReleaseRead, ReleaseWrite
<1>2. PICK readers, writer : \E txn \in BOOLEAN :
        /\ Consistent(queue, readers, writer, epoch, req)
        /\ Dispatch(queue, readers, writer, txn, epoch, req)
  <2>1. writerIsTransaction \in BOOLEAN
    BY DEF LockInv
  <2>2. CASE ReleaseRead(c)
    BY <2>1, <2>2, ReleaseReadConsistent DEF ReleaseRead
  <2>3. CASE ReleaseWrite(c)
    BY <2>3, ReleaseWriteConsistent DEF ReleaseWrite
  <2> QED BY <2>2, <2>3
<1>3. PICK txn \in BOOLEAN : /\ Consistent(queue, readers, writer, epoch, req)
                             /\ Dispatch(queue, readers, writer, txn, epoch, req)
  BY <1>2
<1>4. \A i \in DOMAIN queue : queue[i].who # c
  BY <1>1, HolderFacts DEF Current
<1>5. Complete(queue, req)
  BY CompleteWithout
<1>6. \A a, d \in Clients : AheadIn(queue, d, a) <=> (a # c /\ d # c /\ AheadIn(queue, d, a))
  BY <1>4 DEF AheadIn
<1> HIDE DEF req
<1> QED BY <1>1, <1>3, <1>5, <1>6, Leaving DEF req

\* So does a withdrawal.
LEMMA WithdrawImplements ==
    ASSUME LockInv, QueueComplete, NEW c \in Clients, Withdraw(c)
    PROVE  AbstractLock!Leave(c)
<1> DEFINE req == [request EXCEPT ![c] = NoRequest]
           pos(k, i) == IF i < k THEN i ELSE i + 1
<1>1. request[c].st = "queued" /\ UNCHANGED <<epoch, reclaim>>
  BY DEF Withdraw
<1>2. PICK k \in DOMAIN queue :
        /\ queue[k].who = c
        /\ Dispatch(Without(queue, k), activeReaders, activeWriter,
                    writerIsTransaction, epoch, req)
  BY DEF Withdraw
<1>3. /\ queue \in Seq(Waiter) /\ writerIsTransaction \in BOOLEAN
      /\ Len(queue) \in Nat /\ DOMAIN queue = 1..Len(queue)
      /\ \A i, j \in DOMAIN queue : queue[i].who = queue[j].who => i = j
  BY LenProperties DEF LockInv, Consistent, QueueExact
<1> DEFINE q == Without(queue, k)
<1>4. Consistent(q, activeReaders, activeWriter, epoch, req)
  BY <1>2, WithdrawConsistent
<1>5. /\ DOMAIN q = 1..Len(queue) - 1
      /\ \A i \in 1..Len(queue) - 1 : q[i] = queue[pos(k, i)]
  BY <1>3, WithoutPositions
<1> HIDE DEF q
\* Every position but k is that of a waiter that stays, in the same order.
<1>6. ASSUME NEW i \in DOMAIN q
      PROVE  pos(k, i) \in DOMAIN queue /\ pos(k, i) # k /\ q[i] = queue[pos(k, i)]
  BY <1>2, <1>3, <1>5
<1>7. ASSUME NEW j \in DOMAIN queue, j # k
      PROVE  \E i \in DOMAIN q : pos(k, i) = j
  <2>1. CASE j < k
    BY <2>1, <1>2, <1>3, <1>5
  <2>2. CASE j > k
    <3>1. j - 1 \in DOMAIN q /\ pos(k, j - 1) = j
      BY <2>2, <1>2, <1>3, <1>5
    <3> QED BY <3>1
  <2> QED BY <1>7, <2>1, <2>2, <1>2, <1>3
<1>8. \A i, j \in DOMAIN q : i < j <=> pos(k, i) < pos(k, j)
  BY <1>2, <1>3, <1>5
<1> HIDE DEF pos
<1>9. Complete(q, req)
  <2>1. ASSUME NEW d \in Clients \ {c}, InQueue(queue, d) PROVE InQueue(q, d)
    <3>1. PICK j \in DOMAIN queue : queue[j].who = d
      BY <2>1 DEF InQueue
    <3>2. PICK i \in DOMAIN q : pos(k, i) = j
      BY <3>1, <1>2, <1>7
    <3> QED BY <3>1, <3>2, <1>6 DEF InQueue
  <2> QED BY <2>1, CompleteWithout
<1>10. ASSUME NEW a \in Clients, NEW d \in Clients
       PROVE  AheadIn(q, d, a) <=> (a # c /\ d # c /\ AheadIn(queue, d, a))
  <2>1. ASSUME AheadIn(q, d, a) PROVE a # c /\ d # c /\ AheadIn(queue, d, a)
    <3>1. PICK i \in DOMAIN q, j \in DOMAIN q : i < j /\ q[i].who = d /\ q[j].who = a
      BY <2>1 DEF AheadIn
    <3>2. /\ pos(k, i) \in DOMAIN queue /\ pos(k, i) # k /\ queue[pos(k, i)].who = d
          /\ pos(k, j) \in DOMAIN queue /\ pos(k, j) # k /\ queue[pos(k, j)].who = a
          /\ pos(k, i) < pos(k, j)
      BY <3>1, <1>6, <1>8
    <3> QED BY <3>2, <1>2, <1>3 DEF AheadIn
  <2>2. ASSUME a # c, d # c, AheadIn(queue, d, a) PROVE AheadIn(q, d, a)
    <3>1. PICK m \in DOMAIN queue, n \in DOMAIN queue :
            m < n /\ queue[m].who = d /\ queue[n].who = a
      BY <2>2 DEF AheadIn
    <3>2. m # k /\ n # k
      BY <2>2, <3>1, <1>2
    <3>3. PICK i \in DOMAIN q : pos(k, i) = m
      BY <3>2, <1>7
    <3>4. PICK j \in DOMAIN q : pos(k, j) = n
      BY <3>2, <1>7
    <3>5. i < j /\ q[i].who = d /\ q[j].who = a
      BY <3>1, <3>3, <3>4, <1>6, <1>8
    <3> QED BY <3>5 DEF AheadIn
  <2> QED BY <2>1, <2>2
<1>11. Dispatch(q, activeReaders, activeWriter, writerIsTransaction, epoch, req)
  BY <1>2 DEF q
<1> HIDE DEF req
<1> QED BY <1>1, <1>3, <1>4, <1>9, <1>10, <1>11, Leaving DEF req

\* reset() discards.
LEMMA ResetImplements ==
    ASSUME LockInv, QueueComplete, Reset
    PROVE  AbstractLock!Discard
<1>1. /\ epoch' = epoch + 1 /\ UNCHANGED reclaim
      /\ Dispatch(queue, 0, FALSE, FALSE, epoch + 1, request)
  BY DEF Reset
<1>2. request \in [Clients -> Request] /\ epoch \in Nat
      /\ \A c \in Clients : request[c].st = "held" => request[c].epoch <= epoch
  BY DEF LockInv, Consistent, HoldersExact
<1>3. Consistent(queue, 0, FALSE, epoch + 1, request) /\ FALSE \in BOOLEAN
  BY ResetConsistent
<1>4. Complete(queue, request)
  BY DEF QueueComplete, Complete
<1>5. AbstractLock!ThenGrants(CallsIn(request, epoch + 1), OrderIn(queue))
  BY ONLY <1>1, <1>3, <1>4, Granting
<1>6. CallsIn(request, epoch + 1) =
        [c \in Clients |-> IF CallsIn(request, epoch)[c].st = "holds"
                           THEN [CallsIn(request, epoch)[c] EXCEPT !.st = "discarded"]
                           ELSE CallsIn(request, epoch)[c]]
  <2>1. ASSUME NEW c \in Clients
        PROVE  CallIn(request, epoch + 1, c) =
                 IF CallIn(request, epoch, c).st = "holds"
                 THEN [CallIn(request, epoch, c) EXCEPT !.st = "discarded"]
                 ELSE CallIn(request, epoch, c)
    <3>1. request[c].st = "held" => request[c].epoch # epoch + 1
      BY <1>2
    <3> QED BY <3>1 DEF CallIn
  <2> QED BY <2>1 DEF CallsIn
<1>7. UNCHANGED <<[v \in Reclaimers |-> reclaim[v].st], [v \in Reclaimers |-> OwedTo(v)]>>
  <2>1. LockInv /\ epoch <= epoch + 1 /\ UNCHANGED reclaim
        /\ \A c \in Clients : request[c] = request[c]
    BY <1>1, <1>2
  <2> QED BY ONLY <2>1, <1>1, <1>3, GrantsOweNothing
<1> DEFINE calls == [c \in Clients |-> CallOf(c)]
<1>8. CallsIn(request, epoch + 1) =
        [c \in Clients |-> IF calls[c].st = "holds" THEN [calls[c] EXCEPT !.st = "discarded"]
                           ELSE calls[c]]
  <2>1. calls = CallsIn(request, epoch)
    BY Mapped
  <2> HIDE DEF calls
  <2> QED BY <2>1, <1>6
<1> QED BY <1>5, <1>7, <1>8, Mapped DEF AbstractLock!Discard

\* What the counter of discarded holders says, and whom reclaimers wait for.
LEMMA StaleCount ==
    ASSUME LockInv
    PROVE  /\ staleHolders \in Nat
           /\ staleHolders = 0 <=> HoldingElsewhere(request, epoch) = {}
           /\ \A w \in Reclaimers : OwedTo(w) \subseteq HoldingElsewhere(request, epoch)
           /\ HoldingElsewhere(request, epoch) =
                AbstractLock!Those(CallsIn(request, epoch), "discarded")
<1>1. /\ staleHolders = Cardinality(HoldingElsewhere(request, epoch))
      /\ epoch \in Nat
      /\ \A w \in Reclaimers : reclaim[w].epoch \in Nat /\ reclaim[w].epoch <= epoch
      /\ \A c \in Clients : request[c].epoch \in Nat
  BY DEF LockInv, Consistent, Reclaim, Request
<1>2. IsFiniteSet(HoldingElsewhere(request, epoch))
  BY LockAssumption, FS_Subset DEF HoldingElsewhere
<1>3. staleHolders \in Nat /\ (staleHolders = 0 <=> HoldingElsewhere(request, epoch) = {})
  BY <1>1, <1>2, FS_EmptySet, FS_CardinalityType
<1>4. ASSUME NEW w \in Reclaimers PROVE OwedTo(w) \subseteq HoldingElsewhere(request, epoch)
  BY <1>1 DEF OwedTo, Held, HoldingElsewhere
<1>5. HoldingElsewhere(request, epoch) = AbstractLock!Those(CallsIn(request, epoch), "discarded")
  BY CallStates DEF HoldingElsewhere, AbstractLock!Those
<1> QED BY <1>3, <1>4, <1>5

\* The release of a discarded holder: it is outlived.
LEMMA ReleaseStaleImplements ==
    ASSUME LockInv, NEW c \in Clients, ReleaseStale(c)
    PROVE  AbstractLock!Outlive(c)
<1> DEFINE left == IF staleHolders > 0 THEN staleHolders - 1 ELSE 0
           stale == HoldingElsewhere(request, epoch)
<1>1. /\ Held(c) /\ request[c].epoch # epoch
      /\ request' = [request EXCEPT ![c] = NoRequest]
      /\ UNCHANGED <<queue, epoch>>
      /\ staleHolders' = left
      /\ reclaim' = [w \in Reclaimers |->
                       IF left = 0 /\ reclaim[w].st = "waiting"
                       THEN [reclaim[w] EXCEPT !.st = "resolved"]
                       ELSE reclaim[w]]
  BY DEF ReleaseStale, Stale, NoteStaleRelease
<1>2. /\ request \in [Clients -> Request] /\ reclaim \in [Reclaimers -> Reclaim]
      /\ LockInv'
  BY ReleaseStaleInv DEF LockInv, Consistent
<1>3. staleHolders \in Nat /\ left \in Nat
  BY StaleCount
<1> HIDE DEF left
<1>4. CallsIn(request', epoch') = [CallsIn(request, epoch) EXCEPT ![c] = AbstractLock!Idle]
  <2>1. CallIn(request', epoch, c) = AbstractLock!Idle
    <3>1. request'[c] = NoRequest
      BY <1>1, <1>2
    <3> QED BY <3>1 DEF CallIn, NoRequest, AbstractLock!Idle
  <2>2. \A d \in Clients \ {c} : CallIn(request', epoch, d) = CallIn(request, epoch, d)
    <3>1. \A d \in Clients \ {c} : request'[d] = request[d]
      BY <1>1, <1>2
    <3> QED BY <3>1 DEF CallIn
  <2> QED BY <2>1, <2>2, <1>1 DEF CallsIn
\* Nobody is left exactly when the counter says so.
<1>5. left = 0 <=> stale \ {c} = {}
  <2>1. HoldingElsewhere(request', epoch) = stale \ {c}
    <3>1. request'[c] = NoRequest /\ \A d \in Clients \ {c} : request'[d] = request[d]
      BY <1>1, <1>2
    <3> QED BY <3>1 DEF HoldingElsewhere, NoRequest
  <2>2. staleHolders' = 0 <=> HoldingElsewhere(request', epoch') = {}
    <3>1. staleHolders' = Cardinality(HoldingElsewhere(request', epoch'))
      BY <1>2 DEF LockInv
    <3>2. IsFiniteSet(HoldingElsewhere(request', epoch'))
      BY LockAssumption, FS_Subset DEF HoldingElsewhere
    <3> QED BY <3>1, <3>2, FS_EmptySet
  <2> QED BY <2>1, <2>2, <1>1
<1>6. ASSUME NEW w \in Reclaimers
      PROVE  /\ reclaim'[w].epoch = reclaim[w].epoch
             /\ reclaim'[w].st = IF left = 0 /\ reclaim[w].st = "waiting" THEN "resolved"
                                 ELSE reclaim[w].st
  <2>1. reclaim[w] \in Reclaim
    BY <1>2
  <2> QED BY <2>1, <1>1 DEF Reclaim
<1>7. \A w \in Reclaimers : OwedTo(w)' = OwedTo(w) \ {c}
  <2> SUFFICES ASSUME NEW w \in Reclaimers PROVE OwedTo(w)' = OwedTo(w) \ {c}
    OBVIOUS
  <2>1. CASE left = 0 /\ reclaim[w].st = "waiting"
    <3>1. OwedTo(w) \ {c} = {}
      BY <2>1, <1>5, StaleCount
    <3>2. OwedTo(w)' = {}
      BY <2>1, <1>6 DEF OwedTo
    <3> QED BY <3>1, <3>2
  <2>2. CASE ~(left = 0 /\ reclaim[w].st = "waiting")
    <3>1. reclaim'[w].st = reclaim[w].st /\ reclaim'[w].epoch = reclaim[w].epoch
      BY <2>2, <1>6
    <3>2. request'[c].st # "held" /\ \A d \in Clients \ {c} : request'[d] = request[d]
      BY <1>1, <1>2 DEF NoRequest
    <3> QED BY <3>1, <3>2 DEF OwedTo, Held
  <2> QED BY <2>1, <2>2
<1>8. AbstractLock!Those(CallsIn(request', epoch'), "discarded") = stale \ {c}
  <2>1. AbstractLock!Those(CallsIn(request, epoch), "discarded") = stale
    BY StaleCount
  <2>2. CallsIn(request, epoch) \in [Clients -> {CallIn(request, epoch, d) : d \in Clients}]
    BY DEF CallsIn
  <2> QED BY <2>1, <2>2, <1>4 DEF AbstractLock!Those, AbstractLock!Idle
<1>9. CallsIn(request, epoch)[c].st = "discarded"
  BY <1>1, CallStates DEF Held
<1> DEFINE st == [w \in Reclaimers |-> reclaim[w].st]
           st2 == [w \in Reclaimers |-> reclaim'[w].st]
           owed2 == [w \in Reclaimers |-> OwedTo(w)']
<1>10. \E R \in SUBSET {w \in Reclaimers : st[w] = "waiting" /\ owed2[w] = {}} :
         st2 = [w \in Reclaimers |-> IF w \in R THEN "resolved" ELSE st[w]]
  <2>1. CASE left = 0
    <3> DEFINE R == {w \in Reclaimers : reclaim[w].st = "waiting"}
    <3>1. \A w \in R : owed2[w] = {}
      BY <2>1, <1>5, <1>7, StaleCount
    <3>2. st2 = [w \in Reclaimers |-> IF w \in R THEN "resolved" ELSE st[w]]
      BY <2>1, <1>6
    <3> QED BY <3>1, <3>2
  <2>2. CASE left # 0
    <3>1. st2 = [w \in Reclaimers |-> IF w \in {} THEN "resolved" ELSE st[w]]
      BY <2>2, <1>6
    <3>2. {} \in SUBSET {w \in Reclaimers : st[w] = "waiting" /\ owed2[w] = {}}
      OBVIOUS
    <3> HIDE DEF st, st2, owed2
    <3> WITNESS {} \in SUBSET {w \in Reclaimers : st[w] = "waiting" /\ owed2[w] = {}}
    <3> QED BY <3>1
  <2> QED BY <2>1, <2>2
<1>11. stale \ {c} = {} => \A w \in Reclaimers : st2[w] # "waiting"
  BY <1>5, <1>6
<1>12. owed2 = [w \in Reclaimers |-> [v \in Reclaimers |-> OwedTo(v)][w] \ {c}]
  BY <1>7
<1>13. OrderIn(queue') = OrderIn(queue)
  BY <1>1
<1> QED BY <1>4, <1>8, <1>9, <1>10, <1>11, <1>12, <1>13, Mapped DEF AbstractLock!Outlive

\* whenStaleHoldersReleased() is promised the discarded holders there are.
LEMMA WhenStaleImplements ==
    ASSUME LockInv, NEW w \in Reclaimers, WhenStaleHoldersReleased(w)
    PROVE  AbstractLock!Reclaim(w)
<1> DEFINE r == [st |-> IF staleHolders = 0 THEN "resolved" ELSE "waiting", epoch |-> epoch]
           stale == HoldingElsewhere(request, epoch)
<1>1. /\ reclaim[w].st = "idle"
      /\ reclaim' = [reclaim EXCEPT ![w] = r]
      /\ UNCHANGED <<queue, epoch, request>>
  BY DEF WhenStaleHoldersReleased
<1>2. /\ reclaim \in [Reclaimers -> Reclaim] /\ epoch \in Nat
      /\ \A c \in Clients : request[c].epoch \in Nat /\ (Held(c) => request[c].epoch <= epoch)
  BY DEF LockInv, Consistent, HoldersExact, Held, Request
<1>3. reclaim'[w] = r /\ \A v \in Reclaimers \ {w} : reclaim'[v] = reclaim[v]
  BY <1>1, <1>2
<1>4. OwedTo(w)' = stale
  <2>1. reclaim'[w].epoch = epoch /\ (reclaim'[w].st = "waiting" <=> staleHolders # 0)
    BY <1>3
  <2>2. \A c \in Clients : (Held(c) /\ request[c].epoch < epoch)
                             <=> (request[c].st = "held" /\ request[c].epoch # epoch)
    BY <1>2 DEF Held
  <2> QED BY <2>1, <2>2, <1>1, StaleCount DEF OwedTo, Held, HoldingElsewhere
<1>5. \A v \in Reclaimers \ {w} : OwedTo(v)' = OwedTo(v)
  BY <1>1, <1>3 DEF OwedTo, Held
<1>6. [v \in Reclaimers |-> OwedTo(v)'] =
        [[v \in Reclaimers |-> OwedTo(v)] EXCEPT
           ![w] = AbstractLock!Those(CallsIn(request, epoch), "discarded")]
  BY <1>4, <1>5, StaleCount
<1>7. [v \in Reclaimers |-> reclaim'[v].st] =
        [[v \in Reclaimers |-> reclaim[v].st] EXCEPT
           ![w] = IF OwedTo(w)' = {} THEN "resolved" ELSE "waiting"]
  <2>1. reclaim'[w].st = IF OwedTo(w)' = {} THEN "resolved" ELSE "waiting"
    <3>1. reclaim'[w].st = IF staleHolders = 0 THEN "resolved" ELSE "waiting"
      BY <1>3
    <3> QED BY <3>1, <1>4, StaleCount
  <2> QED BY <2>1, <1>3
<1>8. CallsIn(request', epoch') = CallsIn(request, epoch) /\ OrderIn(queue') = OrderIn(queue)
  BY <1>1
<1>9. [v \in Reclaimers |-> OwedTo(v)'][w] = OwedTo(w)'
  OBVIOUS
<1> QED BY <1>1, <1>6, <1>7, <1>8, <1>9, Mapped DEF AbstractLock!Reclaim

-----------------------------------------------------------------------------
\* A free lock is a free abstract lock.
LEMMA InitImplements == LockInit => AbstractLock!Init
<1> SUFFICES ASSUME LockInit PROVE AbstractLock!Init
  OBVIOUS
<1>1. \A c \in Clients : CallIn(request, epoch, c) = AbstractLock!Idle
  BY DEF LockInit, NoRequest, CallIn, AbstractLock!Idle
<1>2. CallsIn(request, epoch) = [c \in Clients |-> AbstractLock!Idle]
  BY <1>1 DEF CallsIn
<1>3. OrderIn(queue) = [c \in Clients |-> {}]
  BY DEF LockInit, OrderIn, AheadIn
<1>4. /\ [w \in Reclaimers |-> reclaim[w].st] = [w \in Reclaimers |-> "idle"]
      /\ [w \in Reclaimers |-> OwedTo(w)] = [w \in Reclaimers |-> {}]
  BY DEF LockInit, OwedTo
<1> QED BY <1>2, <1>3, <1>4, Mapped DEF AbstractLock!Init

\* A step of the lock is a step of the abstract one, or changes nothing of it.
LEMMA StepImplements ==
    ASSUME OrderInv, [LockNext]_lockVars
    PROVE  [AbstractLock!Next]_AbstractLock!vars
<1>0. LockInv /\ QueueComplete
  BY DEF OrderInv
<1>1. ASSUME NEW c \in Clients, Read(c) \/ Write(c) \/ AcquireWrite(c) \/ TryAcquireWrite(c)
      PROVE  \E kind \in {"read", "write"} : AbstractLock!Ask(c, kind)
  <2>1. "read" \in Kinds /\ "write" \in Kinds
    BY DEF Kinds
  <2> QED BY <1>0, <1>1, <2>1, AcquireImplements DEF Read, Write, AcquireWrite, TryAcquireWrite
<1>2. ASSUME NEW c \in Clients, ReleaseStale(c) PROVE AbstractLock!Outlive(c)
  BY <1>0, <1>2, ReleaseStaleImplements
<1>3. ASSUME NEW c \in Clients, ReleaseRead(c) \/ ReleaseWrite(c) PROVE AbstractLock!Leave(c)
  BY <1>0, <1>3, ReleaseImplements
<1>4. ASSUME NEW c \in Clients, Withdraw(c) PROVE AbstractLock!Leave(c)
  BY <1>0, <1>4, WithdrawImplements
<1>5. ASSUME Reset PROVE AbstractLock!Discard
  BY <1>0, <1>5, ResetImplements
<1>6. ASSUME NEW w \in Reclaimers, WhenStaleHoldersReleased(w) PROVE AbstractLock!Reclaim(w)
  BY <1>0, <1>6, WhenStaleImplements
<1>7. ASSUME UNCHANGED lockVars PROVE UNCHANGED AbstractLock!vars
  <2>1. UNCHANGED <<queue, epoch, request, reclaim>>
    BY <1>7 DEF lockVars
  <2>2. UNCHANGED <<[w \in Reclaimers |-> reclaim[w].st], [w \in Reclaimers |-> OwedTo(w)]>>
    BY <2>1 DEF OwedTo, Held
  <2>3. UNCHANGED <<[c \in Clients |-> CallOf(c)], [c \in Clients |-> {d \in Clients : Ahead(d, c)}]>>
    BY <2>1, Mapped
  <2> QED BY <2>2, <2>3 DEF AbstractLock!vars
<1> QED BY <1>1, <1>2, <1>3, <1>4, <1>5, <1>6, <1>7 DEF LockNext, AbstractLock!Next

\* The lock is what its callers rely on: its queue, counters and epochs grant in
\* the order of arrival, as many as are compatible and at the moment they become
\* so, and a wait for discarded holders outlasts those there were (db-lock.ts).
THEOREM LockImplementsAbstract == LockSpec => ImplementsLock
<1>1. OrderInv /\ [LockNext]_lockVars => [AbstractLock!Next]_AbstractLock!vars
  BY StepImplements
<1> QED BY <1>1, InitImplements, LockOrderInvariant, PTL
        DEF LockSpec, ImplementsLock, AbstractLock!Spec
=============================================================================
