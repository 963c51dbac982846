--------------------------- MODULE DbModuleProofs ---------------------------
(***************************************************************************)
(* The database module on top of its lock, for any number of callers and   *)
(* handles: no handle is freed under a statement that was given the lock,  *)
(* and every statement reaches the database its caller asked about.        *)
(*                                                                         *)
(* The hypothesis is ~SlowClose: no native close outlasts the budget of    *)
(* another close().  Without it a discarded close() resets the lock of its *)
(* successors when it returns, and the statements are not safe.            *)
(***************************************************************************)
EXTENDS DbModuleProperties, DbLockProofs

-----------------------------------------------------------------------------
(***************************************************************************)
(* What holds of each client.                                              *)
(***************************************************************************)
LockingPcs == {"locking", "closeLocking"}

HoldingPcs == UnderLock \cup {"awaitingSlot", "woken", "leaving", "freeing"}

\* Where a client of each kind may be.
Shape(c) ==
    \/ op[c] = NoOp
    \/ /\ c \in Callers
       /\ \/ /\ op[c].kind = "read"
             /\ op[c].pc \in {"locking", "awaitingSlot", "woken", "executing", "leaving"}
          \/ op[c].kind = "write" /\ op[c].pc \in {"locking", "executing"}
          \/ /\ op[c].kind = "txn"
             /\ op[c].pc \in {"locking", "executing", "committing", "rollingBack",
                              "commitRefused", "rollingBackLate"}
          \/ /\ op[c].kind \in {"open", "close"}
             /\ op[c].pc \in {"closeLocking", "timedOut", "freeing"}
          \/ /\ op[c].kind = "open"
             /\ op[c].pc \in {"reopening", "locking", "init", "seed", "probe"}
    \/ /\ c \in Handles
       /\ op[c].kind = "deferred"
       /\ op[c].pc \in {"waiting", "gaveUp", "locking", "freeing"}

\* What a client is doing with the lock follows from where it is.
Matched(c) ==
    /\ op[c].pc \in LockingPcs => request[c].st \in {"queued", "held"}
    /\ op[c].pc \in HoldingPcs => request[c].st = "held"
    /\ op[c].pc \notin LockingPcs \cup HoldingPcs => request[c].st = "idle"
    /\ request[c].st # "idle" => (request[c].kind = "read" <=> op[c].kind = "read")

\* A reset finds nobody on the way into a close, an open or a deferred close.
Discardable(c) ==
    Stale(c) =>
        \/ op[c].kind = "read"
        \/ op[c].pc \in {"executing", "committing", "rollingBack"}
        \/ c \in Handles /\ op[c].pc = "freeing"
        \/ Opening(c) /\ SlowOpen /\ database = NoHandle

\* A holder that was discarded belongs to an earlier generation.
Dated(c) ==
    c \in Callers =>
        /\ op[c].gen <= generation
        /\ Stale(c) => op[c].gen < generation
        /\ (Current(c) /\ op[c].kind = "txn" /\ op[c].pc = "executing")
              => op[c].gen = generation

\* Whoever uses a handle under the lock holds it for the current database, or was
\* discarded before the deferred close of that handle began to wait.
UserSafe(c) ==
    op[c].pc \in UnderLock =>
        LET h == op[c].conn
        IN  /\ h \in Handles
            /\ handle[h].st = "live"
            /\ Current(c) => database = h
            /\ Stale(c) => /\ op[h].kind = "deferred" /\ op[h].pc \in {"waiting", "gaveUp"}
                           /\ reclaim[h].st = "waiting"
                           /\ request[c].epoch < reclaim[h].epoch

\* A handle is freed by one client, after it ceased to be the database.
FreeingAlone(c) ==
    op[c].pc = "freeing" =>
        LET h == op[c].conn
        IN  /\ h \in Handles
            /\ handle[h].st = "closing"
            /\ c \in Callers => op[h] = NoOp /\ database = NoHandle
            /\ c \in Handles => h = c

\* A statement's connection is to the database of its generation.
OnRequested(c) ==
    (op[c].kind \in {"read", "write", "txn"} /\ op[c].conn # NoHandle) =>
        handle[op[c].conn].gen = op[c].gen /\ op[c].gen > 0

\* open() finds no database, and its handle is published by nobody else.
OpenOrderly(c) ==
    op[c].kind = "open" =>
        /\ op[c].pc \in {"reopening", "locking"} => database = NoHandle
        /\ Opening(c) => handle[op[c].conn].gen = 0

ClientOK(c) ==
    /\ Shape(c) /\ Matched(c) /\ Discardable(c) /\ Dated(c)
    /\ UserSafe(c) /\ FreeingAlone(c) /\ OnRequested(c) /\ OpenOrderly(c)

-----------------------------------------------------------------------------
(***************************************************************************)
(* What holds of the module.                                               *)
(***************************************************************************)
HandleKept(h) ==
    /\ handle[h].st = "unborn" => op[h] = NoOp /\ handle[h].gen = 0
    /\ (op[h].kind = "deferred" /\ op[h].pc # "freeing") => handle[h].st = "live"

OpenerAtWork == \E c \in Callers : Opening(c) /\ Current(c)

DatabaseKept ==
    database # NoHandle =>
        /\ handle[database].st = "live"
        /\ op[database] = NoOp
        /\ OpenerAtWork \/ (handle[database].gen = generation /\ generation > 0)

OneOpen ==
    \A c, d \in Callers : (op[c].kind = "open" /\ op[d].kind = "open") => c = d

\* The read slots: who has one, who is about to, and who waits.
SlotHolders == {c \in Callers : op[c].kind = "read" /\ op[c].pc \in {"executing", "leaving"}}
Woken       == {c \in Callers : op[c].pc = "woken"}

SlotsCounted ==
    /\ slotsActive = Cardinality(SlotHolders)
    /\ \A i \in DOMAIN slotQueue : op[slotQueue[i]].pc = "awaitingSlot"
    /\ \A i, j \in DOMAIN slotQueue : slotQueue[i] = slotQueue[j] => i = j
    /\ \A c \in Callers : op[c].pc = "awaitingSlot" => \E i \in DOMAIN slotQueue : slotQueue[i] = c
    /\ slotQueue # <<>> => slotsActive + Cardinality(Woken) >= ReadLimit

\* Whoever a close() gave up on cannot move before the close has reset the lock.
Stuck(c) ==
    /\ Current(c)
    /\ \/ op[c].pc \in {"executing", "committing", "rollingBack"}
       \/ c \in Handles /\ op[c].pc = "freeing"
       \/ Opening(c) /\ SlowOpen
       \/ /\ op[c].pc = "awaitingSlot"
          /\ slotsActive >= ReadLimit
          /\ \A d \in Callers : op[d].pc \notin {"woken", "leaving"}

TimedOutBlocked ==
    \A c, d \in Callers :
        op[c].pc = "timedOut" =>
            /\ op[d].pc = "timedOut" => c = d
            /\ \E b \in Clients : Stuck(b)

StatusKept ==
    (~SlowOpen /\ status.state = "open") =>
        /\ status.handle \in Handles
        /\ \/ database = status.handle
           \/ \E c \in Callers : Frees(c, status.handle)

\* A live handle is the database, waits for its deferred close or was dropped; one
\* that is closing is so at the hands of somebody; a dropped one was dropped for good.
OwnersKept ==
    \A h \in Handles :
        /\ handle[h].st = "live" => database = h \/ op[h].kind = "deferred" \/ handle[h].dropped
        /\ handle[h].st = "closing" => \E c \in Clients : Frees(c, h)
        /\ handle[h].dropped => handle[h].st = "live" /\ database # h /\ op[h] = NoOp

ModuleOK ==
    /\ \A h \in Handles : HandleKept(h)
    /\ DatabaseKept /\ OneOpen /\ SlotsCounted /\ TimedOutBlocked /\ StatusKept /\ OwnersKept

DbInv == OrderInv /\ DbTypeOK /\ (\A c \in Clients : ClientOK(c)) /\ ModuleOK

-----------------------------------------------------------------------------
(***************************************************************************)
(* What a step does to the lock: the invariants of DbLockProofs are kept,  *)
(* whoever waits for a reset goes on waiting or is told that the discarded *)
(* holders are gone, and every other client keeps its request or is        *)
(* granted it.                                                             *)
(***************************************************************************)
\* A client whose request was `before` when dispatch() ran.
Served(d, before) ==
    \/ request'[d] = before
    \/ /\ before.st = "queued"
       /\ request'[d].st = "held" /\ request'[d].kind = before.kind
       /\ request'[d].epoch = epoch'

ReclaimsGoOn ==
    \A w \in Reclaimers :
        /\ reclaim'[w].epoch = reclaim[w].epoch
        /\ reclaim[w].st = "waiting" => reclaim'[w].st \in {"waiting", "resolved"}

LockMoves(S) == OrderInv' /\ \A d \in Clients \ S : Served(d, request[d])

\* dispatch() serves a request or leaves it.
LEMMA DispatchServes ==
    ASSUME NEW q, NEW readers, NEW writer, NEW txn, NEW e, NEW req,
           Consistent(q, readers, writer, e, req), epoch' = e,
           Dispatch(q, readers, writer, txn, e, req), NEW d \in Clients
    PROVE  Served(d, req[d])
<1> DEFINE n == GrantCount(q, readers, writer)
           granted == {q[i].who : i \in 1..n}
<1>1. /\ q \in Seq(Waiter) /\ req \in [Clients -> Request] /\ QueueExact(q, req)
      /\ DOMAIN q = 1..Len(q) /\ Len(q) \in Nat
  BY LenProperties DEF Consistent
<1>2. n \in 0..Len(q)
  <2>1. LeadingReads(q) \in 0..Len(q)
    BY <1>1, LeadingReadsExact
  <2>2. q # <<>> => Len(q) # 0
    BY <1>1, EmptySeq
  <2> QED BY <1>1, <2>1, <2>2 DEF GrantCount
<1>3. request'[d] = IF d \in granted THEN [req[d] EXCEPT !.st = "held", !.epoch = e] ELSE req[d]
  BY DEF Dispatch
<1>4. ASSUME d \in granted PROVE req[d].st = "queued"
  <2>1. PICK i \in 1..n : q[i].who = d
    BY <1>4
  <2>2. i \in DOMAIN q
    BY <1>1, <1>2
  <2> HIDE DEF n
  <2> QED BY <2>1, <2>2, <1>1 DEF QueueExact
<1>5. req[d] \in Request
  BY <1>1
<1> HIDE DEF granted
<1> QED BY <1>3, <1>4, <1>5 DEF Served, Request

\* The request table with c's entry replaced serves everybody else as it was.
LEMMA OthersServed ==
    ASSUME NEW req, NEW r, NEW c \in Clients, request \in [Clients -> Request],
           req = [request EXCEPT ![c] = r],
           \A d \in Clients : Served(d, req[d])
    PROVE  /\ \A d \in Clients \ {c} : Served(d, request[d])
           /\ Served(c, r)
<1>1. req[c] = r /\ \A d \in Clients \ {c} : req[d] = request[d]
  OBVIOUS
<1> QED BY <1>1

\* A client that asks for the lock waits for it or gets it at once.
Asked(c, kind) ==
    /\ LockMoves({c}) /\ UNCHANGED <<epoch, reclaim>>
    /\ request[c].st = "idle"
    /\ request'[c].st \in {"queued", "held"}
    /\ request'[c].kind = kind
    /\ request'[c].st = "held" => request'[c].epoch = epoch'

LEMMA AcquireMoves ==
    ASSUME OrderInv, NEW c \in Clients, NEW kind \in Kinds, NEW txn \in BOOLEAN,
           NEW timed \in BOOLEAN, Acquire(c, kind, txn, timed),
           Read(c) \/ Write(c) \/ AcquireWrite(c) \/ TryAcquireWrite(c)
    PROVE  Asked(c, kind)
<1> DEFINE q == Append(queue, [who |-> c, kind |-> kind, txn |-> txn])
           r == [st |-> "queued", kind |-> kind, timed |-> timed, epoch |-> 0]
           req == [request EXCEPT ![c] = r]
<1>2. /\ Dispatch(q, activeReaders, activeWriter, writerIsTransaction, epoch, req)
      /\ UNCHANGED <<epoch, staleHolders, reclaim>> /\ request[c].st = "idle"
  BY DEF Acquire
<1>3. Consistent(q, activeReaders, activeWriter, epoch, req)
  BY <1>2, AcquireConsistent DEF OrderInv
<1>4. request \in [Clients -> Request]
  BY DEF OrderInv, LockInv, Consistent
<1>5. OrderInv'
  BY OrderStepInv DEF LockNext
<1>6. /\ \A d \in Clients \ {c} : Served(d, request[d])
      /\ Served(c, r)
  <2>1. req = [request EXCEPT ![c] = r]
    OBVIOUS
  <2> HIDE DEF q, req
  <2>2. \A d \in Clients : Served(d, req[d])
    BY <1>2, <1>3, DispatchServes
  <2> HIDE DEF r
  <2> QED BY <1>4, <2>1, <2>2, OthersServed
<1> QED BY <1>2, <1>5, <1>6 DEF Served, LockMoves, Asked

LEMMA ReadMoves ==
    ASSUME OrderInv, NEW c \in Clients, Read(c)
    PROVE  Asked(c, "read")
<1>1. "read" \in Kinds /\ Acquire(c, "read", FALSE, FALSE)
  BY DEF Read, Kinds
<1> QED BY <1>1, AcquireMoves

LEMMA WriteMoves ==
    ASSUME OrderInv, NEW c \in Clients, Write(c) \/ AcquireWrite(c) \/ TryAcquireWrite(c)
    PROVE  Asked(c, "write")
<1>1. /\ "write" \in Kinds
      /\ \E txn \in BOOLEAN, timed \in BOOLEAN : Acquire(c, "write", txn, timed)
  BY DEF Write, AcquireWrite, TryAcquireWrite, Kinds
<1> QED BY <1>1, AcquireMoves

LEMMA WithdrawMoves ==
    ASSUME OrderInv, NEW c \in Clients, Withdraw(c)
    PROVE  /\ LockMoves({c}) /\ UNCHANGED <<epoch, reclaim>>
           /\ request[c].st = "queued" /\ request'[c].st = "idle"
<1> DEFINE req == [request EXCEPT ![c] = NoRequest]
<1>1. PICK k \in DOMAIN queue :
        /\ queue[k].who = c
        /\ Dispatch(Without(queue, k), activeReaders, activeWriter,
                    writerIsTransaction, epoch, req)
  BY DEF Withdraw
<1>2. Consistent(Without(queue, k), activeReaders, activeWriter, epoch, req)
  BY <1>1, WithdrawConsistent DEF OrderInv
<1>3. request \in [Clients -> Request]
  BY DEF OrderInv, LockInv, Consistent
<1>4. OrderInv'
  BY OrderStepInv DEF LockNext
<1>5. UNCHANGED <<epoch, reclaim>> /\ request[c].st = "queued"
  BY DEF Withdraw
<1>6. /\ \A d \in Clients \ {c} : Served(d, request[d])
      /\ Served(c, NoRequest)
  <2>1. req = [request EXCEPT ![c] = NoRequest]
    OBVIOUS
  <2> HIDE DEF req
  <2>2. \A d \in Clients : Served(d, req[d])
    BY <1>1, <1>2, <1>5, DispatchServes
  <2> QED BY <1>3, <2>1, <2>2, OthersServed
<1> QED BY <1>4, <1>5, <1>6 DEF Served, LockMoves, NoRequest

LEMMA ReleaseMoves ==
    ASSUME OrderInv, NEW c \in Clients, Release(c)
    PROVE  /\ LockMoves({c}) /\ ReclaimsGoOn /\ UNCHANGED epoch
           /\ Held(c) /\ request'[c].st = "idle"
<1> DEFINE readers == IF activeReaders > 0 THEN activeReaders - 1 ELSE activeReaders
           req == [request EXCEPT ![c] = NoRequest]
<1>1. request \in [Clients -> Request] /\ LockInv
  BY DEF OrderInv, LockInv, Consistent
<1>2. OrderInv'
  BY OrderStepInv DEF LockNext, Release
<1>3. UNCHANGED epoch /\ Held(c)
  BY DEF Release, ReleaseStale, ReleaseRead, ReleaseWrite, Stale, Current
<1>4. ReclaimsGoOn
  <2>1. CASE ReleaseStale(c)
    <3>1. \A w \in Reclaimers :
            reclaim'[w] = reclaim[w] \/ reclaim'[w] = [reclaim[w] EXCEPT !.st = "resolved"]
      BY <2>1 DEF ReleaseStale, NoteStaleRelease
    <3>2. \A w \in Reclaimers : reclaim[w] \in Reclaim
      BY <1>1 DEF LockInv
    <3> QED BY <3>1, <3>2 DEF ReclaimsGoOn, Reclaim
  <2>2. CASE ReleaseRead(c) \/ ReleaseWrite(c)
    BY <2>2 DEF ReleaseRead, ReleaseWrite, ReclaimsGoOn
  <2> QED BY <2>1, <2>2 DEF Release
<1>5. \A d \in Clients : Served(d, req[d])
  <2>1. CASE ReleaseStale(c)
    BY <2>1 DEF ReleaseStale, Served
  <2>2. CASE ReleaseRead(c)
    <3>1. Consistent(queue, readers, activeWriter, epoch, req)
      BY <1>1, <2>2, ReleaseReadConsistent
    <3>2. Dispatch(queue, readers, activeWriter, writerIsTransaction, epoch, req)
      BY <2>2 DEF ReleaseRead
    <3> HIDE DEF readers, req
    <3> QED BY <1>3, <3>1, <3>2, DispatchServes
  <2>3. CASE ReleaseWrite(c)
    <3>1. Consistent(queue, activeReaders, FALSE, epoch, req)
      BY <1>1, <2>3, ReleaseWriteConsistent
    <3>2. Dispatch(queue, activeReaders, FALSE, FALSE, epoch, req)
      BY <2>3 DEF ReleaseWrite
    <3> HIDE DEF req
    <3> QED BY <1>3, <3>1, <3>2, DispatchServes
  <2> QED BY <2>1, <2>2, <2>3 DEF Release
<1>6. (\A d \in Clients \ {c} : Served(d, request[d])) /\ Served(c, NoRequest)
  <2>1. req = [request EXCEPT ![c] = NoRequest]
    OBVIOUS
  <2> HIDE DEF req
  <2> QED BY <1>1, <1>5, <2>1, OthersServed
<1> QED BY <1>2, <1>3, <1>4, <1>6 DEF Served, LockMoves, NoRequest

\* close() that gave up: reset() hands over the queue as it is.
LEMMA ResetAndAwaitMoves ==
    ASSUME OrderInv, NEW h \in Reclaimers \cup {NoHandle}, ResetAndAwait(h)
    PROVE  /\ LockMoves({}) /\ epoch' = epoch + 1
           /\ \A w \in Reclaimers \ {h} : reclaim'[w] = reclaim[w]
           /\ h # NoHandle => /\ reclaim'[h].epoch = epoch + 1
                              /\ reclaim'[h].st \in {"waiting", "resolved"}
<1>1. /\ LockInv /\ QueueComplete
      /\ request \in [Clients -> Request] /\ epoch \in Nat
      /\ reclaim \in [Reclaimers -> Reclaim]
      /\ \A w \in Reclaimers : reclaim[w].epoch <= epoch /\ reclaim[w].epoch \in Nat
  BY DEF OrderInv, LockInv, Consistent, Reclaim
<1>2. /\ epoch' = epoch + 1
      /\ staleHolders' = Discarded
      /\ Dispatch(queue, 0, FALSE, FALSE, epoch + 1, request)
      /\ reclaim' = IF h = NoHandle THEN reclaim
                    ELSE [reclaim EXCEPT ![h] =
                            [st |-> IF Discarded = 0 THEN "resolved" ELSE "waiting",
                             epoch |-> epoch + 1]]
  BY DEF ResetAndAwait
<1>3. /\ Consistent(queue, 0, FALSE, epoch + 1, request)
      /\ staleHolders' = Cardinality(HoldingElsewhere(request, epoch + 1))
  BY <1>1, <1>2, ResetConsistent, DiscardedCounted DEF Discarded
<1>4. /\ \A w \in Reclaimers \ {h} : reclaim'[w] = reclaim[w]
      /\ h # NoHandle => /\ reclaim'[h].epoch = epoch + 1
                         /\ reclaim'[h].st \in {"waiting", "resolved"}
                         /\ reclaim'[h].st = "resolved" => staleHolders' = 0
      /\ h = NoHandle => reclaim' = reclaim
      /\ reclaim' \in [Reclaimers -> Reclaim]
  BY <1>1, <1>2 DEF Reclaim
<1>5. /\ \A w \in Reclaimers : reclaim'[w].epoch <= epoch + 1
      /\ \A w \in Reclaimers : \/ reclaim'[w].st # "resolved" \/ reclaim'[w] = reclaim[w]
                               \/ staleHolders' = 0
  <2> SUFFICES ASSUME NEW w \in Reclaimers
               PROVE  /\ reclaim'[w].epoch <= epoch + 1
                      /\ \/ reclaim'[w].st # "resolved" \/ reclaim'[w] = reclaim[w]
                         \/ staleHolders' = 0
    OBVIOUS
  <2>1. CASE reclaim'[w] = reclaim[w]
    BY <2>1, <1>1
  <2>2. CASE w = h /\ h # NoHandle
    BY <2>2, <1>1, <1>4
  <2> QED BY <2>1, <2>2, <1>4
<1>6. LockInv'
  <2>1. \A c \in Clients : request[c] = request[c] \/ request[c].st # "held"
    OBVIOUS
  <2> QED BY <1>1, <1>2, <1>3, <1>4, <1>5, <2>1, DiscardInv
<1>7. InOrder
  <2>1. Hands(queue, request)
    BY <1>1, SameQueueHands
  <2> QED BY <1>2, <2>1, DispatchOrder
<1>8. \A d \in Clients : Served(d, request[d])
  BY <1>2, <1>3, DispatchServes
<1> QED BY <1>2, <1>4, <1>6, <1>7, <1>8 DEF LockMoves, OrderInv, InOrder

\* Nobody else holds the lock while a holder for writing does.
LEMMA WriterAlone ==
    ASSUME OrderInv, NEW c \in Clients, Current(c), request[c].kind # "read",
           NEW d \in Clients, d # c
    PROVE  ~Current(d)
BY HoldersExclude DEF OrderInv, MutualExclusion

\* close() that has freed the handle: reset() discards its own hold, and its
\* release tells whoever waits for the discarded holders if none is left.
LEMMA ResetAndReleaseMoves ==
    ASSUME OrderInv, NEW c \in Clients, Current(c), request[c].kind # "read",
           ResetAndRelease(c)
    PROVE  /\ LockMoves({c}) /\ ReclaimsGoOn /\ epoch' = epoch + 1
           /\ request'[c].st = "idle"
<1> DEFINE req == [request EXCEPT ![c] = NoRequest]
           left == IF Discarded > 0 THEN Discarded - 1 ELSE 0
           e == epoch + 1
<1>1. /\ LockInv /\ QueueComplete
      /\ request \in [Clients -> Request] /\ epoch \in Nat
      /\ reclaim \in [Reclaimers -> Reclaim]
      /\ \A w \in Reclaimers : reclaim[w].epoch <= epoch /\ reclaim[w].epoch \in Nat
      /\ queue \in Seq(Waiter) /\ QueueExact(queue, request)
      /\ \A d \in Clients : request[d] \in Request /\ (Held(d) => request[d].epoch <= epoch)
  BY DEF OrderInv, LockInv, Consistent, Reclaim, HoldersExact, Held
<1>2. /\ epoch' = e
      /\ staleHolders' = left
      /\ reclaim' = [w \in Reclaimers |->
                       IF left = 0 /\ reclaim[w].st = "waiting"
                       THEN [reclaim[w] EXCEPT !.st = "resolved"]
                       ELSE reclaim[w]]
      /\ Dispatch(queue, 0, FALSE, FALSE, e, req)
  BY DEF ResetAndRelease
<1>3. /\ req \in [Clients -> Request] /\ QueueExact(queue, req)
      /\ \A d \in Clients : req[d] = request[d] \/ req[d].st # "held"
  <2>1. \A i \in DOMAIN queue : queue[i].who # c
    BY <1>1, HolderFacts DEF Current
  <2>2. req = [request EXCEPT ![c] = NoRequest]
    OBVIOUS
  <2> HIDE DEF req
  <2> QED BY <1>1, <2>1, <2>2, ForgetRequest
<1>4. req[c] = NoRequest /\ \A d \in Clients \ {c} : req[d] = request[d]
  BY <1>1
<1>5. HoldingElsewhere(request, e) = HoldingElsewhere(req, e) \cup {c}
  <2>1. c \in HoldingElsewhere(request, e)
    BY <1>1 DEF HoldingElsewhere, Current, Held
  <2> HIDE DEF req, e
  <2> QED BY <1>4, <2>1 DEF HoldingElsewhere, NoRequest
<1>6. left = Cardinality(HoldingElsewhere(req, e)) /\ left \in Nat
  <2>1. IsFiniteSet(HoldingElsewhere(req, e)) /\ c \notin HoldingElsewhere(req, e)
    <3> HIDE DEF req, e
    <3> QED BY <1>4, LockAssumption, FS_Subset DEF HoldingElsewhere, NoRequest
  <2>2. Discarded = Cardinality(HoldingElsewhere(request, e))
    BY <1>1, DiscardedCounted DEF Discarded
  <2>3. Discarded = Cardinality(HoldingElsewhere(req, e)) + 1
    BY <1>5, <2>1, <2>2, FS_AddElement
  <2>4. Cardinality(HoldingElsewhere(req, e)) \in Nat
    BY <2>1, FS_CardinalityType
  <2> HIDE DEF req, e
  <2> QED BY <2>3, <2>4
<1>7. Consistent(queue, 0, FALSE, e, req)
  <2>1. Consistent(queue, 0, FALSE, e, request)
    BY <1>1, ResetConsistent
  <2>2. /\ Holding(req, "read", e) = Holding(request, "read", e)
        /\ Holding(req, "write", e) = Holding(request, "write", e)
    <3>1. request[c].epoch # e
      BY <1>1 DEF Current, Held
    <3> HIDE DEF req, e
    <3> QED BY <1>4, <3>1 DEF Holding, NoRequest
  <2>3. \A d \in Clients : req[d].st = "held" => req[d].epoch <= e
    <3>1. \A d \in Clients : request[d].st = "held" => request[d].epoch <= e
      BY <2>1 DEF Consistent, HoldersExact
    <3> HIDE DEF req, e
    <3> QED BY <1>3, <3>1
  <2> HIDE DEF req, e
  <2> QED BY <1>3, <2>1, <2>2, <2>3 DEF Consistent, HoldersExact
<1> HIDE DEF req, left
<1>8. /\ reclaim' \in [Reclaimers -> Reclaim] /\ ReclaimsGoOn
      /\ \A w \in Reclaimers : reclaim'[w].epoch <= e
      /\ \A w \in Reclaimers : \/ reclaim'[w].st # "resolved" \/ reclaim'[w] = reclaim[w]
                               \/ staleHolders' = 0
  <2>1. \A w \in Reclaimers :
          /\ reclaim[w] \in Reclaim
          /\ \/ reclaim'[w] = reclaim[w]
             \/ left = 0 /\ reclaim'[w] = [reclaim[w] EXCEPT !.st = "resolved"]
    BY <1>1, <1>2
  <2>2. \A w \in Reclaimers :
          /\ reclaim'[w] \in Reclaim /\ reclaim'[w].epoch = reclaim[w].epoch
          /\ reclaim'[w] = reclaim[w] \/ (left = 0 /\ reclaim'[w].st = "resolved")
    BY <2>1 DEF Reclaim
  <2>3. reclaim' \in [Reclaimers -> Reclaim]
    BY <1>2, <2>2
  <2>4. ReclaimsGoOn
    BY <2>2, <1>1 DEF ReclaimsGoOn
  <2> QED BY <1>1, <1>2, <2>2, <2>3, <2>4
<1>9. LockInv'
  BY <1>1, <1>2, <1>3, <1>6, <1>7, <1>8, DiscardInv
<1>10. InOrder
  <2>1. Hands(queue, req)
    <3>1. NoRequest.st = "idle"
      BY DEF NoRequest
    <3> QED BY <1>1, <1>3, <1>4, <3>1, SameQueueHands
  <2> QED BY <1>2, <2>1, DispatchOrder
<1>11. \A d \in Clients : Served(d, req[d])
  BY <1>2, <1>7, DispatchServes
<1>12. (\A d \in Clients \ {c} : Served(d, request[d])) /\ Served(c, NoRequest)
  BY <1>4, <1>11
<1> QED BY <1>2, <1>8, <1>9, <1>10, <1>12 DEF LockMoves, OrderInv, InOrder, Served, NoRequest

-----------------------------------------------------------------------------
(***************************************************************************)
(* A client that a step of another leaves where it is.                     *)
(***************************************************************************)
StatementKinds == {"read", "write", "txn"}

StillDeferred(h) == op'[h].kind = "deferred" /\ op'[h].pc \in {"waiting", "gaveUp"}

\* The step does not move d, except that it may hand it a read slot.
Undisturbed(d) ==
    \/ op'[d] = op[d]
    \/ op[d].pc = "awaitingSlot" /\ op'[d] = [op[d] EXCEPT !.pc = "woken"]

\* A reset finds d no current holder; a new generation finds it in no statement.
TimelySpared(d) ==
    /\ \/ epoch' = epoch
       \/ epoch' = epoch + 1 /\ ~Current(d)
    /\ \/ generation' = generation
       \/ generation' = generation + 1 /\ ~(Current(d) /\ op[d].pc = "executing")

\* The step changes nothing that d relies on of the handle it is connected to.
HandleSpared(d) ==
    LET h == op[d].conn
    IN  /\ op[d].pc \in UnderLock =>
             /\ handle'[h].st = handle[h].st
             /\ Current(d) => database' = database
             /\ Stale(d) => StillDeferred(h)
        /\ op[d].pc = "freeing" =>
             /\ handle'[h].st = handle[h].st
             /\ d \in Callers => op'[h] = op[h] /\ database' = database
        /\ (op[d].kind \in StatementKinds /\ h # NoHandle) => handle'[h].gen = handle[h].gen
        /\ op[d].kind = "open" =>
             /\ database = NoHandle => database' = NoHandle
             /\ Opening(d) => handle'[h].gen = handle[h].gen

Spared(d) == Undisturbed(d) /\ TimelySpared(d) /\ HandleSpared(d)

\* What the lock does to a client that does not call it.
LEMMA ServedHolds ==
    ASSUME OrderInv, OrderInv', NEW d \in Clients, Served(d, request[d]), TimelySpared(d)
    PROVE  /\ request'[d].st = "idle" <=> request[d].st = "idle"
           /\ request[d].st # "idle" => request'[d].kind = request[d].kind
           /\ Held(d) => request'[d] = request[d]
           /\ request[d].st = "queued" => request'[d].st \in {"queued", "held"}
           /\ Current(d)' => Current(d) \/ request[d].st = "queued"
           /\ Stale(d)' => Stale(d)
<1>1. /\ epoch \in Nat /\ request[d] \in Request /\ request'[d] \in Request
      /\ Held(d) => request[d].epoch <= epoch /\ request[d].epoch \in Nat
  BY DEF OrderInv, LockInv, Consistent, HoldersExact, Request, Held
<1>2. CASE request'[d] = request[d]
  BY <1>1, <1>2 DEF TimelySpared, Current, Stale, Held, Request
<1>3. CASE request'[d] # request[d]
  BY <1>1, <1>3 DEF Served, Current, Stale, Held, Request
<1> QED BY <1>2, <1>3

\* Nobody holds the lock for less than a deferred close that was told so waits for.
LEMMA StaleUserKeepsWaiting ==
    ASSUME OrderInv, OrderInv', ReclaimsGoOn, NEW d \in Clients, NEW h \in Reclaimers,
           Held(d), request'[d] = request[d], reclaim[h].st = "waiting",
           request[d].epoch < reclaim[h].epoch
    PROVE  reclaim'[h].st = "waiting" /\ request'[d].epoch < reclaim'[h].epoch
<1>1. /\ request[d].epoch \in Nat /\ reclaim[h].epoch \in Nat
      /\ ReclaimIsSafe'
      /\ reclaim'[h].epoch = reclaim[h].epoch
      /\ reclaim'[h].st \in {"waiting", "resolved"}
  BY DEF OrderInv, LockInv, Consistent, Request, Reclaim, ReclaimsGoOn
<1>2. reclaim'[h].st = "resolved" => request'[d].epoch >= reclaim'[h].epoch
  BY <1>1 DEF ReclaimIsSafe, Held
<1> QED BY <1>1, <1>2

LEMMA SparedOK ==
    ASSUME OrderInv, OrderInv', DbTypeOK, ReclaimsGoOn,
           NEW d \in Clients, ClientOK(d), Served(d, request[d]), Spared(d)
    PROVE  ClientOK(d)'
<1>1. /\ request'[d].st = "idle" <=> request[d].st = "idle"
      /\ request[d].st # "idle" => request'[d].kind = request[d].kind
      /\ Held(d) => request'[d] = request[d]
      /\ request[d].st = "queued" => request'[d].st \in {"queued", "held"}
      /\ Current(d)' => Current(d) \/ request[d].st = "queued"
      /\ Stale(d)' => Stale(d)
  BY ServedHolds DEF Spared
<1>2. /\ op'[d].kind = op[d].kind /\ op'[d].conn = op[d].conn /\ op'[d].gen = op[d].gen
      /\ op'[d].pc = op[d].pc \/ (op[d].pc = "awaitingSlot" /\ op'[d].pc = "woken")
      /\ op'[d] = op[d] \/ (op[d].pc = "awaitingSlot" /\ op'[d].pc = "woken")
  BY DEF Spared, Undisturbed, DbTypeOK
<1>3. /\ Shape(d) /\ Matched(d) /\ Discardable(d) /\ Dated(d)
      /\ UserSafe(d) /\ FreeingAlone(d) /\ OnRequested(d) /\ OpenOrderly(d)
  BY DEF ClientOK
<1>4. d \in Callers \/ d \in Handles
  BY DbAssumption
<1>5. /\ op[d].pc = "awaitingSlot" => op[d].kind = "read"
      /\ op[d].kind = "deferred" => d \in Handles
      /\ d \in Handles => op[d].kind \notin StatementKinds \cup {"open"}
  BY <1>3, DbAssumption DEF Shape, NoOp, StatementKinds
<1>6. Shape(d)'
  BY <1>2, <1>3 DEF Shape, NoOp
<1>7. request'[d].st \in {"idle", "queued", "held"} /\ request[d].st \in {"idle", "queued", "held"}
  BY DEF OrderInv, LockInv, Consistent, Request
<1>8. Matched(d)'
  BY <1>1, <1>2, <1>3, <1>7 DEF Matched, LockingPcs, HoldingPcs, UnderLock, Held
<1>9. Discardable(d)'
  BY <1>1, <1>2, <1>3, <1>5 DEF Discardable, Opening, Spared, HandleSpared
<1>10. Dated(d)'
  <2>1. generation \in Nat /\ op[d].gen \in Nat
    BY DEF DbTypeOK
  <2>2. request[d].st = "queued" => op[d].pc # "executing"
    BY <1>3 DEF Matched, HoldingPcs, UnderLock
  <2>3. d \in Callers => op[d].gen <= generation /\ (Stale(d) => op[d].gen < generation)
    BY <1>3 DEF Dated
  <2>4. generation' = generation \/ generation' = generation + 1
    BY DEF Spared, TimelySpared
  <2>5. (d \in Callers /\ Current(d)' /\ op'[d].kind = "txn" /\ op'[d].pc = "executing")
          => op'[d].gen = generation'
    BY <1>1, <1>2, <1>3, <2>2 DEF Dated, Spared, TimelySpared
  <2> QED BY <1>1, <1>2, <2>1, <2>3, <2>4, <2>5 DEF Dated
<1>11. UserSafe(d)'
  <2> SUFFICES ASSUME op'[d].pc \in UnderLock
               PROVE  LET h == op'[d].conn
                      IN  /\ h \in Handles
                          /\ handle'[h].st = "live"
                          /\ Current(d)' => database' = h
                          /\ Stale(d)' => /\ op'[h].kind = "deferred"
                                          /\ op'[h].pc \in {"waiting", "gaveUp"}
                                          /\ reclaim'[h].st = "waiting"
                                          /\ request'[d].epoch < reclaim'[h].epoch
    BY DEF UserSafe
  <2> DEFINE h == op[d].conn
  <2>1. op[d].pc \in UnderLock /\ op'[d].conn = h
    BY <1>2 DEF UnderLock
  <2>2. /\ h \in Handles /\ handle[h].st = "live"
        /\ Current(d) => database = h
        /\ Stale(d) => reclaim[h].st = "waiting" /\ request[d].epoch < reclaim[h].epoch
    BY <1>3, <2>1 DEF UserSafe
  <2>3. /\ handle'[h].st = handle[h].st
        /\ Current(d) => database' = database
        /\ Stale(d) => StillDeferred(h)
    BY <2>1 DEF Spared, HandleSpared
  <2>4. request[d].st # "queued"
    BY <1>3, <2>1 DEF Matched, HoldingPcs
  <2>5. Stale(d) => reclaim'[h].st = "waiting" /\ request'[d].epoch < reclaim'[h].epoch
    BY <1>1, <2>2, StaleUserKeepsWaiting, DbAssumption DEF Stale
  <2> HIDE DEF h
  <2> QED BY <1>1, <2>1, <2>2, <2>3, <2>4, <2>5 DEF StillDeferred
<1>12. FreeingAlone(d)'
  BY <1>2, <1>3 DEF FreeingAlone, Spared, HandleSpared
<1>13. OnRequested(d)'
  BY <1>2, <1>3 DEF OnRequested, Spared, HandleSpared, StatementKinds
<1>14. OpenOrderly(d)'
  BY <1>2, <1>3, <1>5 DEF OpenOrderly, Opening, Spared, HandleSpared, StatementKinds
<1> QED BY <1>6, <1>8, <1>9, <1>10, <1>11, <1>12, <1>13, <1>14 DEF ClientOK

-----------------------------------------------------------------------------
(***************************************************************************)
(* A step that leaves the handles, the status and the generation alone.    *)
(***************************************************************************)
Operation == [kind: {"none", "read", "write", "txn", "open", "close", "deferred"},
              pc: Pcs, gen: Nat, conn: Handles \cup {NoHandle}]

Steady(c) ==
    /\ UnchangedModule
    /\ LockMoves({c}) /\ ReclaimsGoOn /\ UNCHANGED epoch
    /\ \A d \in Clients \ {c} : Undisturbed(d)
    /\ op[c].pc # "freeing"
    /\ (Opening(c) /\ Current(c)) => (Opening(c) /\ Current(c))'
    /\ op'[c].kind = "open" => op[c].kind = "open" \/ \A d \in Callers : op[d].kind # "open"
    /\ c \in Handles => /\ op[c].kind = "deferred"
                        /\ op'[c].kind = "deferred" /\ op'[c].pc # "freeing"
                        /\ StillDeferred(c) \/ reclaim[c].st # "waiting"

OutOfSlots(o) ==
    /\ o.pc \notin {"awaitingSlot", "woken"}
    /\ ~(o.kind = "read" /\ o.pc \in {"executing", "leaving"})

\* A step of somebody who neither has a read slot nor waits for one.
LEMMA SlotsUntouched ==
    ASSUME SlotsCounted, UnchangedSlots, slotQueue \in Seq(Callers),
           \A d \in Clients : op'[d] = op[d] \/ (OutOfSlots(op[d]) /\ OutOfSlots(op'[d]))
    PROVE  SlotsCounted'
<1>1. Callers \subseteq Clients
  BY DbAssumption
<1>2. SlotHolders' = SlotHolders /\ Woken' = Woken
  BY <1>1 DEF SlotHolders, Woken, OutOfSlots
<1>3. \A c \in Callers : op'[c].pc = "awaitingSlot" <=> op[c].pc = "awaitingSlot"
  BY <1>1 DEF OutOfSlots
<1>4. UNCHANGED <<slotsActive, slotQueue>>
  BY DEF UnchangedSlots
<1>5. \A i \in DOMAIN slotQueue : slotQueue[i] \in Callers
  OBVIOUS
<1> QED BY <1>2, <1>3, <1>4, <1>5 DEF SlotsCounted

\* Nobody can be timed out when the event loop turns.
LEMMA NobodyTimedOut ==
    ASSUME NextEvent, NEW c \in Clients
    PROVE  op[c].pc \notin {"leaving", "woken", "timedOut", "reopening"}
BY DEF NextEvent, Continuing

LEMMA BlockedGoesOn ==
    ASSUME TimedOutBlocked,
           \A d \in Callers : op'[d].pc = "timedOut" => op[d].pc = "timedOut",
           NextEvent \/ \A b \in Clients : Stuck(b) => Stuck(b)'
    PROVE  TimedOutBlocked'
<1>1. Callers \subseteq Clients
  BY DbAssumption
<1>2. CASE NextEvent
  BY <1>1, <1>2, NobodyTimedOut DEF TimedOutBlocked
<1>3. CASE \A b \in Clients : Stuck(b) => Stuck(b)'
  BY <1>3 DEF TimedOutBlocked
<1> QED BY <1>2, <1>3

\* A stuck client that the step does not move stays stuck.
LEMMA StuckStays ==
    ASSUME OrderInv, OrderInv', NEW b \in Clients, Stuck(b), op'[b] = op[b],
           Served(b, request[b]), UNCHANGED epoch,
           op[b].pc = "awaitingSlot" =>
             /\ slotsActive' >= slotsActive /\ slotsActive' \in Nat /\ slotsActive \in Nat
             /\ \A d \in Callers : op'[d].pc \in {"woken", "leaving"}
                                     => op[d].pc \in {"woken", "leaving"}
    PROVE  Stuck(b)'
<1>1. request[b].st = "held"
  BY DEF Stuck, Current, Held
<1>2. request'[b] = request[b]
  BY <1>1 DEF Served
<1>3. Current(b)'
  BY <1>2 DEF Stuck, Current, Held
<1>4. CASE op[b].pc # "awaitingSlot"
  BY <1>3, <1>4 DEF Stuck, Opening
<1>5. CASE op[b].pc = "awaitingSlot"
  <2>1. slotsActive >= ReadLimit /\ \A d \in Callers : op[d].pc \notin {"woken", "leaving"}
    BY <1>5 DEF Stuck, Opening
  <2>2. slotsActive' >= ReadLimit
    BY <1>5, <2>1, DbAssumption
  <2>3. \A d \in Callers : op'[d].pc \notin {"woken", "leaving"}
    BY <1>5, <2>1
  <2> QED BY <1>3, <1>5, <2>2, <2>3 DEF Stuck
<1> QED BY <1>4, <1>5

LEMMA SteadyInv ==
    ASSUME DbInv, NEW c \in Clients, Steady(c), DbTypeOK', ClientOK(c)',
           SlotsCounted', TimedOutBlocked'
    PROVE  DbInv'
<1>1. /\ OrderInv /\ DbTypeOK /\ ModuleOK
      /\ \A d \in Clients : ClientOK(d)
      /\ OrderInv' /\ ReclaimsGoOn /\ UNCHANGED epoch
      /\ UNCHANGED <<handle, database, status, generation>>
      /\ \A d \in Clients \ {c} : Served(d, request[d]) /\ Undisturbed(d)
  BY DEF DbInv, Steady, LockMoves, UnchangedModule
<1>2. Clients = Callers \cup Handles /\ Callers \cap Handles = {} /\ NoHandle \notin Clients
  BY DbAssumption
<1>3. \A h \in Handles \ {c} : op'[h] = op[h]
  <2> SUFFICES ASSUME NEW h \in Handles \ {c} PROVE op[h].pc # "awaitingSlot"
    BY <1>1, <1>2 DEF Undisturbed
  <2>1. Shape(h)
    BY <1>1, <1>2 DEF ClientOK
  <2> QED BY <2>1, <1>2 DEF Shape, NoOp
<1>4. ASSUME NEW d \in Clients \ {c} PROVE ClientOK(d)'
  <2> DEFINE h == op[d].conn
  <2>1. UserSafe(d) /\ FreeingAlone(d)
    BY <1>1 DEF ClientOK
  <2>2. ASSUME op[d].pc \in UnderLock, Stale(d) PROVE StillDeferred(h)
    <3>1. h \in Handles /\ op[h].kind = "deferred" /\ op[h].pc \in {"waiting", "gaveUp"}
          /\ reclaim[h].st = "waiting"
      BY <2>1, <2>2 DEF UserSafe
    <3>2. CASE h = c
      <4> HIDE DEF h
      <4> QED BY <3>1, <3>2 DEF Steady
    <3>3. CASE h # c
      BY <3>1, <3>3, <1>3 DEF StillDeferred
    <3> QED BY <3>2, <3>3
  <2>3. ASSUME op[d].pc = "freeing", d \in Callers PROVE op'[h] = op[h]
    <3>1. h \in Handles /\ op[h] = NoOp
      BY <2>1, <2>3 DEF FreeingAlone
    <3>2. h # c
      BY <3>1 DEF Steady, NoOp
    <3> QED BY <3>1, <3>2, <1>3
  <2>4. Spared(d)
    BY <1>1, <2>2, <2>3 DEF Spared, TimelySpared, HandleSpared
  <2> QED BY <1>1, <2>4, SparedOK
<1>5. ASSUME NEW h \in Handles PROVE HandleKept(h)'
  <2>1. HandleKept(h)
    BY <1>1 DEF ModuleOK
  <2>2. CASE h # c
    BY <1>1, <1>3, <2>1, <2>2 DEF HandleKept
  <2>3. CASE h = c
    <3>1. op[h].kind = "deferred" /\ op[h].pc # "freeing"
      BY <2>3 DEF Steady
    <3>2. op[h] # NoOp
      BY <3>1 DEF NoOp
    <3> QED BY <1>1, <2>1, <3>1, <3>2 DEF HandleKept
  <2> QED BY <2>2, <2>3
<1>6. DatabaseKept'
  <2> SUFFICES ASSUME database # NoHandle
               PROVE  /\ handle'[database].st = "live" /\ op'[database] = NoOp
                      /\ \/ OpenerAtWork'
                         \/ handle'[database].gen = generation' /\ generation' > 0
    BY <1>1 DEF DatabaseKept
  <2>1. /\ handle[database].st = "live" /\ op[database] = NoOp
        /\ OpenerAtWork \/ (handle[database].gen = generation /\ generation > 0)
    BY <1>1 DEF ModuleOK, DatabaseKept
  <2>2. database \in Handles
    BY <1>1 DEF DbTypeOK
  <2>3. database # c
    BY <2>1, <2>2 DEF Steady, NoOp
  <2>4. op'[database] = NoOp
    BY <1>3, <2>1, <2>2, <2>3
  <2>5. CASE OpenerAtWork
    <3>1. PICK d \in Callers : Opening(d) /\ Current(d)
      BY <2>5 DEF OpenerAtWork
    <3>2. CASE d = c
      BY <1>1, <2>1, <2>4, <3>1, <3>2 DEF Steady, OpenerAtWork
    <3>3. CASE d # c
      <4>1. Served(d, request[d]) /\ Undisturbed(d)
        BY <1>1, <1>2, <3>3
      <4>2. op'[d] = op[d]
        BY <3>1, <4>1 DEF Undisturbed, Opening
      <4>3. request'[d] = request[d]
        BY <3>1, <4>1 DEF Served, Current, Held
      <4>4. Opening(d)' /\ Current(d)'
        BY <1>1, <3>1, <4>2, <4>3 DEF Opening, Current, Held
      <4>5. OpenerAtWork'
        BY <4>4 DEF OpenerAtWork
      <4> QED BY <1>1, <2>1, <2>4, <4>5
    <3> QED BY <1>1, <2>1, <2>4, <3>2, <3>3
  <2>6. CASE handle[database].gen = generation /\ generation > 0
    BY <1>1, <2>1, <2>4, <2>6
  <2> QED BY <2>1, <2>5, <2>6
<1>7. OneOpen'
  <2>1. \A d \in Callers \ {c} : op'[d].kind = "open" => op[d].kind = "open"
    <3> SUFFICES ASSUME NEW d \in Callers \ {c} PROVE op'[d].kind = op[d].kind
      OBVIOUS
    <3>1. Undisturbed(d)
      BY <1>1, <1>2
    <3>2. op[d] \in Operation
      BY <1>1, <1>2 DEF DbTypeOK, Operation
    <3> QED BY <3>1, <3>2 DEF Undisturbed, Operation
  <2>2. OneOpen
    BY <1>1 DEF ModuleOK
  <2>3. op'[c].kind = "open" => op[c].kind = "open" \/ \A d \in Callers : op[d].kind # "open"
    BY DEF Steady
  <2> QED BY <2>1, <2>2, <2>3 DEF OneOpen
<1>8. StatusKept'
  <2> SUFFICES ASSUME ~SlowOpen, status.state = "open", database # status.handle,
                      NEW d \in Callers, Frees(d, status.handle)
               PROVE  Frees(d, status.handle)'
    <3>1. StatusKept
      BY <1>1 DEF ModuleOK
    <3> QED BY <1>1, <3>1 DEF StatusKept
  <2>1. d # c
    BY DEF Frees, Steady
  <2>2. Undisturbed(d)
    BY <1>1, <1>2, <2>1
  <2> QED BY <1>1, <2>2 DEF Undisturbed, Frees
<1>9. OwnersKept'
  <2> SUFFICES ASSUME NEW h \in Handles
               PROVE  /\ handle[h].st = "live"
                           => database = h \/ op'[h].kind = "deferred" \/ handle[h].dropped
                      /\ handle[h].st = "closing" => \E d \in Clients : Frees(d, h)'
                      /\ handle[h].dropped
                           => handle[h].st = "live" /\ database # h /\ op'[h] = NoOp
    BY <1>1 DEF OwnersKept
  <2>1. /\ handle[h].st = "live" => database = h \/ op[h].kind = "deferred" \/ handle[h].dropped
        /\ handle[h].st = "closing" => \E d \in Clients : Frees(d, h)
        /\ handle[h].dropped => handle[h].st = "live" /\ database # h /\ op[h] = NoOp
    BY <1>1 DEF ModuleOK, OwnersKept
  <2>2. /\ op[h].kind = "deferred" => op'[h].kind = "deferred"
        /\ op[h] = NoOp => op'[h] = op[h]
    BY <1>3 DEF Steady, NoOp
  <2>3. ASSUME NEW d \in Clients, Frees(d, h) PROVE Frees(d, h)'
    <3>1. d # c /\ op[d].pc = "freeing"
      BY <2>3 DEF Frees, Steady
    <3>2. op'[d] = op[d]
      BY <1>1, <3>1 DEF Undisturbed
    <3> QED BY <2>3, <3>2 DEF Frees
  <2> QED BY <2>1, <2>2, <2>3
<1> QED BY <1>1, <1>4, <1>5, <1>6, <1>7, <1>8, <1>9 DEF DbInv, ModuleOK

\* A step that leaves the lock alone.
LEMMA LockAtRest ==
    ASSUME OrderInv, UNCHANGED lockVars, NEW c
    PROVE  LockMoves({c}) /\ ReclaimsGoOn /\ UNCHANGED <<epoch, request, reclaim>>
<1>1. OrderInv'
  BY OrderStepInv
<1>2. UNCHANGED <<epoch, request, reclaim>>
  BY DEF lockVars
<1>3. ReclaimsGoOn
  BY <1>2 DEF ReclaimsGoOn
<1> QED BY <1>1, <1>2, <1>3 DEF LockMoves, Served

LEMMA ReclaimsUntouched == UNCHANGED reclaim => ReclaimsGoOn
BY DEF ReclaimsGoOn

\* A step of one client.
Moves(c) ==
    /\ op' \in [Clients -> Operation]
    /\ \A d \in Clients \ {c} : op'[d] = op[d]

LEMMA GotoMoves ==
    ASSUME DbTypeOK, NEW c \in Clients, NEW pc \in Pcs, Goto(c, pc)
    PROVE  /\ Moves(c) /\ op'[c].pc = pc
           /\ op'[c].kind = op[c].kind /\ op'[c].gen = op[c].gen /\ op'[c].conn = op[c].conn
<1>1. op \in [Clients -> Operation] /\ op[c] \in Operation
  BY DEF DbTypeOK, Operation
<1> DEFINE r == [op[c] EXCEPT !.pc = pc]
<1>2. /\ r \in Operation /\ r.pc = pc
      /\ r.kind = op[c].kind /\ r.gen = op[c].gen /\ r.conn = op[c].conn
  BY <1>1 DEF Operation
<1>3. op' = [op EXCEPT ![c] = r]
  BY <1>1 DEF Goto
<1> HIDE DEF r
<1> QED BY <1>1, <1>2, <1>3 DEF Moves

LEMMA SetMoves ==
    ASSUME DbTypeOK, NEW c \in Clients, NEW r \in Operation, op' = [op EXCEPT ![c] = r]
    PROVE  Moves(c) /\ op'[c] = r
BY DEF Moves, DbTypeOK, Operation

LEMMA ConnectMoves ==
    ASSUME DbTypeOK, NEW c \in Clients, NEW pc \in Pcs, NEW h \in Handles,
           op' = [op EXCEPT ![c].pc = pc, ![c].conn = h]
    PROVE  /\ Moves(c) /\ op'[c].pc = pc /\ op'[c].conn = h
           /\ op'[c].kind = op[c].kind /\ op'[c].gen = op[c].gen
<1> DEFINE o == [op[c] EXCEPT !.pc = pc]
           r == [o EXCEPT !.conn = h]
<1>1. op[c] \in Operation /\ op \in [Clients -> Operation]
  BY DEF DbTypeOK, Operation
<1>2. o \in Operation /\ o.kind = op[c].kind /\ o.gen = op[c].gen /\ o.pc = pc
  BY <1>1 DEF Operation
<1>3. op' = [op EXCEPT ![c] = r]
  BY <1>1
<1> HIDE DEF o
<1>4. r \in Operation /\ r.kind = o.kind /\ r.gen = o.gen /\ r.pc = o.pc /\ r.conn = h
  BY <1>2 DEF Operation
<1> HIDE DEF r
<1> QED BY <1>2, <1>3, <1>4, SetMoves

LEMMA ReturnMoves ==
    ASSUME DbTypeOK, NEW c \in Clients, Return(c)
    PROVE  Moves(c) /\ op'[c] = NoOp /\ NoOp \in Operation
<1>1. NoOp \in Operation
  BY DEF NoOp, Operation, Pcs
<1> QED BY <1>1, SetMoves DEF Return

\* A returned client has nothing to answer for.
LEMMA IdleOK ==
    ASSUME NEW c \in Clients, op'[c] = NoOp, request'[c].st = "idle",
           DbTypeOK', NoHandle \notin Handles
    PROVE  ClientOK(c)'
<1>1. /\ op'[c].kind = "none" /\ op'[c].pc = "idle" /\ op'[c].gen = 0 /\ op'[c].conn = NoHandle
      /\ ~Held(c)' /\ ~Current(c)' /\ ~Stale(c)' /\ generation' \in Nat
  BY DEF NoOp, Held, Current, Stale, DbTypeOK
<1> QED BY <1>1 DEF ClientOK, Shape, Matched, Discardable, Dated, UserSafe, FreeingAlone,
                   OnRequested, OpenOrderly, LockingPcs, HoldingPcs, UnderLock, Opening

\* A steady step of a client that takes and gives no read slot.
LEMMA PlainStep ==
    ASSUME DbInv, NEW c \in Clients, Steady(c), Moves(c), UnchangedSlots,
           OutOfSlots(op[c]), OutOfSlots(op'[c]),
           op'[c].pc \notin {"timedOut", "woken", "leaving"},
           NextEvent \/ ~Stuck(c) \/ Stuck(c)',
           ClientOK(c)'
    PROVE  DbInv'
<1>1. /\ OrderInv /\ OrderInv' /\ DbTypeOK /\ SlotsCounted /\ TimedOutBlocked
      /\ UNCHANGED <<handle, database, status, generation, epoch, slotsActive, slotQueue>>
      /\ \A d \in Clients \ {c} : Served(d, request[d]) /\ op'[d] = op[d]
  BY DEF DbInv, ModuleOK, Steady, LockMoves, UnchangedModule, UnchangedSlots, Moves
<1>2. Callers \subseteq Clients
  BY DbAssumption
<1>3. DbTypeOK'
  BY <1>1 DEF DbTypeOK, Moves, Operation
<1>4. SlotsCounted'
  BY <1>1, SlotsUntouched DEF DbTypeOK
<1>5. TimedOutBlocked'
  <2>1. ASSUME NEW b \in Clients, Stuck(b), ~NextEvent PROVE Stuck(b)'
    <3>1. CASE b = c
      BY <2>1, <3>1
    <3>2. CASE b # c
      <4>1. slotsActive' >= slotsActive /\ slotsActive' \in Nat /\ slotsActive \in Nat
        BY <1>1 DEF DbTypeOK
      <4>2. \A d \in Callers : op'[d].pc \in {"woken", "leaving"}
                                 => op[d].pc \in {"woken", "leaving"}
        BY <1>1, <1>2
      <4> QED BY <1>1, <2>1, <3>2, <4>1, <4>2, StuckStays
    <3> QED BY <3>1, <3>2
  <2>2. \A d \in Callers : op'[d].pc = "timedOut" => op[d].pc = "timedOut"
    BY <1>1, <1>2
  <2> QED BY <1>1, <2>1, <2>2, BlockedGoesOn
<1> QED BY <1>3, <1>4, <1>5, SteadyInv

-----------------------------------------------------------------------------
(***************************************************************************)
(* The calls.                                                              *)
(***************************************************************************)
LEMMA RequestInv ==
    ASSUME DbInv, NEW c \in Callers, Requests(c)
    PROVE  DbInv'
<1>1. /\ c \in Clients /\ c \notin Handles /\ NoHandle \notin Handles
      /\ OrderInv /\ DbTypeOK /\ generation \in Nat /\ op[c] = NoOp
  BY DbAssumption DEF DbInv, DbTypeOK, Requests, RequestRead, RequestWrite, RequestTxn,
                      RequestClose, RequestOpen, Call
<1>2. PICK kind \in {"read", "write", "txn", "open", "close"}, pc \in LockingPcs :
        /\ Call(c, kind, pc)
        /\ \/ Asked(c, "read") /\ kind = "read"
           \/ Asked(c, "write") /\ kind # "read"
        /\ kind \in {"read", "write", "txn"} => pc = "locking"
        /\ kind = "close" => pc = "closeLocking"
        /\ kind = "open" => /\ \A d \in Callers : op[d].kind # "open"
                            /\ pc = "locking" => database = NoHandle
  <2>1. CASE RequestRead(c)
    BY <1>1, <2>1, ReadMoves DEF RequestRead, LockingPcs
  <2>2. CASE RequestWrite(c) \/ RequestTxn(c)
    BY <1>1, <2>2, WriteMoves DEF RequestWrite, RequestTxn, LockingPcs
  <2>3. CASE RequestClose(c) \/ RequestOpen(c)
    BY <1>1, <2>3, WriteMoves DEF RequestClose, RequestOpen, LockingPcs
  <2> QED BY <2>1, <2>2, <2>3 DEF Requests
<1> DEFINE r == [kind |-> kind, pc |-> pc, gen |-> generation, conn |-> NoHandle]
<1>3. /\ r \in Operation
      /\ op' = [op EXCEPT ![c] = r]
      /\ UnchangedModule /\ UnchangedSlots
  BY <1>1, <1>2 DEF Call, Operation, LockingPcs, Pcs
<1>4. Moves(c) /\ op'[c] = r
  BY <1>1, <1>3, SetMoves
<1>5. /\ op'[c].kind = kind /\ op'[c].pc = pc /\ op'[c].gen = generation
      /\ op'[c].conn = NoHandle /\ pc \in {"locking", "closeLocking"}
  BY <1>2, <1>4 DEF LockingPcs
<1>6. /\ LockMoves({c}) /\ ReclaimsGoOn /\ UNCHANGED <<epoch, reclaim>>
      /\ request'[c].st \in {"queued", "held"}
      /\ request'[c].kind = "read" <=> kind = "read"
      /\ ~Stale(c)'
  BY <1>2, ReclaimsUntouched DEF Asked, Stale, Held
<1>7. OutOfSlots(op[c]) /\ OutOfSlots(op'[c]) /\ ~Stuck(c) /\ op[c].pc = "idle"
  BY <1>1, <1>5 DEF OutOfSlots, Stuck, Opening, NoOp
<1>8. Steady(c)
  <2>1. \A d \in Clients \ {c} : Undisturbed(d)
    BY <1>4 DEF Moves, Undisturbed
  <2>2. ~Opening(c)
    BY <1>7 DEF Opening
  <2> QED BY <1>1, <1>2, <1>3, <1>5, <1>6, <1>7, <2>1, <2>2 DEF Steady
<1>9. ClientOK(c)'
  <2>1. UNCHANGED <<generation, database>>
    BY <1>3 DEF UnchangedModule
  <2> QED BY <1>1, <1>2, <1>5, <1>6, <2>1
          DEF ClientOK, Shape, Matched, Discardable, Dated, UserSafe, FreeingAlone,
              OnRequested, OpenOrderly, LockingPcs, HoldingPcs, UnderLock, Opening
<1> QED BY <1>1, <1>3, <1>4, <1>5, <1>7, <1>8, <1>9, PlainStep

-----------------------------------------------------------------------------
(***************************************************************************)
(* Statements.                                                             *)
(***************************************************************************)
\* Who a statement is given the database by: it holds the lock since its own
\* generation, so nobody opens meanwhile and the database is that of its caller.
LEMMA AdmittedUser ==
    ASSUME DbInv, NEW c \in Callers, Held(c), op[c].kind \in StatementKinds, Admitted(c)
    PROVE  /\ Current(c) /\ database \in Handles /\ handle[database].st = "live"
           /\ handle[database].gen = op[c].gen /\ op[c].gen > 0
<1>1. /\ Callers \subseteq Clients /\ OrderInv /\ DbTypeOK /\ DatabaseKept
      /\ \A d \in Clients : Dated(d) /\ Matched(d)
      /\ op[c].gen = generation /\ database # NoHandle
  BY DbAssumption DEF DbInv, ModuleOK, ClientOK, Admitted
<1>2. Current(c)
  BY <1>1 DEF Dated, Current, Stale, DbTypeOK
<1>3. ~OpenerAtWork
  <2> SUFFICES ASSUME NEW d \in Callers, Opening(d), Current(d) PROVE FALSE
    BY DEF OpenerAtWork
  <2>1. request[d].kind # "read"
    BY <1>1 DEF Matched, Opening, Current, Held
  <2>2. d # c
    BY DEF Opening, StatementKinds
  <2> QED BY <1>1, <1>2, <2>1, <2>2, WriterAlone
<1> QED BY <1>1, <1>2, <1>3 DEF DatabaseKept, DbTypeOK

LEMMA StartedMoves ==
    ASSUME DbTypeOK, NEW c \in Clients, op' = [op EXCEPT ![c] = Started(c)]
    PROVE  /\ Moves(c)
           /\ op'[c].kind = op[c].kind /\ op'[c].gen = op[c].gen
           /\ Admitted(c) => op'[c].pc = "executing" /\ op'[c].conn = database
           /\ ~Admitted(c) => op'[c].pc = "leaving" /\ op'[c].conn = op[c].conn
<1>1. op[c] \in Operation /\ database \in Handles \cup {NoHandle}
  BY DEF DbTypeOK, Operation
<1>2. Started(c) \in Operation
  BY <1>1 DEF Started, Operation, Pcs
<1>3. Moves(c) /\ op'[c] = Started(c)
  BY <1>2, SetMoves
<1>4. CASE Admitted(c)
  <2> DEFINE o == [op[c] EXCEPT !.pc = "executing"]
  <2>1. op'[c] = [o EXCEPT !.conn = database]
    BY <1>3, <1>4 DEF Started
  <2>2. o \in Operation /\ o.kind = op[c].kind /\ o.gen = op[c].gen /\ o.pc = "executing"
    BY <1>1 DEF Operation, Pcs
  <2> HIDE DEF o
  <2>3. op'[c].kind = o.kind /\ op'[c].gen = o.gen /\ op'[c].pc = o.pc /\ op'[c].conn = database
    BY <2>1, <2>2 DEF Operation
  <2> QED BY <1>3, <1>4, <2>2, <2>3
<1>5. CASE ~Admitted(c)
  <2>1. op'[c] = [op[c] EXCEPT !.pc = "leaving"]
    BY <1>3, <1>5 DEF Started
  <2> QED BY <1>1, <1>3, <1>5, <2>1 DEF Operation
<1> QED BY <1>4, <1>5

\* The step that starts a statement leaves its caller where it should be.
LEMMA StatementStarted ==
    ASSUME DbInv, NEW c \in Callers, Held(c), op[c].kind \in StatementKinds,
           op[c].pc \in {"locking", "woken"}, op[c].kind # "read" => Admitted(c),
           op' = [op EXCEPT ![c] = Started(c)], UNCHANGED lockVars, UnchangedModule
    PROVE  Steady(c) /\ Moves(c) /\ ClientOK(c)'
<1>1. /\ c \in Clients /\ c \notin Handles /\ NoHandle \notin Handles
      /\ OrderInv /\ DbTypeOK /\ ClientOK(c) /\ Held(c)
  BY DbAssumption DEF DbInv
<1>2. /\ LockMoves({c}) /\ ReclaimsGoOn
      /\ UNCHANGED <<epoch, request, handle, database, generation>>
  BY <1>1, LockAtRest DEF UnchangedModule
<1>3. /\ Moves(c) /\ op'[c].kind = op[c].kind /\ op'[c].gen = op[c].gen
      /\ Admitted(c) => op'[c].pc = "executing" /\ op'[c].conn = database
      /\ ~Admitted(c) => op'[c].pc = "leaving" /\ op'[c].conn = op[c].conn
  BY <1>1, StartedMoves
<1>4. Steady(c)
  <2>1. \A d \in Clients \ {c} : Undisturbed(d)
    BY <1>3 DEF Moves, Undisturbed
  <2>2. ~Opening(c) /\ op'[c].kind # "open"
    BY <1>3 DEF Opening, StatementKinds
  <2> QED BY <1>1, <1>2, <2>1, <2>2 DEF Steady
<1>5. request'[c] = request[c] /\ (Current(c)' <=> Current(c)) /\ (Stale(c)' <=> Stale(c))
  BY <1>2 DEF Current, Stale, Held
<1>6. /\ Shape(c)' /\ Matched(c)'
  BY <1>1, <1>2, <1>3, <1>5
     DEF ClientOK, Shape, Matched, LockingPcs, HoldingPcs, UnderLock, Held, NoOp, StatementKinds
<1>7. CASE Admitted(c)
  <2>1. /\ Current(c) /\ ~Stale(c) /\ database \in Handles /\ handle[database].st = "live"
        /\ handle[database].gen = op[c].gen /\ op[c].gen > 0
        /\ op[c].gen = generation /\ op[c].gen \in Nat
    BY <1>1, <1>7, AdmittedUser DEF Current, Stale, Admitted, DbTypeOK
  <2>2. op'[c].pc = "executing" /\ op'[c].conn = database /\ op'[c].gen = generation
    BY <1>3, <1>7, <2>1
  <2>3. Discardable(c)' /\ Dated(c)'
    BY <1>2, <1>5, <2>1, <2>2 DEF Discardable, Dated
  <2>4. UserSafe(c)'
    BY <1>2, <1>5, <2>1, <2>2 DEF UserSafe
  <2>5. FreeingAlone(c)' /\ OnRequested(c)' /\ OpenOrderly(c)'
    BY <1>2, <1>3, <2>1, <2>2 DEF FreeingAlone, OnRequested, OpenOrderly, StatementKinds
  <2> QED BY <1>3, <1>4, <1>6, <2>3, <2>4, <2>5 DEF ClientOK
<1>8. CASE ~Admitted(c)
  <2>1. op[c].kind = "read" /\ op'[c].pc = "leaving"
    BY <1>3, <1>8
  <2>2. op'[c].conn = op[c].conn /\ op'[c].gen = op[c].gen /\ op'[c].kind = "read"
    BY <1>3, <1>8, <2>1
  <2>3. Discardable(c)' /\ UserSafe(c)' /\ FreeingAlone(c)' /\ OpenOrderly(c)'
    BY <2>1, <2>2 DEF Discardable, UserSafe, FreeingAlone, OpenOrderly, UnderLock
  <2>4. Dated(c)'
    <3>1. Dated(c)
      BY <1>1 DEF ClientOK
    <3> QED BY <1>2, <1>5, <2>1, <2>2, <3>1 DEF Dated
  <2>5. OnRequested(c)'
    <3>1. OnRequested(c)
      BY <1>1 DEF ClientOK
    <3> QED BY <1>2, <2>1, <2>2, <3>1 DEF OnRequested
  <2> QED BY <1>3, <1>4, <1>6, <2>3, <2>4, <2>5 DEF ClientOK
<1> QED BY <1>3, <1>4, <1>7, <1>8

\* BEGIN, a write or a CHECKPOINT.
LEMMA RunExclusiveInv ==
    ASSUME DbInv, NEW c \in Callers, RunExclusive(c)
    PROVE  DbInv'
<1>1. /\ c \in Clients /\ Held(c) /\ Admitted(c) /\ op[c].kind \in {"write", "txn"}
      /\ op[c].pc = "locking" /\ op' = [op EXCEPT ![c] = Started(c)]
      /\ UNCHANGED lockVars /\ UnchangedModule /\ UnchangedSlots
      /\ DbTypeOK
  BY DbAssumption DEF RunExclusive, DbInv
<1>2. Steady(c) /\ Moves(c) /\ ClientOK(c)'
  BY <1>1, StatementStarted DEF StatementKinds
<1>3. op'[c].kind = op[c].kind /\ op'[c].pc = "executing"
  BY <1>1, StartedMoves
<1>4. OutOfSlots(op[c]) /\ OutOfSlots(op'[c]) /\ ~Stuck(c)
  BY <1>1, <1>3 DEF OutOfSlots, Stuck, Opening
<1> QED BY <1>1, <1>2, <1>3, <1>4, PlainStep

-----------------------------------------------------------------------------
(***************************************************************************)
(* The read slots.                                                         *)
(***************************************************************************)
LEMMA SlotSets ==
    /\ Callers \subseteq Clients
    /\ IsFiniteSet(SlotHolders) /\ IsFiniteSet(Woken)
    /\ Cardinality(SlotHolders) \in Nat /\ Cardinality(Woken) \in Nat
BY LockAssumption, DbAssumption, FS_Subset, FS_CardinalityType DEF SlotHolders, Woken

\* A reader takes a slot, or was woken and takes it.
LEMMA TakeSlotCounted ==
    ASSUME DbTypeOK, SlotsCounted, NEW c \in Callers, Moves(c), UNCHANGED slotQueue,
           op[c].kind = "read", op[c].pc \in {"locking", "woken"},
           op'[c].kind = "read", op'[c].pc \in {"executing", "leaving"},
           slotsActive' = slotsActive + 1
    PROVE  SlotsCounted'
<1>1. /\ SlotHolders' = SlotHolders \cup {c} /\ c \notin SlotHolders
      /\ Woken' = Woken \ {c}
      /\ \A d \in Callers : op'[d].pc = "awaitingSlot" <=> op[d].pc = "awaitingSlot"
  BY SlotSets DEF SlotHolders, Woken, Moves
<1>2. slotsActive' = Cardinality(SlotHolders')
  BY <1>1, SlotSets, FS_AddElement DEF SlotsCounted
<1>3. /\ IsFiniteSet(Woken')
      /\ Cardinality(Woken') \in Nat
      /\ Cardinality(Woken') >= Cardinality(Woken) - 1
  <2>1. CASE c \in Woken
    <3>1. IsFiniteSet(Woken \ {c}) /\ Cardinality(Woken \ {c}) = Cardinality(Woken) - 1
      BY <2>1, SlotSets, FS_RemoveElement
    <3>2. Cardinality(Woken \ {c}) \in Nat
      BY <3>1, FS_CardinalityType
    <3> HIDE DEF Woken
    <3> QED BY <1>1, <3>1, <3>2, SlotSets
  <2>2. CASE c \notin Woken
    <3>1. Woken' = Woken
      BY <1>1, <2>2
    <3> QED BY <3>1, SlotSets
  <2> QED BY <2>1, <2>2
<1>4. slotQueue # <<>> => slotsActive' + Cardinality(Woken') >= ReadLimit
  BY <1>3, SlotSets, DbAssumption DEF SlotsCounted, DbTypeOK
<1>5. \A i \in DOMAIN slotQueue : slotQueue[i] \in Callers
  BY DEF DbTypeOK
<1> QED BY <1>1, <1>2, <1>4, <1>5 DEF SlotsCounted

\* Whoever waits for a slot behind a timed-out close() sees nobody leave one.
LEMMA SlotsBlocked ==
    ASSUME OrderInv, OrderInv', DbTypeOK, TimedOutBlocked, NEW c \in Callers,
           \A d \in Clients \ {c} : Served(d, request[d]), UNCHANGED epoch,
           ~Stuck(c), op'[c].pc # "timedOut",
           slotsActive' \in Nat,
           \A d \in Clients \ {c} : 
             op'[d] = op[d] \/ (op[d].pc = "awaitingSlot" /\ op'[d].pc = "woken"),
           \/ \A b \in Clients : Stuck(b) => op[b].pc # "awaitingSlot"
           \/ /\ \A d \in Clients \ {c} : op'[d] = op[d]
              /\ slotsActive' >= slotsActive
              /\ op'[c].pc \notin {"woken", "leaving"}
    PROVE  TimedOutBlocked'
<1>1. Callers \subseteq Clients /\ slotsActive \in Nat
  BY DbAssumption DEF DbTypeOK
<1>2. \A d \in Callers : op'[d].pc = "timedOut" => op[d].pc = "timedOut"
  BY <1>1
<1>3. ASSUME NEW b \in Clients, Stuck(b) PROVE Stuck(b)'
  <2>1. b # c /\ Served(b, request[b])
    BY <1>3
  <2>2. CASE op[b].pc # "awaitingSlot"
    <3>1. op'[b] = op[b]
      BY <2>1, <2>2
    <3> QED BY <1>3, <2>1, <2>2, <3>1, StuckStays
  <2>3. CASE op[b].pc = "awaitingSlot"
    <3>1. /\ \A d \in Clients \ {c} : op'[d] = op[d]
          /\ slotsActive' >= slotsActive
          /\ op'[c].pc \notin {"woken", "leaving"}
      BY <1>3, <2>3
    <3>2. \A d \in Callers : op'[d].pc \in {"woken", "leaving"} => op[d].pc \in {"woken", "leaving"}
      BY <1>1, <3>1
    <3> QED BY <1>1, <1>3, <2>1, <3>1, <3>2, StuckStays
  <2> QED BY <2>2, <2>3
<1> QED BY <1>2, <1>3, BlockedGoesOn

LEMMA TakeSlotInv ==
    ASSUME DbInv, NEW c \in Callers, EnterSlot(c) \/ ResumeWithSlot(c)
    PROVE  DbInv'
<1>1. /\ c \in Clients /\ op[c].kind = "read" /\ op[c].pc \in {"locking", "woken"}
      /\ op' = [op EXCEPT ![c] = Started(c)]
      /\ slotsActive' = slotsActive + 1 /\ UNCHANGED slotQueue
      /\ UNCHANGED lockVars /\ UnchangedModule
      /\ OrderInv /\ DbTypeOK /\ SlotsCounted /\ TimedOutBlocked /\ Matched(c)
      /\ slotsActive < ReadLimit \/ op[c].pc = "woken"
  BY DbAssumption DEF EnterSlot, ResumeWithSlot, At, DbInv, ModuleOK, ClientOK
<1>2. Held(c)
  BY <1>1 DEF EnterSlot, ResumeWithSlot, At, Matched, HoldingPcs, Held
<1>3. Steady(c) /\ Moves(c) /\ ClientOK(c)'
  BY <1>1, <1>2, StatementStarted DEF StatementKinds
<1>4. op'[c].kind = "read" /\ op'[c].pc \in {"executing", "leaving"}
  BY <1>1, StartedMoves
<1>5. SlotsCounted'
  BY <1>1, <1>3, <1>4, TakeSlotCounted
<1>6. TimedOutBlocked'
  <2>1. \A b \in Clients : Stuck(b) => op[b].pc # "awaitingSlot"
    BY <1>1, DbAssumption DEF Stuck, Opening, DbTypeOK
  <2>2. ~Stuck(c)
    BY <1>1 DEF Stuck, Opening
  <2>3. slotsActive' \in Nat
    BY <1>1 DEF DbTypeOK
  <2>4. OrderInv' /\ UNCHANGED epoch /\ \A d \in Clients \ {c} : Served(d, request[d]) /\ op'[d] = op[d]
    BY <1>3 DEF Steady, LockMoves, Moves
  <2> QED BY <1>1, <1>4, <2>1, <2>2, <2>3, <2>4, SlotsBlocked
<1>7. DbTypeOK'
  BY <1>1, <1>3 DEF DbTypeOK, Moves, Operation, UnchangedModule
<1> QED BY <1>1, <1>3, <1>5, <1>6, <1>7, SteadyInv

LEMMA AwaitSlotInv ==
    ASSUME DbInv, NEW c \in Callers, AwaitSlot(c)
    PROVE  DbInv'
<1>1. /\ c \in Clients /\ c \notin Handles /\ op[c].kind = "read" /\ op[c].pc = "locking"
      /\ Held(c) /\ slotsActive >= ReadLimit /\ slotQueue' = Append(slotQueue, c)
      /\ Goto(c, "awaitingSlot") /\ UNCHANGED slotsActive
      /\ UNCHANGED lockVars /\ UnchangedModule
      /\ OrderInv /\ DbTypeOK /\ SlotsCounted /\ TimedOutBlocked /\ ClientOK(c)
  BY DbAssumption DEF AwaitSlot, At, DbInv, ModuleOK
<1>2. /\ Moves(c) /\ op'[c].pc = "awaitingSlot" /\ op'[c].kind = "read"
      /\ op'[c].gen = op[c].gen /\ op'[c].conn = op[c].conn
  <2>1. "awaitingSlot" \in Pcs
    BY DEF Pcs
  <2> QED BY <1>1, <2>1, GotoMoves
<1>3. /\ LockMoves({c}) /\ ReclaimsGoOn
      /\ UNCHANGED <<epoch, request, handle, database, generation>>
  BY <1>1, LockAtRest DEF UnchangedModule
<1>4. Steady(c)
  <2>1. \A d \in Clients \ {c} : Undisturbed(d)
    BY <1>2 DEF Moves, Undisturbed
  <2> QED BY <1>1, <1>2, <1>3, <2>1 DEF Steady, Opening
<1>5. ClientOK(c)'
  <2>1. request'[c] = request[c] /\ (Current(c)' <=> Current(c)) /\ (Stale(c)' <=> Stale(c))
    BY <1>3 DEF Current, Stale, Held
  <2>2. /\ Shape(c) /\ Matched(c) /\ Dated(c) /\ OnRequested(c)
    BY <1>1 DEF ClientOK
  <2>3. Shape(c)' /\ Matched(c)'
    BY <1>1, <1>2, <2>1, <2>2 DEF Shape, Matched, LockingPcs, HoldingPcs, UnderLock, Held
  <2>4. Dated(c)' /\ OnRequested(c)'
    BY <1>1, <1>2, <1>3, <2>1, <2>2 DEF Dated, OnRequested
  <2>5. Discardable(c)' /\ UserSafe(c)' /\ FreeingAlone(c)' /\ OpenOrderly(c)'
    BY <1>2 DEF Discardable, UserSafe, FreeingAlone, OpenOrderly, UnderLock
  <2> QED BY <2>3, <2>4, <2>5 DEF ClientOK
<1>6. /\ Len(slotQueue) \in Nat /\ DOMAIN slotQueue = 1..Len(slotQueue)
      /\ DOMAIN slotQueue' = 1..Len(slotQueue) + 1
      /\ \A i \in 1..Len(slotQueue) : slotQueue'[i] = slotQueue[i] /\ slotQueue[i] \in Callers
      /\ slotQueue'[Len(slotQueue) + 1] = c
      /\ slotQueue' \in Seq(Callers)
  <2>1. slotQueue \in Seq(Callers)
    BY <1>1 DEF DbTypeOK
  <2> QED BY <1>1, <2>1, AppendProperties, LenProperties
<1>7. SlotsCounted'
  <2>1. /\ SlotHolders' = SlotHolders /\ Woken' = Woken
    BY <1>1, <1>2, SlotSets DEF SlotHolders, Woken, Moves
  <2>2. slotsActive' = Cardinality(SlotHolders')
    BY <1>1, <2>1 DEF SlotsCounted
  <2>3. \A i \in 1..Len(slotQueue) : op[slotQueue[i]].pc = "awaitingSlot" /\ slotQueue[i] # c
    BY <1>1, <1>6 DEF SlotsCounted
  <2>4. \A i \in DOMAIN slotQueue' : op'[slotQueue'[i]].pc = "awaitingSlot"
    <3> SUFFICES ASSUME NEW i \in 1..Len(slotQueue) + 1
                 PROVE  op'[slotQueue'[i]].pc = "awaitingSlot"
      BY <1>6
    <3>1. CASE i = Len(slotQueue) + 1
      BY <1>2, <1>6, <3>1
    <3>2. CASE i \in 1..Len(slotQueue)
      BY <1>2, <1>6, <2>3, <3>2, SlotSets DEF Moves
    <3> QED BY <1>6, <3>1, <3>2
  <2>5. \A i, j \in DOMAIN slotQueue' : slotQueue'[i] = slotQueue'[j] => i = j
    <3>1. \A i, j \in 1..Len(slotQueue) : slotQueue[i] = slotQueue[j] => i = j
      BY <1>1, <1>6 DEF SlotsCounted
    <3> QED BY <1>6, <2>3, <3>1
  <2>6. ASSUME NEW d \in Callers, op'[d].pc = "awaitingSlot"
        PROVE  \E i \in DOMAIN slotQueue' : slotQueue'[i] = d
    <3>1. CASE d = c
      <4>1. Len(slotQueue) + 1 \in DOMAIN slotQueue'
        BY <1>6
      <4> QED BY <1>6, <3>1, <4>1
    <3>2. CASE d # c
      <4>1. op[d].pc = "awaitingSlot"
        BY <1>2, <2>6, <3>2, SlotSets DEF Moves
      <4>2. PICK i \in 1..Len(slotQueue) : slotQueue[i] = d
        BY <1>1, <1>6, <4>1 DEF SlotsCounted
      <4>3. i \in DOMAIN slotQueue'
        BY <1>6
      <4> QED BY <1>6, <4>2, <4>3
    <3> QED BY <3>1, <3>2
  <2>7. slotsActive' + Cardinality(Woken') >= ReadLimit
    BY <1>1, <2>1, SlotSets, DbAssumption DEF DbTypeOK
  <2> QED BY <2>2, <2>4, <2>5, <2>6, <2>7 DEF SlotsCounted
<1>8. TimedOutBlocked'
  <2>1. ~Stuck(c)
    BY <1>1 DEF Stuck, Opening
  <2>2. slotsActive' \in Nat /\ slotsActive' >= slotsActive
    BY <1>1 DEF DbTypeOK
  <2>3. OrderInv' /\ UNCHANGED epoch /\ \A d \in Clients \ {c} : Served(d, request[d]) /\ op'[d] = op[d]
    BY <1>2, <1>3 DEF LockMoves, Moves
  <2> QED BY <1>1, <1>2, <2>1, <2>2, <2>3, SlotsBlocked
<1>9. DbTypeOK'
  BY <1>1, <1>2, <1>6 DEF DbTypeOK, Moves, Operation, UnchangedModule
<1> QED BY <1>1, <1>4, <1>5, <1>7, <1>8, <1>9, SteadyInv

\* A reader leaves its slot to the first who waits for one.
LEMMA FinishReadInv ==
    ASSUME DbInv, NEW c \in Callers, FinishRead(c)
    PROVE  DbInv'
<1> DEFINE w == Head(slotQueue)
<1>1. /\ c \in Clients /\ c \notin Handles /\ NoHandle \notin Handles /\ op[c].kind = "read"
      /\ op[c].pc \in {"executing", "leaving"} /\ (NextEvent \/ op[c].pc = "leaving")
      /\ slotsActive' = slotsActive - 1
      /\ Release(c) /\ UnchangedModule
      /\ OrderInv /\ DbTypeOK /\ SlotsCounted /\ TimedOutBlocked
  BY DbAssumption DEF FinishRead, DbInv, ModuleOK
<1>2. /\ LockMoves({c}) /\ ReclaimsGoOn /\ UNCHANGED epoch /\ request'[c].st = "idle"
  BY <1>1, ReleaseMoves
<1>3. /\ op \in [Clients -> Operation] /\ NoOp \in Operation
      /\ slotQueue \in Seq(Callers) /\ Len(slotQueue) \in Nat
      /\ DOMAIN slotQueue = 1..Len(slotQueue)
      /\ \A i \in 1..Len(slotQueue) : slotQueue[i] \in Callers
  BY <1>1, LenProperties DEF DbTypeOK, Operation, NoOp, Pcs
<1> DEFINE Waiting(d) == op[d].pc = "awaitingSlot"
           Woke(d) == Waiting(d) /\ op[d].kind = "read" /\ op'[d] = [op[d] EXCEPT !.pc = "woken"]
<1>4. /\ op' \in [Clients -> Operation] /\ op'[c] = NoOp
      /\ \A d \in Clients \ {c} : op'[d] = op[d] \/ Woke(d)
      /\ slotQueue' \in Seq(Callers)
      /\ \A i \in DOMAIN slotQueue' : op'[slotQueue'[i]].pc = "awaitingSlot"
      /\ \A i, j \in DOMAIN slotQueue' : slotQueue'[i] = slotQueue'[j] => i = j
      /\ \A d \in Callers : op'[d].pc = "awaitingSlot" => \E i \in DOMAIN slotQueue' : slotQueue'[i] = d
      /\ slotQueue' # <<>> => /\ slotQueue # <<>>
                              /\ Cardinality(Woken') = Cardinality(Woken) + 1
  <2>1. CASE slotQueue = <<>>
    <3>1. Moves(c) /\ op'[c] = NoOp /\ slotQueue' = <<>>
      BY <1>1, <2>1, ReturnMoves DEF FinishRead
    <3>2. \A d \in Callers : op[d].pc # "awaitingSlot"
      BY <1>1, <1>3, <2>1 DEF SlotsCounted
    <3>3. \A d \in Callers : op'[d].pc # "awaitingSlot"
      BY <3>1, <3>2, SlotSets DEF Moves, NoOp
    <3>4. slotQueue' \in Seq(Callers) /\ DOMAIN slotQueue' = {}
      BY <3>1
    <3> QED BY <3>1, <3>3, <3>4 DEF Moves
  <2>2. CASE slotQueue # <<>>
    <3>1. /\ w = slotQueue[1] /\ 1 \in 1..Len(slotQueue) /\ w \in Callers /\ w \in Clients
          /\ slotQueue' = Tail(slotQueue) /\ slotQueue' \in Seq(Callers)
          /\ Len(slotQueue') = Len(slotQueue) - 1
          /\ DOMAIN slotQueue' = 1..Len(slotQueue) - 1
          /\ \A i \in 1..Len(slotQueue) - 1 : slotQueue'[i] = slotQueue[i + 1]
      <4>1. slotQueue' = Tail(slotQueue)
        BY <2>2 DEF FinishRead
      <4>2. /\ Head(slotQueue) \in Callers /\ Tail(slotQueue) \in Seq(Callers)
            /\ Len(slotQueue) # 0
        BY <1>3, <2>2, EmptySeq, HeadTailProperties
      <4> QED BY <1>3, <2>2, <4>1, <4>2, SlotSets
    <3>2. /\ op[w].pc = "awaitingSlot" /\ w # c
      BY <1>1, <1>3, <3>1 DEF SlotsCounted
    <3>3. op' = [op EXCEPT ![c] = NoOp, ![w].pc = "woken"]
      BY <2>2 DEF FinishRead
    <3> HIDE DEF w
    <3>4. Shape(w) /\ w \notin Handles
      BY <3>1, DbAssumption DEF DbInv, ClientOK
    <3>5. op[w].kind = "read" /\ op[w] \in Operation
      BY <1>3, <3>1, <3>2, <3>4 DEF Shape, NoOp
    <3> DEFINE o == [op[w] EXCEPT !.pc = "woken"]
    <3>6. o \in Operation /\ o.pc = "woken"
      BY <3>5 DEF Operation, Pcs
    <3>7. op' = [[op EXCEPT ![c] = NoOp] EXCEPT ![w] = o]
      BY <1>3, <3>1, <3>2, <3>3
    <3> HIDE DEF o
    <3>8. /\ op' \in [Clients -> Operation] /\ op'[c] = NoOp /\ op'[w] = o
          /\ \A d \in Clients \ {c, w} : op'[d] = op[d]
      BY <1>1, <1>3, <3>1, <3>2, <3>6, <3>7
    <3>9. Woke(w)
      BY <3>2, <3>5, <3>8 DEF o
    <3>10. \A i, j \in 1..Len(slotQueue) : slotQueue[i] = slotQueue[j] => i = j
      BY <1>1, <1>3 DEF SlotsCounted
    <3>11. ASSUME NEW i \in 1..Len(slotQueue) - 1
           PROVE  op'[slotQueue'[i]].pc = "awaitingSlot"
      <4>1. i + 1 \in 1..Len(slotQueue) /\ i + 1 # 1
        BY <1>3
      <4>2. slotQueue'[i] \in Callers /\ slotQueue'[i] # w /\ op[slotQueue'[i]].pc = "awaitingSlot"
        BY <1>1, <1>3, <3>1, <3>10, <4>1 DEF SlotsCounted
      <4> QED BY <1>1, <3>8, <4>2, SlotSets
    <3>12. \A i, j \in 1..Len(slotQueue) - 1 : slotQueue'[i] = slotQueue'[j] => i = j
      <4> SUFFICES ASSUME NEW i \in 1..Len(slotQueue) - 1, NEW j \in 1..Len(slotQueue) - 1,
                          slotQueue'[i] = slotQueue'[j]
                   PROVE  i = j
        OBVIOUS
      <4>1. i + 1 \in 1..Len(slotQueue) /\ j + 1 \in 1..Len(slotQueue)
        BY <1>3
      <4>2. i + 1 = j + 1
        BY <3>1, <3>10, <4>1
      <4> QED BY <4>2
    <3>13. ASSUME NEW d \in Callers, op'[d].pc = "awaitingSlot"
           PROVE  \E i \in 1..Len(slotQueue) - 1 : slotQueue'[i] = d
      <4>1. d # w /\ d # c
        BY <3>6, <3>8, <3>13 DEF NoOp
      <4>2. PICK i \in 1..Len(slotQueue) : slotQueue[i] = d
        BY <1>1, <1>3, <3>8, <3>13, <4>1, SlotSets DEF SlotsCounted
      <4>3. i # 1
        BY <3>1, <4>1, <4>2 DEF w
      <4>4. i - 1 \in 1..Len(slotQueue) - 1 /\ (i - 1) + 1 = i
        BY <1>3, <4>2, <4>3
      <4>5. slotQueue'[i - 1] = slotQueue[(i - 1) + 1]
        BY <3>1, <4>4
      <4> QED BY <4>2, <4>4, <4>5
    <3>14. Cardinality(Woken') = Cardinality(Woken) + 1
      <4>1. Woken' = Woken \cup {w} /\ w \notin Woken
        BY <1>1, <3>1, <3>2, <3>6, <3>8, SlotSets DEF Woken, NoOp
      <4> QED BY <4>1, SlotSets, FS_AddElement
    <3>15. \A d \in Clients \ {c} : op'[d] = op[d] \/ Woke(d)
      BY <3>8, <3>9
    <3> QED BY <2>2, <3>1, <3>8, <3>11, <3>12, <3>13, <3>14, <3>15
  <2> QED BY <2>1, <2>2
<1>5. /\ \A d \in Clients \ {c} : Undisturbed(d)
      /\ \A d \in Clients \ {c} : op'[d] = op[d] \/ (op[d].pc = "awaitingSlot" /\ op'[d].pc = "woken")
      /\ \A d \in Clients \ {c} : op'[d].kind = op[d].kind
  <2> SUFFICES ASSUME NEW d \in Clients \ {c}
               PROVE  /\ Undisturbed(d) /\ op'[d].kind = op[d].kind
                      /\ op'[d] = op[d] \/ (op[d].pc = "awaitingSlot" /\ op'[d].pc = "woken")
    OBVIOUS
  <2>1. op[d] \in Operation
    BY <1>3
  <2> QED BY <1>4, <2>1 DEF Undisturbed, Operation
<1>6. SlotHolders' = SlotHolders \ {c} /\ c \in SlotHolders
  BY <1>1, <1>4, <1>5, SlotSets DEF SlotHolders, NoOp
<1>7. slotsActive' = Cardinality(SlotHolders') /\ slotsActive' \in Nat
  <2>1. IsFiniteSet(SlotHolders \ {c}) /\ Cardinality(SlotHolders \ {c}) = Cardinality(SlotHolders) - 1
    BY <1>6, SlotSets, FS_RemoveElement
  <2>2. Cardinality(SlotHolders \ {c}) \in Nat
    BY <2>1, FS_CardinalityType
  <2>3. slotsActive = Cardinality(SlotHolders)
    BY <1>1 DEF SlotsCounted
  <2> HIDE DEF SlotHolders
  <2> QED BY <1>1, <1>6, <2>1, <2>2, <2>3
<1>8. SlotsCounted'
  <2>1. slotQueue' # <<>> => slotsActive' + Cardinality(Woken') >= ReadLimit
    BY <1>1, <1>4, SlotSets, DbAssumption DEF SlotsCounted, DbTypeOK
  <2> QED BY <1>4, <1>7, <2>1 DEF SlotsCounted
<1>9. Steady(c)
  BY <1>1, <1>2, <1>4, <1>5 DEF Steady, Opening, NoOp
<1>10. TimedOutBlocked'
  <2>1. CASE NextEvent
    <3>1. \A d \in Callers : op'[d].pc = "timedOut" => op[d].pc = "timedOut"
      BY <1>4, <1>5, SlotSets DEF NoOp
    <3> QED BY <1>1, <2>1, <3>1, BlockedGoesOn
  <2>2. CASE op[c].pc = "leaving"
    <3>1. \A b \in Clients : Stuck(b) => op[b].pc # "awaitingSlot"
      BY <2>2 DEF Stuck, Opening
    <3>2. ~Stuck(c)
      BY <1>1, <2>2 DEF Stuck, Opening
    <3>3. op'[c].pc # "timedOut"
      BY <1>4 DEF NoOp
    <3>4. OrderInv' /\ UNCHANGED epoch /\ \A d \in Clients \ {c} : Served(d, request[d])
      BY <1>2 DEF LockMoves
    <3> QED BY <1>1, <1>5, <1>7, <3>1, <3>2, <3>3, <3>4, SlotsBlocked
  <2> QED BY <1>1, <2>1, <2>2
<1>11. DbTypeOK'
  BY <1>1, <1>4, <1>7 DEF DbTypeOK, Operation, UnchangedModule
<1>12. ClientOK(c)'
  BY <1>1, <1>2, <1>4, <1>11, IdleOK
<1> QED BY <1>1, <1>8, <1>9, <1>10, <1>11, <1>12, SteadyInv

-----------------------------------------------------------------------------
(***************************************************************************)
(* Statements that end, and transactions.                                  *)
(***************************************************************************)
\* A call that gives the lock back and returns.
LEMMA ReleasedInv ==
    ASSUME DbInv, NEW c \in Callers, Return(c), Release(c), UnchangedModule, UnchangedSlots,
           OutOfSlots(op[c]), ~Opening(c), op[c].pc # "freeing", NextEvent \/ ~Stuck(c)
    PROVE  DbInv'
<1>1. /\ c \in Clients /\ c \notin Handles /\ NoHandle \notin Handles
      /\ OrderInv /\ DbTypeOK
  BY DbAssumption DEF DbInv
<1>2. /\ Moves(c) /\ op'[c] = NoOp
  BY <1>1, ReturnMoves
<1>3. /\ LockMoves({c}) /\ ReclaimsGoOn /\ UNCHANGED epoch /\ request'[c].st = "idle"
  BY <1>1, ReleaseMoves
<1>4. Steady(c)
  <2>1. \A d \in Clients \ {c} : Undisturbed(d)
    BY <1>2 DEF Moves, Undisturbed
  <2> QED BY <1>1, <1>2, <1>3, <2>1 DEF Steady, NoOp
<1>5. DbTypeOK'
  BY <1>1, <1>2 DEF DbTypeOK, Moves, Operation, UnchangedModule, UnchangedSlots
<1>6. ClientOK(c)'
  BY <1>1, <1>2, <1>3, <1>5, IdleOK
<1>7. /\ OutOfSlots(op'[c]) /\ op'[c].pc \notin {"timedOut", "woken", "leaving"}
  BY <1>2 DEF OutOfSlots, NoOp
<1> QED BY <1>1, <1>2, <1>4, <1>6, <1>7, PlainStep

LEMMA SupersededInv ==
    ASSUME DbInv, NEW c \in Callers, Superseded(c)
    PROVE  DbInv'
<1>1. /\ Return(c) /\ Release(c) /\ UnchangedModule /\ UnchangedSlots
      /\ OutOfSlots(op[c]) /\ ~Opening(c) /\ op[c].pc # "freeing" /\ ~Stuck(c)
  BY DEF Superseded, OutOfSlots, Opening, Stuck
<1> QED BY <1>1, ReleasedInv

LEMMA FinishWriteInv ==
    ASSUME DbInv, NEW c \in Callers, FinishWrite(c)
    PROVE  DbInv'
<1>1. /\ Return(c) /\ Release(c) /\ UnchangedModule /\ UnchangedSlots
      /\ OutOfSlots(op[c]) /\ ~Opening(c) /\ op[c].pc # "freeing" /\ NextEvent
  BY DEF FinishWrite, At, OutOfSlots, Opening
<1> QED BY <1>1, ReleasedInv

LEMMA CommittedInv ==
    ASSUME DbInv, NEW c \in Callers, Committed(c)
    PROVE  DbInv'
<1>1. /\ Return(c) /\ Release(c) /\ UnchangedModule /\ UnchangedSlots
      /\ OutOfSlots(op[c]) /\ ~Opening(c) /\ op[c].pc # "freeing" /\ NextEvent
  BY DEF Committed, At, OutOfSlots, Opening
<1> QED BY <1>1, ReleasedInv

\* A step of a transaction that stays under way: it keeps its connection, and uses
\* it only while it keeps the lock.
LEMMA TxnGoesOn ==
    ASSUME DbInv, NEW c \in Callers, op[c].kind = "txn", op[c].pc \in {"executing", "commitRefused"},
           NEW pc \in {"committing", "commitRefused", "rollingBack", "rollingBackLate"}, Goto(c, pc),
           UnchangedModule, UnchangedSlots,
           \/ UNCHANGED lockVars /\ (op[c].pc = "executing" <=> pc \in {"committing", "rollingBack"})
                                 /\ pc # "commitRefused"
           \/ Release(c) /\ pc = "commitRefused" /\ ~Current(c)
    PROVE  DbInv'
<1>1. /\ c \in Clients /\ c \notin Handles /\ NoHandle \notin Handles
      /\ OrderInv /\ DbTypeOK /\ ClientOK(c)
  BY DbAssumption DEF DbInv
<1>2. /\ Moves(c) /\ op'[c].pc = pc /\ op'[c].kind = "txn"
      /\ op'[c].gen = op[c].gen /\ op'[c].conn = op[c].conn
  <2>1. pc \in Pcs
    BY DEF Pcs
  <2> QED BY <1>1, <2>1, GotoMoves
<1>3. /\ LockMoves({c}) /\ ReclaimsGoOn /\ UNCHANGED epoch
      /\ \/ UNCHANGED <<request, reclaim>> /\ (op[c].pc = "executing" <=> pc \in {"committing", "rollingBack"})
                                /\ pc # "commitRefused"
         \/ request'[c].st = "idle" /\ pc = "commitRefused" /\ ~Current(c)
  BY <1>1, LockAtRest, ReleaseMoves
<1>4. UNCHANGED <<handle, database, generation>>
  BY DEF UnchangedModule
<1>5. Steady(c)
  <2>1. \A d \in Clients \ {c} : Undisturbed(d)
    BY <1>2 DEF Moves, Undisturbed
  <2> QED BY <1>1, <1>2, <1>3, <2>1 DEF Steady, Opening
<1>6. /\ Shape(c) /\ Matched(c) /\ Dated(c) /\ UserSafe(c) /\ OnRequested(c)
  BY <1>1 DEF ClientOK
<1>7. Shape(c)' /\ FreeingAlone(c)' /\ OpenOrderly(c)'
  BY <1>1, <1>2, <1>3 DEF Shape, FreeingAlone, OpenOrderly
<1>8. OnRequested(c)'
  BY <1>2, <1>4, <1>6 DEF OnRequested
<1>9. CASE /\ UNCHANGED <<request, reclaim>> /\ pc # "commitRefused"
           /\ op[c].pc = "executing" <=> pc \in {"committing", "rollingBack"}
  <2>1. request'[c] = request[c] /\ (Current(c)' <=> Current(c)) /\ (Stale(c)' <=> Stale(c))
    BY <1>3, <1>9 DEF Current, Stale, Held
  <2>2. Matched(c)'
    BY <1>2, <1>6, <1>9, <2>1 DEF Matched, LockingPcs, HoldingPcs, UnderLock
  <2>3. Dated(c)'
    BY <1>1, <1>2, <1>4, <1>6, <1>9, <2>1 DEF Dated
  <2>4. Discardable(c)'
    <3>1. CASE op[c].pc = "executing"
      BY <1>2, <1>9, <3>1 DEF Discardable
    <3>2. CASE op[c].pc = "commitRefused"
      <4>1. ~Held(c)
        BY <1>6, <3>2 DEF Matched, LockingPcs, HoldingPcs, UnderLock, Held
      <4> QED BY <2>1, <4>1 DEF Discardable, Stale
    <3> QED BY <3>1, <3>2
  <2>5. UserSafe(c)'
    <3> SUFFICES ASSUME op'[c].pc \in UnderLock PROVE UserSafe(c)'
      BY DEF UserSafe
    <3>1. op[c].pc \in UnderLock
      BY <1>2, <1>9 DEF UnderLock
    <3>2. op[c].conn \in Handles => op'[op[c].conn] = op[op[c].conn]
      BY <1>1, <1>2, DbAssumption DEF Moves
    <3> QED BY <1>2, <1>3, <1>4, <1>6, <1>9, <2>1, <3>1, <3>2 DEF UserSafe
  <2>6. ClientOK(c)'
    BY <1>7, <1>8, <2>2, <2>3, <2>4, <2>5 DEF ClientOK
  <2>7. Stuck(c) => Stuck(c)'
    BY <1>2, <1>9, <2>1 DEF Stuck, Opening
  <2>8. /\ OutOfSlots(op[c]) /\ OutOfSlots(op'[c])
        /\ op'[c].pc \notin {"timedOut", "woken", "leaving"}
    BY <1>2 DEF OutOfSlots
  <2> QED BY <1>1, <1>2, <1>5, <2>6, <2>7, <2>8, PlainStep
<1>10. CASE request'[c].st = "idle" /\ pc = "commitRefused" /\ ~Current(c)
  <2>1. ~Held(c)' /\ ~Current(c)' /\ ~Stale(c)'
    BY <1>10 DEF Held, Current, Stale
  <2>2. Matched(c)' /\ Dated(c)' /\ Discardable(c)' /\ UserSafe(c)'
    BY <1>1, <1>2, <1>4, <1>6, <1>10, <2>1
       DEF Matched, Dated, Discardable, UserSafe, LockingPcs, HoldingPcs, UnderLock
  <2>3. ClientOK(c)'
    BY <1>7, <1>8, <2>2 DEF ClientOK
  <2>4. ~Stuck(c)
    BY <1>10 DEF Stuck
  <2>5. /\ OutOfSlots(op[c]) /\ OutOfSlots(op'[c])
        /\ op'[c].pc \notin {"timedOut", "woken", "leaving"}
    BY <1>2 DEF OutOfSlots
  <2> QED BY <1>1, <1>2, <1>5, <2>3, <2>4, <2>5, PlainStep
<1> QED BY <1>3, <1>9, <1>10

LEMMA CommitInv ==
    ASSUME DbInv, NEW c \in Callers, Commit(c) \/ Rollback(c)
    PROVE  DbInv'
<1>1. /\ op[c].kind = "txn" /\ UNCHANGED lockVars /\ UnchangedModule /\ UnchangedSlots
      /\ \/ op[c].pc = "executing" /\ Goto(c, "committing")
         \/ op[c].pc = "executing" /\ Goto(c, "rollingBack")
         \/ op[c].pc = "commitRefused" /\ Goto(c, "rollingBackLate")
  BY DEF Commit, Rollback, At
<1> QED BY <1>1, TxnGoesOn

LEMMA CommitSupersededInv ==
    ASSUME DbInv, NEW c \in Callers, CommitSuperseded(c)
    PROVE  DbInv'
<1>1. /\ op[c].kind = "txn" /\ op[c].pc = "executing" /\ op[c].gen # generation
      /\ Goto(c, "commitRefused") /\ Release(c) /\ UnchangedModule /\ UnchangedSlots
  BY DEF CommitSuperseded, At
<1>2. Dated(c)
  BY DbAssumption DEF DbInv, ClientOK
<1>3. ~Current(c)
  BY <1>1, <1>2 DEF Dated
<1> QED BY <1>1, <1>3, TxnGoesOn

LEMMA RolledBackInv ==
    ASSUME DbInv, NEW c \in Callers, RolledBack(c)
    PROVE  DbInv'
<1>1. /\ op[c].kind = "txn" /\ NextEvent /\ Return(c) /\ UnchangedModule /\ UnchangedSlots
      /\ \/ op[c].pc = "rollingBack" /\ Release(c)
         \/ op[c].pc = "rollingBackLate" /\ UNCHANGED lockVars
  BY DEF RolledBack
<1>2. CASE op[c].pc = "rollingBack" /\ Release(c)
  <2>1. OutOfSlots(op[c]) /\ ~Opening(c) /\ op[c].pc # "freeing"
    BY <1>1, <1>2 DEF OutOfSlots, Opening
  <2> QED BY <1>1, <1>2, <2>1, ReleasedInv
<1>3. CASE op[c].pc = "rollingBackLate" /\ UNCHANGED lockVars
  <2>1. /\ c \in Clients /\ c \notin Handles /\ NoHandle \notin Handles
        /\ OrderInv /\ DbTypeOK /\ Matched(c)
    BY DbAssumption DEF DbInv, ClientOK
  <2>2. /\ Moves(c) /\ op'[c] = NoOp
    BY <1>1, <2>1, ReturnMoves
  <2>3. /\ LockMoves({c}) /\ ReclaimsGoOn /\ UNCHANGED <<epoch, request>>
    BY <1>3, <2>1, LockAtRest
  <2>4. Steady(c)
    <3>1. \A d \in Clients \ {c} : Undisturbed(d)
      BY <2>2 DEF Moves, Undisturbed
    <3> QED BY <1>1, <1>3, <2>1, <2>2, <2>3, <3>1 DEF Steady, NoOp, Opening
  <2>5. DbTypeOK'
    BY <1>1, <2>1, <2>2 DEF DbTypeOK, Moves, Operation, UnchangedModule, UnchangedSlots
  <2>6. ClientOK(c)'
    <3>1. request'[c].st = "idle"
      BY <1>3, <2>1, <2>3 DEF Matched, LockingPcs, HoldingPcs, UnderLock
    <3> QED BY <2>1, <2>2, <2>5, <3>1, IdleOK
  <2>7. /\ OutOfSlots(op[c]) /\ OutOfSlots(op'[c]) /\ op'[c].pc \notin {"timedOut", "woken", "leaving"}
    BY <1>1, <1>3, <2>2 DEF OutOfSlots, NoOp
  <2> QED BY <1>1, <2>1, <2>2, <2>4, <2>6, <2>7, PlainStep
<1> QED BY <1>1, <1>2, <1>3

-----------------------------------------------------------------------------
(***************************************************************************)
(* close() that gives up, and the deferred close it leaves.                *)
(***************************************************************************)
\* Somebody holds the lock a close() waited five seconds for, and it is somebody
\* who cannot go on before the close has reset the lock.
LEMMA SomebodyStuck ==
    ASSUME DbInv, ~SlowClose, NEW c \in Callers, request[c].st = "queued", NextEvent,
           SlowOpen \/ \A d \in Callers : ~Opening(d),
           SlowClose \/ \A d \in Callers : op[d].pc # "freeing"
    PROVE  \E b \in Clients \ {c} : Stuck(b)
<1>1. /\ c \in Clients /\ Clients = Callers \cup Handles
      /\ OrderInv /\ DbTypeOK /\ SlotsCounted
      /\ \A b \in Clients : Shape(b) /\ Matched(b) /\ Discardable(b)
  BY DbAssumption DEF DbInv, ModuleOK, ClientOK
<1>2. \E b \in Clients : Current(b)
  <2>1. /\ queue \in Seq(Waiter) /\ HoldersExact(activeReaders, activeWriter, epoch, request)
        /\ NoLostWakeup /\ QueueComplete /\ activeReaders \in Nat
    BY <1>1 DEF OrderInv, LockInv, Consistent
  <2>2. queue # <<>>
    BY <1>1, <2>1 DEF QueueComplete, InQueue
  <2>3. activeWriter \/ activeReaders > 0
    BY <2>1, <2>2 DEF NoLostWakeup
  <2>4. Holding(request, "write", epoch) # {} \/ Holding(request, "read", epoch) # {}
    <3>1. Cardinality({}) = 0
      BY FS_EmptySet
    <3>2. activeReaders > 0 => activeReaders # 0
      BY <2>1
    <3> QED BY <2>1, <2>3, <3>1, <3>2 DEF HoldersExact
  <2> QED BY <2>4 DEF Holding, Current, Held
<1>3. PICK b \in Clients : Current(b)
  BY <1>2
<1>4. b # c
  BY <1>3 DEF Current, Held
<1>5. ~Continuing(b) /\ \A d \in Clients : op[d].pc \notin {"woken", "leaving"}
  BY DEF NextEvent, Continuing
<1>6. op[b].pc \in UnderLock \cup {"awaitingSlot", "freeing"}
  BY <1>1, <1>3, <1>5
     DEF Matched, LockingPcs, HoldingPcs, Continuing, Current, Held
<1>7. Stuck(b)
  <2>1. CASE op[b].pc \in {"executing", "committing", "rollingBack"}
    BY <1>3, <2>1 DEF Stuck
  <2>2. CASE op[b].pc \in {"init", "seed", "probe"}
    <3>1. b \in Callers /\ Opening(b)
      BY <1>1, <2>2 DEF Shape, NoOp, Opening
    <3> QED BY <1>3, <3>1 DEF Stuck
  <2>3. CASE op[b].pc = "freeing"
    BY <1>1, <1>3, <2>3 DEF Stuck
  <2>4. CASE op[b].pc = "awaitingSlot"
    <3>1. b \in Callers
      BY <1>1, <2>4, DbAssumption DEF Shape, NoOp
    <3>2. slotQueue # <<>>
      BY <1>1, <2>4, <3>1 DEF SlotsCounted
    <3>3. Woken = {}
      BY <1>1, <1>5 DEF Woken
    <3>4. Cardinality(Woken) = 0
      BY <3>3, FS_EmptySet
    <3>5. slotsActive >= ReadLimit
      BY <1>1, <3>2, <3>4, DbAssumption DEF SlotsCounted, DbTypeOK
    <3> QED BY <1>1, <1>3, <1>5, <2>4, <3>5 DEF Stuck
  <2> QED BY <1>6, <2>1, <2>2, <2>3, <2>4 DEF UnderLock
<1> QED BY <1>4, <1>7

LEMMA CloseTimeoutInv ==
    ASSUME DbInv, ~SlowClose, NEW c \in Callers, CloseTimeout(c)
    PROVE  DbInv'
<1>1. /\ c \in Clients /\ c \notin Handles /\ op[c].kind \in {"close", "open"}
      /\ op[c].pc = "closeLocking" /\ NextEvent /\ Withdraw(c) /\ Goto(c, "timedOut")
      /\ UnchangedModule /\ UnchangedSlots
      /\ OrderInv /\ DbTypeOK /\ SlotsCounted /\ TimedOutBlocked /\ ClientOK(c)
      /\ \A d \in Callers : d \in Clients
  BY DbAssumption DEF CloseTimeout, At, DbInv, ModuleOK
<1>2. /\ Moves(c) /\ op'[c].pc = "timedOut" /\ op'[c].kind = op[c].kind
      /\ op'[c].gen = op[c].gen
  <2>1. "timedOut" \in Pcs
    BY DEF Pcs
  <2> QED BY <1>1, <2>1, GotoMoves
<1>3. /\ LockMoves({c}) /\ ReclaimsGoOn /\ UNCHANGED epoch
      /\ request[c].st = "queued" /\ request'[c].st = "idle"
  BY <1>1, WithdrawMoves, ReclaimsUntouched
<1>4. Steady(c)
  <2>1. \A d \in Clients \ {c} : Undisturbed(d)
    BY <1>2 DEF Moves, Undisturbed
  <2> QED BY <1>1, <1>2, <1>3, <2>1 DEF Steady, Opening
<1>5. ClientOK(c)'
  <2>1. ~Held(c)' /\ ~Current(c)' /\ ~Stale(c)' /\ UNCHANGED generation
    BY <1>1, <1>3 DEF Held, Current, Stale, UnchangedModule
  <2>2. Dated(c)
    BY <1>1 DEF ClientOK
  <2> QED BY <1>1, <1>2, <1>3, <2>1, <2>2
          DEF ClientOK, Shape, Matched, Discardable, Dated, UserSafe, FreeingAlone,
              OnRequested, OpenOrderly, LockingPcs, HoldingPcs, UnderLock, Opening
<1>6. DbTypeOK'
  BY <1>1, <1>2 DEF DbTypeOK, Moves, Operation, UnchangedModule, UnchangedSlots
<1>7. SlotsCounted'
  <2>1. OutOfSlots(op[c]) /\ OutOfSlots(op'[c])
    BY <1>1, <1>2 DEF OutOfSlots
  <2> QED BY <1>1, <1>2, <2>1, SlotsUntouched DEF Moves, DbTypeOK
<1>8. TimedOutBlocked'
  <2>1. \A d \in Callers : op'[d].pc = "timedOut" => d = c
    BY <1>1, <1>2, NobodyTimedOut DEF Moves
  <2>2. PICK b \in Clients \ {c} : Stuck(b)
    BY <1>1, <1>3, SomebodyStuck DEF CloseTimeout
  <2>3. op'[b] = op[b] /\ OrderInv' /\ Served(b, request[b])
    BY <1>2, <1>3, <2>2 DEF Moves, LockMoves
  <2>4. slotsActive' >= slotsActive /\ slotsActive' \in Nat /\ slotsActive \in Nat
    BY <1>1 DEF DbTypeOK, UnchangedSlots
  <2>5. \A d \in Callers : op'[d].pc \in {"woken", "leaving"} => op[d].pc \in {"woken", "leaving"}
    BY <1>1, <1>2 DEF Moves
  <2>6. Stuck(b)'
    BY <1>1, <1>3, <2>2, <2>3, <2>4, <2>5, StuckStays
  <2> QED BY <2>1, <2>2, <2>6 DEF TimedOutBlocked
<1> QED BY <1>1, <1>4, <1>5, <1>6, <1>7, <1>8, SteadyInv

\* What a deferred close does before it frees its handle.
LEMMA DeferredInv ==
    ASSUME DbInv, NEW h \in Handles, DeferredRun(h) \/ DeferredGiveUp(h)
    PROVE  DbInv'
<1>1. /\ h \in Clients /\ h \notin Callers /\ op[h].kind = "deferred" /\ op[h].pc = "waiting"
      /\ UnchangedModule /\ UnchangedSlots /\ OrderInv /\ DbTypeOK /\ Matched(h)
  BY DbAssumption DEF DeferredRun, DeferredGiveUp, At, DbInv, ClientOK
<1>2. PICK pc \in {"locking", "gaveUp"} :
        /\ Goto(h, pc)
        /\ pc = "locking" => Write(h) /\ reclaim[h].st = "resolved"
        /\ pc = "gaveUp" => UNCHANGED lockVars
  BY DEF DeferredRun, DeferredGiveUp
<1>3. Moves(h) /\ op'[h].pc = pc /\ op'[h].kind = "deferred"
  <2>1. pc \in Pcs
    BY DEF Pcs
  <2> QED BY <1>1, <1>2, <2>1, GotoMoves
<1>4. /\ LockMoves({h}) /\ ReclaimsGoOn /\ UNCHANGED epoch
      /\ ~Stale(h)'
      /\ pc = "locking" => /\ request'[h].st \in {"queued", "held"}
                           /\ request'[h].kind = "write"
      /\ pc = "gaveUp" => request'[h].st = "idle"
  <2>1. CASE pc = "locking"
    BY <1>1, <1>2, <2>1, WriteMoves, ReclaimsUntouched DEF Asked, Stale, Held
  <2>2. CASE pc = "gaveUp"
    <3>1. request[h].st = "idle"
      BY <1>1 DEF Matched, LockingPcs, HoldingPcs, UnderLock
    <3>2. /\ LockMoves({h}) /\ ReclaimsGoOn /\ UNCHANGED <<epoch, request>>
      BY <1>1, <1>2, <2>2, LockAtRest
    <3> QED BY <2>2, <3>1, <3>2 DEF Stale, Held
  <2> QED BY <2>1, <2>2
<1>5. Steady(h)
  <2>1. \A d \in Clients \ {h} : Undisturbed(d)
    BY <1>3 DEF Moves, Undisturbed
  <2>2. StillDeferred(h) \/ reclaim[h].st # "waiting"
    BY <1>2, <1>3 DEF StillDeferred
  <2> QED BY <1>1, <1>3, <1>4, <2>1, <2>2 DEF Steady, Opening
<1>6. ClientOK(h)'
  <2>1. Shape(h)' /\ Matched(h)'
    BY <1>3, <1>4 DEF Shape, Matched, LockingPcs, HoldingPcs, UnderLock
  <2>2. Discardable(h)' /\ Dated(h)' /\ UserSafe(h)' /\ FreeingAlone(h)' /\ OnRequested(h)' /\ OpenOrderly(h)'
    BY <1>1, <1>3, <1>4
       DEF Discardable, Dated, UserSafe, FreeingAlone, OnRequested, OpenOrderly, UnderLock
  <2> QED BY <2>1, <2>2 DEF ClientOK
<1>7. /\ OutOfSlots(op[h]) /\ OutOfSlots(op'[h]) /\ ~Stuck(h)
      /\ op'[h].pc \notin {"timedOut", "woken", "leaving"}
  BY <1>1, <1>3 DEF OutOfSlots, Stuck, Opening
<1> QED BY <1>1, <1>3, <1>5, <1>6, <1>7, PlainStep

-----------------------------------------------------------------------------
(***************************************************************************)
(* open() between its native calls.                                        *)
(***************************************************************************)
LEMMA ReopenInv ==
    ASSUME DbInv, NEW c \in Callers, Reopen(c)
    PROVE  DbInv'
<1>1. /\ c \in Clients /\ c \notin Handles /\ op[c].kind = "open" /\ op[c].pc = "reopening"
      /\ Write(c) /\ Goto(c, "locking") /\ UnchangedModule /\ UnchangedSlots
      /\ OrderInv /\ DbTypeOK /\ ClientOK(c)
  BY DbAssumption DEF Reopen, At, DbInv
<1>2. /\ Moves(c) /\ op'[c].pc = "locking" /\ op'[c].kind = "open" /\ op'[c].gen = op[c].gen
  <2>1. "locking" \in Pcs
    BY DEF Pcs
  <2> QED BY <1>1, <2>1, GotoMoves
<1>3. /\ LockMoves({c}) /\ ReclaimsGoOn /\ UNCHANGED epoch
      /\ request'[c].st \in {"queued", "held"} /\ request'[c].kind = "write" /\ ~Stale(c)'
  BY <1>1, WriteMoves, ReclaimsUntouched DEF Asked, Stale, Held
<1>4. Steady(c)
  <2>1. \A d \in Clients \ {c} : Undisturbed(d)
    BY <1>2 DEF Moves, Undisturbed
  <2> QED BY <1>1, <1>2, <1>3, <2>1 DEF Steady, Opening
<1>5. ClientOK(c)'
  <2>1. Dated(c) /\ OpenOrderly(c) /\ UNCHANGED <<generation, database>>
    BY <1>1 DEF ClientOK, UnchangedModule
  <2>2. Shape(c)' /\ Matched(c)' /\ OpenOrderly(c)'
    BY <1>1, <1>2, <1>3, <2>1
       DEF Shape, Matched, OpenOrderly, LockingPcs, HoldingPcs, UnderLock, Opening
  <2>3. Discardable(c)' /\ Dated(c)' /\ UserSafe(c)' /\ FreeingAlone(c)' /\ OnRequested(c)'
    BY <1>1, <1>2, <1>3, <2>1
       DEF Discardable, Dated, UserSafe, FreeingAlone, OnRequested, UnderLock
  <2> QED BY <2>2, <2>3 DEF ClientOK
<1>6. /\ OutOfSlots(op[c]) /\ OutOfSlots(op'[c]) /\ ~Stuck(c)
      /\ op'[c].pc \notin {"timedOut", "woken", "leaving"}
  BY <1>1, <1>2 DEF OutOfSlots, Stuck, Opening
<1> QED BY <1>1, <1>2, <1>4, <1>5, <1>6, PlainStep

\* Each phase goes on with the handle of the phase before.
LEMMA OpenPhaseInv ==
    ASSUME DbInv, NEW c \in Callers, OpenSeed(c) \/ OpenProbe(c)
    PROVE  DbInv'
<1>1. PICK from \in {"init", "seed"}, to \in {"seed", "probe"} : OpenPhase(c, from, to)
  BY DEF OpenSeed, OpenProbe
<1>2. /\ c \in Clients /\ c \notin Handles /\ op[c].kind = "open" /\ op[c].pc = from
      /\ NextEvent /\ database # NoHandle
      /\ op' = [op EXCEPT ![c].pc = to, ![c].conn = database]
      /\ UNCHANGED lockVars /\ UnchangedModule /\ UnchangedSlots
      /\ OrderInv /\ DbTypeOK /\ ClientOK(c)
  BY <1>1, DbAssumption DEF OpenPhase, At, DbInv
<1>3. /\ Opening(c) /\ op[c].pc \in UnderLock
      /\ Shape(c) /\ Matched(c) /\ Discardable(c) /\ Dated(c) /\ UserSafe(c) /\ OpenOrderly(c)
  BY <1>2 DEF ClientOK, Opening, UnderLock
<1>4. Current(c) /\ ~Stale(c) /\ request[c].st = "held" /\ request[c].kind # "read"
  <2>1. Held(c) /\ ~Stale(c)
    BY <1>2, <1>3 DEF Matched, HoldingPcs, Discardable, Held
  <2> QED BY <1>2, <1>3, <2>1 DEF Matched, Current, Stale, Held
<1>5. database = op[c].conn
  BY <1>3, <1>4 DEF UserSafe
<1>6. /\ Moves(c) /\ op'[c].pc = to /\ op'[c].kind = "open" /\ op'[c].gen = op[c].gen
      /\ op'[c].conn = op[c].conn
  <2>1. database \in Handles /\ to \in Pcs
    BY <1>2 DEF DbTypeOK, Pcs
  <2>2. /\ Moves(c) /\ op'[c].pc = to /\ op'[c].conn = database
        /\ op'[c].kind = op[c].kind /\ op'[c].gen = op[c].gen
    BY <1>2, <2>1, ConnectMoves
  <2> QED BY <1>2, <1>5, <2>2
<1>7. /\ LockMoves({c}) /\ ReclaimsGoOn
      /\ UNCHANGED <<epoch, request, reclaim, handle, database, generation>>
  BY <1>2, LockAtRest DEF UnchangedModule
<1>8. Current(c)' /\ ~Stale(c)' /\ Opening(c)'
  BY <1>4, <1>6, <1>7 DEF Current, Stale, Held, Opening
<1>9. Steady(c)
  <2>1. \A d \in Clients \ {c} : Undisturbed(d)
    BY <1>6 DEF Moves, Undisturbed
  <2> QED BY <1>2, <1>7, <1>8, <2>1 DEF Steady
<1>10. ClientOK(c)'
  <2>1. Shape(c)' /\ Matched(c)'
    BY <1>2, <1>3, <1>4, <1>6, <1>7 DEF Shape, Matched, LockingPcs, HoldingPcs, UnderLock
  <2>2. Discardable(c)' /\ Dated(c)' /\ FreeingAlone(c)' /\ OnRequested(c)'
    BY <1>2, <1>3, <1>6, <1>7, <1>8 DEF Discardable, Dated, FreeingAlone, OnRequested
  <2>3. UserSafe(c)'
    BY <1>3, <1>5, <1>6, <1>7, <1>8 DEF UserSafe
  <2>4. OpenOrderly(c)'
    BY <1>2, <1>3, <1>6, <1>7 DEF OpenOrderly
  <2> QED BY <2>1, <2>2, <2>3, <2>4 DEF ClientOK
<1>11. /\ OutOfSlots(op[c]) /\ OutOfSlots(op'[c])
       /\ op'[c].pc \notin {"timedOut", "woken", "leaving"}
  BY <1>2, <1>6 DEF OutOfSlots
<1> QED BY <1>2, <1>6, <1>9, <1>10, <1>11, PlainStep

-----------------------------------------------------------------------------
(***************************************************************************)
(* The steps that change a handle, the database or the generation.         *)
(***************************************************************************)
\* Whoever is about to close, to open or to free a handle holds the lock alone.
LEMMA HoldsAlone ==
    ASSUME DbInv, NEW c \in Clients,
           \/ op[c].kind \in {"open", "close", "deferred"} /\ op[c].pc \in LockingPcs /\ Held(c)
           \/ c \in Callers /\ op[c].pc = "freeing"
    PROVE  /\ Current(c) /\ request[c].kind # "read"
           /\ \A d \in Clients \ {c} : ~Current(d)
           /\ \A b \in Clients : ~Stuck(b)
<1>1. /\ OrderInv /\ Shape(c) /\ Matched(c) /\ Discardable(c)
      /\ Callers \cap Handles = {}
  BY DbAssumption DEF DbInv, ClientOK
<1>2. /\ Held(c) /\ op[c].kind # "read" /\ op[c].kind \in {"open", "close", "deferred"}
      /\ op[c].pc \notin {"executing", "committing", "rollingBack", "awaitingSlot"}
      /\ ~Opening(c) /\ ~(c \in Handles /\ op[c].pc = "freeing")
  BY <1>1 DEF Shape, Matched, HoldingPcs, LockingPcs, Held, Opening, NoOp
<1>3. Current(c)
  BY <1>1, <1>2 DEF Discardable, Current, Stale
<1>4. request[c].kind # "read"
  BY <1>1, <1>2 DEF Matched, Held
<1>5. \A d \in Clients \ {c} : ~Current(d)
  BY <1>1, <1>3, <1>4, WriterAlone
<1> QED BY <1>2, <1>3, <1>4, <1>5 DEF Stuck

LEMMA HandleSet ==
    ASSUME DbTypeOK, NEW h \in Handles, NEW s \in {"unborn", "live", "closing", "freed", "unclosed"},
           handle' = [handle EXCEPT ![h].st = s]
    PROVE  /\ handle' \in [Handles -> Native]
           /\ handle'[h].st = s
           /\ \A k \in Handles : /\ handle'[k].gen = handle[k].gen
                                 /\ handle'[k].dropped = handle[k].dropped
           /\ \A k \in Handles \ {h} : handle'[k] = handle[k]
<1>1. handle \in [Handles -> Native]
  BY DEF DbTypeOK
<1> QED BY <1>1 DEF Native

\* Whoever frees a handle goes on while another client moves.
LEMMA FreesGoOn ==
    ASSUME NEW c, NEW h, op[c].pc # "freeing" \/ op[c].conn # h,
           \A d \in Clients \ {c} : op'[d] = op[d],
           \E d \in Clients : Frees(d, h)
    PROVE  \E d \in Clients : Frees(d, h)'
<1>1. PICK d \in Clients : Frees(d, h)
  OBVIOUS
<1>2. op'[d] = op[d]
  BY <1>1 DEF Frees
<1> QED BY <1>1, <1>2 DEF Frees

\* A step that changes the module, of a client that has no read slot.
LEMMA LoudStep ==
    ASSUME DbInv, OrderInv', DbTypeOK', ReclaimsGoOn, NEW c \in Clients,
           Moves(c), ClientOK(c)',
           \A d \in Clients \ {c} : Served(d, request[d]) /\ TimelySpared(d) /\ HandleSpared(d),
           UnchangedSlots, OutOfSlots(op[c]), OutOfSlots(op'[c]), op'[c].pc # "timedOut",
           op'[c].kind = "open" => op[c].kind = "open",
           NextEvent \/ \A b \in Clients : ~Stuck(b),
           \A h \in Handles : HandleKept(h)',
           DatabaseKept', StatusKept', OwnersKept'
    PROVE  DbInv'
<1>1. /\ OrderInv /\ DbTypeOK /\ OneOpen /\ SlotsCounted /\ TimedOutBlocked
      /\ \A d \in Clients : ClientOK(d)
      /\ Callers \subseteq Clients
      /\ \A d \in Clients \ {c} : op'[d] = op[d]
  BY DbAssumption DEF DbInv, ModuleOK, Moves
<1>2. \A d \in Clients \ {c} : ClientOK(d)'
  <2> SUFFICES ASSUME NEW d \in Clients \ {c} PROVE ClientOK(d)'
    OBVIOUS
  <2>1. Spared(d)
    BY <1>1 DEF Spared, Undisturbed
  <2> QED BY <1>1, <2>1, SparedOK
<1>3. OneOpen'
  BY <1>1 DEF OneOpen
<1>4. SlotsCounted'
  BY <1>1, SlotsUntouched DEF DbTypeOK
<1>5. TimedOutBlocked'
  BY <1>1, BlockedGoesOn
<1> QED BY <1>2, <1>3, <1>4, <1>5 DEF DbInv, ModuleOK

\* The database is taken away from the statements before it is freed.
LEMMA CloseNativeInv ==
    ASSUME DbInv, NEW c \in Callers, CloseNative(c)
    PROVE  DbInv'
<1>1. /\ c \in Clients /\ c \notin Handles /\ NoHandle \notin Handles
      /\ op[c].kind \in {"close", "open"} /\ op[c].pc = "closeLocking"
      /\ Held(c) /\ database # NoHandle /\ database' = NoHandle
      /\ handle' = [handle EXCEPT ![database].st = "closing"]
      /\ op' = [op EXCEPT ![c].pc = "freeing", ![c].conn = database]
      /\ UNCHANGED <<status, generation>> /\ UNCHANGED lockVars /\ UnchangedSlots
      /\ OrderInv /\ DbTypeOK /\ ModuleOK /\ database \in Handles
      /\ \A d \in Clients : ClientOK(d)
  BY DbAssumption DEF CloseNative, At, DbInv, DbTypeOK
<1>2. /\ LockMoves({c}) /\ ReclaimsGoOn /\ UNCHANGED <<epoch, request, reclaim>>
  BY <1>1, LockAtRest
<1>3. /\ Moves(c) /\ op'[c].pc = "freeing" /\ op'[c].conn = database
      /\ op'[c].kind = op[c].kind /\ op'[c].gen = op[c].gen
  <2>1. "freeing" \in Pcs
    BY DEF Pcs
  <2> QED BY <1>1, <2>1, ConnectMoves
<1>4. /\ Current(c) /\ request[c].kind # "read"
      /\ \A d \in Clients \ {c} : ~Current(d)
      /\ \A b \in Clients : ~Stuck(b)
  BY <1>1, HoldsAlone DEF LockingPcs
<1>5. /\ handle' \in [Handles -> Native]
      /\ handle'[database].st = "closing"
      /\ \A k \in Handles : /\ handle'[k].gen = handle[k].gen
                            /\ handle'[k].dropped = handle[k].dropped
      /\ \A k \in Handles \ {database} : handle'[k] = handle[k]
  BY <1>1, HandleSet
<1>6. /\ \A h \in Handles : op'[h] = op[h]
      /\ op[database] = NoOp /\ handle[database].st = "live"
  BY <1>1, <1>3, DbAssumption DEF Moves, ModuleOK, DatabaseKept
<1>7. ASSUME NEW d \in Clients \ {c}
      PROVE  Served(d, request[d]) /\ TimelySpared(d) /\ HandleSpared(d)
  <2>1. /\ UserSafe(d) /\ FreeingAlone(d) /\ OnRequested(d) /\ OpenOrderly(d) /\ Matched(d)
    BY <1>1 DEF ClientOK
  <2>2. Served(d, request[d]) /\ TimelySpared(d)
    BY <1>1, <1>2 DEF Served, TimelySpared
  <2> DEFINE h == op[d].conn
  <2>3. ASSUME op[d].pc \in UnderLock
        PROVE  handle'[h].st = handle[h].st /\ ~Current(d) /\ (Stale(d) => StillDeferred(h))
    <3>1. request[d].st = "held"
      BY <2>1, <2>3 DEF Matched, HoldingPcs
    <3>2. Stale(d) /\ ~Current(d)
      BY <1>4, <3>1 DEF Stale, Current, Held
    <3>3. h \in Handles /\ op[h].kind = "deferred" /\ op[h].pc \in {"waiting", "gaveUp"}
      BY <2>1, <2>3, <3>2 DEF UserSafe
    <3>4. h # database
      BY <1>6, <3>3 DEF NoOp
    <3> QED BY <1>5, <1>6, <3>2, <3>3, <3>4 DEF StillDeferred
  <2>4. ASSUME op[d].pc = "freeing"
        PROVE  handle'[h].st = handle[h].st /\ d \notin Callers
    <3>1. h \in Handles /\ handle[h].st = "closing" /\ (d \in Callers => database = NoHandle)
      BY <2>1, <2>4 DEF FreeingAlone
    <3> QED BY <1>1, <1>5, <1>6, <3>1
  <2>5. h \in Handles \cup {NoHandle}
    BY <1>1 DEF DbTypeOK
  <2>6. op[d].kind = "open" /\ Opening(d) => h \in Handles
    BY <2>1 DEF UserSafe, Opening, UnderLock
  <2>7. HandleSpared(d)
    BY <1>1, <1>5, <2>3, <2>4, <2>5, <2>6 DEF HandleSpared
  <2> QED BY <2>2, <2>7
<1>8. ClientOK(c)'
  <2>1. /\ Current(c)' /\ ~Stale(c)' /\ request'[c].st = "held" /\ request'[c].kind # "read"
    BY <1>1, <1>2, <1>4 DEF Current, Stale, Held
  <2>2. Dated(c)
    BY <1>1 DEF ClientOK
  <2>3. Shape(c)' /\ Matched(c)'
    BY <1>1, <1>3, <2>1 DEF Shape, Matched, LockingPcs, HoldingPcs
  <2>4. Discardable(c)' /\ Dated(c)' /\ UserSafe(c)' /\ OnRequested(c)' /\ OpenOrderly(c)'
    BY <1>1, <1>3, <2>1, <2>2
       DEF Discardable, Dated, UserSafe, OnRequested, OpenOrderly, UnderLock, Opening
  <2>5. FreeingAlone(c)'
    BY <1>1, <1>3, <1>5, <1>6 DEF FreeingAlone
  <2> QED BY <2>3, <2>4, <2>5 DEF ClientOK
<1>9. DbTypeOK'
  BY <1>1, <1>3, <1>5 DEF DbTypeOK, Moves, Operation, UnchangedSlots
<1>10. \A h \in Handles : HandleKept(h)'
  <2> SUFFICES ASSUME NEW h \in Handles PROVE HandleKept(h)'
    OBVIOUS
  <2>1. HandleKept(h)
    BY <1>1 DEF ModuleOK
  <2> QED BY <1>5, <1>6, <2>1 DEF HandleKept, NoOp
<1>11. DatabaseKept'
  BY <1>1 DEF DatabaseKept
<1>12. StatusKept'
  <2> SUFFICES ASSUME ~SlowOpen, status.state = "open"
               PROVE  status.handle \in Handles /\ \E d \in Callers : Frees(d, status.handle)'
    BY <1>1 DEF StatusKept
  <2>1. /\ status.handle \in Handles
        /\ database = status.handle \/ \E d \in Callers : Frees(d, status.handle)
    BY <1>1 DEF ModuleOK, StatusKept
  <2>2. CASE database = status.handle
    BY <1>1, <1>3, <2>1, <2>2 DEF Frees
  <2>3. CASE \E d \in Callers : Frees(d, status.handle)
    <3>1. PICK d \in Callers : Frees(d, status.handle)
      BY <2>3
    <3>2. FreeingAlone(d) /\ op[d].pc = "freeing"
      BY <1>1, <3>1, DbAssumption DEF ClientOK, Frees
    <3> QED BY <1>1, <3>2 DEF FreeingAlone
  <2> QED BY <2>1, <2>2, <2>3
<1>13. OwnersKept'
  <2>1. OwnersKept
    BY <1>1 DEF ModuleOK
  <2>2. ASSUME NEW h \in Handles, handle'[h].st = "closing"
        PROVE  \E d \in Clients : Frees(d, h)'
    <3>1. CASE h = database
      BY <1>1, <1>3, <3>1 DEF Frees
    <3>2. CASE h # database
      <4>1. \E d \in Clients : Frees(d, h)
        BY <1>5, <2>1, <2>2, <3>2 DEF OwnersKept
      <4> QED BY <1>1, <1>3, <4>1, FreesGoOn DEF Moves
    <3> QED BY <3>1, <3>2
  <2>3. ASSUME NEW h \in Handles
        PROVE  /\ handle'[h].st = "live" => op'[h].kind = "deferred" \/ handle'[h].dropped
               /\ handle'[h].dropped => handle'[h].st = "live" /\ op'[h] = NoOp
    <3>1. CASE h = database
      BY <1>5, <2>1, <3>1 DEF OwnersKept
    <3>2. CASE h # database
      <4>1. handle'[h] = handle[h] /\ op'[h] = op[h]
        BY <1>5, <1>6, <3>2
      <4> QED BY <2>1, <3>2, <4>1 DEF OwnersKept
    <3> QED BY <3>1, <3>2
  <2> QED BY <1>1, <2>2, <2>3 DEF OwnersKept
<1>14. OutOfSlots(op[c]) /\ OutOfSlots(op'[c]) /\ op'[c].pc # "timedOut"
  BY <1>1, <1>3 DEF OutOfSlots
<1>15. OrderInv'
  BY <1>2 DEF LockMoves
<1> QED BY <1>1, <1>2, <1>3, <1>4, <1>7, <1>8, <1>9, <1>10, <1>11, <1>12, <1>13, <1>14, <1>15, LoudStep

\* What is left of a call whose close is over.
LEMMA AfterCloseMoves ==
    ASSUME DbTypeOK, NEW c \in Clients, op[c].kind \in {"close", "open"},
           op[c].pc \in {"closeLocking", "timedOut", "freeing"}
    PROVE  /\ AfterClose(c) \in Operation
           /\ \/ AfterClose(c) = NoOp
              \/ /\ op[c].kind = "open" /\ AfterClose(c).kind = "open"
                 /\ AfterClose(c).pc = "reopening"
                 /\ AfterClose(c).gen = op[c].gen /\ AfterClose(c).conn = NoHandle
<1>1. op[c] \in Operation
  BY DEF DbTypeOK, Operation
<1>2. CASE op[c].kind = "close"
  BY <1>2 DEF AfterClose, NoOp, Operation, Pcs
<1>3. CASE op[c].kind = "open"
  <2> DEFINE o == [op[c] EXCEPT !.pc = "reopening"]
             r == [o EXCEPT !.conn = NoHandle]
  <2>1. o \in Operation /\ o.kind = "open" /\ o.gen = op[c].gen /\ o.pc = "reopening"
    BY <1>1, <1>3 DEF Operation, Pcs
  <2>2. AfterClose(c) = r
    BY <1>1, <1>3 DEF AfterClose, Operation
  <2> HIDE DEF o
  <2>3. r \in Operation /\ r.kind = o.kind /\ r.gen = o.gen /\ r.pc = o.pc /\ r.conn = NoHandle
    BY <2>1 DEF Operation
  <2> QED BY <1>3, <2>1, <2>2, <2>3
<1> QED BY <1>2, <1>3

LEMMA AfterCloseOK ==
    ASSUME DbTypeOK, DbTypeOK', NEW c \in Callers, ClientOK(c),
           op[c].kind \in {"close", "open"}, op[c].pc \in {"closeLocking", "timedOut", "freeing"},
           op'[c] = AfterClose(c) \/ op'[c] = NoOp,
           request'[c].st = "idle", database' = NoHandle,
           generation' = generation + 1
    PROVE  /\ ClientOK(c)' /\ OutOfSlots(op[c]) /\ OutOfSlots(op'[c]) /\ op'[c].pc # "timedOut"
           /\ op'[c].kind = "open" => op[c].kind = "open"
<1>1. c \in Clients /\ NoHandle \notin Handles
  BY DbAssumption
<1>2. CASE op'[c] = NoOp
  BY <1>1, <1>2, IdleOK DEF OutOfSlots, NoOp
<1>3. CASE /\ op[c].kind = "open" /\ op'[c].kind = "open" /\ op'[c].pc = "reopening"
           /\ op'[c].gen = op[c].gen /\ op'[c].conn = NoHandle
  <2>1. ~Held(c)' /\ ~Current(c)' /\ ~Stale(c)'
    BY DEF Held, Current, Stale
  <2>2. Shape(c)' /\ Matched(c)' /\ OpenOrderly(c)'
    BY <1>3, <2>1 DEF Shape, Matched, OpenOrderly, LockingPcs, HoldingPcs, UnderLock, Opening
  <2>3. Dated(c)'
    <3>1. op[c].gen <= generation /\ op[c].gen \in Nat /\ generation \in Nat
      BY <1>1 DEF ClientOK, Dated, DbTypeOK
    <3>2. op'[c].gen <= generation'
      BY <1>3, <3>1
    <3> QED BY <2>1, <3>2 DEF Dated
  <2>4. Discardable(c)' /\ UserSafe(c)' /\ FreeingAlone(c)' /\ OnRequested(c)'
    BY <1>3, <2>1 DEF Discardable, UserSafe, FreeingAlone, OnRequested, UnderLock
  <2>5. ClientOK(c)'
    BY <2>2, <2>3, <2>4 DEF ClientOK
  <2> QED BY <1>3, <2>5 DEF OutOfSlots
<1> QED BY <1>1, <1>2, <1>3, AfterCloseMoves

\* The native close is over or it threw: the finally block is the same.
LEMMA CloseDoneInv ==
    ASSUME DbInv, NEW c \in Callers, CloseDone(c) \/ CloseFailed(c)
    PROVE  DbInv'
<1>1. /\ c \in Clients /\ c \notin Handles /\ NoHandle \notin Handles
      /\ op[c].kind \in {"close", "open"} /\ op[c].pc \in {"closeLocking", "freeing"}
      /\ op[c].pc = "closeLocking" => Held(c)
      /\ status' = ClosedStatus /\ generation' = generation + 1
      /\ ResetAndRelease(c)
      /\ op' = [op EXCEPT ![c] = AfterClose(c)] \/ op' = [op EXCEPT ![c] = NoOp]
      /\ UNCHANGED database /\ UnchangedSlots
      /\ OrderInv /\ DbTypeOK /\ ModuleOK /\ generation \in Nat
      /\ \A d \in Clients : ClientOK(d)
  BY DbAssumption DEF CloseDone, CloseFailed, CloseFinally, Return, At, DbInv, DbTypeOK
<1>2. /\ Current(c) /\ request[c].kind # "read"
      /\ \A d \in Clients \ {c} : ~Current(d)
      /\ \A b \in Clients : ~Stuck(b)
  BY <1>1, HoldsAlone DEF LockingPcs
<1>3. /\ LockMoves({c}) /\ ReclaimsGoOn /\ epoch' = epoch + 1 /\ request'[c].st = "idle"
  BY <1>1, <1>2, ResetAndReleaseMoves
<1>4. Moves(c) /\ (op'[c] = AfterClose(c) \/ op'[c] = NoOp)
  <2>1. AfterClose(c) \in Operation /\ NoOp \in Operation
    BY <1>1, AfterCloseMoves DEF NoOp, Operation, Pcs
  <2> QED BY <1>1, <2>1, SetMoves
<1> DEFINE g == op[c].conn
           Typed == handle' \in [Handles -> Native]
<1>5. /\ database = NoHandle /\ Typed
      /\ \A k \in Handles : /\ handle'[k].gen = handle[k].gen
                            /\ handle'[k].dropped = handle[k].dropped
      /\ \A k \in Handles : \/ handle'[k] = handle[k] /\ (op[c].pc = "freeing" => k # g)
                            \/ /\ handle[k].st = "closing" /\ op[k] = NoOp
                               /\ handle'[k].st \in {"freed", "unclosed"}
  <2>1. CASE op[c].pc = "freeing"
    <3>1. g \in Handles /\ handle[g].st = "closing" /\ op[g] = NoOp /\ database = NoHandle
      BY <1>1, <2>1 DEF ClientOK, FreeingAlone
    <3>2. PICK st \in {"freed", "unclosed"} : handle' = [handle EXCEPT ![g].st = st]
      BY <2>1 DEF CloseDone, CloseFailed, At
    <3> HIDE DEF g
    <3>3. /\ Typed /\ handle'[g].st = st
          /\ \A k \in Handles : /\ handle'[k].gen = handle[k].gen
                                /\ handle'[k].dropped = handle[k].dropped
          /\ \A k \in Handles \ {g} : handle'[k] = handle[k]
      BY <1>1, <3>1, <3>2, HandleSet
    <3> QED BY <3>1, <3>3
  <2>2. CASE op[c].pc = "closeLocking"
    <3>1. database = NoHandle /\ handle' = handle
      BY <2>2 DEF CloseDone, CloseFailed, At
    <3> QED BY <1>1, <2>2, <3>1 DEF DbTypeOK
  <2> QED BY <1>1, <2>1, <2>2
<1>6. \A h \in Handles : op'[h] = op[h]
  BY <1>1, <1>4, DbAssumption DEF Moves
<1>7. ASSUME NEW d \in Clients \ {c}
      PROVE  Served(d, request[d]) /\ TimelySpared(d) /\ HandleSpared(d)
  <2>1. /\ UserSafe(d) /\ FreeingAlone(d) /\ Matched(d)
    BY <1>1 DEF ClientOK
  <2>2. Served(d, request[d]) /\ TimelySpared(d)
    BY <1>1, <1>2, <1>3 DEF LockMoves, TimelySpared
  <2> DEFINE h == op[d].conn
  <2>3. ASSUME op[d].pc \in UnderLock
        PROVE  handle'[h].st = handle[h].st /\ (Stale(d) => StillDeferred(h))
    <3>1. h \in Handles /\ handle[h].st = "live"
      BY <2>1, <2>3 DEF UserSafe
    <3>2. Stale(d) => op[h].kind = "deferred" /\ op[h].pc \in {"waiting", "gaveUp"}
      BY <2>1, <2>3 DEF UserSafe
    <3> QED BY <1>5, <1>6, <3>1, <3>2 DEF StillDeferred
  <2>4. ASSUME op[d].pc = "freeing"
        PROVE  handle'[h].st = handle[h].st /\ d \notin Callers
    <3>1. d \notin Callers
      BY <1>2, <2>4, HoldsAlone
    <3>2. h = d /\ d \in Handles
      BY <2>1, <2>4, <3>1, DbAssumption DEF FreeingAlone
    <3>3. op[h] # NoOp
      BY <2>4, <3>2 DEF NoOp
    <3> HIDE DEF h
    <3> QED BY <1>5, <3>1, <3>2, <3>3
  <2>5. h \in Handles \cup {NoHandle}
    BY <1>1 DEF DbTypeOK
  <2>6. op[d].kind = "open" /\ Opening(d) => h \in Handles
    BY <2>1 DEF UserSafe, Opening, UnderLock
  <2>7. HandleSpared(d)
    BY <1>1, <1>5, <2>3, <2>4, <2>5, <2>6 DEF HandleSpared
  <2> QED BY <2>2, <2>7
<1>8. DbTypeOK'
  BY <1>1, <1>4, <1>5 DEF DbTypeOK, Moves, Operation, UnchangedSlots, ClosedStatus
<1>9. /\ ClientOK(c)' /\ OutOfSlots(op[c]) /\ OutOfSlots(op'[c]) /\ op'[c].pc # "timedOut"
      /\ op'[c].kind = "open" => op[c].kind = "open"
  BY <1>1, <1>3, <1>4, <1>5, <1>8, AfterCloseOK
<1>10. \A h \in Handles : HandleKept(h)'
  <2> SUFFICES ASSUME NEW h \in Handles PROVE HandleKept(h)'
    OBVIOUS
  <2>1. HandleKept(h)
    BY <1>1 DEF ModuleOK
  <2> QED BY <1>5, <1>6, <2>1 DEF HandleKept, NoOp
<1>11. DatabaseKept' /\ StatusKept'
  BY <1>1, <1>5 DEF DatabaseKept, StatusKept, ClosedStatus
<1>12. OwnersKept'
  <2>1. OwnersKept
    BY <1>1 DEF ModuleOK
  <2>2. ASSUME NEW h \in Handles, handle'[h].st = "closing"
        PROVE  \E d \in Clients : Frees(d, h)'
    <3>1. handle[h].st = "closing" /\ (op[c].pc # "freeing" \/ op[c].conn # h)
      BY <1>5, <2>2
    <3>2. \E d \in Clients : Frees(d, h)
      BY <2>1, <3>1 DEF OwnersKept
    <3> QED BY <1>4, <3>1, <3>2, FreesGoOn DEF Moves
  <2>3. \A h \in Handles : handle'[h] = handle[h]
                             \/ (handle[h].st = "closing" /\ handle'[h].st # "live")
    BY <1>5
  <2> HIDE DEF g
  <2> QED BY <1>1, <1>5, <1>6, <2>1, <2>2, <2>3 DEF OwnersKept
<1>13. OrderInv'
  BY <1>3 DEF LockMoves
<1> QED BY <1>1, <1>2, <1>3, <1>4, <1>7, <1>8, <1>9, <1>10, <1>11, <1>12, <1>13, LoudStep

\* An open under way goes on while others move.
LEMMA OpenerGoesOn ==
    ASSUME OpenerAtWork, NEW c \in Clients, c \notin Callers, Moves(c), UNCHANGED epoch,
           \A d \in Clients \ {c} : Served(d, request[d])
    PROVE  OpenerAtWork'
<1>1. PICK d \in Callers : Opening(d) /\ Current(d)
  BY DEF OpenerAtWork
<1>2. op'[d] = op[d] /\ request'[d] = request[d]
  BY <1>1, DbAssumption DEF Moves, Served, Current, Held
<1> QED BY <1>1, <1>2 DEF OpenerAtWork, Opening, Current, Held

\* The deferred close frees its handle once nobody from before the reset is left.
LEMMA DeferredFreeInv ==
    ASSUME DbInv, NEW h \in Handles, DeferredFree(h) \/ DeferredDone(h)
    PROVE  DbInv'
<1>1. /\ h \in Clients /\ h \notin Callers /\ NoHandle \notin Handles
      /\ Callers \subseteq Clients /\ op[h].kind = "deferred"
      /\ UNCHANGED <<database, status, generation>> /\ UnchangedSlots
      /\ OrderInv /\ DbTypeOK /\ ModuleOK
      /\ \A d \in Clients : ClientOK(d)
  BY DbAssumption DEF DeferredFree, DeferredDone, At, DbInv
<1>2. op[h] # NoOp /\ database # h
  BY <1>1 DEF NoOp, ModuleOK, DatabaseKept
<1> DEFINE Typed == handle' \in [Handles -> Native]
\* What the two steps have in common.
<1>3. /\ Moves(h) /\ LockMoves({h}) /\ ReclaimsGoOn /\ UNCHANGED epoch
      /\ Typed /\ \A k \in Handles : /\ handle'[k].gen = handle[k].gen
                                     /\ handle'[k].dropped = handle[k].dropped
      /\ \A k \in Handles \ {h} : handle'[k] = handle[k]
      /\ handle[h].st # "unborn" /\ handle'[h].st \in {"closing", "freed", "unclosed"}
      /\ handle'[h].st = "closing" => Frees(h, h)'
      /\ OutOfSlots(op[h]) /\ OutOfSlots(op'[h]) /\ op'[h].pc # "timedOut"
      /\ op'[h].kind # "open" /\ ~StillDeferred(h)
      /\ NextEvent \/ \A b \in Clients : ~Stuck(b)
      /\ \/ /\ op[h].pc = "locking" /\ handle[h].st = "live"
            /\ \A d \in Clients \ {h} : ~Current(d)
         \/ op[h].pc = "freeing" /\ handle[h].st = "closing"
      /\ ClientOK(h)' /\ HandleKept(h)'
  <2>1. CASE DeferredFree(h)
    <3>1. /\ op[h].pc = "locking" /\ Held(h) /\ UNCHANGED lockVars
          /\ handle' = [handle EXCEPT ![h].st = "closing"]
          /\ op' = [op EXCEPT ![h].pc = "freeing", ![h].conn = h]
      BY <2>1 DEF DeferredFree, At
    <3>2. /\ Current(h) /\ request[h].kind # "read"
          /\ \A d \in Clients \ {h} : ~Current(d)
          /\ \A b \in Clients : ~Stuck(b)
      BY <1>1, <3>1, HoldsAlone DEF LockingPcs
    <3>3. /\ LockMoves({h}) /\ ReclaimsGoOn /\ UNCHANGED <<epoch, request, reclaim>>
      BY <1>1, <3>1, LockAtRest
    <3>4. /\ Moves(h) /\ op'[h].pc = "freeing" /\ op'[h].conn = h /\ op'[h].kind = "deferred"
      <4>1. "freeing" \in Pcs
        BY DEF Pcs
      <4>2. DbTypeOK /\ h \in Clients /\ op' = [op EXCEPT ![h].pc = "freeing", ![h].conn = h]
        BY <1>1, <3>1
      <4>3. Moves(h) /\ op'[h].pc = "freeing" /\ op'[h].conn = h /\ op'[h].kind = op[h].kind
        BY <4>1, <4>2, ConnectMoves
      <4> QED BY <1>1, <4>3
    <3>5. handle[h].st = "live"
      BY <1>1, <3>1 DEF ModuleOK, HandleKept
    <3>6. /\ Typed /\ handle'[h].st = "closing"
          /\ \A k \in Handles : /\ handle'[k].gen = handle[k].gen
                                /\ handle'[k].dropped = handle[k].dropped
          /\ \A k \in Handles \ {h} : handle'[k] = handle[k]
      BY <1>1, <3>1, HandleSet
    <3>7. ClientOK(h)'
      <4>1. /\ Current(h)' /\ ~Stale(h)' /\ request'[h].st = "held" /\ request'[h].kind # "read"
        BY <3>1, <3>2, <3>3 DEF Current, Stale, Held
      <4>2. Shape(h)' /\ Matched(h)'
        BY <1>1, <3>4, <4>1 DEF Shape, Matched, LockingPcs, HoldingPcs
      <4>3. Discardable(h)' /\ Dated(h)' /\ UserSafe(h)' /\ OnRequested(h)' /\ OpenOrderly(h)'
        BY <1>1, <3>4, <4>1 DEF Discardable, Dated, UserSafe, OnRequested, OpenOrderly, UnderLock
      <4>4. FreeingAlone(h)'
        BY <1>1, <3>4, <3>6 DEF FreeingAlone
      <4> QED BY <4>2, <4>3, <4>4 DEF ClientOK
    <3>8. /\ OutOfSlots(op[h]) /\ OutOfSlots(op'[h]) /\ HandleKept(h)' /\ ~StillDeferred(h)
          /\ Frees(h, h)'
      BY <3>1, <3>4, <3>6 DEF OutOfSlots, HandleKept, NoOp, StillDeferred, Frees
    <3> QED BY <3>1, <3>2, <3>3, <3>4, <3>5, <3>6, <3>7, <3>8
  <2>2. CASE DeferredDone(h)
    <3>1. /\ op[h].pc = "freeing" /\ NextEvent /\ Return(h) /\ Release(h)
          /\ \E st \in {"freed", "unclosed"} : handle' = [handle EXCEPT ![h].st = st]
      BY <2>2 DEF DeferredDone, At
    <3>2. handle[h].st = "closing"
      BY <1>1, <3>1 DEF ClientOK, FreeingAlone
    <3>3. /\ LockMoves({h}) /\ ReclaimsGoOn /\ UNCHANGED epoch /\ request'[h].st = "idle"
      BY <1>1, <3>1, ReleaseMoves
    <3>4. Moves(h) /\ op'[h] = NoOp
      BY <1>1, <3>1, ReturnMoves
    <3>5. /\ Typed /\ handle'[h].st \in {"freed", "unclosed"}
          /\ \A k \in Handles : /\ handle'[k].gen = handle[k].gen
                                /\ handle'[k].dropped = handle[k].dropped
          /\ \A k \in Handles \ {h} : handle'[k] = handle[k]
      BY <1>1, <3>1, HandleSet
    <3>6. DbTypeOK'
      BY <1>1, <3>4, <3>5 DEF DbTypeOK, Moves, Operation, UnchangedSlots
    <3>7. ClientOK(h)'
      BY <1>1, <3>3, <3>4, <3>6, IdleOK
    <3>8. /\ OutOfSlots(op[h]) /\ OutOfSlots(op'[h]) /\ HandleKept(h)' /\ ~StillDeferred(h)
          /\ op'[h].pc # "timedOut" /\ op'[h].kind # "open"
      BY <3>1, <3>4, <3>5 DEF OutOfSlots, HandleKept, NoOp, StillDeferred
    <3> QED BY <3>1, <3>2, <3>3, <3>4, <3>5, <3>7, <3>8
  <2> QED BY <2>1, <2>2
<1>4. \A k \in Clients \ {h} : op'[k] = op[k]
  BY <1>3 DEF Moves
<1>5. ASSUME NEW d \in Clients \ {h}
      PROVE  Served(d, request[d]) /\ TimelySpared(d) /\ HandleSpared(d)
  <2>1. /\ UserSafe(d) /\ FreeingAlone(d) /\ Matched(d)
    BY <1>1 DEF ClientOK
  <2>2. Served(d, request[d]) /\ TimelySpared(d)
    BY <1>1, <1>3 DEF LockMoves, TimelySpared
  <2> DEFINE k == op[d].conn
  <2>3. ASSUME op[d].pc \in UnderLock
        PROVE  handle'[k].st = handle[k].st /\ (Stale(d) => StillDeferred(k))
    <3>1. /\ k \in Handles /\ handle[k].st = "live"
          /\ Current(d) => database = k
          /\ Stale(d) => op[k].kind = "deferred" /\ op[k].pc \in {"waiting", "gaveUp"}
      BY <2>1, <2>3 DEF UserSafe
    <3>2. Held(d)
      BY <2>1, <2>3 DEF Matched, HoldingPcs, Held
    <3>3. k # h
      BY <1>2, <1>3, <3>1, <3>2 DEF Current, Stale
    <3>4. op'[k] = op[k] /\ handle'[k] = handle[k]
      BY <1>3, <1>4, <3>1, <3>3, DbAssumption
    <3> HIDE DEF k
    <3> QED BY <3>1, <3>4 DEF StillDeferred
  <2>4. ASSUME op[d].pc = "freeing"
        PROVE  handle'[k].st = handle[k].st /\ (d \in Callers => op'[k] = op[k])
    <3>1. /\ k \in Handles /\ handle[k].st = "closing"
          /\ d \in Callers => op[k] = NoOp
          /\ d \in Handles => k = d
      BY <2>1, <2>4 DEF FreeingAlone
    <3>2. k # h
      BY <1>2, <3>1, DbAssumption
    <3> HIDE DEF k
    <3> QED BY <1>3, <1>4, <3>1, <3>2, DbAssumption
  <2>5. k \in Handles \cup {NoHandle}
    BY <1>1 DEF DbTypeOK
  <2>6. op[d].kind = "open" /\ Opening(d) => k \in Handles
    BY <2>1 DEF UserSafe, Opening, UnderLock
  <2>7. HandleSpared(d)
    BY <1>1, <1>3, <2>3, <2>4, <2>5, <2>6 DEF HandleSpared
  <2> QED BY <2>2, <2>7
<1>6. DbTypeOK'
  BY <1>1, <1>3 DEF DbTypeOK, Moves, Operation, UnchangedSlots
<1>7. \A k \in Handles : HandleKept(k)'
  <2> SUFFICES ASSUME NEW k \in Handles \ {h} PROVE HandleKept(k)'
    BY <1>3
  <2>1. HandleKept(k)
    BY <1>1 DEF ModuleOK
  <2>2. op'[k] = op[k] /\ handle'[k] = handle[k]
    BY <1>3, <1>4, DbAssumption
  <2> QED BY <2>1, <2>2 DEF HandleKept
<1>8. DatabaseKept'
  <2> SUFFICES ASSUME database # NoHandle
               PROVE  /\ handle'[database].st = "live" /\ op'[database] = NoOp
                      /\ OpenerAtWork' \/ (handle'[database].gen = generation' /\ generation' > 0)
    BY <1>1 DEF DatabaseKept
  <2>1. /\ database \in Handles /\ handle[database].st = "live" /\ op[database] = NoOp
        /\ OpenerAtWork \/ (handle[database].gen = generation /\ generation > 0)
    BY <1>1 DEF ModuleOK, DatabaseKept, DbTypeOK
  <2>2. op'[database] = op[database] /\ handle'[database] = handle[database]
    BY <1>2, <1>3, <1>4, <2>1, DbAssumption
  <2>3. OpenerAtWork => OpenerAtWork'
    BY <1>1, <1>3, OpenerGoesOn DEF LockMoves
  <2> QED BY <1>1, <2>1, <2>2, <2>3
<1>9. StatusKept'
  <2>1. \A d \in Callers : op'[d] = op[d]
    BY <1>1, <1>4
  <2> QED BY <1>1, <2>1 DEF ModuleOK, StatusKept, Frees
<1>10. OwnersKept'
  <2>1. OwnersKept /\ FreeingAlone(h)
    BY <1>1 DEF ModuleOK, ClientOK
  <2>2. ~handle'[h].dropped
    BY <1>2, <1>3, <2>1 DEF OwnersKept
  <2>3. ASSUME NEW k \in Handles, handle'[k].st = "closing"
        PROVE  \E d \in Clients : Frees(d, k)'
    <3>1. CASE k = h
      BY <1>1, <1>3, <2>3, <3>1
    <3>2. CASE k # h
      <4>1. \E d \in Clients : Frees(d, k)
        BY <1>3, <2>1, <2>3, <3>2 DEF OwnersKept
      <4>2. op[h].pc # "freeing" \/ op[h].conn # k
        BY <1>1, <2>1, <3>2 DEF FreeingAlone
      <4> QED BY <1>4, <4>1, <4>2, FreesGoOn
    <3> QED BY <3>1, <3>2
  <2>4. \A k \in Handles \ {h} : op'[k] = op[k] /\ handle'[k] = handle[k]
    BY <1>3, <1>4, DbAssumption
  <2> QED BY <1>1, <1>3, <2>1, <2>2, <2>3, <2>4 DEF OwnersKept
<1>11. OrderInv'
  BY <1>3 DEF LockMoves
<1> QED BY <1>1, <1>3, <1>5, <1>6, <1>7, <1>8, <1>9, <1>10, <1>11, LoudStep

-----------------------------------------------------------------------------
(***************************************************************************)
(* open(): the handle is created, published or given up.                   *)
(***************************************************************************)
LEMMA OpenCreateInv ==
    ASSUME DbInv, NEW c \in Callers, OpenCreate(c)
    PROVE  DbInv'
<1>1. /\ c \in Clients /\ c \notin Handles /\ NoHandle \notin Handles
      /\ Callers \subseteq Clients /\ Handles \subseteq Clients
      /\ op[c].kind = "open" /\ op[c].pc = "locking" /\ Held(c)
      /\ UNCHANGED <<status, generation>> /\ UNCHANGED lockVars /\ UnchangedSlots
      /\ OrderInv /\ DbTypeOK /\ ModuleOK
      /\ \A d \in Clients : ClientOK(d)
  BY DbAssumption DEF OpenCreate, At, DbInv
<1>2. PICK h \in Handles, mismatch \in BOOLEAN :
        /\ handle[h].st = "unborn"
        /\ handle' = [handle EXCEPT ![h].st = "live", ![h].readOnly = mismatch]
        /\ database' = h
        /\ op' = [op EXCEPT ![c].pc = "init", ![c].conn = h]
  BY DEF OpenCreate
<1>3. /\ LockMoves({c}) /\ ReclaimsGoOn /\ UNCHANGED <<epoch, request, reclaim>>
  BY <1>1, LockAtRest
<1>4. /\ Moves(c) /\ op'[c].pc = "init" /\ op'[c].conn = h
      /\ op'[c].kind = "open" /\ op'[c].gen = op[c].gen
  <2>1. "init" \in Pcs
    BY DEF Pcs
  <2>2. DbTypeOK /\ c \in Clients /\ op' = [op EXCEPT ![c].pc = "init", ![c].conn = h]
    BY <1>1, <1>2
  <2>3. /\ Moves(c) /\ op'[c].pc = "init" /\ op'[c].conn = h
        /\ op'[c].kind = op[c].kind /\ op'[c].gen = op[c].gen
    BY <2>1, <2>2, ConnectMoves
  <2> QED BY <1>1, <2>3
<1>5. /\ Current(c) /\ request[c].kind # "read" /\ request[c].st = "held"
      /\ \A d \in Clients \ {c} : ~Current(d)
      /\ \A b \in Clients : ~Stuck(b)
      /\ \A d \in Callers \ {c} : op[d].pc # "freeing"
  <2>1. /\ Current(c) /\ request[c].kind # "read"
        /\ \A d \in Clients \ {c} : ~Current(d)
        /\ \A b \in Clients : ~Stuck(b)
    BY <1>1, HoldsAlone DEF LockingPcs
  <2>2. ASSUME NEW d \in Callers \ {c}, op[d].pc = "freeing" PROVE FALSE
    <3>1. Current(d)
      BY <1>1, <2>2, HoldsAlone
    <3> QED BY <1>1, <2>1, <3>1
  <2> QED BY <1>1, <2>1, <2>2 DEF Held
<1>6. /\ handle' \in [Handles -> Native]
      /\ handle'[h].st = "live" /\ handle'[h].dropped = handle[h].dropped
      /\ \A k \in Handles : handle'[k].gen = handle[k].gen
      /\ \A k \in Handles \ {h} : handle'[k] = handle[k]
  <2> DEFINE n == [handle[h] EXCEPT !.st = "live"]
             m == [n EXCEPT !.readOnly = mismatch]
  <2>1. handle \in [Handles -> Native]
    BY <1>1 DEF DbTypeOK
  <2>2. /\ n \in Native
        /\ n.st = "live" /\ n.gen = handle[h].gen
        /\ n.dropped = handle[h].dropped
    BY <2>1 DEF Native
  <2>3. handle' = [handle EXCEPT ![h] = m]
    BY <1>2, <2>1
  <2> HIDE DEF n
  <2>4. /\ m \in Native
        /\ m.st = "live" /\ m.gen = handle[h].gen
        /\ m.dropped = handle[h].dropped
    BY <2>2 DEF Native
  <2> HIDE DEF m
  <2> QED BY <2>1, <2>3, <2>4
<1>7. /\ database = NoHandle /\ op[h] = NoOp /\ handle[h].gen = 0
      /\ \A k \in Handles : op'[k] = op[k]
  BY <1>1, <1>2, <1>4 DEF ClientOK, OpenOrderly, ModuleOK, HandleKept, Moves
<1>8. ASSUME NEW d \in Clients \ {c}
      PROVE  Served(d, request[d]) /\ TimelySpared(d) /\ HandleSpared(d)
  <2>1. /\ UserSafe(d) /\ FreeingAlone(d) /\ Matched(d) /\ Shape(d) /\ ~Current(d)
    BY <1>1, <1>5 DEF ClientOK
  <2>2. Served(d, request[d]) /\ TimelySpared(d)
    BY <1>1, <1>3 DEF LockMoves, TimelySpared
  <2> DEFINE k == op[d].conn
  <2>3. ASSUME op[d].pc \in UnderLock
        PROVE  handle'[k].st = handle[k].st /\ (Stale(d) => StillDeferred(k))
    <3>1. /\ k \in Handles /\ handle[k].st = "live"
          /\ Stale(d) => op[k].kind = "deferred" /\ op[k].pc \in {"waiting", "gaveUp"}
      BY <2>1, <2>3 DEF UserSafe
    <3> HIDE DEF k
    <3> QED BY <1>2, <1>6, <1>7, <3>1 DEF StillDeferred
  <2>4. ASSUME op[d].pc = "freeing"
        PROVE  handle'[k].st = handle[k].st /\ d \notin Callers
    <3>1. k \in Handles /\ handle[k].st = "closing"
      BY <2>1, <2>4 DEF FreeingAlone
    <3> HIDE DEF k
    <3> QED BY <1>2, <1>5, <1>6, <2>4, <3>1
  <2>5. op[d].kind # "open"
    <3>1. op[d].kind = "open" => d \in Callers
      BY <2>1 DEF Shape, NoOp
    <3> QED BY <1>1, <3>1 DEF ModuleOK, OneOpen
  <2>6. k \in Handles \cup {NoHandle}
    BY <1>1 DEF DbTypeOK
  <2>7. HandleSpared(d)
    BY <1>6, <2>1, <2>3, <2>4, <2>5, <2>6 DEF HandleSpared
  <2> QED BY <2>2, <2>7
<1>9. Current(c)' /\ ~Stale(c)' /\ Opening(c)'
  BY <1>3, <1>4, <1>5 DEF Current, Stale, Held, Opening
<1>10. ClientOK(c)'
  <2>1. Dated(c)
    BY <1>1 DEF ClientOK
  <2>2. Shape(c)' /\ Matched(c)'
    BY <1>1, <1>3, <1>4, <1>5 DEF Shape, Matched, LockingPcs, HoldingPcs, UnderLock
  <2>3. Discardable(c)' /\ Dated(c)' /\ FreeingAlone(c)' /\ OnRequested(c)'
    BY <1>1, <1>4, <1>9, <2>1 DEF Discardable, Dated, FreeingAlone, OnRequested
  <2>4. UserSafe(c)'
    BY <1>2, <1>4, <1>6, <1>9 DEF UserSafe
  <2>5. OpenOrderly(c)'
    BY <1>4, <1>6, <1>7 DEF OpenOrderly
  <2> QED BY <2>2, <2>3, <2>4, <2>5 DEF ClientOK
<1>11. DbTypeOK'
  BY <1>1, <1>2, <1>4, <1>6 DEF DbTypeOK, Moves, Operation, UnchangedSlots
<1>12. \A k \in Handles : HandleKept(k)'
  <2> SUFFICES ASSUME NEW k \in Handles PROVE HandleKept(k)'
    OBVIOUS
  <2>1. HandleKept(k)
    BY <1>1 DEF ModuleOK
  <2> QED BY <1>6, <1>7, <2>1 DEF HandleKept
<1>13. DatabaseKept'
  <2>1. OpenerAtWork'
    BY <1>9 DEF OpenerAtWork
  <2> QED BY <1>2, <1>6, <1>7, <2>1 DEF DatabaseKept
<1>14. StatusKept'
  <2> SUFFICES ASSUME ~SlowOpen, status.state = "open" PROVE FALSE
    BY <1>1 DEF StatusKept
  <2>1. /\ status.handle \in Handles
        /\ database = status.handle \/ \E d \in Callers : Frees(d, status.handle)
    BY <1>1 DEF ModuleOK, StatusKept
  <2> QED BY <1>1, <1>5, <1>7, <2>1 DEF Frees
<1>15. OwnersKept'
  <2>1. OwnersKept
    BY <1>1 DEF ModuleOK
  <2>2. ~handle'[h].dropped
    BY <1>2, <1>6, <2>1 DEF OwnersKept
  <2>3. ASSUME NEW k \in Handles, handle'[k].st = "closing"
        PROVE  \E d \in Clients : Frees(d, k)'
    <3>1. handle[k].st = "closing"
      BY <1>6, <2>3
    <3>2. \E d \in Clients : Frees(d, k)
      BY <2>1, <3>1 DEF OwnersKept
    <3> QED BY <1>1, <1>4, <3>2, FreesGoOn DEF Moves
  <2>4. ASSUME NEW k \in Handles, k # h
        PROVE  /\ handle'[k].st = "live" => op'[k].kind = "deferred" \/ handle'[k].dropped
               /\ handle'[k].dropped => handle'[k].st = "live" /\ op'[k] = NoOp
    <3>1. handle'[k] = handle[k] /\ op'[k] = op[k] /\ database # k
      BY <1>1, <1>6, <1>7, <2>4
    <3> QED BY <2>1, <3>1 DEF OwnersKept
  <2>5. handle'[h].st = "live" => database' = h
    BY <1>2
  <2> QED BY <1>2, <2>2, <2>3, <2>4, <2>5 DEF OwnersKept
<1>16. OutOfSlots(op[c]) /\ OutOfSlots(op'[c]) /\ op'[c].pc # "timedOut"
  BY <1>1, <1>4 DEF OutOfSlots
<1>17. OrderInv'
  BY <1>3 DEF LockMoves
<1> QED BY <1>1, <1>3, <1>4, <1>5, <1>8, <1>10, <1>11, <1>12, <1>13, <1>14, <1>15, <1>16, <1>17, LoudStep

\* An open that fails gives up the database, whether or not it is its own.
LEMMA OpenFailInv ==
    ASSUME DbInv, NEW c \in Callers, OpenFail(c)
    PROVE  DbInv'
<1>1. /\ c \in Clients /\ c \notin Handles /\ NoHandle \notin Handles
      /\ Callers \subseteq Clients /\ Handles \subseteq Clients
      /\ op[c].kind = "open" /\ op[c].pc \in {"locking", "init", "seed", "probe"}
      /\ handle' = [k \in Handles |->
                      IF k = database THEN [handle[k] EXCEPT !.dropped = TRUE] ELSE handle[k]]
      /\ database' = NoHandle
      /\ status' = [state |-> "error", handle |-> NoHandle, readOnly |-> FALSE]
      /\ Return(c) /\ Release(c) /\ UNCHANGED generation /\ UnchangedSlots
      /\ OrderInv /\ DbTypeOK /\ ModuleOK /\ database \in Handles \cup {NoHandle}
      /\ \A d \in Clients : ClientOK(d)
  BY DbAssumption DEF OpenFail, Opening, DbInv, DbTypeOK
<1>2. /\ NextEvent \/ \A b \in Clients : ~Stuck(b)
      /\ database # NoHandle => \A d \in Clients \ {c} : ~Current(d)
  <2>1. CASE op[c].pc = "locking"
    <3>1. database = NoHandle /\ Held(c)
      BY <1>1, <2>1 DEF ClientOK, OpenOrderly, OpenFail, Opening
    <3> QED BY <1>1, <2>1, <3>1, HoldsAlone DEF LockingPcs
  <2>2. CASE op[c].pc \in {"init", "seed", "probe"}
    <3>1. NextEvent
      BY <2>2 DEF OpenFail
    <3>2. /\ Held(c) /\ request[c].kind # "read"
          /\ database # NoHandle => ~Stale(c)
      BY <1>1, <2>2 DEF ClientOK, Matched, HoldingPcs, UnderLock, Discardable, Held
    <3>3. database # NoHandle => Current(c)
      BY <3>2 DEF Current, Stale
    <3> QED BY <1>1, <3>1, <3>2, <3>3, WriterAlone
  <2> QED BY <1>1, <2>1, <2>2
<1>3. /\ LockMoves({c}) /\ ReclaimsGoOn /\ UNCHANGED epoch /\ request'[c].st = "idle"
  BY <1>1, ReleaseMoves
<1>4. Moves(c) /\ op'[c] = NoOp
  BY <1>1, ReturnMoves
<1>5. \A k \in Handles : op'[k] = op[k]
  BY <1>1, <1>4 DEF Moves
\* Only what the properties are told of the database changes.
<1>14. /\ handle' \in [Handles -> Native]
       /\ \A k \in Handles : /\ handle'[k].st = handle[k].st /\ handle'[k].gen = handle[k].gen
                             /\ handle'[k].dropped = (k = database \/ handle[k].dropped)
  <2>1. handle \in [Handles -> Native]
    BY <1>1 DEF DbTypeOK
  <2>2. ASSUME NEW k \in Handles
        PROVE  /\ handle'[k] \in Native
               /\ handle'[k].st = handle[k].st /\ handle'[k].gen = handle[k].gen
               /\ handle'[k].dropped = (k = database \/ handle[k].dropped)
    <3>1. handle[k] \in Native /\ handle[k].dropped \in BOOLEAN
      BY <2>1 DEF Native
    <3>2. CASE k = database
      <4>1. handle'[k] = [handle[k] EXCEPT !.dropped = TRUE]
        BY <1>1, <3>2
      <4> QED BY <3>1, <3>2, <4>1 DEF Native
    <3>3. CASE k # database
      BY <1>1, <3>1, <3>3
    <3> QED BY <3>2, <3>3
  <2> QED BY <1>1, <2>2
<1>6. ASSUME NEW d \in Clients \ {c}
      PROVE  Served(d, request[d]) /\ TimelySpared(d) /\ HandleSpared(d)
  <2>1. UserSafe(d) /\ FreeingAlone(d) /\ op[d].conn \in Handles \cup {NoHandle}
    BY <1>1 DEF ClientOK, DbTypeOK
  <2>2. Served(d, request[d]) /\ TimelySpared(d)
    BY <1>1, <1>3 DEF LockMoves, TimelySpared
  <2> DEFINE k == op[d].conn
  <2>3. ASSUME op[d].pc \in UnderLock, Stale(d) PROVE StillDeferred(k)
    <3>1. k \in Handles /\ op[k].kind = "deferred" /\ op[k].pc \in {"waiting", "gaveUp"}
      BY <2>1, <2>3 DEF UserSafe
    <3> QED BY <1>5, <3>1 DEF StillDeferred
  <2>4. Current(d) => database' = database
    BY <1>1, <1>2
  <2>5. (op[d].pc = "freeing" /\ d \in Callers) => op'[k] = op[k] /\ database' = database
    BY <1>1, <1>5, <2>1 DEF FreeingAlone
  <2>6. /\ op[d].pc \in UnderLock \cup {"freeing"} => k \in Handles
        /\ Opening(d) => k \in Handles
    BY <2>1 DEF UserSafe, FreeingAlone, Opening, UnderLock
  <2>7. HandleSpared(d)
    BY <1>1, <1>14, <2>1, <2>3, <2>4, <2>5, <2>6 DEF HandleSpared
  <2> QED BY <2>2, <2>7
<1>7. DbTypeOK'
  BY <1>1, <1>4, <1>14 DEF DbTypeOK, Moves, Operation, UnchangedSlots
<1>8. ClientOK(c)'
  BY <1>1, <1>3, <1>4, <1>7, IdleOK
<1>9. \A k \in Handles : HandleKept(k)'
  BY <1>1, <1>5, <1>14 DEF ModuleOK, HandleKept
<1>10. DatabaseKept' /\ StatusKept'
  BY <1>1 DEF DatabaseKept, StatusKept
<1>11. OwnersKept'
  <2>1. OwnersKept /\ DatabaseKept
    BY <1>1 DEF ModuleOK
  <2>2. ASSUME NEW k \in Handles, handle'[k].st = "closing"
        PROVE  \E d \in Clients : Frees(d, k)'
    <3>1. \E d \in Clients : Frees(d, k)
      BY <1>14, <2>1, <2>2 DEF OwnersKept
    <3> QED BY <1>1, <1>4, <3>1, FreesGoOn DEF Moves
  <2>3. ASSUME NEW k \in Handles, k = database
        PROVE  handle'[k].st = "live" /\ handle'[k].dropped /\ database' # k /\ op'[k] = NoOp
    BY <1>1, <1>5, <1>14, <2>1, <2>3 DEF DatabaseKept
  <2> QED BY <1>1, <1>5, <1>14, <2>1, <2>2, <2>3 DEF OwnersKept
<1>12. /\ OutOfSlots(op[c]) /\ OutOfSlots(op'[c]) /\ op'[c].pc # "timedOut"
       /\ op'[c].kind # "open"
  BY <1>1, <1>4 DEF OutOfSlots, NoOp
<1>13. OrderInv'
  BY <1>3 DEF LockMoves
<1> QED BY <1>1, <1>2, <1>3, <1>4, <1>6, <1>7, <1>8, <1>9, <1>10, <1>11, <1>12, <1>13, LoudStep

\* The database is published in its generation, or what a close() abandoned is.
LEMMA OpenPublishInv ==
    ASSUME DbInv, NEW c \in Callers, OpenPublish(c)
    PROVE  DbInv'
<1> DEFINE h == op[c].conn
<1>1. /\ c \in Clients /\ c \notin Handles /\ NoHandle \notin Handles
      /\ Callers \subseteq Clients /\ Handles \subseteq Clients
      /\ op[c].kind = "open" /\ op[c].pc = "probe" /\ NextEvent
      /\ status' = [state |-> "open", handle |-> h, readOnly |-> handle[h].readOnly]
      /\ handle' = [handle EXCEPT ![h].gen = generation + 1]
      /\ generation' = generation + 1
      /\ Return(c) /\ Release(c) /\ UNCHANGED database /\ UnchangedSlots
      /\ OrderInv /\ DbTypeOK /\ ModuleOK /\ generation \in Nat
      /\ \A d \in Clients : ClientOK(d)
  BY DbAssumption DEF OpenPublish, At, DbInv, DbTypeOK
<1>2. /\ Opening(c) /\ h \in Handles /\ handle[h].st = "live" /\ handle[h].gen = 0
      /\ Current(c) => database = h /\ \A d \in Clients \ {c} : ~Current(d)
      /\ ~Current(c) => SlowOpen /\ database = NoHandle
  <2>1. Opening(c) /\ UserSafe(c) /\ OpenOrderly(c) /\ Matched(c) /\ Discardable(c)
    BY <1>1 DEF ClientOK, Opening
  <2>2. Held(c) /\ request[c].kind # "read"
    BY <1>1, <2>1 DEF Matched, HoldingPcs, UnderLock, Held
  <2>3. ~Current(c) => SlowOpen /\ database = NoHandle
    BY <1>1, <2>1, <2>2 DEF Discardable, Current, Stale
  <2>4. /\ h \in Handles /\ handle[h].st = "live" /\ handle[h].gen = 0
        /\ Current(c) => database = h
    BY <1>1, <2>1 DEF UserSafe, OpenOrderly, UnderLock
  <2> QED BY <1>1, <2>1, <2>2, <2>3, <2>4, WriterAlone
<1> HIDE DEF h
<1>3. /\ LockMoves({c}) /\ ReclaimsGoOn /\ UNCHANGED epoch /\ request'[c].st = "idle"
  BY <1>1, ReleaseMoves
<1>4. Moves(c) /\ op'[c] = NoOp
  BY <1>1, ReturnMoves
<1>5. \A k \in Handles : op'[k] = op[k]
  BY <1>1, <1>4 DEF Moves
<1>6. /\ handle' \in [Handles -> Native]
      /\ handle'[h].gen = generation + 1
      /\ \A k \in Handles : /\ handle'[k].st = handle[k].st
                            /\ handle'[k].dropped = handle[k].dropped
      /\ \A k \in Handles \ {h} : handle'[k] = handle[k]
  <2>1. handle \in [Handles -> Native]
    BY <1>1 DEF DbTypeOK
  <2> QED BY <1>1, <1>2, <2>1 DEF Native
<1>7. ASSUME NEW d \in Clients \ {c}
      PROVE  Served(d, request[d]) /\ TimelySpared(d) /\ HandleSpared(d)
  <2>1. UserSafe(d) /\ FreeingAlone(d) /\ OnRequested(d) /\ Shape(d)
    BY <1>1 DEF ClientOK
  <2>2. Served(d, request[d])
    BY <1>3 DEF LockMoves
  <2> DEFINE k == op[d].conn
  <2>3. k \in Handles \cup {NoHandle}
    BY <1>1 DEF DbTypeOK
  <2>4. TimelySpared(d)
    <3> SUFFICES ASSUME Current(d), op[d].pc = "executing" PROVE FALSE
      BY <1>1, <1>3 DEF TimelySpared
    <3>1. database \in Handles
      BY <2>1 DEF UserSafe, UnderLock
    <3> QED BY <1>1, <1>2, <3>1
  <2>5. ASSUME op[d].pc \in UnderLock
        PROVE  handle'[k].st = handle[k].st /\ (Stale(d) => StillDeferred(k))
    <3>1. /\ k \in Handles
          /\ Stale(d) => op[k].kind = "deferred" /\ op[k].pc \in {"waiting", "gaveUp"}
      BY <2>1, <2>5 DEF UserSafe
    <3> HIDE DEF k
    <3> QED BY <1>5, <1>6, <3>1 DEF StillDeferred
  <2>6. ASSUME op[d].pc = "freeing"
        PROVE  handle'[k].st = handle[k].st /\ op'[k] = op[k]
    <3>1. k \in Handles
      BY <2>1, <2>6 DEF FreeingAlone
    <3> HIDE DEF k
    <3> QED BY <1>5, <1>6, <3>1
  <2>7. ASSUME op[d].kind \in StatementKinds, k # NoHandle
        PROVE  handle'[k].gen = handle[k].gen
    <3>1. handle[k].gen = op[d].gen /\ op[d].gen > 0
      BY <2>1, <2>7 DEF OnRequested, StatementKinds
    <3>2. k # h /\ k \in Handles
      BY <1>2, <2>3, <2>7, <3>1
    <3> HIDE DEF k
    <3> QED BY <1>6, <3>2
  <2>8. op[d].kind # "open"
    <3>1. op[d].kind = "open" => d \in Callers
      BY <2>1 DEF Shape, NoOp
    <3> QED BY <1>1, <3>1 DEF ModuleOK, OneOpen
  <2>9. HandleSpared(d)
    BY <1>1, <2>5, <2>6, <2>7, <2>8 DEF HandleSpared
  <2> QED BY <2>2, <2>4, <2>9
<1>8. DbTypeOK'
  <2>1. handle[h].readOnly \in BOOLEAN
    BY <1>1, <1>2 DEF DbTypeOK, Native
  <2>2. status' \in [state: {"closed", "open", "error"},
                     handle: Handles \cup {NoHandle}, readOnly: BOOLEAN]
    BY <1>1, <1>2, <2>1 DEF h
  <2> QED BY <1>1, <1>4, <1>6, <2>2 DEF DbTypeOK, Moves, Operation, UnchangedSlots
<1>9. ClientOK(c)'
  BY <1>1, <1>3, <1>4, <1>8, IdleOK
<1>10. \A k \in Handles : HandleKept(k)'
  <2> SUFFICES ASSUME NEW k \in Handles PROVE HandleKept(k)'
    OBVIOUS
  <2>1. HandleKept(k)
    BY <1>1 DEF ModuleOK
  <2> QED BY <1>2, <1>5, <1>6, <2>1 DEF HandleKept
<1>11. DatabaseKept'
  <2> SUFFICES ASSUME database # NoHandle
               PROVE  /\ handle'[database].st = "live" /\ op'[database] = NoOp
                      /\ handle'[database].gen = generation' /\ generation' > 0
    BY <1>1 DEF DatabaseKept
  <2>1. database = h /\ op[h] = NoOp
    BY <1>1, <1>2 DEF ModuleOK, DatabaseKept
  <2> QED BY <1>1, <1>2, <1>5, <1>6, <2>1
<1>12. StatusKept'
  <2>1. ~SlowOpen => database' = h
    BY <1>1, <1>2
  <2>2. status'.handle = h
    BY <1>1 DEF h
  <2> QED BY <1>2, <2>1, <2>2 DEF StatusKept
<1>13. OwnersKept'
  <2>1. OwnersKept
    BY <1>1 DEF ModuleOK
  <2>2. ASSUME NEW k \in Handles, handle'[k].st = "closing"
        PROVE  \E d \in Clients : Frees(d, k)'
    <3>1. \E d \in Clients : Frees(d, k)
      BY <1>6, <2>1, <2>2 DEF OwnersKept
    <3> QED BY <1>1, <1>4, <3>1, FreesGoOn DEF Moves
  <2> QED BY <1>1, <1>5, <1>6, <2>1, <2>2 DEF OwnersKept
<1>14. /\ OutOfSlots(op[c]) /\ OutOfSlots(op'[c]) /\ op'[c].pc # "timedOut"
       /\ op'[c].kind # "open"
  BY <1>1, <1>4 DEF OutOfSlots, NoOp
<1>15. OrderInv'
  BY <1>3 DEF LockMoves
<1> QED BY <1>1, <1>3, <1>4, <1>7, <1>8, <1>9, <1>10, <1>11, <1>12, <1>13, <1>14, <1>15, LoudStep

-----------------------------------------------------------------------------
(***************************************************************************)
(* close() that gave up: everybody who holds the lock is discarded.        *)
(***************************************************************************)
\* Whoever holds the lock when the close resets it is a reader, or is the holder
\* the close could not wait for.
LEMMA DiscardedHolder ==
    ASSUME DbInv, NEW c \in Callers, op[c].pc = "timedOut", NEW d \in Clients, Current(d)
    PROVE  \/ op[d].kind = "read"
           \/ op[d].pc \in {"executing", "committing", "rollingBack"}
           \/ d \in Handles /\ op[d].pc = "freeing"
           \/ Opening(d) /\ SlowOpen
<1>1. /\ OrderInv /\ TimedOutBlocked
      /\ \A x \in Clients : Shape(x) /\ Matched(x)
  BY DEF DbInv, ModuleOK, ClientOK
<1>2. PICK b \in Clients : Stuck(b)
  BY <1>1 DEF TimedOutBlocked
<1>3. CASE d = b
  BY <1>1, <1>2, <1>3 DEF Stuck, Shape, NoOp
<1>4. CASE d # b
  <2>1. Current(b) /\ request[d].kind = "read"
    BY <1>1, <1>2, <1>4, WriterAlone DEF Stuck
  <2> QED BY <1>1, <2>1 DEF Matched, Current, Held
<1> QED BY <1>3, <1>4

\* The reset makes everybody who holds the lock stale, and nobody else.
LEMMA EverybodyDiscarded ==
    ASSUME OrderInv, OrderInv', epoch' = epoch + 1, NEW d \in Clients, Served(d, request[d])
    PROVE  /\ request'[d].st = "idle" <=> request[d].st = "idle"
           /\ request[d].st # "idle" => request'[d].kind = request[d].kind
           /\ Held(d) => request'[d] = request[d] /\ request[d].epoch <= epoch
           /\ Stale(d)' <=> Held(d)
           /\ Current(d)' => request[d].st = "queued"
           /\ request[d].st = "queued" => request'[d].st \in {"queued", "held"}
<1>1. /\ epoch \in Nat /\ request[d] \in Request /\ request'[d] \in Request
      /\ Held(d) => request[d].epoch <= epoch /\ request[d].epoch \in Nat
  BY DEF OrderInv, LockInv, Consistent, HoldersExact, Request, Held
<1>2. CASE request'[d] = request[d]
  BY <1>1, <1>2 DEF Current, Stale, Held, Request
<1>3. CASE request'[d] # request[d]
  BY <1>1, <1>3 DEF Served, Current, Stale, Held, Request
<1> QED BY <1>2, <1>3

LEMMA CloseAbandonInv ==
    ASSUME DbInv, NEW c \in Callers, CloseAbandon(c)
    PROVE  DbInv'
<1> DEFINE waiting == [kind |-> "deferred", pc |-> "waiting", gen |-> 0, conn |-> NoHandle]
<1>1. /\ c \in Clients /\ c \notin Handles /\ NoHandle \notin Clients
      /\ Callers \subseteq Clients /\ Handles \subseteq Clients /\ Callers \cap Handles = {}
      /\ Clients = Callers \cup Handles /\ Reclaimers = Handles
      /\ op[c].kind \in {"close", "open"} /\ op[c].pc = "timedOut"
      /\ database' = NoHandle /\ status' = ClosedStatus /\ generation' = generation + 1
      /\ ResetAndAwait(database) /\ UNCHANGED handle /\ UnchangedSlots
      /\ OrderInv /\ DbTypeOK /\ ModuleOK /\ generation \in Nat
      /\ database \in Handles \cup {NoHandle} /\ database # c
      /\ \A d \in Clients : ClientOK(d)
  BY DbAssumption DEF CloseAbandon, At, DbInv, DbTypeOK
<1>2. /\ OrderInv' /\ epoch' = epoch + 1
      /\ \A d \in Clients : Served(d, request[d])
      /\ \A w \in Reclaimers \ {database} : reclaim'[w] = reclaim[w]
      /\ database # NoHandle => /\ reclaim'[database].epoch = epoch + 1
                                /\ reclaim'[database].st \in {"waiting", "resolved"}
  BY <1>1, ResetAndAwaitMoves DEF LockMoves
<1>3. /\ op'[c] = AfterClose(c)
      /\ database # NoHandle => op'[database] = waiting
      /\ \A d \in Clients \ {c, database} : op'[d] = op[d]
  BY <1>1 DEF CloseAbandon
<1>4. /\ waiting \in Operation /\ waiting.kind = "deferred" /\ waiting.pc = "waiting"
      /\ waiting.conn = NoHandle
  BY DEF Operation, Pcs
<1>5. op' \in [Clients -> Operation]
  <2>1. op' = [d \in Clients |-> op'[d]]
    BY DEF CloseAbandon
  <2> HIDE DEF waiting
  <2>2. ASSUME NEW d \in Clients PROVE op'[d] \in Operation
    <3>1. op[d] \in Operation /\ AfterClose(c) \in Operation
      BY <1>1, AfterCloseMoves DEF DbTypeOK, Operation
    <3>2. op'[d] \in {op[d], AfterClose(c), waiting}
      BY <1>1, <1>3, <2>2
    <3> QED BY <1>4, <3>1, <3>2
  <2> QED BY <2>1, <2>2
<1> HIDE DEF waiting
<1>6. DbTypeOK'
  BY <1>1, <1>5 DEF DbTypeOK, Operation, UnchangedSlots, ClosedStatus
<1>7. database # NoHandle => op[database] = NoOp /\ handle[database].st = "live"
  BY <1>1 DEF ModuleOK, DatabaseKept
<1>8. /\ ClientOK(c)' /\ OutOfSlots(op[c]) /\ OutOfSlots(op'[c]) /\ op'[c].pc # "timedOut"
      /\ op'[c].kind = "open" => op[c].kind = "open"
  <2>1. request[c].st = "idle"
    BY <1>1 DEF ClientOK, Matched, LockingPcs, HoldingPcs, UnderLock
  <2>2. request'[c].st = "idle"
    BY <1>1, <1>2, <2>1 DEF Served
  <2> QED BY <1>1, <1>3, <1>6, <2>2, AfterCloseOK
\* The handle that was abandoned waits for those who were discarded.
<1>9. ASSUME NEW h \in Handles, h = database PROVE ClientOK(h)'
  <2>1. op[h].pc = "idle" /\ h \in Clients /\ h # NoHandle
    BY <1>1, <1>7, <1>9 DEF NoOp
  <2>2. request[h].st = "idle"
    BY <1>1, <2>1 DEF ClientOK, Matched, LockingPcs, HoldingPcs, UnderLock
  <2>3. request'[h].st = "idle"
    BY <1>2, <2>1, <2>2 DEF Served
  <2>4. op'[h].kind = "deferred" /\ op'[h].pc = "waiting"
    BY <1>3, <1>4, <1>9, <2>1
  <2>5. Shape(h)' /\ Matched(h)' /\ Discardable(h)' /\ Dated(h)'
    BY <1>1, <2>1, <2>3, <2>4
       DEF Shape, Matched, Discardable, Dated, LockingPcs, HoldingPcs, UnderLock, Stale, Held
  <2>6. UserSafe(h)' /\ FreeingAlone(h)' /\ OnRequested(h)' /\ OpenOrderly(h)'
    BY <2>4 DEF UserSafe, FreeingAlone, OnRequested, OpenOrderly, UnderLock
  <2> QED BY <2>5, <2>6 DEF ClientOK
<1>10. ASSUME NEW d \in Clients \ {c, database} PROVE ClientOK(d)'
  <2> DEFINE h == op[d].conn
  <2>1. /\ Shape(d) /\ Matched(d) /\ Discardable(d) /\ Dated(d)
        /\ UserSafe(d) /\ FreeingAlone(d) /\ OnRequested(d) /\ OpenOrderly(d)
        /\ op'[d] = op[d]
    BY <1>1, <1>3 DEF ClientOK
  <2>2. /\ request'[d].st = "idle" <=> request[d].st = "idle"
        /\ request[d].st # "idle" => request'[d].kind = request[d].kind
        /\ Held(d) => request'[d] = request[d] /\ request[d].epoch <= epoch
        /\ Stale(d)' <=> Held(d)
        /\ Current(d)' => request[d].st = "queued"
        /\ request[d].st = "queued" => request'[d].st \in {"queued", "held"}
    BY <1>1, <1>2, EverybodyDiscarded
  <2>3. Shape(d)'
    BY <2>1 DEF Shape, NoOp
  <2>4. Matched(d)'
    BY <2>1, <2>2 DEF Matched, LockingPcs, HoldingPcs, UnderLock, Held
  <2>5. Discardable(d)'
    <3>1. CASE Stale(d)
      BY <1>1, <2>1, <3>1 DEF Discardable, Opening
    <3>2. CASE Current(d)
      <4>1. \/ op[d].kind = "read"
            \/ op[d].pc \in {"executing", "committing", "rollingBack"}
            \/ d \in Handles /\ op[d].pc = "freeing"
            \/ Opening(d) /\ SlowOpen
        BY <1>1, <3>2, DiscardedHolder
      <4> QED BY <1>1, <2>1, <4>1 DEF Discardable, Opening
    <3>3. Held(d) => Stale(d) \/ Current(d)
      BY DEF Stale, Current
    <3> QED BY <2>2, <3>1, <3>2, <3>3 DEF Discardable
  <2>6. Dated(d)'
    <3>1. d \in Callers => op[d].gen <= generation
      BY <2>1 DEF Dated
    <3>2. op[d].gen \in Nat
      BY <1>1 DEF DbTypeOK
    <3>3. d \in Callers => op'[d].gen <= generation' /\ op'[d].gen < generation'
      BY <1>1, <2>1, <3>1, <3>2
    <3>4. Current(d)' => op'[d].pc # "executing"
      BY <2>1, <2>2 DEF Matched, HoldingPcs, UnderLock
    <3> QED BY <3>3, <3>4 DEF Dated
  <2>7. UserSafe(d)'
    <3> SUFFICES ASSUME op[d].pc \in UnderLock
                 PROVE  /\ h \in Handles /\ handle[h].st = "live" /\ ~Current(d)'
                        /\ op'[h].kind = "deferred" /\ op'[h].pc \in {"waiting", "gaveUp"}
                        /\ reclaim'[h].st = "waiting" /\ request'[d].epoch < reclaim'[h].epoch
      BY <1>1, <2>1 DEF UserSafe
    <3>1. /\ h \in Handles /\ handle[h].st = "live" /\ Held(d)
          /\ Current(d) => database = h
          /\ Stale(d) => /\ op[h].kind = "deferred" /\ op[h].pc \in {"waiting", "gaveUp"}
                         /\ reclaim[h].st = "waiting"
                         /\ request[d].epoch < reclaim[h].epoch
      BY <2>1 DEF UserSafe, Matched, HoldingPcs, Held
    <3>2. /\ ~Current(d)' /\ request'[d] = request[d] /\ request[d].epoch <= epoch
          /\ epoch \in Nat /\ request[d].epoch \in Nat
      BY <1>1, <2>2, <3>1 DEF Held, OrderInv, LockInv, Consistent, Request
    <3> HIDE DEF h
    <3>3. CASE Current(d)
      <4>1. /\ op'[h].kind = "deferred" /\ op'[h].pc = "waiting"
            /\ reclaim'[h].epoch = epoch + 1 /\ reclaim'[h].st \in {"waiting", "resolved"}
        BY <1>1, <1>2, <1>3, <1>4, <3>1, <3>3
      <4>2. request'[d].epoch < reclaim'[h].epoch
        BY <3>2, <4>1
      <4>3. reclaim'[h].st = "resolved" => request'[d].epoch >= reclaim'[h].epoch
        BY <1>1, <1>2, <3>1, <3>2 DEF OrderInv, LockInv, ReclaimIsSafe, Held
      <4>4. reclaim'[h].st = "waiting"
        BY <3>2, <4>1, <4>2, <4>3
      <4> QED BY <3>1, <3>2, <4>1, <4>2, <4>4
    <3>4. CASE ~Current(d)
      <4>1. Stale(d)
        BY <3>1, <3>4 DEF Stale, Current
      <4>2. h # database /\ h # c
        BY <1>1, <1>7, <3>1, <4>1 DEF NoOp
      <4>3. op'[h] = op[h] /\ reclaim'[h] = reclaim[h]
        BY <1>1, <1>2, <1>3, <3>1, <4>2
      <4> QED BY <3>1, <3>2, <4>1, <4>3
    <3> QED BY <3>3, <3>4
  <2>8. FreeingAlone(d)'
    <3> SUFFICES ASSUME op[d].pc = "freeing"
                 PROVE  /\ h \in Handles /\ handle[h].st = "closing"
                        /\ d \in Callers => op'[h] = NoOp
                        /\ d \in Handles => h = d
      BY <1>1, <2>1 DEF FreeingAlone
    <3>1. /\ h \in Handles /\ handle[h].st = "closing"
          /\ d \in Callers => op[h] = NoOp /\ database = NoHandle
          /\ d \in Handles => h = d
      BY <2>1 DEF FreeingAlone
    <3> HIDE DEF h
    <3>2. d \in Callers => op'[h] = op[h]
      BY <1>1, <1>3, <3>1
    <3> QED BY <3>1, <3>2
  <2>9. OnRequested(d)' /\ OpenOrderly(d)'
    BY <1>1, <2>1 DEF OnRequested, OpenOrderly, Opening
  <2> QED BY <2>3, <2>4, <2>5, <2>6, <2>7, <2>8, <2>9 DEF ClientOK
<1>11. \A d \in Clients : ClientOK(d)'
  BY <1>1, <1>8, <1>9, <1>10
<1>12. \A d \in Callers \ {c} : op'[d] = op[d]
  BY <1>1, <1>3
<1>13. ASSUME NEW h \in Handles PROVE HandleKept(h)'
  <2>1. HandleKept(h) /\ h # c
    BY <1>1 DEF ModuleOK
  <2>2. CASE h = database
    BY <1>1, <1>3, <1>4, <1>7, <2>2 DEF HandleKept
  <2>3. CASE h # database
    BY <1>1, <1>3, <2>1, <2>3 DEF HandleKept
  <2> QED BY <2>2, <2>3
<1>14. DatabaseKept' /\ StatusKept'
  BY <1>1 DEF DatabaseKept, StatusKept, ClosedStatus
<1>15. OneOpen'
  BY <1>1, <1>8, <1>12 DEF ModuleOK, OneOpen
<1>16. SlotsCounted'
  <2>1. ASSUME NEW d \in Clients
        PROVE  op'[d] = op[d] \/ (OutOfSlots(op[d]) /\ OutOfSlots(op'[d]))
    <3>1. CASE d = c
      BY <1>8, <3>1
    <3>2. CASE d = database
      BY <1>1, <1>3, <1>4, <1>7, <2>1, <3>2 DEF OutOfSlots, NoOp
    <3>3. CASE d # c /\ d # database
      BY <1>3, <3>3
    <3> QED BY <3>1, <3>2, <3>3
  <2> QED BY <1>1, <2>1, SlotsUntouched DEF ModuleOK, DbTypeOK
<1>17. TimedOutBlocked'
  <2>1. \A d \in Callers \ {c} : op[d].pc # "timedOut"
    BY <1>1 DEF ModuleOK, TimedOutBlocked
  <2> QED BY <1>8, <1>12, <2>1 DEF TimedOutBlocked
<1>18. OwnersKept'
  <2> SUFFICES ASSUME NEW h \in Handles
               PROVE  /\ handle[h].st = "live" => op'[h].kind = "deferred" \/ handle[h].dropped
                      /\ handle[h].st = "closing" => \E d \in Clients : Frees(d, h)'
                      /\ handle[h].dropped => handle[h].st = "live" /\ op'[h] = NoOp
    BY <1>1 DEF OwnersKept
  <2>1. /\ handle[h].st = "live" => database = h \/ op[h].kind = "deferred" \/ handle[h].dropped
        /\ handle[h].st = "closing" => \E d \in Clients : Frees(d, h)
        /\ handle[h].dropped => handle[h].st = "live" /\ database # h /\ op[h] = NoOp
    BY <1>1 DEF ModuleOK, OwnersKept
  <2>2. ASSUME NEW d \in Clients, Frees(d, h) PROVE Frees(d, h)'
    <3>1. d # c /\ d # database
      BY <1>1, <1>7, <2>2 DEF Frees, NoOp
    <3>2. op'[d] = op[d]
      BY <1>3, <3>1
    <3> QED BY <2>2, <3>2 DEF Frees
  <2>3. h # c /\ h \in Clients
    BY <1>1
  <2> QED BY <1>1, <1>3, <1>4, <2>1, <2>2, <2>3
<1> QED BY <1>2, <1>6, <1>11, <1>13, <1>14, <1>15, <1>16, <1>17, <1>18 DEF DbInv, ModuleOK

-----------------------------------------------------------------------------
(***************************************************************************)
(* The module.                                                             *)
(***************************************************************************)
LEMMA DbInitInv == DbInit => DbInv
<1> SUFFICES ASSUME DbInit PROVE DbInv
  OBVIOUS
<1>1. /\ OrderInv /\ NoHandle \notin Handles
      /\ \A c \in Clients : /\ op[c] = NoOp /\ request[c].st = "idle"
                            /\ op[c].kind = "none" /\ op[c].pc = "idle" /\ op[c].gen = 0
                            /\ op[c].conn = NoHandle
      /\ Callers \subseteq Clients /\ Handles \subseteq Clients
      /\ database = NoHandle /\ generation = 0 /\ slotsActive = 0 /\ slotQueue = <<>>
      /\ handle = [h \in Handles |-> NoNative] /\ status = ClosedStatus
  BY OrderInitInv, DbAssumption DEF DbInit, NoOp, LockInit, NoRequest
<1>2. DbTypeOK
  <2>1. handle \in [Handles -> Native]
    BY <1>1 DEF NoNative, Native
  <2>2. op \in [Clients -> Operation]
    <3>1. NoOp \in Operation
      BY DEF NoOp, Operation, Pcs
    <3> QED BY <3>1 DEF DbInit
  <2>3. slotQueue \in Seq(Callers)
    BY <1>1
  <2> QED BY <1>1, <2>1, <2>2, <2>3 DEF DbTypeOK, Operation, ClosedStatus
<1>3. \A c \in Clients : ClientOK(c)
  <2> SUFFICES ASSUME NEW c \in Clients PROVE ClientOK(c)
    OBVIOUS
  <2>1. ~Held(c) /\ ~Current(c) /\ ~Stale(c)
    BY <1>1 DEF Held, Current, Stale
  <2>2. Shape(c) /\ Matched(c) /\ Discardable(c) /\ Dated(c)
    BY <1>1, <2>1 DEF Shape, Matched, Discardable, Dated, LockingPcs, HoldingPcs, UnderLock
  <2>3. UserSafe(c) /\ FreeingAlone(c) /\ OnRequested(c) /\ OpenOrderly(c)
    BY <1>1 DEF UserSafe, FreeingAlone, OnRequested, OpenOrderly, UnderLock
  <2> QED BY <2>2, <2>3 DEF ClientOK
<1>4. \A h \in Handles : HandleKept(h) /\ handle[h].st = "unborn" /\ ~handle[h].dropped
  BY <1>1 DEF HandleKept, NoNative
<1>5. SlotsCounted
  <2>1. SlotHolders = {} /\ Cardinality({}) = 0
    BY <1>1, FS_EmptySet DEF SlotHolders
  <2> QED BY <1>1, <2>1 DEF SlotsCounted
<1>6. DatabaseKept /\ OneOpen /\ TimedOutBlocked /\ StatusKept /\ OwnersKept
  BY <1>1, <1>4
     DEF DatabaseKept, OneOpen, TimedOutBlocked, StatusKept, OwnersKept, ClosedStatus
<1> QED BY <1>1, <1>2, <1>3, <1>4, <1>5, <1>6 DEF DbInv, ModuleOK

LEMMA DbStutterInv == DbInv /\ UNCHANGED allVars => DbInv'
<1> SUFFICES ASSUME DbInv, UNCHANGED allVars PROVE DbInv'
  OBVIOUS
<1>1. UNCHANGED lockVars /\ UNCHANGED dbVars
  BY DEF allVars
<1>2. /\ UNCHANGED <<request, epoch, reclaim>>
      /\ UNCHANGED <<handle, database, status, generation, op, slotsActive, slotQueue>>
  BY <1>1 DEF lockVars, dbVars
<1>3. OrderInv' /\ DbTypeOK'
  BY <1>1, <1>2, OrderStepInv DEF DbInv, DbTypeOK
<1>4. \A c \in Clients : ClientOK(c)'
  BY <1>2 DEF DbInv, ClientOK, Shape, Matched, Discardable, Dated, UserSafe, FreeingAlone,
              OnRequested, OpenOrderly, Stale, Current, Held, Opening
<1>5. (\A h \in Handles : HandleKept(h)') /\ DatabaseKept' /\ OneOpen' /\ StatusKept' /\ OwnersKept'
  BY <1>2 DEF DbInv, ModuleOK, HandleKept, DatabaseKept, OpenerAtWork, OneOpen, StatusKept,
              Frees, OwnersKept, Current, Held, Opening
<1>6. SlotsCounted' /\ TimedOutBlocked'
  BY <1>2 DEF DbInv, ModuleOK, SlotsCounted, SlotHolders, Woken, TimedOutBlocked, Stuck,
              Current, Held, Opening
<1> QED BY <1>3, <1>4, <1>5, <1>6 DEF DbInv, ModuleOK

\* Every step, when no native close outlasts the budget of another close().
LEMMA DbStepInv == DbInv /\ ~SlowClose /\ [DbNext]_allVars => DbInv'
<1> SUFFICES ASSUME DbInv, ~SlowClose, [DbNext]_allVars PROVE DbInv'
  OBVIOUS
<1>1. ASSUME NEW c \in Callers, Requests(c) PROVE DbInv'
  BY <1>1, RequestInv
<1>2. ASSUME NEW c \in Callers, StatementStep(c) PROVE DbInv'
  BY <1>2, TakeSlotInv, AwaitSlotInv, FinishReadInv, RunExclusiveInv, SupersededInv, FinishWriteInv
     DEF StatementStep
<1>3. ASSUME NEW c \in Callers, TxnEnd(c) PROVE DbInv'
  BY <1>3, CommitInv, CommittedInv, CommitSupersededInv, RolledBackInv DEF TxnEnd
<1>4. ASSUME NEW c \in Callers, CloseTimeout(c) PROVE DbInv'
  BY <1>4, CloseTimeoutInv
<1>5. ASSUME NEW c \in Callers, CloseStep(c) PROVE DbInv'
  BY <1>5, CloseAbandonInv, CloseNativeInv, CloseDoneInv DEF CloseStep
<1>6. ASSUME NEW c \in Callers, OpenStep(c) PROVE DbInv'
  BY <1>6, ReopenInv, OpenCreateInv, OpenPhaseInv, OpenFailInv, OpenPublishInv DEF OpenStep
<1>7. ASSUME NEW h \in Handles, DeferredStep(h) \/ DeferredGiveUp(h) PROVE DbInv'
  BY <1>7, DeferredInv, DeferredFreeInv DEF DeferredStep
<1>8. CASE UNCHANGED allVars
  BY <1>8, DbStutterInv
<1> QED BY <1>1, <1>2, <1>3, <1>4, <1>5, <1>6, <1>7, <1>8 DEF DbNext

\* The inductive invariant: the lock is consistent, every client does with the lock
\* what it should where it is, whoever uses a handle holds it for the current
\* database or was discarded before the deferred close of the handle began to wait,
\* and the read slots, the database, the status and the handles agree.
THEOREM DbInvariant == ~SlowClose => (DbSpec => []DbInv)
<1> SUFFICES ASSUME ~SlowClose PROVE DbSpec => []DbInv
  OBVIOUS
<1>1. DbInv /\ [DbNext]_allVars => DbInv'
  BY DbStepInv
<1> QED BY <1>1, DbInitInv, PTL DEF DbSpec

\* The lock of the module keeps its promises although a close() resets it and then
\* releases it, or begins to wait for those it discarded, in one turn: holders for
\* writing exclude, no waiter is forgotten, and a deferred close is not told early.
THEOREM DbLockKept == ~SlowClose => (DbSpec => [](MutualExclusion /\ NoLostWakeup /\ ReclaimIsSafe))
<1>1. DbInv => MutualExclusion /\ NoLostWakeup /\ ReclaimIsSafe
  BY HoldersExclude DEF DbInv, OrderInv, LockInv
<1> QED BY <1>1, DbInvariant, PTL

\* Every variable of the module keeps its type: no slot is given back twice.
THEOREM DbTypeCorrect == ~SlowClose => (DbSpec => []DbTypeOK)
<1>1. DbInv => DbTypeOK
  BY DEF DbInv
<1> QED BY <1>1, DbInvariant, PTL

\* No handle is freed under a statement, a transaction in progress or an open that
\* was given the lock, however late a close() gave up on it (db-module.ts:349-353).
THEOREM DbStatementsSafe == ~SlowClose => (DbSpec => []LockedStatementsSafe)
<1>1. DbInv => LockedStatementsSafe
  BY DEF DbInv, ClientOK, UserSafe, LockedStatementsSafe, UsesLocked
<1> QED BY <1>1, DbInvariant, PTL

\* A statement reaches only the database that was published when it was requested,
\* never its successor (db-module.ts, assertGeneration()).
THEOREM DbStatementsOnRequested == ~SlowClose => (DbSpec => []StatementsOnRequestedDatabase)
<1>1. DbInv => StatementsOnRequestedDatabase
  BY DbAssumption
     DEF DbInv, ClientOK, OnRequested, StatementsOnRequestedDatabase
<1> QED BY <1>1, DbInvariant, PTL

\* The status says open only of the database statements are given, when an open
\* does not outlast the budget of a close() either.
THEOREM DbStatusTruthful == (~SlowClose /\ ~SlowOpen) => (DbSpec => []StatusTruthful)
<1> SUFFICES ASSUME ~SlowClose, ~SlowOpen PROVE DbSpec => []StatusTruthful
  OBVIOUS
<1>1. DbInv => StatusTruthful
  BY DEF DbInv, ModuleOK, StatusKept, StatusTruthful
<1> QED BY <1>1, DbInvariant, PTL

\* Every open handle has exactly one owner that will close it: the module, its
\* deferred close or whoever awaits its native close; one that is freed, or left
\* behind by a failing open(), a native close that threw or a deferred close that
\* gave up (db-module.ts:322-329, 375-391, 216-239), has none.
THEOREM DbOneOwner == ~SlowClose => (DbSpec => []OneOwner)
<1>1. DbInv => OneOwner
  <2> SUFFICES ASSUME DbInv, NEW h \in Handles
               PROVE  IF handle[h].st \in {"live", "closing"} /\ ~LeftBehind(h)
                      THEN \E o \in Clients \cup {NoHandle} : Owners(h) = {o}
                      ELSE Owners(h) = {}
    BY DEF OneOwner
  <2>1. /\ OrderInv /\ h \in Clients /\ h \notin Callers /\ NoHandle \notin Clients
        /\ Clients = Callers \cup Handles
        /\ \A c \in Clients : ClientOK(c)
    BY DbAssumption DEF DbInv
  <2>2. /\ handle[h].st = "live" => database = h \/ op[h].kind = "deferred" \/ handle[h].dropped
        /\ handle[h].st = "closing" => \E c \in Clients : Frees(c, h)
        /\ handle[h].dropped => handle[h].st = "live" /\ database # h /\ op[h] = NoOp
    BY DEF DbInv, ModuleOK, OwnersKept
\* Who frees a handle, waits to free it or has it as its database finds it so.
  <2>3. ASSUME NEW c \in Clients, Frees(c, h)
        PROVE  /\ handle[h].st = "closing"
               /\ c \in Callers => op[h] = NoOp
               /\ c \in Handles => c = h
    BY <2>1, <2>3 DEF ClientOK, FreeingAlone, Frees
  <2>4. op[h].pc \in {"waiting", "locking", "gaveUp"} => op[h].kind = "deferred" /\ handle[h].st = "live"
    BY <2>1 DEF ClientOK, Shape, NoOp, DbInv, ModuleOK, HandleKept
  <2>5. database = h => handle[h].st = "live" /\ op[h] = NoOp
    BY <2>1 DEF DbInv, ModuleOK, DatabaseKept
  <2>6. op[h].kind = "deferred" => op[h].pc \in {"waiting", "gaveUp", "locking"} \/ Frees(h, h)
    BY <2>1 DEF ClientOK, Shape, NoOp, FreeingAlone, Frees
  <2>7. ASSUME NEW c \in Clients, NEW d \in Clients, Frees(c, h), Frees(d, h) PROVE c = d
    <3>1. CASE c \in Callers /\ d \in Callers
      <4>1. op[c].pc = "freeing" /\ op[d].pc = "freeing"
        BY <2>7 DEF Frees
      <4>2. Current(d) /\ \A b \in Clients \ {c} : ~Current(b)
        BY <3>1, <4>1, HoldsAlone
      <4> QED BY <4>2
    <3>2. CASE c \in Handles \/ d \in Handles
      BY <2>1, <2>3, <2>7, <3>2 DEF NoOp, Frees
    <3> QED BY <2>1, <3>1, <3>2
  <2>8. CASE handle[h].st = "closing"
    <3>1. PICK c \in Clients : Frees(c, h)
      BY <2>2, <2>8
    <3>2. \A d \in Clients : Frees(d, h) => d = c
      BY <2>7, <3>1
    <3>3. ~LeftBehind(h) /\ Owners(h) = {c}
      BY <2>2, <2>4, <2>5, <2>8, <3>1, <3>2 DEF Owners, LeftBehind
    <3> QED BY <2>8, <3>3
  <2>9. CASE handle[h].st # "closing"
    <3>1. \A c \in Clients : ~Frees(c, h)
      BY <2>3, <2>9
    <3>2. CASE database = h
      <4>1. op[h].pc = "idle" /\ ~LeftBehind(h)
        BY <2>2, <2>5, <3>2 DEF LeftBehind, NoOp
      <4>2. Owners(h) = {NoHandle}
        BY <3>1, <3>2, <4>1 DEF Owners
      <4> QED BY <2>5, <3>2, <4>1, <4>2
    <3>3. CASE op[h].pc \in {"waiting", "locking"}
      <4>1. database # h /\ ~LeftBehind(h) /\ handle[h].st = "live"
        BY <2>2, <2>4, <2>5, <3>3 DEF LeftBehind, NoOp
      <4>2. Owners(h) = {h}
        BY <3>1, <3>3, <4>1 DEF Owners
      <4> QED BY <2>1, <4>1, <4>2
    <3>4. CASE database # h /\ op[h].pc \notin {"waiting", "locking"}
      <4>1. Owners(h) = {}
        BY <3>1, <3>4 DEF Owners
      <4>2. handle[h].st = "live" => LeftBehind(h)
        BY <2>1, <2>2, <2>6, <3>1, <3>4 DEF LeftBehind
      <4> QED BY <2>9, <4>1, <4>2
    <3> QED BY <3>2, <3>3, <3>4
  <2> QED BY <2>8, <2>9
<1> QED BY <1>1, DbInvariant, PTL

\* An open in time is alone on its handle until its database is published: "no
\* other operation may touch the handle" (db-module.ts:280-282).
THEOREM DbOpeningIsExclusive == (~SlowClose /\ ~SlowOpen) => (DbSpec => []OpeningIsExclusive)
<1> SUFFICES ASSUME ~SlowClose, ~SlowOpen PROVE DbSpec => []OpeningIsExclusive
  OBVIOUS
<1>1. DbInv => OpeningIsExclusive
  <2> SUFFICES ASSUME DbInv, NEW c \in Callers, NEW d \in Clients, NEW h \in Handles,
                      c # d, Opening(c), OnHandle(c, h), OnHandle(d, h)
               PROVE  FALSE
    BY DbAssumption DEF OpeningIsExclusive
  <2>1. /\ OrderInv /\ c \in Clients /\ DatabaseKept /\ NoHandle \notin Handles
        /\ op[c].pc \in UnderLock /\ op[c].conn = h /\ op[d].conn = h
        /\ ClientOK(c) /\ ClientOK(d)
    BY DbAssumption DEF DbInv, ModuleOK, OnHandle, UsesLocked, Frees, Opening, UnderLock
  <2>2. Current(c) /\ request[c].kind # "read"
    BY <2>1 DEF ClientOK, Matched, HoldingPcs, Discardable, Current, Stale, Held, Opening
  <2>3. database = h /\ handle[h].st = "live" /\ op[h] = NoOp
    BY <2>1, <2>2 DEF ClientOK, UserSafe, DatabaseKept
  <2>4. CASE op[d].pc \in UnderLock
    <3>1. ~Current(d)
      BY <2>1, <2>2, WriterAlone
    <3>2. Stale(d)
      BY <2>1, <2>4, <3>1 DEF ClientOK, Matched, HoldingPcs, Current, Stale, Held
    <3> QED BY <2>1, <2>3, <2>4, <3>2 DEF ClientOK, UserSafe, NoOp
  <2>5. CASE op[d].pc = "freeing"
    BY <2>1, <2>3, <2>5 DEF ClientOK, FreeingAlone
  <2> QED BY <2>4, <2>5 DEF OnHandle, UsesLocked, Frees
<1> QED BY <1>1, DbInvariant, PTL
=============================================================================
