--------------------------- MODULE DispatchProofs ---------------------------
(***************************************************************************)
(* The load gate, for any commands, opens, directories and statements.     *)
(*                                                                         *)
(* What makes it inductive is the numbering of the databases: a command    *)
(* has seen a database that exists, every load fills one that is newer, so *)
(* a load that was gone when the turn of a command came never comes back.  *)
(* The chain lists each command once, and all but its first wait.          *)
(***************************************************************************)
EXTENDS DispatchProperties, SequenceTheorems, TLAPS

Stages == {"new", "deferred", "settling", "running", "executing", "locking", "awaiting",
           "switching", "opening", "cleaning", "answered"}

CallRecord == [pc : Stages, dir : Dirs \cup {"none"}, saw : Nat, awaited : Nat,
               captured : Nat, left : Nat]

DispatchTypes ==
    /\ call \in [Requests -> CallRecord]
    /\ db \in Nat /\ generation \in Nat /\ load \in [db : Nat, superseded : BOOLEAN]
    /\ chain \in Seq(Commands)

Numbered ==
    /\ db <= generation /\ load.db <= generation
    /\ \A r \in Requests : call[r].saw <= generation

\* A command that goes on has seen no load, or one that is gone.
GateKept ==
    \A r \in Commands :
        /\ call[r].pc = "settling" =>
              call[r].saw \in {None, call[r].awaited} \/ load.db # call[r].saw
        /\ call[r].pc \in {"running", "executing"} =>
              call[r].saw = None \/ load.db # call[r].saw

ChainKept ==
    /\ \A i, j \in DOMAIN chain : i # j => chain[i] # chain[j]
    /\ \A i \in DOMAIN chain : call[chain[i]].pc # "new"
    /\ \A i \in DOMAIN chain : i # 1 => call[chain[i]].pc = "deferred"

DispatchInv == DispatchTypes /\ Numbered /\ GateKept /\ ChainKept

-----------------------------------------------------------------------------
LEMMA DispatchInitInv == DispatchInit => DispatchInv
<1> SUFFICES ASSUME DispatchInit PROVE DispatchInv
  OBVIOUS
<1>1. /\ call = [r \in Requests |-> NewCall]
      /\ chain = <<>> /\ db = 1 /\ generation = 1 /\ load = NoLoad
  BY DEF DispatchInit
<1>2. NewCall \in CallRecord
  BY DEF NewCall, CallRecord, Stages, None
<1>3. DispatchTypes
  <2>1. NoLoad \in [db : Nat, superseded : BOOLEAN] /\ <<>> \in Seq(Commands)
    BY DEF NoLoad, None
  <2>2. [r \in Requests |-> NewCall] \in [Requests -> CallRecord]
    BY <1>2
  <2> QED BY <1>1, <2>1, <2>2 DEF DispatchTypes
<1>4. Numbered
  <2>1. \A r \in Requests : call[r].saw = 0
    BY <1>1 DEF NewCall, None
  <2> QED BY <1>1, <2>1 DEF Numbered, NoLoad, None
<1>5. GateKept
  <2>1. \A r \in Commands : call[r].pc = "new"
    BY <1>1 DEF NewCall, Requests
  <2> QED BY <2>1 DEF GateKept
<1>6. ChainKept
  BY <1>1 DEF ChainKept
<1> QED BY <1>3, <1>4, <1>5, <1>6 DEF DispatchInv

\* What a step may do to a call: it keeps what it has seen, or forgets it, and
\* what it is from then on respects the gate and the chain.
Respects(r, new) ==
    /\ new.saw <= generation
    /\ new.pc # "new"
    /\ r \in Commands =>
         /\ new.pc = "settling" => new.saw \in {None, new.awaited} \/ load'.db # new.saw
         /\ new.pc \in {"running", "executing"} => new.saw = None \/ load'.db # new.saw
    /\ call[r].pc = "deferred" => InTurn(r)

\* What a step may do to the databases: a load ends, or one of a new database begins.
WorldMoves ==
    /\ db' \in Nat /\ generation' \in Nat /\ load' \in [db : Nat, superseded : BOOLEAN]
    /\ generation <= generation' /\ db' <= generation' /\ load'.db <= generation'
    /\ load'.db = load.db \/ load'.db = None \/ load'.db > generation

LEMMA CallsRespect ==
    ASSUME DispatchInv, WorldMoves, call' \in [Requests -> CallRecord], chain' = chain,
           \A r \in Requests : call'[r] = call[r] \/ Respects(r, call'[r])
    PROVE  DispatchInv'
<1>1. DispatchTypes /\ Numbered /\ GateKept /\ ChainKept
  BY DEF DispatchInv
<1>2. DispatchTypes'
  BY <1>1 DEF DispatchTypes, WorldMoves
<1>3. \A r \in Requests : call[r] \in CallRecord /\ call'[r] \in CallRecord
  BY <1>1 DEF DispatchTypes
<1>4. Numbered'
  <2>1. ASSUME NEW r \in Requests PROVE call'[r].saw <= generation'
    <3>1. call'[r].saw \in Nat /\ generation \in Nat /\ generation' \in Nat
      BY <1>1, <1>3 DEF CallRecord, DispatchTypes, WorldMoves
    <3>2. call'[r].saw <= generation
      BY <1>1 DEF Numbered, Respects
    <3> QED BY <3>1, <3>2 DEF WorldMoves
  <2> QED BY <2>1 DEF Numbered, WorldMoves
<1>5. GateKept'
  <2> SUFFICES ASSUME NEW r \in Commands
               PROVE  /\ call'[r].pc = "settling" =>
                            call'[r].saw \in {None, call'[r].awaited} \/ load'.db # call'[r].saw
                      /\ call'[r].pc \in {"running", "executing"} =>
                            call'[r].saw = None \/ load'.db # call'[r].saw
    BY DEF GateKept, None
  <2>1. r \in Requests
    BY DEF Requests
  <2>2. CASE Respects(r, call'[r])
    BY <2>2 DEF Respects
  <2>3. CASE call'[r] = call[r]
    <3>1. /\ call[r].saw \in Nat /\ generation \in Nat /\ load.db \in Nat /\ load'.db \in Nat
          /\ call[r].saw <= generation
      BY <1>1, <1>3, <2>1 DEF CallRecord, DispatchTypes, WorldMoves, Numbered
    <3>2. load.db # call[r].saw => call[r].saw = None \/ load'.db # call[r].saw
      BY <3>1 DEF WorldMoves, None
    <3> QED BY <1>1, <2>3, <3>2 DEF GateKept
  <2> QED BY <2>1, <2>2, <2>3
<1>6. ChainKept'
  <2>1. \A i \in DOMAIN chain : chain[i] \in Requests
    BY <1>1 DEF DispatchTypes, Requests
  <2>2. ASSUME NEW i \in DOMAIN chain
        PROVE  call'[chain[i]].pc # "new" /\ (i # 1 => call'[chain[i]].pc = "deferred")
    <3>1. CASE Respects(chain[i], call'[chain[i]])
      <4>1. ASSUME i # 1 PROVE FALSE
        <5>1. call[chain[i]].pc = "deferred" /\ 1 \in DOMAIN chain
          BY <1>1, <4>1 DEF ChainKept, DispatchTypes
        <5>2. chain[i] = chain[1]
          BY <3>1, <5>1 DEF Respects, InTurn
        <5> QED BY <1>1, <4>1, <5>1, <5>2 DEF ChainKept
      <4> QED BY <3>1, <4>1 DEF Respects
    <3>2. CASE call'[chain[i]] = call[chain[i]]
      BY <1>1, <3>2 DEF ChainKept
    <3> QED BY <2>1, <3>1, <3>2
  <2> QED BY <1>1, <2>2 DEF ChainKept
<1> QED BY <1>2, <1>4, <1>5, <1>6 DEF DispatchInv

\* The steps that change one call and no database.
LEMMA OneCall ==
    ASSUME DispatchInv, NEW r \in Requests, NEW new \in CallRecord,
           call' = [call EXCEPT ![r] = new], UNCHANGED <<workspace, chain>>, Respects(r, new)
    PROVE  DispatchInv'
<1>1. DispatchTypes /\ Numbered
  BY DEF DispatchInv
<1>2. WorldMoves
  BY <1>1 DEF WorldMoves, workspace, DispatchTypes, Numbered
<1>3. call' \in [Requests -> CallRecord]
  BY <1>1 DEF DispatchTypes
<1>4. \A q \in Requests : call'[q] = call[q] \/ Respects(q, call'[q])
  BY <1>1 DEF DispatchTypes
<1> QED BY <1>2, <1>3, <1>4, CallsRespect

\* The start of a handler, for a call that the gate lets through.
LEMMA StartsRespects ==
    ASSUME DispatchInv, NEW r \in Requests, NEW new \in CallRecord, Starts(r, new),
           UNCHANGED <<workspace, chain>>, new.saw <= generation,
           call[r].pc = "deferred" => InTurn(r),
           r \in Commands => new.saw = None \/ load.db # new.saw
    PROVE  DispatchInv'
<1>1. generation \in Nat /\ load' = load /\ (r \notin Opens => r \in Commands)
  BY DEF DispatchInv, DispatchTypes, workspace, Requests
<1>2. CASE r \in Opens
  <2> DEFINE locking == [new EXCEPT !.pc = "locking"]
  <2>1. call' = [call EXCEPT ![r] = locking]
    BY <1>2 DEF Starts
  <2>2. locking \in CallRecord /\ locking.pc = "locking" /\ locking.saw = new.saw
    BY DEF CallRecord, Stages
  <2> HIDE DEF locking
  <2>3. Respects(r, locking)
    BY <1>1, <2>2 DEF Respects
  <2> QED BY <2>1, <2>2, <2>3, OneCall
<1>3. CASE r \notin Opens /\ db = None
  <2>1. call' = [call EXCEPT ![r] = Answered]
    BY <1>3 DEF Starts
  <2>2. Answered \in CallRecord /\ Answered.pc = "answered" /\ Answered.saw = 0
    BY DEF Answered, NewCall, CallRecord, Stages, None
  <2>3. Respects(r, Answered)
    BY <1>1, <2>2 DEF Respects, None
  <2> QED BY <2>1, <2>2, <2>3, OneCall
<1>4. CASE r \notin Opens /\ db # None
  <2> DEFINE running == [new EXCEPT !.pc = "running", !.left = Statements]
  <2>1. call' = [call EXCEPT ![r] = running]
    BY <1>4 DEF Starts
  <2>2. running \in CallRecord /\ running.pc = "running" /\ running.saw = new.saw
    BY DispatchAssumption DEF CallRecord, Stages, DispatchAssumption
  <2> HIDE DEF running
  <2>3. Respects(r, running)
    BY <1>1, <2>2 DEF Respects
  <2> QED BY <2>1, <2>2, <2>3, OneCall
<1> QED BY <1>2, <1>3, <1>4

LEMMA PassesInv ==
    ASSUME DispatchInv, NEW r \in Requests, NEW dir \in Dirs \cup {"none"}, Passes(r, dir)
    PROVE  DispatchInv'
<1> DEFINE new == [NewCall EXCEPT !.dir = dir]
<1>1. new \in CallRecord /\ new.saw = None
  BY DEF NewCall, CallRecord, Stages, None
<1>2. call[r].pc = "new" /\ Starts(r, new) /\ UNCHANGED <<workspace, chain>>
  BY DEF Passes
<1>3. new.saw <= generation
  BY <1>1 DEF DispatchInv, DispatchTypes, None
<1> HIDE DEF new
<1> QED BY <1>1, <1>2, <1>3, StartsRespects

\* The chain grows by a command that was in it nowhere.
LEMMA DefersInv ==
    ASSUME DispatchInv, NEW r \in Commands, Defers(r, "none")
    PROVE  DispatchInv'
<1> DEFINE new == [NewCall EXCEPT !.pc = "deferred", !.dir = "none", !.saw = db]
<1>1. DispatchTypes /\ Numbered /\ GateKept /\ ChainKept /\ r \in Requests
  BY DEF DispatchInv, Requests
<1>2. /\ call[r].pc = "new" /\ chain' = Append(chain, r)
      /\ call' = [call EXCEPT ![r] = new] /\ UNCHANGED <<ws, db, generation, load>>
  BY DEF Defers, workspace
<1>3. new \in CallRecord /\ new.pc = "deferred" /\ new.saw = db
  BY <1>1 DEF DispatchTypes, NewCall, CallRecord, Stages, None
<1> HIDE DEF new
<1>4. \A q \in Requests : call'[q] = IF q = r THEN new ELSE call[q]
  BY <1>1, <1>2 DEF DispatchTypes
<1>5. DispatchTypes'
  BY <1>1, <1>2, <1>3 DEF DispatchTypes
<1>6. Numbered'
  BY <1>1, <1>2, <1>3, <1>4 DEF Numbered
<1>7. GateKept'
  <2>1. \A q \in Commands : q \in Requests
    BY DEF Requests
  <2>2. \A q \in Commands : q # r => call'[q] = call[q]
    BY <1>4, <2>1
  <2>3. call'[r].pc = "deferred"
    BY <1>1, <1>3, <1>4
  <2> QED BY <1>1, <1>2, <2>2, <2>3 DEF GateKept
<1>8. ChainKept'
  <2>1. /\ DOMAIN chain' = 1..Len(chain) + 1 /\ DOMAIN chain = 1..Len(chain) /\ Len(chain) \in Nat
        /\ \A i \in DOMAIN chain : chain'[i] = chain[i] /\ chain[i] \in Requests
        /\ chain'[Len(chain) + 1] = r
    BY <1>1, <1>2 DEF DispatchTypes, Requests
  <2>2. \A i \in DOMAIN chain : chain[i] # r /\ call'[chain[i]] = call[chain[i]]
    BY <1>1, <1>2, <1>4, <2>1 DEF ChainKept
  <2>3. call'[r].pc = "deferred"
    BY <1>1, <1>3, <1>4
  <2>4. \A i \in DOMAIN chain' : i \in DOMAIN chain \/ i = Len(chain) + 1
    BY <2>1
  <2>5. \A i, j \in DOMAIN chain' : i # j => chain'[i] # chain'[j]
    BY <1>1, <2>1, <2>2, <2>4 DEF ChainKept
  <2>6. \A i \in DOMAIN chain' : /\ call'[chain'[i]].pc # "new"
                                 /\ i # 1 => call'[chain'[i]].pc = "deferred"
    BY <1>1, <2>1, <2>2, <2>3, <2>4 DEF ChainKept
  <2> QED BY <2>5, <2>6 DEF ChainKept
<1> QED BY <1>5, <1>6, <1>7, <1>8 DEF DispatchInv

LEMMA NextInTurnInv ==
    ASSUME DispatchInv, NextInTurn
    PROVE  DispatchInv'
<1>1. DispatchTypes /\ Numbered /\ GateKept /\ ChainKept
  BY DEF DispatchInv
<1>2. chain # <<>> /\ chain' = Tail(chain) /\ UNCHANGED <<ws, db, generation, load, call>>
  BY DEF NextInTurn, workspace
<1>3. /\ DOMAIN chain' = 1..Len(chain) - 1 /\ DOMAIN chain = 1..Len(chain)
      /\ Len(chain) \in Nat \ {0} /\ chain' \in Seq(Commands)
      /\ \A i \in DOMAIN chain' : chain'[i] = chain[i + 1]
  BY <1>1, <1>2 DEF DispatchTypes
<1>4. ChainKept'
  <2>1. \A i \in DOMAIN chain' : i + 1 \in DOMAIN chain /\ i + 1 # 1
    BY <1>3
  <2>2. \A i, j \in DOMAIN chain' : i # j => chain'[i] # chain'[j]
    <3> SUFFICES ASSUME NEW i \in DOMAIN chain', NEW j \in DOMAIN chain', i # j
                 PROVE  chain'[i] # chain'[j]
      OBVIOUS
    <3>1. i + 1 # j + 1
      BY <1>3
    <3> QED BY <1>1, <1>3, <2>1, <3>1 DEF ChainKept
  <2>3. \A i \in DOMAIN chain' : call[chain'[i]].pc = "deferred"
    BY <1>1, <1>3, <2>1 DEF ChainKept
  <2> QED BY <1>2, <2>2, <2>3 DEF ChainKept
<1>5. DispatchTypes' /\ Numbered' /\ GateKept'
  BY <1>1, <1>2, <1>3 DEF DispatchTypes, Numbered, GateKept
<1> QED BY <1>4, <1>5 DEF DispatchInv

LEMMA GateInv ==
    ASSUME DispatchInv, NEW r \in Requests, GateStep(r)
    PROVE  DispatchInv'
<1>1. DispatchTypes /\ Numbered /\ GateKept
  BY DEF DispatchInv
<1>2. /\ call[r] \in CallRecord /\ load.db \in Nat /\ call[r].saw \in Nat
      /\ call[r].saw <= generation
  BY <1>1 DEF DispatchTypes, Numbered, CallRecord
<1>3. CASE AwaitsLoad(r)
  <2> DEFINE new == [call[r] EXCEPT !.pc = "settling", !.awaited = load.db]
  <2>1. /\ new \in CallRecord /\ new.pc = "settling" /\ new.saw = call[r].saw
        /\ new.awaited = load.db
    BY <1>2 DEF CallRecord, Stages
  <2>2. call' = [call EXCEPT ![r] = new] /\ UNCHANGED <<workspace, chain>> /\ InTurn(r)
    BY <1>3 DEF AwaitsLoad
  <2> HIDE DEF new
  <2>3. Respects(r, new)
    BY <1>2, <2>1, <2>2 DEF Respects, workspace
  <2> QED BY <2>1, <2>2, <2>3, OneCall
<1>4. CASE LoadSettled(r)
  <2>1. /\ call[r].pc = "settling" /\ Starts(r, call[r]) /\ UNCHANGED <<workspace, chain>>
        /\ call[r].awaited = None \/ load.db # call[r].awaited
    BY <1>4 DEF LoadSettled
  <2>2. r \in Commands => call[r].saw = None \/ load.db # call[r].saw
    BY <1>1, <2>1 DEF GateKept
  <2>3. ~(call[r].pc = "deferred")
    BY <2>1
  <2> QED BY <1>2, <2>1, <2>2, <2>3, StartsRespects
<1> QED BY <1>3, <1>4 DEF GateStep

LEMMA HandlerInv ==
    ASSUME DispatchInv, NEW r \in Requests, HandlerStep(r)
    PROVE  DispatchInv'
<1>1. DispatchTypes /\ Numbered /\ GateKept
  BY DEF DispatchInv
<1>2. call[r] \in CallRecord /\ generation \in Nat /\ call[r].saw <= generation
  BY <1>1 DEF DispatchTypes, Numbered
<1>3. Answered \in CallRecord /\ Answered.pc = "answered" /\ Answered.saw = None
  BY DEF Answered, NewCall, CallRecord, Stages, None
<1>4. call[r].pc \in {"running", "executing", "cleaning"} /\ UNCHANGED <<workspace, chain>>
  BY DEF HandlerStep, StatementBegins, CommandStatement, CleanupStatement
\* The call stays what it was to the gate, or it ends.
<1>5. ASSUME NEW new \in CallRecord, call' = [call EXCEPT ![r] = new],
             new.saw = call[r].saw,
             \/ new.pc \in {"running", "executing"} /\ call[r].pc \in {"running", "executing"}
             \/ new.pc = "cleaning"
      PROVE  DispatchInv'
  <2>1. r \in Commands /\ new.pc \in {"running", "executing"}
           => new.saw = None \/ load'.db # new.saw
    BY <1>1, <1>4, <1>5 DEF GateKept, workspace
  <2>2. Respects(r, new)
    BY <1>2, <1>4, <1>5, <2>1 DEF Respects
  <2> QED BY <1>4, <1>5, <2>2, OneCall
<1>6. CASE Answer(r)
  <2>1. call' = [call EXCEPT ![r] = Answered]
    BY <1>6 DEF Answer
  <2>2. Respects(r, Answered)
    BY <1>2, <1>3, <1>4 DEF Respects, None
  <2> QED BY <1>3, <1>4, <2>1, <2>2, OneCall
<1>7. CASE StatementBegins(r)
  <2> DEFINE new == [call[r] EXCEPT !.pc = "executing", !.captured = generation]
  <2>1. new \in CallRecord /\ new.saw = call[r].saw /\ new.pc = "executing"
    BY <1>2 DEF CallRecord, Stages
  <2>2. call' = [call EXCEPT ![r] = new] /\ call[r].pc = "running"
    BY <1>7 DEF StatementBegins
  <2> HIDE DEF new
  <2> QED BY <1>5, <2>1, <2>2
<1>8. CASE CommandStatement(r)
  <2> DEFINE new == [call[r] EXCEPT !.pc = "running", !.left = @ - 1]
  <2>1. ASSUME call[r].left > 1
        PROVE  new \in CallRecord /\ new.saw = call[r].saw /\ new.pc = "running"
    <3>1. call[r].left - 1 \in Nat
      BY <1>2, <2>1 DEF CallRecord
    <3> QED BY <1>2, <3>1 DEF CallRecord, Stages
  <2>2. \/ call' = [call EXCEPT ![r] = new] /\ call[r].pc = "executing" /\ call[r].left > 1
        \/ Answer(r)
    BY <1>8 DEF CommandStatement
  <2> HIDE DEF new
  <2> QED BY <1>5, <1>6, <2>1, <2>2
<1>9. CASE CleanupStatement(r)
  <2> DEFINE new == [call[r] EXCEPT !.captured = generation, !.left = @ - 1]
  <2>1. call[r].pc = "cleaning"
    BY <1>9 DEF CleanupStatement
  <2>2. ASSUME call[r].left > 1
        PROVE  new \in CallRecord /\ new.saw = call[r].saw /\ new.pc = "cleaning"
    <3>1. call[r].left - 1 \in Nat
      BY <1>2, <2>2 DEF CallRecord
    <3> QED BY <1>2, <2>1, <3>1 DEF CallRecord
  <2>3. \/ call' = [call EXCEPT ![r] = new] /\ call[r].left > 1
        \/ Answer(r)
    BY <1>9 DEF CleanupStatement
  <2> HIDE DEF new
  <2> QED BY <1>5, <1>6, <2>2, <2>3
<1> QED BY <1>7, <1>8, <1>9 DEF HandlerStep

LEMMA OpenInv ==
    ASSUME DispatchInv, NEW r \in Opens, OpenStep(r)
    PROVE  DispatchInv'
<1>1. DispatchTypes /\ Numbered /\ r \in Requests /\ r \notin Commands
  BY DispatchAssumption DEF DispatchInv, Requests, DispatchAssumption
<1>2. /\ call[r] \in CallRecord /\ call[r].saw <= generation
      /\ db \in Nat /\ generation \in Nat /\ load \in [db : Nat, superseded : BOOLEAN]
      /\ db <= generation /\ load.db <= generation
  BY <1>1 DEF DispatchTypes, Numbered
<1>3. call[r].pc \in {"locking", "awaiting", "switching", "opening"} /\ chain' = chain
  BY DEF OpenStep, OpenBegins, AwaitEnds, FastPath, ClosesPrevious, OpenEnds, Holds
<1>4. ASSUME NEW new \in CallRecord, call' = [call EXCEPT ![r] = new], new.pc # "new",
             new.saw \in {None, call[r].saw}, WorldMoves
      PROVE  DispatchInv'
  <2>1. Respects(r, new)
    BY <1>1, <1>2, <1>3, <1>4 DEF Respects, None
  <2>2. call' \in [Requests -> CallRecord]
    BY <1>1, <1>4 DEF DispatchTypes
  <2>3. \A q \in Requests : call'[q] = call[q] \/ Respects(q, call'[q])
    BY <1>1, <1>4, <2>1 DEF DispatchTypes
  <2> QED BY <1>3, <1>4, <2>2, <2>3, CallsRespect
<1>5. ASSUME NEW pc \in Stages \ {"new"}, Goes(r, pc), WorldMoves
      PROVE  DispatchInv'
  <2> DEFINE new == [call[r] EXCEPT !.pc = pc]
  <2>1. new \in CallRecord /\ new.pc = pc /\ new.saw = call[r].saw
    BY <1>2 DEF CallRecord
  <2>2. call' = [call EXCEPT ![r] = new]
    BY <1>5 DEF Goes
  <2> HIDE DEF new
  <2> QED BY <1>4, <1>5, <2>1, <2>2
<1>6. ASSUME NEW action, NEW g \in Nat, OpenReturns(r, action, g), WorldMoves
      PROVE  DispatchInv'
  <2>1. CASE Answer(r)
    <3>1. Answered \in CallRecord /\ Answered.pc = "answered" /\ Answered.saw = None
      BY DEF Answered, NewCall, CallRecord, Stages, None
    <3>2. call' = [call EXCEPT ![r] = Answered]
      BY <2>1 DEF Answer
    <3> QED BY <1>4, <1>6, <3>1, <3>2
  <2>2. CASE ~(action \in {"loading", "failed"})
    <3> DEFINE new == [call[r] EXCEPT !.pc = "cleaning", !.captured = g, !.left = Statements]
    <3>1. new \in CallRecord /\ new.pc = "cleaning" /\ new.saw = call[r].saw
      BY <1>2, DispatchAssumption DEF CallRecord, Stages, DispatchAssumption
    <3>2. call' = [call EXCEPT ![r] = new]
      BY <1>6, <2>2 DEF OpenReturns
    <3> HIDE DEF new
    <3> QED BY <1>4, <1>6, <3>1, <3>2
  <2> QED BY <1>6, <2>1, <2>2 DEF OpenReturns
<1>7. CASE OpenBegins(r)
  <2>1. /\ load' \in [db : Nat, superseded : BOOLEAN] /\ load'.db = load.db
        /\ UNCHANGED <<db, generation>>
    <3>1. load' = load \/ load' = [load EXCEPT !.superseded = TRUE]
      BY <1>7 DEF OpenBegins
    <3>2. UNCHANGED <<db, generation>>
      BY <1>7 DEF OpenBegins
    <3> QED BY <1>2, <3>1, <3>2
  <2>3. WorldMoves
    BY <1>2, <2>1 DEF WorldMoves
  <2>2. Goes(r, "switching") \/ Goes(r, "awaiting")
    BY <1>7 DEF OpenBegins
  <2> QED BY <1>5, <2>2, <2>3 DEF Stages
<1>8. CASE AwaitEnds(r)
  <2>1. WorldMoves
    BY <1>2, <1>8 DEF AwaitEnds, WorldMoves, workspace
  <2> QED BY <1>5, <1>8, <2>1 DEF AwaitEnds, Stages
<1>9. CASE FastPath(r)
  <2>1. WorldMoves
    BY <1>2, <1>9 DEF FastPath, WorldMoves, workspace
  <2>2. OpenReturns(r, "consistent", generation)
    BY <1>9 DEF FastPath
  <2> QED BY <1>2, <1>6, <2>1, <2>2
<1>10. CASE ClosesPrevious(r)
  <2>1. WorldMoves
    BY <1>2, <1>10 DEF ClosesPrevious, WorldMoves, None
  <2> QED BY <1>5, <1>10, <2>1 DEF ClosesPrevious, Stages
<1>11. CASE OpenEnds(r)
  <2>1. WorldMoves
    <3>1. \/ /\ db' = generation + 1 /\ generation' = generation + 1
             /\ load' = [db |-> generation + 1, superseded |-> FALSE] \/ load' = load
          \/ db' = db /\ generation' = generation /\ load' = load
      BY <1>11 DEF OpenEnds, workspace
    <3>2. CASE /\ db' = generation + 1 /\ generation' = generation + 1
               /\ load' = [db |-> generation + 1, superseded |-> FALSE]
      <4>1. load' \in [db : Nat, superseded : BOOLEAN] /\ load'.db = generation + 1
        BY <1>2, <3>2
      <4>2. db' = generation + 1 /\ generation' = generation + 1 /\ generation \in Nat
        BY <1>2, <3>2
      <4> QED BY ONLY <4>1, <4>2 DEF WorldMoves
    <3>3. CASE db' = generation + 1 /\ generation' = generation + 1 /\ load' = load
      BY <1>2, <3>3 DEF WorldMoves
    <3>4. CASE db' = db /\ generation' = generation /\ load' = load
      BY <1>2, <3>4 DEF WorldMoves
    <3> QED BY <3>1, <3>2, <3>3, <3>4
  <2>3. \/ OpenReturns(r, "loading", generation') \/ OpenReturns(r, "consistent", generation')
        \/ OpenReturns(r, "failed", generation)
    BY <1>11 DEF OpenEnds
  <2>2. generation' \in Nat
    BY <2>1 DEF WorldMoves
  <2>4. CASE OpenReturns(r, "loading", generation')
    BY ONLY <1>6, <2>1, <2>2, <2>4
  <2>5. CASE OpenReturns(r, "consistent", generation')
    BY ONLY <1>6, <2>1, <2>2, <2>5
  <2>6. CASE OpenReturns(r, "failed", generation)
    BY ONLY <1>2, <1>6, <2>1, <2>6
  <2> QED BY <2>3, <2>4, <2>5, <2>6
<1> QED BY <1>7, <1>8, <1>9, <1>10, <1>11 DEF OpenStep

LEMMA LoadEndsInv ==
    ASSUME DispatchInv, LoadEnds
    PROVE  DispatchInv'
<1>1. /\ call \in [Requests -> CallRecord]
      /\ db \in Nat /\ generation \in Nat /\ load \in [db : Nat, superseded : BOOLEAN]
      /\ db <= generation /\ load.db <= generation
  BY DEF DispatchInv, DispatchTypes, Numbered
<1>2. WorldMoves
  BY <1>1 DEF LoadEnds, WorldMoves, NoLoad, None
<1>3. chain' = chain /\ call' = call
  BY DEF LoadEnds
<1> QED BY <1>1, <1>2, <1>3, CallsRespect

\* DispatchInv holds throughout.
THEOREM DispatchInvariant == DispatchSpec => []DispatchInv
<1>1. DispatchInv /\ [DispatchNext]_vars => DispatchInv'
  <2> SUFFICES ASSUME DispatchInv, [DispatchNext]_vars PROVE DispatchInv'
    OBVIOUS
  <2>1. ASSUME NEW r \in Opens, NEW d \in Dirs, Passes(r, d) PROVE DispatchInv'
    BY <2>1, PassesInv DEF Requests
  <2>2. ASSUME NEW r \in Commands, Passes(r, "none") PROVE DispatchInv'
    BY <2>2, PassesInv DEF Requests
  <2>3. CASE UNCHANGED vars
    BY <2>3 DEF vars, workspace, DispatchInv, DispatchTypes, Numbered, GateKept, ChainKept
  <2> QED BY <2>1, <2>2, <2>3, DefersInv, NextInTurnInv, GateInv, HandlerInv, OpenInv,
             LoadEndsInv DEF DispatchNext
<1> QED BY <1>1, DispatchInitInv, PTL DEF DispatchSpec

\* A command that arrived during a load executes nothing on the database that is
\* loaded before that load has settled.
THEOREM DispatchHoldsUntilSettled == DispatchSpec => []HeldUntilSettled
<1>1. DispatchInv => HeldUntilSettled
  BY DEF DispatchInv, GateKept, HeldUntilSettled, Executing, Executes
<1> QED BY <1>1, DispatchInvariant, PTL

\* Of two deferred commands the later one starts when the earlier one is answered.
THEOREM DispatchDefersInOrder == DispatchSpec => DeferredInOrder
<1> DEFINE Ordered == \A i, j \in DOMAIN chain : i < j =>
                 ~(call[chain[j]].pc = "settling" /\ call'[chain[j]].pc = "running")
<1>1. DispatchInv => Ordered
  <2> SUFFICES ASSUME DispatchInv, NEW i \in DOMAIN chain, NEW j \in DOMAIN chain, i < j
               PROVE  call[chain[j]].pc = "deferred"
    OBVIOUS
  <2>1. j # 1
    BY DEF DispatchInv, DispatchTypes
  <2> QED BY <2>1 DEF DispatchInv, ChainKept
<1>2. DispatchInv => [Ordered]_vars
  BY <1>1
<1> HIDE DEF Ordered
<1>3. DispatchSpec => [][Ordered]_vars
  BY <1>2, DispatchInvariant, PTL
<1> QED BY <1>3 DEF DeferredInOrder, Ordered
=============================================================================
