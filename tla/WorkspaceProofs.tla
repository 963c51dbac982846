-------------------------- MODULE WorkspaceProofs --------------------------
(***************************************************************************)
(* The lifecycle of a workspace, for any callers, directories and numbers  *)
(* of calls and crashes, with and without faults.                          *)
(*                                                                         *)
(* A load may change the status, the database or the files of a workspace  *)
(* only while it decides (Decides): it is of the current epoch, or in its  *)
(* catch block.  As long as it does, the workspace is the one it was       *)
(* started for, and no call has come further than the await of it.         *)
(***************************************************************************)
EXTENDS WorkspaceProperties, TLAPS

Pcs == {"idle", "start", "awaitingLoad", "closing", "rechecking", "rereading", "probing",
        "opening", "storing", "evaluating", "reloading", "freshClose", "freshOpen",
        "freshLoad", "creating"}

\* Waiting for the mutex, or for the load that is tracked.
Waiting == {"idle", "start", "awaitingLoad", "closing"}

\* The workspace of before is kept until a call gets further than this.
Keeping == Waiting \cup {"rechecking", "rereading"}

LoadRecord == [dir : Dirs, epoch : Nat, attached : BOOLEAN,
               pc : {"loading", "cleanup", "closing", "removing"}]

Op == [kind : {"none", "open", "create", "close"}, dir : Dirs \cup {NoDir},
       recheck : BOOLEAN, pc : Pcs,
       case : {"none", "A", "B", "C", "D", "unusable", "incompatible"}]

TypesKept ==
    /\ ria \in [Dirs -> Snapshots]
    /\ db \in [Dirs -> Databases]
    /\ module \in Dirs \cup {NoDir}
    /\ ws \in [isOpen : BOOLEAN, dir : Dirs \cup {NoDir}, action : Actions]
    /\ epoch \in Nat /\ tracked \in Nat
    /\ loads \subseteq LoadRecord
    /\ waiting \in Seq(Callers)
    /\ op \in [Callers -> Op]
    /\ last \in [kind : {"none", "open", "create", "close"}, dir : Dirs \cup {NoDir}, ok : BOOLEAN]

TargetsKnown == \A c \in Callers : op[c].kind \in {"open", "create"} => op[c].dir \in Dirs

TrackedRuns == tracked # 0 => \E l \in loads : l.epoch = tracked

\* Only the caller in the critical section is further than its start, and each kind of
\* call keeps to its own steps.
CallOK(c) ==
    /\ op[c].pc \in {"idle", "start"} \/ InSection(c)
    /\ op[c].kind = "none" => op[c].pc = "idle"
    /\ op[c].kind = "create" => op[c].pc \in {"start", "creating"}
    /\ op[c].kind = "close" => op[c].pc \in {"start", "closing"}
    /\ op[c].pc = "creating" => op[c].kind = "create"
    /\ op[c].pc = "closing" => op[c].kind = "close"
    /\ op[c].pc = "idle" => op[c].kind = "none"

\* A create comes only when nothing waits and no load is tracked.
CreateAlone(c) == op[c].kind = "create" => InSection(c) /\ tracked = 0

\* Loads are told apart by their epochs; the load of this epoch, and one whose catch
\* block runs, is the one that is tracked.
LoadsTracked ==
    /\ \A l \in loads :
         /\ l.epoch > 0 /\ l.epoch <= epoch
         /\ l.epoch = epoch => tracked = epoch
         /\ l.pc \in {"closing", "removing"} => tracked = l.epoch
    /\ \A l, k \in loads : l.epoch = k.epoch => l = k

Decides(l) == l.epoch = epoch \/ l.pc \in {"closing", "removing"}

\* A load that may still publish or discard is the load of the workspace that is open.
LoadOwns(l) ==
    Decides(l) =>
        /\ ws = OpenWs(l.dir, "loading")
        /\ module = IF l.pc = "removing" THEN NoDir ELSE l.dir
        /\ ria[l.dir] = "readable"
        /\ l.pc = "cleanup" => db[l.dir] = "whole"

\* A load that reads into a database reads into the open one, of the open workspace.
LoadAttached(l) ==
    l.attached => ws.isOpen /\ ws.dir = l.dir /\ module = l.dir /\ db[l.dir] \in {"partial", "whole"}

\* A call that goes on after the await has superseded all loads.
LoadsSuperseded(c) ==
    /\ op[c].pc \notin {"idle", "start"} => \A l \in loads : l.epoch < epoch
    /\ op[c].pc \notin Waiting => \A l \in loads : ~Decides(l)
    /\ op[c].pc \notin Keeping => \A l \in loads : ~l.attached

\* What each step of a call relies on.
StepOK(c) ==
    LET d == op[c].dir
        at(pcs) == op[c].pc \in pcs
    IN  /\ at({"rechecking", "rereading"}) => ws.isOpen /\ ws.dir = d /\ db[d] # "none"
        /\ at({"probing", "opening", "creating"}) => ~ws.isOpen
        /\ at({"opening"}) => /\ op[c].case = CaseOf(d) /\ op[c].case # "incompatible"
                              /\ op[c].case \in {"C", "D"} => db[d] # "torn"
        /\ at({"creating"}) => db[d] = "none" /\ ria[d] = "absent"
        /\ at({"storing"}) => /\ ws = OpenWs(d, "saved") /\ module = d
                              /\ db[d] = "whole" /\ ria[d] = "absent"
        /\ at({"evaluating", "reloading"}) => /\ ws = OpenWs(d, "consistent") /\ module = d
                                              /\ db[d] \in {"partial", "whole"}
        /\ at({"freshClose", "freshOpen", "freshLoad"}) =>
             ws = OpenWs(d, "loading") /\ ria[d] = "readable"
        /\ at({"freshOpen"}) => module = NoDir /\ db[d] = "none"
        /\ at({"freshLoad"}) => module = d /\ db[d] = "partial"

\* A database that is open has a file that can be opened; one that was never filled
\* has a snapshot beside it.
FilesOK ==
    /\ module # NoDir => db[module] \in {"partial", "whole", "stale"}
    /\ \A d \in Dirs : db[d] = "partial" => ria[d] # "absent"

\* The workspace while no call changes it.
Kept == \A c \in Callers : op[c].pc \in Keeping

Resting ==
    ws.isOpen =>
        /\ ws.dir \in Dirs
        /\ \/ module = ws.dir
           \/ module = NoDir /\ ws.action \in {"loading", "failed", "dbOnly", "unusable"}
        /\ ws.action \in {"created", "loaded", "saved", "consistent"} =>
             /\ db[ws.dir] \in {"whole", "stale"}
             /\ db[ws.dir] = "stale" => ws.action = "consistent"

\* What the last call left.
LastKept ==
    waiting = <<>> =>
        /\ last.kind = "close" => ~ws.isOpen /\ module = NoDir
        /\ (last.kind \in {"open", "create"} /\ last.ok) => ws.isOpen /\ ws.dir = last.dir

TypeInv == TypesKept /\ TrackedRuns /\ TargetsKnown

LoadsInv == LoadsTracked /\ \A l \in loads : LoadOwns(l) /\ LoadAttached(l)

CallsInv == \A c \in Callers : CallOK(c) /\ CreateAlone(c) /\ LoadsSuperseded(c) /\ StepOK(c)

LifecycleInv ==
    /\ LoadsInv
    /\ CallsInv
    /\ FilesOK
    /\ Kept => Resting
    /\ LastKept

-----------------------------------------------------------------------------
(***************************************************************************)
(* Helpers.                                                                *)
(***************************************************************************)
LEMMA GotoFacts ==
    ASSUME TypesKept, NEW c \in Callers, NEW pc \in Pcs, Goto(c, pc)
    PROVE  /\ op' \in [Callers -> Op]
           /\ op'[c] = [op[c] EXCEPT !.pc = pc]
           /\ op'[c].pc = pc /\ op'[c].kind = op[c].kind /\ op'[c].dir = op[c].dir
           /\ op'[c].case = op[c].case
           /\ \A x \in Callers : x # c => op'[x] = op[x]
           /\ waiting' = waiting /\ last' = last
<1>1. op[c] \in Op /\ op' = [op EXCEPT ![c] = [op[c] EXCEPT !.pc = pc]]
  BY DEF TypesKept, Goto
<1>2. [op[c] EXCEPT !.pc = pc] \in Op
  BY <1>1 DEF Op
<1> QED BY <1>1, <1>2 DEF TypesKept, Goto, Op

LEMMA IdleTyped == NoOp \in Op /\ NoOp.pc = "idle" /\ NoOp.kind = "none"
BY DEF NoOp, Op, Pcs

LEMMA FinishFacts ==
    ASSUME TypesKept, NEW c \in Callers, InSection(c), NEW ok \in BOOLEAN, Finish(c, ok)
    PROVE  /\ op' \in [Callers -> Op] /\ waiting' \in Seq(Callers)
           /\ op'[c] = NoOp /\ \A x \in Callers : x # c => op'[x] = op[x]
           /\ last' = [kind |-> op[c].kind, dir |-> op[c].dir, ok |-> ok]
           /\ last' \in [kind : {"none", "open", "create", "close"}, dir : Dirs \cup {NoDir}, ok : BOOLEAN]
<1>1. op[c] \in Op /\ waiting # <<>>
  BY DEF TypesKept, InSection
<1> QED BY <1>1, IdleTyped DEF TypesKept, Finish, Op

LEMMA SupersededFacts ==
    ASSUME NEW ls \in SUBSET LoadRecord
    PROVE  /\ Superseded(ls) \subseteq LoadRecord
           /\ \A l \in Superseded(ls) :
                ~l.attached /\ \E k \in ls : k.epoch = l.epoch /\ k.pc = l.pc /\ k.dir = l.dir
                                              /\ l = [k EXCEPT !.attached = FALSE]
           /\ \A k \in ls : \E l \in Superseded(ls) : l.epoch = k.epoch
<1>1. \A k \in ls : /\ [k EXCEPT !.attached = FALSE] \in LoadRecord
                    /\ ~[k EXCEPT !.attached = FALSE].attached
                    /\ [k EXCEPT !.attached = FALSE].epoch = k.epoch
                    /\ [k EXCEPT !.attached = FALSE].pc = k.pc
                    /\ [k EXCEPT !.attached = FALSE].dir = k.dir
  BY DEF LoadRecord
<1> QED BY <1>1 DEF Superseded

\* A native open that succeeds leaves an open database with a file.
LEMMA OpenedFacts ==
    ASSUME TypesKept, NEW d \in Dirs, OpenSucceeds(d)
    PROVE  /\ module' = d /\ db' \in [Dirs -> Databases] /\ db[d] # "torn"
           /\ db'[d] = IF db[d] # "none" THEN db[d]
                       ELSE IF ria[d] = "absent" THEN "whole" ELSE "partial"
           /\ \A x \in Dirs : x # d => db'[x] = db[x]
BY DEF TypesKept, OpenSucceeds, Databases

-----------------------------------------------------------------------------
(***************************************************************************)
(* Types, and a tracked load that exists.                                  *)
(***************************************************************************)
\* What a step of a call leaves of the loads.
SameLoads == loads' \in {loads, Superseded(loads)} /\ tracked' = tracked

LEMMA SameLoadsTyped ==
    ASSUME TypeInv, SameLoads
    PROVE  loads' \subseteq LoadRecord /\ TrackedRuns'
BY SupersededFacts DEF TypeInv, TypesKept, TrackedRuns, SameLoads

LEMMA DeathTyped ==
    ASSUME TypeInv, WorkerDies, ria' \in [Dirs -> Snapshots], db' \in [Dirs -> Databases]
    PROVE  TypeInv'
BY IdleTyped DEF TypeInv, TypesKept, TrackedRuns, TargetsKnown, WorkerDies, ClosedWs, Actions

\* A step in the critical section ends or goes on, and leaves the loads.
LEMMA SectionTyped ==
    ASSUME TypeInv, NEW c \in Callers, InSection(c),
           (\E pc \in Pcs : Goto(c, pc)) \/ (\E ok \in BOOLEAN : Finish(c, ok)),
           SameLoads,
           ria' \in [Dirs -> Snapshots], db' \in [Dirs -> Databases],
           module' \in Dirs \cup {NoDir}, epoch' \in Nat,
           ws' \in [isOpen : BOOLEAN, dir : Dirs \cup {NoDir}, action : Actions]
    PROVE  TypeInv'
<1>1. TypesKept /\ TargetsKnown
  BY DEF TypeInv
<1>2. /\ op' \in [Callers -> Op] /\ waiting' \in Seq(Callers)
      /\ last' \in [kind : {"none", "open", "create", "close"}, dir : Dirs \cup {NoDir}, ok : BOOLEAN]
  <2>1. CASE \E pc \in Pcs : Goto(c, pc)
    BY <1>1, <2>1, GotoFacts DEF TypesKept
  <2>2. CASE \E ok \in BOOLEAN : Finish(c, ok)
    BY <1>1, <2>2, FinishFacts
  <2> QED BY <2>1, <2>2
<1>3. tracked' \in Nat
  BY <1>1 DEF SameLoads, TypesKept
<1>4. TargetsKnown'
  <2>1. CASE \E pc \in Pcs : Goto(c, pc)
    BY <1>1, <2>1, GotoFacts DEF TargetsKnown
  <2>2. CASE \E ok \in BOOLEAN : Finish(c, ok)
    BY <1>1, <2>2, FinishFacts, IdleTyped DEF TargetsKnown
  <2> QED BY <2>1, <2>2
<1> QED BY <1>2, <1>3, <1>4, SameLoadsTyped DEF TypeInv, TypesKept

StatusTypes == [isOpen : BOOLEAN, dir : Dirs \cup {NoDir}, action : Actions]

\* Such a step, without its conclusion.
SectionStep(c) ==
    /\ InSection(c)
    /\ (\E pc \in Pcs : Goto(c, pc)) \/ (\E ok \in BOOLEAN : Finish(c, ok))
    /\ SameLoads
    /\ ria' \in [Dirs -> Snapshots] /\ db' \in [Dirs -> Databases]
    /\ module' \in Dirs \cup {NoDir} /\ epoch' \in Nat
    /\ ws' \in StatusTypes

LEMMA StatusFacts ==
    /\ ClosedWs \in StatusTypes
    /\ \A d \in Dirs, a \in Actions : OpenWs(d, a) \in StatusTypes
    /\ \A w \in StatusTypes, a \in Actions : [w EXCEPT !.action = a] \in StatusTypes
    /\ \A o : Settled(o) \in Actions
BY DEF StatusTypes, ClosedWs, OpenWs, Actions, Settled

LEMMA OpenFilesTyped ==
    ASSUME TypesKept, NEW d \in Dirs, OpenSucceeds(d) \/ OpenFails(d)
    PROVE  db' \in [Dirs -> Databases] /\ module' \in Dirs \cup {NoDir}
BY OpenedFacts DEF OpenFails, TypesKept

LEMMA AwaitStepTyped ==
    ASSUME TypeInv, NEW c \in Callers,
           OpenSupersedesLoad(c) \/ OpenFastPath(c) \/ OpenRechecks(c) \/ OpenClosesPrevious(c)
             \/ OpenFromClosed(c)
    PROVE  SectionStep(c)
<1>1. TypesKept
  BY DEF TypeInv
<1>2. /\ InSection(c) /\ SameLoads
      /\ (\E pc \in {"awaitingLoad", "rechecking", "probing"} : Goto(c, pc)) \/ Finish(c, TRUE)
      /\ UNCHANGED <<ria, db>> /\ module' \in {module, NoDir} /\ epoch' \in {epoch, epoch + 1}
      /\ ws' \in {ws, ClosedWs}
  BY DEF OpenSupersedesLoad, OpenFastPath, OpenRechecks, OpenClosesPrevious, OpenFromClosed,
         OpenBegins, Serving, DbCloses, DbOpens, SameLoads, Files, Loading
<1>3. (\E pc \in Pcs : Goto(c, pc)) \/ (\E ok \in BOOLEAN : Finish(c, ok))
  BY <1>2 DEF Pcs
<1> QED BY <1>1, <1>2, <1>3, StatusFacts DEF SectionStep, TypesKept, StatusTypes

LEMMA RecheckTyped ==
    ASSUME TypeInv, NEW c \in Callers, Recheck(c) \/ RecheckLoads(c)
    PROVE  SectionStep(c)
<1>1. TypesKept /\ InSection(c) /\ SameLoads
  BY DEF TypeInv, Recheck, RecheckLoads, Serving, SameLoads, Loading
<1>2. /\ Goto(c, "rereading") \/ (\E ok \in BOOLEAN : Finish(c, ok))
      /\ UNCHANGED <<ria, module, epoch>>
      /\ db' = db \/ db' = [db EXCEPT ![op[c].dir] = "whole"]
      /\ ws' = ws \/ \E a \in Actions : ws' = [ws EXCEPT !.action = a]
  <2>1. CASE Recheck(c)
    BY <2>1, StatusFacts DEF Recheck, Files, Loading, Actions
  <2>2. CASE RecheckLoads(c)
    BY <2>2 DEF RecheckLoads, Loading, Actions
  <2> QED BY <2>1, <2>2
<1>3. (\E pc \in Pcs : Goto(c, pc)) \/ (\E ok \in BOOLEAN : Finish(c, ok))
  BY <1>2 DEF Pcs
<1>4. db' \in [Dirs -> Databases]
  BY <1>1, <1>2 DEF TypesKept, Databases
<1> QED BY <1>1, <1>2, <1>3, <1>4, StatusFacts DEF SectionStep, TypesKept, StatusTypes

\* The steps that open the database of Cases A, C and D, or of create().
LEMMA OpeningTyped ==
    ASSUME TypeInv, NEW c \in Callers,
           \/ OpenRefused(c) \/ OpenUnusable(c) \/ OpenCreates(c) \/ StaleKept(c)
           \/ StaleRebuilt(c) \/ OpenSaves(c) \/ OpenCompares(c) \/ FreshOpens(c) \/ CreateEnds(c)
    PROVE  SectionStep(c)
<1>1. TypesKept /\ InSection(c) /\ op[c].dir \in Dirs
  BY DEF TypeInv, TargetsKnown, OpenRefused, OpenUnusable, OpenCreates, StaleKept, StaleRebuilt,
         OpenSaves, OpenCompares, FreshOpens, CreateEnds, Opening, Serving
<1>2. OpenSucceeds(op[c].dir) \/ OpenFails(op[c].dir)
  BY DEF OpenRefused, OpenUnusable, OpenCreates, StaleKept, StaleRebuilt, OpenSaves, OpenCompares,
         FreshOpens, CreateEnds, FoundStale
<1>3. SameLoads /\ UNCHANGED <<ria, epoch>>
  BY DEF OpenRefused, OpenUnusable, OpenCreates, StaleKept, StaleRebuilt,
         OpenSaves, OpenCompares, FreshOpens, CreateEnds, SameLoads
<1>4. /\ (\E pc \in {"freshClose", "storing", "evaluating", "freshLoad"} : Goto(c, pc))
           \/ (\E ok \in BOOLEAN : Finish(c, ok))
      /\ \/ ws' = ws
         \/ \E a \in {"unusable", "created", "failed", "loading", "saved", "consistent"} :
              ws' = OpenWs(op[c].dir, a) \/ ws' = [ws EXCEPT !.action = a]
  <2>1. CASE OpenRefused(c) \/ OpenUnusable(c) \/ StaleKept(c)
    BY <2>1 DEF OpenRefused, OpenUnusable, StaleKept
  <2>2. CASE OpenCreates(c) \/ CreateEnds(c)
    BY <2>2 DEF OpenCreates, CreateEnds, Created
  <2>3. CASE StaleRebuilt(c) \/ OpenSaves(c) \/ OpenCompares(c)
    BY <2>3 DEF StaleRebuilt, OpenSaves, OpenCompares
  <2>4. CASE FreshOpens(c)
    BY <2>4 DEF FreshOpens
  <2> QED BY <2>1, <2>2, <2>3, <2>4
<1>5. (\E pc \in Pcs : Goto(c, pc)) \/ (\E ok \in BOOLEAN : Finish(c, ok))
  BY <1>4 DEF Pcs
<1>6. ws' \in StatusTypes
  <2>1. ws \in StatusTypes
    BY <1>1 DEF TypesKept, StatusTypes
  <2>2. {"unusable", "created", "failed", "loading", "saved", "consistent"} \subseteq Actions
    BY DEF Actions
  <2> QED BY <1>1, <1>4, <2>1, <2>2, StatusFacts
<1> QED BY <1>1, <1>2, <1>3, <1>5, <1>6, OpenFilesTyped DEF SectionStep, TypesKept

\* The other steps behind the await.
LEMMA InsideTyped ==
    ASSUME TypeInv, NEW c \in Callers,
           \/ StoreEnds(c) \/ Evaluate(c) \/ ReloadEnds(c) \/ FreshDiscards(c) \/ FreshLoadEnds(c)
           \/ CreateRefused(c) \/ CreateBegins(c) \/ CloseBegins(c) \/ CloseEnds(c)
    PROVE  SectionStep(c)
<1>1. TypesKept /\ InSection(c)
  BY DEF TypeInv, StoreEnds, Evaluate, ReloadEnds, FreshDiscards, FreshLoadEnds, CreateRefused,
         CreateBegins, CloseBegins, CloseEnds, Serving
<1>2. SameLoads /\ epoch' \in {epoch, epoch + 1} /\ module' \in {module, NoDir}
  BY DEF StoreEnds, Evaluate, ReloadEnds, FreshDiscards, FreshLoadEnds, CreateRefused,
         CreateBegins, CloseBegins, CloseEnds, SameLoads, Loading, DbCloses, DbOpens
<1>3. /\ (\E pc \in {"reloading", "freshOpen", "creating", "closing"} : Goto(c, pc))
           \/ (\E ok \in BOOLEAN : Finish(c, ok))
      /\ \/ ws' \in {ws, ClosedWs}
         \/ \E a \in Actions : ws' = [ws EXCEPT !.action = a]
  <2>1. CASE Evaluate(c)
    BY <2>1, StatusFacts DEF Evaluate
  <2>2. CASE StoreEnds(c) \/ ReloadEnds(c) \/ FreshLoadEnds(c)
    BY <2>2 DEF StoreEnds, ReloadEnds, FreshLoadEnds, Actions
  <2>3. CASE FreshDiscards(c) \/ CreateRefused(c) \/ CreateBegins(c) \/ CloseBegins(c) \/ CloseEnds(c)
    BY <2>3 DEF FreshDiscards, CreateRefused, CreateBegins, CloseBegins, CloseEnds
  <2> QED BY <2>1, <2>2, <2>3
<1>4. /\ db' = db \/ \E s \in {"whole", "none"} : db' = [db EXCEPT ![op[c].dir] = s]
      /\ ria' = ria \/ \E s \in {"readable", "absent", "unusable"} : ria' = [ria EXCEPT ![op[c].dir] = s]
  BY DEF StoreEnds, Evaluate, ReloadEnds, FreshDiscards, FreshLoadEnds, CreateRefused,
         CreateBegins, CloseBegins, CloseEnds, Files
<1>5. db' \in [Dirs -> Databases] /\ ria' \in [Dirs -> Snapshots]
  BY <1>1, <1>4 DEF TypesKept, Databases, Snapshots
<1>6. (\E pc \in Pcs : Goto(c, pc)) \/ (\E ok \in BOOLEAN : Finish(c, ok))
  BY <1>3 DEF Pcs
<1>7. ws' \in StatusTypes
  BY <1>1, <1>3, StatusFacts DEF TypesKept, StatusTypes
<1> QED BY <1>1, <1>2, <1>5, <1>6, <1>7 DEF SectionStep, TypesKept

LEMMA ProbeFacts ==
    ASSUME TypeInv, NEW c \in Callers, Probe(c)
    PROVE  LET d == op[c].dir
           IN  /\ InSection(c) /\ d \in Dirs
               /\ UNCHANGED <<ria, db, module, epoch, tracked, loads>>
               /\ \/ Finish(c, FALSE) /\ ws' = ws
                  \/ /\ db[d] = "torn" /\ CaseOf(d) = "D" /\ ws' = OpenWs(d, "loading")
                     /\ Goto(c, "freshClose")
                  \/ /\ CaseOf(d) \in {"A", "B", "C", "D", "unusable"}
                     /\ CaseOf(d) \in {"C", "D"} => db[d] # "torn"
                     /\ ws' = ws /\ waiting' = waiting /\ last' = last
                     /\ op' \in [Callers -> Op]
                     /\ op'[c] = [op[c] EXCEPT !.pc = "opening", !.case = CaseOf(d)]
                     /\ \A x \in Callers : x # c => op'[x] = op[x]
<1>1. op \in [Callers -> Op] /\ InSection(c) /\ op[c].dir \in Dirs
  BY DEF TypeInv, TypesKept, TargetsKnown, Probe, Serving
<1>2. ASSUME CaseOf(op[c].dir) \in {"A", "B", "C", "D", "unusable"},
             op' = [op EXCEPT ![c].pc = "opening", ![c].case = CaseOf(op[c].dir)]
      PROVE  /\ op' \in [Callers -> Op]
             /\ op'[c] = [op[c] EXCEPT !.pc = "opening", !.case = CaseOf(op[c].dir)]
             /\ \A x \in Callers : x # c => op'[x] = op[x]
  <2>1. [op[c] EXCEPT !.pc = "opening", !.case = CaseOf(op[c].dir)] \in Op
    BY <1>1, <1>2 DEF Op, Pcs
  <2> QED BY <1>1, <1>2, <2>1
<1> QED BY <1>1, <1>2 DEF Probe, Files, Loading

LEMMA ProbeTyped ==
    ASSUME TypeInv, NEW c \in Callers, Probe(c)
    PROVE  TypeInv'
<1> DEFINE d == op[c].dir
<1>1. TypesKept /\ TargetsKnown
  BY DEF TypeInv
<1>2. InSection(c) /\ d \in Dirs /\ UNCHANGED <<ria, db, module, epoch, tracked, loads>>
  BY ProbeFacts
<1>3. CASE Finish(c, FALSE) /\ ws' = ws
  <2>1. SectionStep(c)
    BY <1>1, <1>2, <1>3 DEF SectionStep, SameLoads, TypesKept, StatusTypes
  <2> QED BY <2>1, SectionTyped DEF SectionStep, StatusTypes
<1>4. CASE ws' = OpenWs(d, "loading") /\ Goto(c, "freshClose")
  <2>1. SectionStep(c)
    BY <1>1, <1>2, <1>4, StatusFacts DEF SectionStep, SameLoads, TypesKept, Pcs, Actions
  <2> QED BY <2>1, SectionTyped DEF SectionStep, StatusTypes
<1>5. CASE /\ ws' = ws /\ waiting' = waiting /\ last' = last
           /\ op' \in [Callers -> Op]
           /\ op'[c] = [op[c] EXCEPT !.pc = "opening", !.case = CaseOf(d)]
           /\ \A x \in Callers : x # c => op'[x] = op[x]
  <2>1. op[c] \in Op
    BY <1>1 DEF TypesKept
  <2>2. op'[c].kind = op[c].kind /\ op'[c].dir = op[c].dir
    BY <1>5, <2>1 DEF Op
  <2>3. TargetsKnown'
    BY <1>1, <1>5, <2>2 DEF TargetsKnown
  <2>4. TrackedRuns'
    BY <1>2 DEF TypeInv, TrackedRuns
  <2> QED BY <1>1, <1>2, <1>5, <2>3, <2>4 DEF TypeInv, TypesKept
<1> QED BY <1>3, <1>4, <1>5, ProbeFacts

\* Case B: the load that is started is tracked.
LEMMA OpenLoadsFacts ==
    ASSUME TypeInv, NEW c \in Callers, OpenLoads(c)
    PROVE  LET d == op[c].dir
               new == [dir |-> d, epoch |-> epoch + 1, pc |-> "loading", attached |-> TRUE]
           IN  /\ InSection(c) /\ d \in Dirs /\ new \in LoadRecord
               /\ op[c].pc = "opening" /\ op[c].case = "B" /\ op[c].kind = "open"
               /\ OpenSucceeds(d) /\ Finish(c, TRUE) /\ ria' = ria
               /\ epoch' = epoch + 1 /\ tracked' = epoch + 1 /\ epoch' \in Nat
               /\ loads' = Superseded(loads) \cup {new} /\ loads' \subseteq LoadRecord
               /\ ws' = OpenWs(d, "loading")
<1> DEFINE new == [dir |-> op[c].dir, epoch |-> epoch + 1, pc |-> "loading", attached |-> TRUE]
<1>1. op[c].dir \in Dirs /\ epoch + 1 \in Nat /\ loads \subseteq LoadRecord
  BY DEF TypeInv, TypesKept, TargetsKnown, OpenLoads, Opening, Serving
<1>2. new \in LoadRecord
  BY <1>1 DEF LoadRecord
<1>3. loads' = Superseded(loads) \cup {new}
  BY DEF OpenLoads
<1> HIDE DEF new
<1>4. loads' \subseteq LoadRecord
  BY <1>1, <1>2, <1>3, SupersededFacts
<1> QED BY <1>1, <1>2, <1>3, <1>4 DEF OpenLoads, Opening, Serving, new

LEMMA OpenLoadsTyped ==
    ASSUME TypeInv, NEW c \in Callers, OpenLoads(c)
    PROVE  TypeInv'
<1> DEFINE d == op[c].dir
           new == [dir |-> d, epoch |-> epoch + 1, pc |-> "loading", attached |-> TRUE]
<1>1. TypesKept /\ TargetsKnown
  BY DEF TypeInv
<1>2. /\ InSection(c) /\ d \in Dirs /\ new \in LoadRecord
      /\ OpenSucceeds(d) /\ Finish(c, TRUE) /\ ria' = ria
      /\ epoch' = epoch + 1 /\ tracked' = epoch + 1 /\ epoch' \in Nat
      /\ loads' = Superseded(loads) \cup {new} /\ loads' \subseteq LoadRecord
      /\ ws' = OpenWs(d, "loading")
  BY OpenLoadsFacts
<1>3. new \in loads' /\ new.epoch = tracked'
  BY <1>2
<1>4. TrackedRuns'
  BY <1>3 DEF TrackedRuns
<1> HIDE DEF new
<1>5. ws' \in StatusTypes
  BY <1>2, StatusFacts DEF Actions
<1>6. TargetsKnown'
  BY <1>1, <1>2, FinishFacts, IdleTyped DEF TargetsKnown
<1>7. TypesKept'
  BY <1>1, <1>2, <1>5, FinishFacts, OpenFilesTyped DEF TypesKept, StatusTypes
<1> QED BY <1>4, <1>6, <1>7 DEF TypeInv

LEMMA RequestFacts ==
    ASSUME TypeInv, NEW c \in Callers, Requests(c)
    PROVE  \E kind \in {"open", "create", "close"}, d \in Dirs \cup {NoDir}, r \in BOOLEAN :
             /\ kind # "close" => d \in Dirs
             /\ op[c] = NoOp
             /\ (kind = "create" /\ GatedCreate) => (waiting = <<>> /\ tracked = 0)
             /\ op' \in [Callers -> Op]
             /\ op'[c] = [kind |-> kind, dir |-> d, recheck |-> r, pc |-> "start", case |-> "none"]
             /\ \A x \in Callers : x # c => op'[x] = op[x]
             /\ waiting' = Append(waiting, c) /\ waiting' \in Seq(Callers) /\ waiting' # <<>>
             /\ waiting # <<>> => Head(waiting') = Head(waiting)
             /\ waiting = <<>> => Head(waiting') = c
             /\ UNCHANGED <<ria, db, module, ws, epoch, tracked, loads, last, crashes>>
<1>1. PICK kind \in {"open", "create", "close"}, d \in Dirs \cup {NoDir}, r \in BOOLEAN :
         Request(c, kind, d, r) /\ (kind # "close" => d \in Dirs)
  BY DEF Requests
<1>2. [kind |-> kind, dir |-> d, recheck |-> r, pc |-> "start", case |-> "none"] \in Op
  BY DEF Op, Pcs
<1>3. op \in [Callers -> Op] /\ waiting \in Seq(Callers)
  BY DEF TypeInv, TypesKept
<1>4. /\ waiting' = Append(waiting, c) /\ waiting' \in Seq(Callers) /\ waiting' # <<>>
      /\ waiting # <<>> => Head(waiting') = Head(waiting)
      /\ waiting = <<>> => Head(waiting') = c
  BY <1>1, <1>3 DEF Request
<1>5. /\ op' \in [Callers -> Op]
      /\ op'[c] = [kind |-> kind, dir |-> d, recheck |-> r, pc |-> "start", case |-> "none"]
      /\ \A x \in Callers : x # c => op'[x] = op[x]
  BY <1>1, <1>2, <1>3 DEF Request
<1>6. /\ op[c] = NoOp
      /\ (kind = "create" /\ GatedCreate) => (waiting = <<>> /\ tracked = 0)
      /\ UNCHANGED <<ria, db, module, ws, epoch, tracked, loads, last, crashes>>
  BY <1>1 DEF Request, Files, Loading
<1> QED BY <1>1, <1>4, <1>5, <1>6

LEMMA RequestTyped ==
    ASSUME TypeInv, NEW c \in Callers, Requests(c)
    PROVE  TypeInv'
<1>1. PICK kind \in {"open", "create", "close"}, d \in Dirs \cup {NoDir}, r \in BOOLEAN :
         /\ kind # "close" => d \in Dirs
         /\ op' \in [Callers -> Op]
         /\ op'[c] = [kind |-> kind, dir |-> d, recheck |-> r, pc |-> "start", case |-> "none"]
         /\ \A x \in Callers : x # c => op'[x] = op[x]
         /\ waiting' \in Seq(Callers)
         /\ UNCHANGED <<ria, db, module, ws, epoch, tracked, loads, last, crashes>>
  BY RequestFacts
<1>2. TargetsKnown'
  BY <1>1 DEF TypeInv, TargetsKnown
<1>3. TypesKept' /\ TrackedRuns'
  BY <1>1 DEF TypeInv, TypesKept, TrackedRuns
<1> QED BY <1>2, <1>3 DEF TypeInv

\* What a load does to the set of loads.
LEMMA AdvanceFacts ==
    ASSUME TypeInv, NEW l \in loads, NEW pc \in {"loading", "cleanup", "closing", "removing"},
           Advance(l, pc)
    PROVE  LET k == [l EXCEPT !.pc = pc]
           IN  /\ k \in LoadRecord /\ k.epoch = l.epoch /\ k.dir = l.dir /\ k.attached = l.attached
               /\ k.pc = pc
               /\ loads' = (loads \ {l}) \cup {k} /\ loads' \subseteq LoadRecord
               /\ tracked' = tracked /\ TrackedRuns'
<1> DEFINE k == [l EXCEPT !.pc = pc]
<1>1. loads \subseteq LoadRecord /\ TrackedRuns
  BY DEF TypeInv, TypesKept
<1>2. k \in LoadRecord /\ k.epoch = l.epoch /\ k.dir = l.dir /\ k.attached = l.attached /\ k.pc = pc
  BY <1>1 DEF LoadRecord
<1>3. loads' = (loads \ {l}) \cup {k} /\ tracked' = tracked
  BY DEF Advance
<1> HIDE DEF k
<1>4. loads' \subseteq LoadRecord
  BY <1>1, <1>2, <1>3
<1>5. TrackedRuns'
  BY <1>1, <1>2, <1>3 DEF TrackedRuns
<1> QED BY <1>2, <1>3, <1>4, <1>5 DEF k

LEMMA SettleFacts ==
    ASSUME TypeInv, NEW l \in loads, Settle(l)
    PROVE  loads' \subseteq LoadRecord /\ tracked' \in Nat /\ TrackedRuns'
<1>1. loads \subseteq LoadRecord /\ tracked \in Nat /\ TrackedRuns
  BY DEF TypeInv, TypesKept
<1> QED BY <1>1 DEF Settle, TrackedRuns

LEMMA LoadClosesFacts ==
    ASSUME TypeInv, NEW l \in loads, LoadCloses(l)
    PROVE  LET k == [l EXCEPT !.pc = "removing", !.attached = FALSE]
           IN  /\ k \in LoadRecord /\ k.epoch = l.epoch /\ k.dir = l.dir /\ ~k.attached
               /\ k.pc = "removing" /\ l.pc = "closing"
               /\ loads' = Superseded(loads \ {l}) \cup {k} /\ loads' \subseteq LoadRecord
               /\ module' = NoDir /\ TrackedRuns'
               /\ UNCHANGED <<ria, db, ws, epoch, tracked, waiting, op, last>>
<1> DEFINE k == [l EXCEPT !.pc = "removing", !.attached = FALSE]
<1>1. loads \subseteq LoadRecord /\ TrackedRuns /\ loads \ {l} \in SUBSET LoadRecord
  BY DEF TypeInv, TypesKept
<1>2. k \in LoadRecord /\ k.epoch = l.epoch /\ k.dir = l.dir /\ ~k.attached /\ k.pc = "removing"
  BY <1>1 DEF LoadRecord
<1>3. /\ loads' = Superseded(loads \ {l}) \cup {k} /\ module' = NoDir /\ l.pc = "closing"
      /\ UNCHANGED <<ria, db, ws, epoch, tracked, waiting, op, last>>
  BY DEF LoadCloses, Files
<1> HIDE DEF k
<1>4. loads' \subseteq LoadRecord
  BY <1>1, <1>2, <1>3, SupersededFacts
<1>5. TrackedRuns'
  <2> SUFFICES ASSUME tracked # 0 PROVE \E x \in loads' : x.epoch = tracked
    BY <1>3 DEF TrackedRuns
  <2>1. PICK y \in loads : y.epoch = tracked
    BY <1>1 DEF TrackedRuns
  <2>2. CASE y = l
    BY <1>2, <1>3, <2>1, <2>2
  <2>3. CASE y # l
    BY <1>1, <1>3, <2>1, <2>3, SupersededFacts
  <2> QED BY <2>2, <2>3
<1> QED BY <1>2, <1>3, <1>4, <1>5 DEF k

LEMMA LoadTyped ==
    ASSUME TypeInv, NEW l \in loads, LoadStep(l)
    PROVE  TypeInv'
<1>1. TypesKept /\ TrackedRuns /\ TargetsKnown /\ l \in LoadRecord
  BY DEF TypeInv, TypesKept
<1>2. ws \in StatusTypes
  BY <1>1 DEF TypesKept, StatusTypes
<1>3. CASE LoadReadsAll(l) \/ LoadFails(l)
  <2>1. /\ Advance(l, "cleanup") \/ Advance(l, "closing") \/ Settle(l)
        /\ db' = db \/ db' = [db EXCEPT ![l.dir] = "whole"]
        /\ UNCHANGED <<ria, module, ws, epoch, waiting, op, last>>
    BY <1>3 DEF LoadReadsAll, LoadFails, Files
  <2>2. loads' \subseteq LoadRecord /\ tracked' \in Nat /\ TrackedRuns'
    BY <1>1, <2>1, AdvanceFacts, SettleFacts DEF TypesKept
  <2>3. db' \in [Dirs -> Databases]
    BY <1>1, <2>1 DEF TypesKept, Databases
  <2> QED BY <1>1, <2>1, <2>2, <2>3 DEF TypeInv, TypesKept, TargetsKnown
<1>4. CASE LoadPublishes(l) \/ LoadDiscards(l)
  <2>1. /\ Settle(l)
        /\ db' = db \/ db' = [db EXCEPT ![l.dir] = "none"]
        /\ ws' = ws \/ ws' = [ws EXCEPT !.action = "loaded"] \/ ws' = [ws EXCEPT !.action = "failed"]
        /\ UNCHANGED <<ria, module, epoch, waiting, op, last>>
    BY <1>4 DEF LoadPublishes, LoadDiscards, Files
  <2>2. loads' \subseteq LoadRecord /\ tracked' \in Nat /\ TrackedRuns'
    BY <2>1, SettleFacts
  <2>3. db' \in [Dirs -> Databases]
    BY <1>1, <2>1 DEF TypesKept, Databases
  <2>4. ws' \in StatusTypes
    BY <1>2, <2>1, StatusFacts DEF Actions
  <2> QED BY <1>1, <2>1, <2>2, <2>3, <2>4 DEF TypeInv, TypesKept, TargetsKnown, StatusTypes
<1>5. CASE LoadCloses(l)
  <2>1. /\ loads' \subseteq LoadRecord /\ module' = NoDir /\ TrackedRuns'
        /\ UNCHANGED <<ria, db, ws, epoch, tracked, waiting, op, last>>
    BY <1>5, LoadClosesFacts
  <2> QED BY <1>1, <2>1 DEF TypeInv, TypesKept, TargetsKnown
<1> QED BY <1>3, <1>4, <1>5 DEF LoadStep

LEMMA AroundTyped ==
    ASSUME TypeInv,
           NotifyStoreCompleted \/ (\E d \in Dirs : SnapshotChanges(d)) \/ Crash
             \/ (\E c \in Callers : OpenAborts(c))
    PROVE  TypeInv'
<1>1. TypesKept /\ TrackedRuns /\ TargetsKnown
  BY DEF TypeInv
<1>2. CASE NotifyStoreCompleted
  <2>1. /\ ria' = [ria EXCEPT ![ws.dir] = "readable"] /\ ws' = [ws EXCEPT !.action = "saved"]
        /\ UNCHANGED <<db, module, epoch, tracked, loads, waiting, op, last>>
    BY <1>2 DEF NotifyStoreCompleted, Loading
  <2>2. ria' \in [Dirs -> Snapshots] /\ ws' \in StatusTypes
    BY <1>1, <2>1, StatusFacts DEF TypesKept, Snapshots, StatusTypes, Actions
  <2> QED BY <1>1, <2>1, <2>2 DEF TypeInv, TypesKept, TrackedRuns, TargetsKnown, StatusTypes
<1>3. CASE \E d \in Dirs : SnapshotChanges(d)
  <2>1. /\ ria' \in [Dirs -> Snapshots]
        /\ UNCHANGED <<db, module, ws, epoch, tracked, loads, waiting, op, last>>
    BY <1>1, <1>3 DEF SnapshotChanges, Loading, TypesKept, Snapshots
  <2> QED BY <1>1, <2>1 DEF TypeInv, TypesKept, TrackedRuns, TargetsKnown
<1>4. CASE Crash
  <2>1. WorkerDies /\ ria' \in [Dirs -> Snapshots] /\ db' \in [Dirs -> Databases]
    BY <1>1, <1>4 DEF Crash, TypesKept, Snapshots, Databases
  <2> QED BY <2>1, DeathTyped
<1>5. CASE \E c \in Callers : OpenAborts(c)
  <2>1. WorkerDies /\ ria' \in [Dirs -> Snapshots] /\ db' \in [Dirs -> Databases]
    BY <1>1, <1>5 DEF OpenAborts, TypesKept, Files
  <2> QED BY <2>1, DeathTyped
<1> QED BY <1>2, <1>3, <1>4, <1>5

LEMMA TypeStep ==
    ASSUME TypeInv, LifecycleNext
    PROVE  TypeInv'
<1>1. ASSUME NEW c \in Callers, OpenStep(c) \/ CreateStep(c) \/ CloseStep(c)
      PROVE  TypeInv'
  <2>1. CASE SectionStep(c)
    BY <2>1, SectionTyped DEF SectionStep, StatusTypes
  <2>2. CASE OpenAborts(c)
    BY <2>2, AroundTyped
  <2>3. CASE Probe(c)
    BY <2>3, ProbeTyped
  <2>4. CASE OpenLoads(c)
    BY <2>4, OpenLoadsTyped
  <2> QED BY <1>1, <2>1, <2>2, <2>3, <2>4, AwaitStepTyped, RecheckTyped, OpeningTyped, InsideTyped
          DEF OpenStep, CreateStep, CloseStep
<1> QED BY <1>1, RequestTyped, LoadTyped, AroundTyped DEF LifecycleNext, ServiceStep

-----------------------------------------------------------------------------
(***************************************************************************)
(* The calls: one is in the critical section, the others have not begun.   *)
(***************************************************************************)
LEMMA OthersWait ==
    ASSUME LifecycleInv, NEW c \in Callers, InSection(c), NEW x \in Callers, x # c
    PROVE  op[x].pc \in {"idle", "start"} /\ op[x].kind # "create"
BY DEF LifecycleInv, CallsInv, CallOK, CreateAlone, InSection

LEMMA CalmFacts ==
    ASSUME NEW x, op[x].pc \in {"idle", "start"}
    PROVE  LoadsSuperseded(x) /\ StepOK(x) /\ op[x].pc \in Keeping
BY DEF LoadsSuperseded, StepOK, Waiting, Keeping

\* The call in the section leaves it.
LEMMA Leaves ==
    ASSUME TypeInv, LifecycleInv, NEW c \in Callers, InSection(c), NEW ok \in BOOLEAN,
           Finish(c, ok), LoadsInv', FilesOK', Resting',
           op[c].kind = "close" => ~ws'.isOpen /\ module' = NoDir,
           op[c].kind \in {"open", "create"} /\ ok => ws'.isOpen /\ ws'.dir = op[c].dir
    PROVE  LifecycleInv'
<1>1. /\ op'[c] = NoOp /\ \A x \in Callers : x # c => op'[x] = op[x]
      /\ last' = [kind |-> op[c].kind, dir |-> op[c].dir, ok |-> ok]
  BY FinishFacts DEF TypeInv
<1>2. ASSUME NEW x \in Callers
      PROVE  (CallOK(x) /\ CreateAlone(x) /\ LoadsSuperseded(x) /\ StepOK(x))'
  <2>1. op'[x].pc \in {"idle", "start"} /\ op'[x].kind # "create"
        /\ (op'[x].kind = "none" <=> op'[x].pc = "idle")
        /\ (op'[x].kind = "close" => op'[x].pc = "start")
    <3>1. CASE x = c
      BY <1>1, <3>1, IdleTyped
    <3>2. CASE x # c
      BY <1>1, <3>2, OthersWait DEF LifecycleInv, CallsInv, CallOK
    <3> QED BY <3>1, <3>2
  <2>2. LoadsSuperseded(x)' /\ StepOK(x)'
    BY <2>1 DEF LoadsSuperseded, StepOK, Waiting, Keeping
  <2> QED BY <2>1, <2>2 DEF CallOK, CreateAlone
<1>3. LastKept'
  BY <1>1 DEF LastKept
<1> QED BY <1>2, <1>3 DEF LifecycleInv, CallsInv

\* The call in the section goes on.
LEMMA GoesOn ==
    ASSUME TypeInv, LifecycleInv, NEW c \in Callers, InSection(c),
           op'[c].kind = op[c].kind, waiting' = waiting,
           \A x \in Callers : x # c => op'[x] = op[x],
           \/ op[c].kind = "open" /\ op'[c].pc \notin {"idle", "creating", "closing"}
           \/ op[c].kind = "create" /\ op'[c].pc = "creating"
           \/ op[c].kind = "close" /\ op'[c].pc = "closing",
           tracked' = tracked, LoadsInv', FilesOK', LoadsSuperseded(c)', StepOK(c)',
           op'[c].pc \in Keeping => Resting'
    PROVE  LifecycleInv'
<1>1. ASSUME NEW x \in Callers
      PROVE  (CallOK(x) /\ CreateAlone(x) /\ LoadsSuperseded(x) /\ StepOK(x))'
  <2>1. CASE x = c
    BY <2>1 DEF CallOK, CreateAlone, InSection, LifecycleInv, CallsInv
  <2>2. CASE x # c
    <3>1. op'[x] = op[x] /\ op[x].pc \in {"idle", "start"} /\ op[x].kind # "create"
      BY <2>2, OthersWait
    <3>2. LoadsSuperseded(x)' /\ StepOK(x)'
      BY <3>1 DEF LoadsSuperseded, StepOK, Waiting, Keeping
    <3> QED BY <3>1, <3>2 DEF LifecycleInv, CallsInv, CallOK, CreateAlone
  <2> QED BY <2>1, <2>2
<1>2. LastKept'
  BY DEF LastKept, InSection
<1>3. Kept' => Resting'
  BY DEF Kept
<1> QED BY <1>1, <1>2, <1>3 DEF LifecycleInv, CallsInv

\* The same for Goto().
LEMMA GoesTo ==
    ASSUME TypeInv, LifecycleInv, NEW c \in Callers, InSection(c), NEW pc \in Pcs, Goto(c, pc),
           \/ op[c].kind = "open" /\ pc \notin {"idle", "creating", "closing"}
           \/ op[c].kind = "create" /\ pc = "creating"
           \/ op[c].kind = "close" /\ pc = "closing",
           tracked' = tracked, LoadsInv', FilesOK', LoadsSuperseded(c)', StepOK(c)',
           pc \in Keeping => Resting'
    PROVE  LifecycleInv'
BY GotoFacts, GoesOn DEF TypeInv

-----------------------------------------------------------------------------
(***************************************************************************)
(* The loads.                                                              *)
(***************************************************************************)
\* At most one load decides: the tracked one.
LEMMA SoleDecider ==
    ASSUME LoadsTracked, NEW l \in loads, NEW k \in loads, Decides(l), Decides(k)
    PROVE  l = k /\ tracked = l.epoch /\ tracked # 0
BY DEF LoadsTracked, Decides

\* No call is past the await while a load decides.
LEMMA DeciderHoldsCalls ==
    ASSUME LifecycleInv, NEW l \in loads, Decides(l), NEW x \in Callers
    PROVE  op[x].pc \in Waiting /\ StepOK(x)
BY DEF LifecycleInv, CallsInv, LoadsSuperseded, Waiting, StepOK

\* When no load decides, a call may change the workspace.
LEMMA Quiet ==
    ASSUME TypeInv, LifecycleInv, \A l \in loads : ~Decides(l),
           epoch' = epoch, tracked' = tracked,
           \/ loads' = Superseded(loads)
           \/ loads' = loads /\ \A l \in loads : LoadAttached(l)'
    PROVE  /\ LoadsInv'
           /\ \A l \in loads' : ~Decides(l)' /\ l.epoch < epoch'
           /\ loads' = Superseded(loads) => \A l \in loads' : ~l.attached
<1>1. LoadsTracked /\ loads \in SUBSET LoadRecord /\ epoch \in Nat
  BY DEF TypeInv, TypesKept, LifecycleInv, LoadsInv
<1>2. \A l \in loads : l.epoch \in Nat /\ l.epoch < epoch
  BY <1>1 DEF LoadsTracked, Decides, LoadRecord
<1>3. CASE loads' = Superseded(loads)
  <2>1. ASSUME NEW l \in loads'
        PROVE  /\ l.epoch > 0 /\ l.epoch < epoch' /\ ~Decides(l)' /\ ~l.attached
               /\ LoadOwns(l)' /\ LoadAttached(l)'
               /\ l.pc \notin {"closing", "removing"}
    <3>1. PICK k \in loads : k.epoch = l.epoch /\ k.pc = l.pc /\ k.dir = l.dir /\ ~l.attached
      BY <1>1, <1>3, SupersededFacts
    <3>2. ~Decides(k)
      OBVIOUS
    <3> QED BY <1>1, <1>2, <3>1, <3>2 DEF Decides, LoadOwns, LoadAttached, LoadsTracked
  <2>2. ASSUME NEW l \in loads', NEW k \in loads', l.epoch = k.epoch
        PROVE  l = k
    <3>1. PICK m \in loads : m.epoch = l.epoch /\ l = [m EXCEPT !.attached = FALSE]
      BY <1>1, <1>3, SupersededFacts
    <3>2. PICK n \in loads : n.epoch = k.epoch /\ k = [n EXCEPT !.attached = FALSE]
      BY <1>1, <1>3, SupersededFacts
    <3> QED BY <1>1, <2>2, <3>1, <3>2 DEF LoadsTracked
  <2>3. LoadsTracked'
    <3> SUFFICES /\ \A l \in loads' : /\ l.epoch > 0 /\ l.epoch <= epoch'
                                      /\ l.epoch = epoch' => tracked' = epoch'
                                      /\ l.pc \in {"closing", "removing"} => tracked' = l.epoch
                 /\ \A l, k \in loads' : l.epoch = k.epoch => l = k
      BY DEF LoadsTracked
    <3>1. \A l \in loads' : l.epoch \in Nat
      BY <1>1, <1>3, SupersededFacts DEF LoadRecord
    <3> QED BY <1>1, <2>1, <2>2, <3>1
  <2> QED BY <2>1, <2>3 DEF LoadsInv
<1>4. CASE loads' = loads /\ \A l \in loads : LoadAttached(l)'
  <2>1. LoadsTracked'
    BY <1>1, <1>4 DEF LoadsTracked
  <2>2. \A l \in loads' : ~Decides(l)' /\ LoadOwns(l)' /\ l.epoch < epoch'
    BY <1>2, <1>4 DEF Decides, LoadOwns
  <2>3. loads' = Superseded(loads) => \A l \in loads' : ~l.attached
    BY <1>1, SupersededFacts
  <2> QED BY <1>4, <2>1, <2>2, <2>3 DEF LoadsInv
<1> QED BY <1>3, <1>4

\* A call that has closed or opened a database goes on without the loads.
LEMMA Alone ==
    ASSUME TypeInv, LifecycleInv, NEW c \in Callers, op[c].pc \notin Keeping,
           epoch' = epoch, tracked' = tracked, loads' \in {loads, Superseded(loads)}
    PROVE  /\ LoadsInv' /\ \A l \in loads' : ~Decides(l)' /\ l.epoch < epoch' /\ ~l.attached
           /\ LoadsSuperseded(c)'
<1>1. \A l \in loads : ~Decides(l) /\ ~l.attached
  BY DEF LifecycleInv, CallsInv, LoadsSuperseded, Keeping, Waiting
<1>2. loads' = loads => \A l \in loads : LoadAttached(l)'
  BY <1>1 DEF LoadAttached
<1>3. \A l \in loads' : ~l.attached
  BY <1>1, <1>2, Quiet
<1> QED BY <1>1, <1>2, <1>3, Quiet DEF LoadsSuperseded

\* The await of the load is over: it has settled, or is superseded and not in its
\* catch block.
LEMMA AwaitOver ==
    ASSUME TypeInv, LifecycleInv, NEW c \in Callers,
           \/ tracked = 0
           \/ op[c].pc \in {"awaitingLoad", "closing"} /\ AwaitEnds
    PROVE  \A l \in loads : ~Decides(l)
<1>1. LoadsTracked /\ \A l \in loads : l.epoch \in Nat
  BY DEF TypeInv, TypesKept, LoadRecord, LifecycleInv, LoadsInv
<1>2. CASE tracked = 0
  BY <1>1, <1>2 DEF LoadsTracked, Decides
<1>3. CASE op[c].pc \in {"awaitingLoad", "closing"} /\ AwaitTimesOut
  <2>1. PICK k \in loads : k.epoch = tracked /\ k.pc \in {"loading", "cleanup"}
    BY <1>3 DEF AwaitTimesOut
  <2>2. \A l \in loads : l.epoch < epoch
    BY <1>3 DEF LifecycleInv, CallsInv, LoadsSuperseded
  <2>3. epoch \in Nat
    BY DEF TypeInv, TypesKept
  <2> QED BY <1>1, <2>1, <2>2, <2>3 DEF LoadsTracked, Decides
<1> QED BY <1>2, <1>3 DEF AwaitEnds, LoadSettled

\* Nothing but the calls changes.
LEMMA SameWorld ==
    ASSUME LifecycleInv, UNCHANGED <<ria, db, module, ws, epoch, tracked, loads>>
    PROVE  LoadsInv' /\ FilesOK' /\ (Resting => Resting')
<1>1. LoadsTracked'
  BY DEF LifecycleInv, LoadsInv, LoadsTracked
<1>2. \A l \in loads' : LoadOwns(l)' /\ LoadAttached(l)'
  BY DEF LifecycleInv, LoadsInv, LoadOwns, LoadAttached, Decides
<1>3. FilesOK' /\ (Resting => Resting')
  BY DEF LifecycleInv, FilesOK, Resting
<1> QED BY <1>1, <1>2, <1>3 DEF LoadsInv

\* The workspace rests until the call in the section changes it.
LEMMA RestsUntil ==
    ASSUME LifecycleInv, NEW c \in Callers, InSection(c), op[c].pc \in Keeping
    PROVE  Resting
BY OthersWait DEF LifecycleInv, Kept, Keeping, Waiting

-----------------------------------------------------------------------------
(***************************************************************************)
(* openLocked(): up to the end of the await, and the recheck.              *)
(***************************************************************************)
LEMMA SupersedesStep ==
    ASSUME TypeInv, LifecycleInv, NEW c \in Callers, OpenSupersedesLoad(c) \/ CloseBegins(c)
    PROVE  LifecycleInv'
<1>1. /\ InSection(c) /\ op[c].pc = "start"
      /\ epoch' = epoch + 1 /\ UNCHANGED <<ria, db, module, ws, tracked, loads>>
      /\ \/ op[c].kind = "open" /\ Goto(c, "awaitingLoad")
         \/ op[c].kind = "close" /\ Goto(c, "closing")
  BY DEF OpenSupersedesLoad, CloseBegins, Serving, Files
<1>2. PICK pc \in {"awaitingLoad", "closing"} :
        /\ Goto(c, pc)
        /\ \/ op[c].kind = "open" /\ pc = "awaitingLoad"
           \/ op[c].kind = "close" /\ pc = "closing"
  BY <1>1
<1>3. pc \in Pcs /\ pc \in Keeping /\ pc \in Waiting
  BY DEF Pcs, Keeping, Waiting
<1>4. op'[c].pc = pc
  BY <1>2, <1>3, GotoFacts DEF TypeInv
<1>5. LoadsTracked /\ epoch \in Nat /\ \A l \in loads : l.epoch \in Nat
  BY DEF TypeInv, TypesKept, LoadRecord, LifecycleInv, LoadsInv
<1>6. \A l \in loads : l.epoch < epoch + 1
  BY <1>5 DEF LoadsTracked
<1>7. LoadsTracked'
  BY <1>1, <1>5, <1>6 DEF LoadsTracked
<1>8. \A l \in loads : LoadOwns(l)' /\ LoadAttached(l)'
  BY <1>1, <1>5, <1>6 DEF LifecycleInv, LoadsInv, LoadOwns, LoadAttached, Decides
<1>9. LoadsInv' /\ FilesOK'
  BY <1>1, <1>7, <1>8 DEF LoadsInv, FilesOK, LifecycleInv
<1>10. Resting'
  <2>1. Resting
    BY <1>1, RestsUntil DEF Keeping, Waiting
  <2> QED BY <1>1, <2>1 DEF Resting
<1>11. LoadsSuperseded(c)' /\ StepOK(c)'
  BY <1>1, <1>2, <1>3, <1>4, <1>6 DEF LoadsSuperseded, StepOK
<1> QED BY <1>1, <1>2, <1>3, <1>9, <1>10, <1>11, GoesTo

LEMMA BeginsFacts ==
    ASSUME TypeInv, LifecycleInv, NEW c \in Callers, OpenBegins(c)
    PROVE  /\ InSection(c) /\ op[c].kind = "open" /\ op[c].dir \in Dirs /\ Resting
           /\ \A l \in loads : ~Decides(l) /\ LoadAttached(l)
<1>1. /\ InSection(c) /\ op[c].kind = "open" /\ op[c].pc \in Keeping
      /\ tracked = 0 \/ (op[c].pc \in {"awaitingLoad", "closing"} /\ AwaitEnds)
  BY DEF OpenBegins, Serving, Keeping, Waiting
<1>2. op[c].dir \in Dirs
  BY <1>1 DEF TypeInv, TargetsKnown
<1> QED BY <1>1, <1>2, RestsUntil, AwaitOver DEF LifecycleInv, LoadsInv

LEMMA BeginsStep ==
    ASSUME TypeInv, LifecycleInv, NEW c \in Callers,
           OpenFastPath(c) \/ OpenRechecks(c) \/ OpenClosesPrevious(c) \/ OpenFromClosed(c)
    PROVE  LifecycleInv'
<1> DEFINE d == op[c].dir
<1>1. /\ InSection(c) /\ op[c].kind = "open" /\ d \in Dirs /\ Resting
      /\ \A l \in loads : ~Decides(l) /\ LoadAttached(l)
  BY BeginsFacts DEF OpenFastPath, OpenRechecks, OpenClosesPrevious, OpenFromClosed
<1>2. CASE OpenFastPath(c)
  <2>1. /\ Finish(c, TRUE) /\ ws.isOpen /\ ws.dir = d
        /\ UNCHANGED <<ria, db, module, ws, epoch, tracked, loads>>
    BY <1>2 DEF OpenFastPath, AlreadyOpen, Files, Loading
  <2> QED BY <1>1, <2>1, SameWorld, Leaves
<1>3. CASE OpenRechecks(c)
  <2>1. /\ Goto(c, "rechecking") /\ ws.isOpen /\ ws.dir = d /\ db[d] # "none"
        /\ UNCHANGED <<ria, db, module, ws, epoch, tracked, loads>>
    BY <1>3 DEF OpenRechecks, AlreadyOpen, Files, Loading
  <2>2. "rechecking" \in Pcs /\ "rechecking" \in Keeping /\ "rechecking" \notin Waiting
    BY DEF Pcs, Keeping, Waiting
  <2>3. op'[c].pc = "rechecking" /\ op'[c].dir = d
    BY <2>1, <2>2, GotoFacts DEF TypeInv
  <2>4. \A l \in loads' : ~Decides(l)' /\ l.epoch < epoch'
    <3>1. \A l \in loads : LoadAttached(l)'
      BY <1>1, <2>1 DEF LoadAttached
    <3> QED BY <1>1, <2>1, <3>1, Quiet
  <2>5. LoadsSuperseded(c)' /\ StepOK(c)'
    BY <2>1, <2>2, <2>3, <2>4 DEF LoadsSuperseded, StepOK
  <2> QED BY <1>1, <2>1, <2>2, <2>5, SameWorld, GoesTo
<1>4. CASE OpenClosesPrevious(c) \/ OpenFromClosed(c)
  <2>1. /\ Goto(c, "probing") /\ ~ws'.isOpen
        /\ UNCHANGED <<ria, db, epoch, tracked>>
        /\ \/ module' = NoDir /\ loads' = Superseded(loads)
           \/ module' = module /\ loads' = loads /\ ws' = ws
    BY <1>4 DEF OpenClosesPrevious, OpenFromClosed, DbCloses, DbOpens, ClosedWs, Files, Loading
  <2>2. "probing" \in Pcs /\ "probing" \notin Keeping /\ "probing" \notin Waiting
    BY DEF Pcs, Keeping, Waiting
  <2>3. op'[c].pc = "probing" /\ op'[c].dir = d
    BY <2>1, <2>2, GotoFacts DEF TypeInv
  <2>4. loads' = loads /\ ws' = ws => \A l \in loads : ~l.attached /\ LoadAttached(l)'
    BY <1>1, <2>1 DEF LoadAttached
  <2>5. loads' = Superseded(loads) \/ (loads' = loads /\ \A l \in loads : LoadAttached(l)')
    BY <2>1, <2>4
  <2>6. LoadsInv' /\ \A l \in loads' : ~Decides(l)' /\ l.epoch < epoch'
    BY <1>1, <2>1, <2>5, Quiet
  <2>7. \A l \in loads' : ~l.attached
    BY <1>1, <2>1, <2>4, <2>5, Quiet
  <2>8. FilesOK'
    BY <2>1 DEF LifecycleInv, FilesOK
  <2>9. LoadsSuperseded(c)' /\ StepOK(c)'
    BY <2>1, <2>2, <2>3, <2>6, <2>7 DEF LoadsSuperseded, StepOK
  <2> QED BY <1>1, <2>1, <2>2, <2>6, <2>8, <2>9, GoesTo
<1> QED BY <1>2, <1>3, <1>4

\* While a call rechecks, only the status and the content of its own database change.
LEMMA RecheckStep ==
    ASSUME TypeInv, LifecycleInv, NEW c \in Callers, Recheck(c) \/ RecheckLoads(c)
    PROVE  LifecycleInv'
<1> DEFINE d == op[c].dir
<1>1. /\ InSection(c) /\ op[c].kind = "open" /\ op[c].pc \in {"rechecking", "rereading"}
      /\ UNCHANGED <<ria, module, epoch, tracked, loads>>
  BY DEF Recheck, RecheckLoads, Serving, Loading, Files
<1>2. op[c].pc \in Keeping /\ op[c].pc \notin Waiting
  BY <1>1 DEF Keeping, Waiting
<1>3. /\ d \in Dirs /\ Resting /\ FilesOK /\ ws.isOpen /\ ws.dir = d /\ db[d] # "none"
      /\ \A l \in loads : ~Decides(l) /\ LoadAttached(l)
      /\ LoadsSuperseded(c)
  BY <1>1, <1>2, RestsUntil
     DEF TypeInv, TargetsKnown, LifecycleInv, CallsInv, LoadsInv, LoadsSuperseded, StepOK
<1>4. /\ ws \in StatusTypes /\ db \in [Dirs -> Databases] /\ NoDir \notin Dirs
      /\ module \in Dirs \cup {NoDir}
  BY LifecycleAssumption DEF TypeInv, TypesKept, StatusTypes, LifecycleAssumption
<1>5. /\ ws'.isOpen /\ ws'.dir = d
      /\ db' \in [Dirs -> Databases] /\ (\A x \in Dirs : x # d => db'[x] = db[x])
      /\ db'[d] = db[d] \/ db'[d] = "whole"
      /\ Resting'
      /\ (\E ok \in BOOLEAN : Finish(c, ok)) \/ (Goto(c, "rereading") /\ ws' = ws /\ db' = db)
  <2>1. CASE Recheck(c)
    <3>1. db' = db
      BY <2>1 DEF Recheck, Files
    <3>2. CASE ws' = ws
      BY <1>1, <1>3, <1>4, <2>1, <3>1, <3>2 DEF Recheck, Resting, StatusTypes
    <3>3. CASE ws' = [ws EXCEPT !.action = "unusable"] /\ Finish(c, TRUE)
      BY <1>1, <1>3, <1>4, <3>1, <3>3 DEF Resting, StatusTypes
    <3>4. ASSUME NEW o \in Outcomes(d), o # "load", Finish(c, TRUE), ws' = [ws EXCEPT !.action = Settled(o)]
          PROVE  Resting'
      <4>1. CASE o = "decision"
        BY <1>1, <1>3, <1>4, <3>1, <3>4, <4>1 DEF Resting, StatusTypes, Settled
      <4>2. CASE o # "decision"
        <5>1. db[d] # "partial" /\ module = d
          BY <3>4, <4>2 DEF Outcomes
        <5>2. db[d] \in {"whole", "stale"}
          BY <1>3, <1>4, <5>1 DEF FilesOK
        <5> QED BY <1>1, <1>3, <1>4, <3>1, <3>4, <4>2, <5>1, <5>2 DEF Resting, StatusTypes, Settled
      <4> QED BY <4>1, <4>2
    <3>5. \/ ws' = ws
          \/ ws' = [ws EXCEPT !.action = "unusable"] /\ Finish(c, TRUE)
          \/ \E o \in Outcomes(d) : o # "load" /\ Finish(c, TRUE) /\ ws' = [ws EXCEPT !.action = Settled(o)]
      BY <2>1 DEF Recheck
    <3>6. ws'.isOpen /\ ws'.dir = d
      BY <1>3, <1>4, <3>5 DEF StatusTypes
    <3>7. (\E ok \in BOOLEAN : Finish(c, ok)) \/ (Goto(c, "rereading") /\ ws' = ws)
      BY <2>1 DEF Recheck
    <3> QED BY <1>4, <3>1, <3>2, <3>3, <3>4, <3>5, <3>6, <3>7
  <2>2. CASE RecheckLoads(c)
    <3>1. /\ Finish(c, TRUE)
          /\ \/ /\ module = d /\ db[d] # "stale" /\ db' = [db EXCEPT ![d] = "whole"]
                /\ ws' = [ws EXCEPT !.action = "loaded"]
             \/ ws' = [ws EXCEPT !.action = "failed"] /\ db' = db
      BY <2>2 DEF RecheckLoads
    <3>2. ws'.isOpen /\ ws'.dir = d /\ ws'.action \in {"loaded", "failed"}
          /\ (ws'.action = "loaded" => module = d /\ db'[d] = "whole")
      BY <1>3, <1>4, <3>1 DEF StatusTypes
    <3>3. /\ db' \in [Dirs -> Databases] /\ (\A x \in Dirs : x # d => db'[x] = db[x])
          /\ db'[d] = db[d] \/ db'[d] = "whole"
      BY <1>3, <1>4, <3>1 DEF Databases
    <3>4. Resting'
      BY <1>1, <1>3, <3>2 DEF Resting
    <3> QED BY <3>1, <3>2, <3>3, <3>4
  <2> QED BY <2>1, <2>2
<1>6. \A l \in loads : LoadAttached(l)'
  BY <1>1, <1>3, <1>5 DEF LoadAttached
<1>7. LoadsInv' /\ \A l \in loads' : ~Decides(l)' /\ l.epoch < epoch'
  BY <1>1, <1>3, <1>6, Quiet
<1>8. FilesOK'
  BY <1>1, <1>3, <1>4, <1>5 DEF FilesOK
<1>9. ASSUME NEW ok \in BOOLEAN, Finish(c, ok) PROVE LifecycleInv'
  BY <1>1, <1>5, <1>7, <1>8, <1>9, Leaves
<1>10. ASSUME Goto(c, "rereading"), ws' = ws, db' = db PROVE LifecycleInv'
  <2>1. "rereading" \in Pcs /\ "rereading" \in Keeping /\ "rereading" \notin Waiting
    BY DEF Pcs, Keeping, Waiting
  <2>2. op'[c].pc = "rereading" /\ op'[c].dir = d
    BY <1>10, <2>1, GotoFacts DEF TypeInv
  <2>3. LoadsSuperseded(c)' /\ StepOK(c)'
    BY <1>1, <1>3, <1>7, <1>10, <2>1, <2>2 DEF LoadsSuperseded, StepOK
  <2> QED BY <1>1, <1>5, <1>7, <1>8, <1>10, <2>1, <2>3, GoesTo
<1> QED BY <1>5, <1>9, <1>10

-----------------------------------------------------------------------------
(***************************************************************************)
(* openLocked(): detection, and the cases.                                 *)
(***************************************************************************)
\* What a call relies on from its probe on.
LEMMA DeepFacts ==
    ASSUME TypeInv, LifecycleInv, NEW c \in Callers, op[c].pc \notin Keeping
    PROVE  /\ StepOK(c) /\ FilesOK /\ NoDir \notin Dirs
           /\ ria \in [Dirs -> Snapshots] /\ db \in [Dirs -> Databases]
           /\ module \in Dirs \cup {NoDir} /\ ws \in StatusTypes
           /\ op[c].kind \in {"open", "create"} => op[c].dir \in Dirs
BY LifecycleAssumption
   DEF TypeInv, TypesKept, TargetsKnown, LifecycleInv, CallsInv, StatusTypes, LifecycleAssumption

LEMMA DeepLeaves ==
    ASSUME TypeInv, LifecycleInv, NEW c \in Callers, InSection(c), op[c].pc \notin Keeping,
           NEW ok \in BOOLEAN, Finish(c, ok),
           epoch' = epoch, tracked' = tracked, loads' \in {loads, Superseded(loads)},
           FilesOK', Resting', op[c].kind \in {"open", "create"},
           ok => ws'.isOpen /\ ws'.dir = op[c].dir
    PROVE  LifecycleInv'
<1>1. LoadsInv'
  BY Alone
<1> QED BY <1>1, Leaves

LEMMA DeepGoes ==
    ASSUME TypeInv, LifecycleInv, NEW c \in Callers, InSection(c), op[c].pc \notin Keeping,
           NEW pc \in Pcs, pc \notin Keeping, pc \notin {"creating", "closing"}, Goto(c, pc),
           epoch' = epoch, tracked' = tracked, loads' \in {loads, Superseded(loads)},
           FilesOK', StepOK(c)', op[c].kind = "open"
    PROVE  LifecycleInv'
<1>1. LoadsInv' /\ \A l \in loads' : ~Decides(l)' /\ l.epoch < epoch' /\ ~l.attached
  BY Alone
<1>2. LoadsSuperseded(c)'
  BY <1>1 DEF LoadsSuperseded
<1>3. pc # "idle"
  BY DEF Keeping, Waiting
<1> QED BY <1>1, <1>2, <1>3, GoesTo

LEMMA DeepPcs ==
    /\ {"probing", "opening", "storing", "evaluating", "reloading", "freshClose", "freshOpen",
        "freshLoad", "creating"} \subseteq Pcs \ Keeping
BY DEF Pcs, Keeping, Waiting

\* An open keeps FilesOK whether it succeeds or fails.
LEMMA OpenKeepsFiles ==
    ASSUME TypeInv, FilesOK, NEW d \in Dirs, OpenSucceeds(d) \/ OpenFails(d), ria' = ria
    PROVE  /\ FilesOK' /\ db' \in [Dirs -> Databases]
           /\ OpenSucceeds(d) =>
                /\ module' = d /\ db[d] # "torn"
                /\ db'[d] = IF db[d] # "none" THEN db[d]
                            ELSE IF ria[d] = "absent" THEN "whole" ELSE "partial"
           /\ OpenFails(d) => module' = NoDir /\ db' = db
<1>1. ria \in [Dirs -> Snapshots] /\ db \in [Dirs -> Databases] /\ TypesKept
  BY DEF TypeInv, TypesKept
<1>2. CASE OpenSucceeds(d)
  <2>1. /\ module' = d /\ db' \in [Dirs -> Databases] /\ db[d] # "torn"
        /\ db'[d] = IF db[d] # "none" THEN db[d]
                    ELSE IF ria[d] = "absent" THEN "whole" ELSE "partial"
        /\ \A x \in Dirs : x # d => db'[x] = db[x]
    BY <1>1, <1>2, OpenedFacts
  <2>2. db[d] \in {"none", "partial", "whole", "stale", "torn"}
    BY <1>1 DEF Databases
  <2>3. FilesOK'
    BY <2>1, <2>2 DEF FilesOK
  <2> QED BY <2>1, <2>3 DEF OpenFails, OpenSucceeds
<1>3. CASE OpenFails(d) /\ ~OpenSucceeds(d)
  BY <1>1, <1>3 DEF OpenFails, FilesOK
<1> QED BY <1>2, <1>3

LEMMA ProbeStep ==
    ASSUME TypeInv, LifecycleInv, NEW c \in Callers, Probe(c)
    PROVE  LifecycleInv'
<1> DEFINE d == op[c].dir
<1>1. /\ InSection(c) /\ d \in Dirs /\ op[c].pc = "probing" /\ op[c].kind = "open"
      /\ UNCHANGED <<ria, db, module, epoch, tracked, loads>>
  BY ProbeFacts DEF Probe, Serving
<1>2. op[c].pc \notin Keeping /\ op[c] \in Op
  BY <1>1, DeepPcs DEF TypeInv, TypesKept
<1>3. ~ws.isOpen /\ FilesOK /\ FilesOK'
  BY <1>1, <1>2, DeepFacts DEF StepOK, FilesOK
<1>4. CASE Finish(c, FALSE) /\ ws' = ws
  <2>1. Resting'
    BY <1>3, <1>4 DEF Resting
  <2> QED BY <1>1, <1>2, <1>3, <1>4, <2>1, DeepLeaves
<1>5. CASE CaseOf(d) = "D" /\ ws' = OpenWs(d, "loading") /\ Goto(c, "freshClose")
  <2>1. op'[c].pc = "freshClose" /\ op'[c].dir = d /\ ria[d] = "readable"
    BY <1>5, GotoFacts DEF TypeInv, Pcs, CaseOf
  <2>2. StepOK(c)'
    BY <1>1, <1>5, <2>1 DEF StepOK
  <2> QED BY <1>1, <1>2, <1>3, <1>5, <2>2, DeepPcs, DeepGoes
<1>6. CASE /\ CaseOf(d) \in {"A", "B", "C", "D", "unusable"}
           /\ CaseOf(d) \in {"C", "D"} => db[d] # "torn"
           /\ ws' = ws /\ waiting' = waiting
           /\ op'[c] = [op[c] EXCEPT !.pc = "opening", !.case = CaseOf(d)]
           /\ \A x \in Callers : x # c => op'[x] = op[x]
  <2>1. op'[c].pc = "opening" /\ op'[c].dir = d /\ op'[c].kind = "open" /\ op'[c].case = CaseOf(d)
    BY <1>1, <1>2, <1>6 DEF Op
  <2>2. CaseOf(d)' = CaseOf(d)
    BY <1>1, <2>1 DEF CaseOf
  <2>3. StepOK(c)'
    BY <1>1, <1>3, <1>6, <2>1, <2>2 DEF StepOK
  <2>4. LoadsInv' /\ \A l \in loads' : ~Decides(l)' /\ l.epoch < epoch' /\ ~l.attached
    BY <1>1, <1>2, Alone
  <2>5. LoadsSuperseded(c)'
    BY <2>4 DEF LoadsSuperseded
  <2> QED BY <1>1, <1>3, <1>6, <2>1, <2>3, <2>4, <2>5, DeepPcs, GoesOn
<1> QED BY <1>4, <1>5, <1>6, ProbeFacts

\* What each case knows of the files it found.
LEMMA CaseFacts ==
    ASSUME TypeInv, FilesOK, NEW d \in Dirs
    PROVE  /\ CaseOf(d) = "A" => db[d] = "none" /\ ria[d] = "absent"
           /\ CaseOf(d) = "B" => db[d] = "none" /\ ria[d] = "readable"
           /\ CaseOf(d) = "C" => db[d] \in {"whole", "stale", "torn"} /\ ria[d] = "absent"
           /\ CaseOf(d) = "D" => db[d] \in {"partial", "whole", "stale", "torn"} /\ ria[d] = "readable"
<1>1. ria[d] \in Snapshots /\ db[d] \in Databases
  BY DEF TypeInv, TypesKept
<1> QED BY <1>1 DEF CaseOf, FilesOK, Snapshots, Databases

\* The cases that open the database.
LEMMA OpeningStep ==
    ASSUME TypeInv, LifecycleInv, NEW c \in Callers,
           \/ OpenRefused(c) \/ OpenUnusable(c) \/ OpenCreates(c)
           \/ StaleKept(c) \/ StaleRebuilt(c) \/ OpenSaves(c) \/ OpenCompares(c)
    PROVE  LifecycleInv'
<1> DEFINE d == op[c].dir
<1>1. /\ InSection(c) /\ op[c].pc = "opening" /\ op[c].kind = "open"
      /\ OpenSucceeds(d) \/ OpenFails(d)
      /\ UNCHANGED <<ria, epoch, tracked>> /\ loads' = Superseded(loads)
  BY DEF OpenRefused, OpenUnusable, OpenCreates, StaleKept, StaleRebuilt, OpenSaves, OpenCompares,
         Opening, Serving, FoundStale
<1>2. op[c].pc \notin Keeping /\ loads' \in {loads, Superseded(loads)}
  BY <1>1, DeepPcs
<1>3. /\ d \in Dirs /\ ~ws.isOpen /\ FilesOK /\ op[c].case = CaseOf(d) /\ NoDir \notin Dirs
  BY <1>1, <1>2, DeepFacts DEF StepOK
<1>4. /\ FilesOK' /\ db' \in [Dirs -> Databases]
      /\ OpenSucceeds(d) =>
                /\ module' = d /\ db[d] # "torn"
                /\ db'[d] = IF db[d] # "none" THEN db[d]
                            ELSE IF ria[d] = "absent" THEN "whole" ELSE "partial"
      /\ OpenFails(d) => module' = NoDir /\ db' = db
  BY <1>1, <1>3, OpenKeepsFiles
<1>5. CASE OpenRefused(c)
  <2>1. Finish(c, FALSE) /\ ws' = ws
    BY <1>5 DEF OpenRefused
  <2>2. Resting'
    BY <1>3, <2>1 DEF Resting
  <2> QED BY <1>1, <1>2, <1>4, <2>1, <2>2, DeepLeaves
<1>6. CASE OpenUnusable(c) \/ StaleKept(c)
  <2>1. Finish(c, TRUE) /\ ws' \in {OpenWs(d, "unusable"), OpenWs(d, "failed")}
    BY <1>6 DEF OpenUnusable, StaleKept
  <2>2. module' \in {d, NoDir}
    BY <1>1, <1>4
  <2>3. Resting' /\ ws'.isOpen /\ ws'.dir = d
    BY <1>3, <2>1, <2>2 DEF Resting, OpenWs
  <2> QED BY <1>1, <1>2, <1>4, <2>1, <2>3, DeepLeaves
<1>7. CASE OpenCreates(c)
  <2>1. /\ OpenSucceeds(d) /\ op[c].case = "A"
        /\ \/ ws' = OpenWs(d, "created") /\ Finish(c, TRUE)
           \/ ws' = ws /\ Finish(c, FALSE)
    BY <1>7 DEF OpenCreates, Opening, Created
  <2>2. db'[d] = "whole" /\ module' = d
    BY <1>3, <1>4, <2>1, CaseFacts
  <2>3. CASE ws' = OpenWs(d, "created") /\ Finish(c, TRUE)
    <3>1. Resting' /\ ws'.isOpen /\ ws'.dir = d
      BY <1>3, <2>2, <2>3 DEF Resting, OpenWs
    <3> QED BY <1>1, <1>2, <1>4, <2>3, <3>1, DeepLeaves
  <2>4. CASE ws' = ws /\ Finish(c, FALSE)
    <3>1. Resting'
      BY <1>3, <2>4 DEF Resting
    <3> QED BY <1>1, <1>2, <1>4, <2>4, <3>1, DeepLeaves
  <2> QED BY <2>1, <2>3, <2>4
<1>8. CASE StaleRebuilt(c)
  <2>1. Goto(c, "freshClose") /\ ws' = OpenWs(d, "loading") /\ op[c].case = "D"
    BY <1>8 DEF StaleRebuilt, Opening
  <2>2. op'[c].pc = "freshClose" /\ op'[c].dir = d
    BY <2>1, GotoFacts DEF TypeInv, Pcs
  <2>3. StepOK(c)'
    BY <1>1, <1>3, <2>1, <2>2, CaseFacts DEF StepOK
  <2> QED BY <1>1, <1>2, <1>4, <2>1, <2>3, DeepPcs, DeepGoes
<1>9. CASE OpenSaves(c)
  <2>1. Goto(c, "storing") /\ ws' = OpenWs(d, "saved") /\ op[c].case = "C" /\ OpenSucceeds(d)
        /\ db[d] # "stale"
    BY <1>9 DEF OpenSaves, Opening
  <2>2. op'[c].pc = "storing" /\ op'[c].dir = d
    BY <2>1, GotoFacts DEF TypeInv, Pcs
  <2>3. db'[d] = "whole" /\ module' = d /\ ria[d] = "absent"
    BY <1>3, <1>4, <2>1, CaseFacts
  <2>4. StepOK(c)'
    BY <1>1, <2>1, <2>2, <2>3 DEF StepOK
  <2> QED BY <1>1, <1>2, <1>4, <2>1, <2>4, DeepPcs, DeepGoes
<1>10. CASE OpenCompares(c)
  <2>1. Goto(c, "evaluating") /\ ws' = OpenWs(d, "consistent") /\ op[c].case = "D" /\ OpenSucceeds(d)
        /\ db[d] # "stale"
    BY <1>10 DEF OpenCompares, Opening
  <2>2. op'[c].pc = "evaluating" /\ op'[c].dir = d
    BY <2>1, GotoFacts DEF TypeInv, Pcs
  <2>3. db'[d] \in {"partial", "whole"} /\ module' = d
    BY <1>3, <1>4, <2>1, CaseFacts
  <2>4. StepOK(c)'
    BY <2>1, <2>2, <2>3 DEF StepOK
  <2> QED BY <1>1, <1>2, <1>4, <2>1, <2>4, DeepPcs, DeepGoes
<1> QED BY <1>5, <1>6, <1>7, <1>8, <1>9, <1>10

\* The store of Case C, and the comparison and the load of Case D.
LEMMA CasesEnd ==
    ASSUME TypeInv, LifecycleInv, NEW c \in Callers, StoreEnds(c) \/ Evaluate(c) \/ ReloadEnds(c)
    PROVE  LifecycleInv'
<1> DEFINE d == op[c].dir
<1>1. /\ InSection(c) /\ op[c].pc \in {"storing", "evaluating", "reloading"} /\ op[c].kind = "open"
      /\ UNCHANGED <<epoch, tracked>>
      /\ loads' \in {loads, Superseded(loads)}
  BY DEF StoreEnds, Evaluate, ReloadEnds, Serving, Loading, DbCloses, DbOpens
<1>2. op[c].pc \notin Keeping
  BY <1>1, DeepPcs
<1>3. /\ d \in Dirs /\ StepOK(c) /\ FilesOK /\ NoDir \notin Dirs
      /\ ria \in [Dirs -> Snapshots] /\ db \in [Dirs -> Databases]
  BY <1>1, <1>2, DeepFacts
<1>4. CASE StoreEnds(c)
  <2>1. ws = OpenWs(d, "saved") /\ module = d /\ db[d] = "whole"
    BY <1>3, <1>4 DEF StepOK, StoreEnds, Serving
  <2>2. /\ UNCHANGED <<db, module>>
        /\ \E ok \in BOOLEAN : Finish(c, ok)
        /\ ws' = ws \/ ws' = [ws EXCEPT !.action = "dbOnly"]
        /\ ria' = ria \/ \E s \in {"readable", "absent", "unusable"} : ria' = [ria EXCEPT ![d] = s]
    BY <1>4 DEF StoreEnds
  <2>3. ws' \in {OpenWs(d, "saved"), OpenWs(d, "dbOnly")}
    BY <2>1, <2>2 DEF OpenWs
  <2>4. FilesOK'
    BY <1>3, <2>1, <2>2 DEF FilesOK
  <2>5. Resting' /\ ws'.isOpen /\ ws'.dir = d
    BY <1>3, <2>1, <2>2, <2>3 DEF Resting, OpenWs
  <2> QED BY <1>1, <1>2, <2>2, <2>4, <2>5, DeepLeaves
<1>5. CASE Evaluate(c)
  <2>1. ws = OpenWs(d, "consistent") /\ module = d /\ db[d] \in {"partial", "whole"}
    BY <1>3, <1>5 DEF StepOK, Evaluate, Serving
  <2>2. UNCHANGED <<ria, db, module>>
    BY <1>5 DEF Evaluate, Files
  <2>3. FilesOK'
    BY <1>3, <2>2 DEF FilesOK
  <2>4. CASE Goto(c, "reloading") /\ ws' = ws
    <3>1. op'[c].pc = "reloading" /\ op'[c].dir = d
      BY <2>4, GotoFacts DEF TypeInv, Pcs
    <3>2. StepOK(c)'
      BY <2>1, <2>2, <2>4, <3>1 DEF StepOK
    <3> QED BY <1>1, <1>2, <2>3, <2>4, <3>2, DeepPcs, DeepGoes
  <2>5. ASSUME NEW o \in Outcomes(d), o # "load", Finish(c, TRUE), ws' = [ws EXCEPT !.action = Settled(o)]
        PROVE  LifecycleInv'
    <3>1. ws' = OpenWs(d, "dbOnly") \/ (ws' = OpenWs(d, "consistent") /\ db[d] = "whole")
      BY <2>1, <2>5 DEF Outcomes, Settled, OpenWs
    <3>2. Resting' /\ ws'.isOpen /\ ws'.dir = d
      BY <1>3, <2>1, <2>2, <3>1 DEF Resting, OpenWs
    <3> QED BY <1>1, <1>2, <2>3, <2>5, <3>2, DeepLeaves
  <2> QED BY <1>5, <2>4, <2>5 DEF Evaluate
<1>6. CASE ReloadEnds(c)
  <2>1. ws = OpenWs(d, "consistent") /\ module = d /\ db[d] \in {"partial", "whole"}
    BY <1>3, <1>6 DEF StepOK, ReloadEnds, Serving
  <2>2. /\ Finish(c, TRUE) /\ ria' = ria
        /\ \/ module' = d /\ db' = [db EXCEPT ![d] = "whole"] /\ ws' = OpenWs(d, "loaded")
           \/ module' = NoDir /\ db' = db /\ ws' = OpenWs(d, "failed")
    BY <1>6, <2>1 DEF ReloadEnds, DbCloses, DbOpens, OpenWs
  <2>3. FilesOK'
    BY <1>3, <2>2 DEF FilesOK
  <2>4. Resting' /\ ws'.isOpen /\ ws'.dir = d
    BY <1>3, <2>2 DEF Resting, OpenWs
  <2> QED BY <1>1, <1>2, <2>2, <2>3, <2>4, DeepLeaves
<1> QED BY <1>4, <1>5, <1>6

\* performFreshLoad().
LEMMA FreshStep ==
    ASSUME TypeInv, LifecycleInv, NEW c \in Callers,
           FreshDiscards(c) \/ FreshOpens(c) \/ FreshLoadEnds(c)
    PROVE  LifecycleInv'
<1> DEFINE d == op[c].dir
<1>1. /\ InSection(c) /\ op[c].pc \in {"freshClose", "freshOpen", "freshLoad"} /\ op[c].kind = "open"
      /\ UNCHANGED <<ria, epoch, tracked>> /\ loads' \in {loads, Superseded(loads)}
  BY DEF FreshDiscards, FreshOpens, FreshLoadEnds, Serving, DbCloses, DbOpens
<1>2. op[c].pc \notin Keeping
  BY <1>1, DeepPcs
<1>3. /\ d \in Dirs /\ StepOK(c) /\ FilesOK /\ NoDir \notin Dirs
      /\ ria \in [Dirs -> Snapshots] /\ db \in [Dirs -> Databases]
  BY <1>1, <1>2, DeepFacts
<1>4. ws = OpenWs(d, "loading") /\ ria[d] = "readable"
  BY <1>1, <1>3 DEF StepOK
<1>5. CASE FreshDiscards(c)
  <2>1. /\ Goto(c, "freshOpen") /\ ws' = ws /\ module' = NoDir /\ db' = [db EXCEPT ![d] = "none"]
    BY <1>5 DEF FreshDiscards, DbCloses, DbOpens
  <2>2. op'[c].pc = "freshOpen" /\ op'[c].dir = d
    BY <2>1, GotoFacts DEF TypeInv, Pcs
  <2>3. FilesOK' /\ db'[d] = "none"
    BY <1>1, <1>3, <2>1 DEF FilesOK
  <2>4. StepOK(c)'
    BY <1>1, <1>4, <2>1, <2>2, <2>3 DEF StepOK
  <2> QED BY <1>1, <1>2, <2>1, <2>3, <2>4, DeepPcs, DeepGoes
<1>6. CASE FreshOpens(c)
  <2>1. module = NoDir /\ db[d] = "none"
    BY <1>3, <1>6 DEF StepOK, FreshOpens, Serving
  <2>2. \/ OpenSucceeds(d) /\ Goto(c, "freshLoad") /\ ws' = ws
        \/ OpenFails(d) /\ ws' = [ws EXCEPT !.action = "failed"] /\ Finish(c, TRUE)
    BY <1>6 DEF FreshOpens
  <2>3. CASE OpenSucceeds(d) /\ Goto(c, "freshLoad") /\ ws' = ws
    <3>1. FilesOK' /\ module' = d /\ db'[d] = "partial"
      BY <1>1, <1>3, <1>4, <2>1, <2>3, OpenKeepsFiles
    <3>2. op'[c].pc = "freshLoad" /\ op'[c].dir = d
      BY <2>3, GotoFacts DEF TypeInv, Pcs
    <3>3. StepOK(c)'
      BY <1>1, <1>4, <2>3, <3>1, <3>2 DEF StepOK
    <3> QED BY <1>1, <1>2, <2>3, <3>1, <3>3, DeepPcs, DeepGoes
  <2>4. CASE OpenFails(d) /\ ws' = [ws EXCEPT !.action = "failed"] /\ Finish(c, TRUE)
    <3>1. FilesOK' /\ module' = NoDir
      BY <1>1, <1>3, <2>4, OpenKeepsFiles
    <3>2. ws' = OpenWs(d, "failed")
      BY <1>4, <2>4 DEF OpenWs
    <3>3. Resting' /\ ws'.isOpen /\ ws'.dir = d
      BY <1>3, <3>1, <3>2 DEF Resting, OpenWs
    <3> QED BY <1>1, <1>2, <2>4, <3>1, <3>3, DeepLeaves
  <2> QED BY <2>2, <2>3, <2>4
<1>7. CASE FreshLoadEnds(c)
  <2>1. module = d /\ db[d] = "partial"
    BY <1>3, <1>7 DEF StepOK, FreshLoadEnds, Serving
  <2>2. /\ Finish(c, TRUE)
        /\ \/ module' = d /\ db' = [db EXCEPT ![d] = "whole"] /\ ws' = OpenWs(d, "loaded")
           \/ module' = NoDir /\ db' = [db EXCEPT ![d] = "none"] /\ ws' = OpenWs(d, "failed")
    BY <1>4, <1>7, <2>1 DEF FreshLoadEnds, DbCloses, DbOpens, OpenWs
  <2>3. FilesOK'
    BY <1>1, <1>3, <2>2 DEF FilesOK
  <2>4. Resting' /\ ws'.isOpen /\ ws'.dir = d
    BY <1>3, <2>2 DEF Resting, OpenWs
  <2> QED BY <1>1, <1>2, <2>2, <2>3, <2>4, DeepLeaves
<1> QED BY <1>5, <1>6, <1>7

\* Case B: the load that is started decides, alone.
LEMMA OpenLoadsStep ==
    ASSUME TypeInv, LifecycleInv, NEW c \in Callers, OpenLoads(c)
    PROVE  LifecycleInv'
<1> DEFINE d == op[c].dir
           new == [dir |-> d, epoch |-> epoch + 1, pc |-> "loading", attached |-> TRUE]
<1>1. /\ InSection(c) /\ d \in Dirs /\ new \in LoadRecord
      /\ op[c].pc = "opening" /\ op[c].case = "B" /\ op[c].kind = "open"
      /\ OpenSucceeds(d) /\ Finish(c, TRUE) /\ ria' = ria
      /\ epoch' = epoch + 1 /\ tracked' = epoch + 1 /\ epoch' \in Nat
      /\ loads' = Superseded(loads) \cup {new}
      /\ ws' = OpenWs(d, "loading")
  BY OpenLoadsFacts
<1>2. /\ new.dir = d /\ new.epoch = epoch + 1 /\ new.pc = "loading" /\ new.attached = TRUE
  OBVIOUS
<1> HIDE DEF new
<1>3. op[c].pc \notin Keeping
  BY <1>1, DeepPcs
<1>4. /\ FilesOK /\ op[c].case = CaseOf(d) /\ NoDir \notin Dirs
  BY <1>1, <1>3, DeepFacts DEF StepOK
<1>5. db[d] = "none" /\ ria[d] = "readable"
  BY <1>1, <1>4, CaseFacts
<1>6. FilesOK' /\ module' = d /\ db'[d] = "partial"
  BY <1>1, <1>4, <1>5, OpenKeepsFiles
<1>7. LoadsTracked /\ epoch \in Nat /\ loads \in SUBSET LoadRecord
  BY DEF TypeInv, TypesKept, LifecycleInv, LoadsInv
<1>8. \A l \in loads : ~Decides(l) /\ ~l.attached
  BY <1>3 DEF LifecycleInv, CallsInv, LoadsSuperseded, Keeping, Waiting
<1>9. ASSUME NEW l \in Superseded(loads)
      PROVE  /\ l.epoch > 0 /\ l.epoch < epoch /\ l.epoch \in Nat /\ ~l.attached
             /\ l.pc \notin {"closing", "removing"}
  <2>1. PICK k \in loads : k.epoch = l.epoch /\ k.pc = l.pc /\ ~l.attached
    BY <1>7, <1>9, SupersededFacts
  <2>2. k.epoch \in Nat /\ k.epoch <= epoch /\ k.epoch # epoch /\ k.epoch > 0
        /\ k.pc \notin {"closing", "removing"}
    BY <1>7, <1>8 DEF LoadsTracked, Decides, LoadRecord
  <2> QED BY <1>7, <2>1, <2>2
<1>10. ASSUME NEW l \in Superseded(loads), NEW k \in Superseded(loads), l.epoch = k.epoch
       PROVE  l = k
  <2>1. PICK m \in loads : m.epoch = l.epoch /\ l = [m EXCEPT !.attached = FALSE]
    BY <1>7, SupersededFacts
  <2>2. PICK n \in loads : n.epoch = k.epoch /\ k = [n EXCEPT !.attached = FALSE]
    BY <1>7, SupersededFacts
  <2> QED BY <1>7, <1>10, <2>1, <2>2 DEF LoadsTracked
<1>11. LoadsTracked'
  <2>1. ASSUME NEW l \in loads'
        PROVE  /\ l.epoch > 0 /\ l.epoch <= epoch'
               /\ l.epoch = epoch' => tracked' = epoch'
               /\ l.pc \in {"closing", "removing"} => tracked' = l.epoch
    BY <1>1, <1>2, <1>7, <1>9
  <2>2. ASSUME NEW l \in loads', NEW k \in loads', l.epoch = k.epoch
        PROVE  l = k
    <3>1. CASE l \in Superseded(loads) /\ k \in Superseded(loads)
      BY <1>10, <2>2, <3>1
    <3>2. CASE l = new /\ k \in Superseded(loads)
      BY <1>2, <1>7, <1>9, <2>2, <3>2
    <3>3. CASE l \in Superseded(loads) /\ k = new
      BY <1>2, <1>7, <1>9, <2>2, <3>3
    <3> QED BY <1>1, <3>1, <3>2, <3>3
  <2> QED BY <2>1, <2>2 DEF LoadsTracked
<1>12. ASSUME NEW l \in loads' PROVE LoadOwns(l)' /\ LoadAttached(l)'
  <2>1. CASE l = new
    BY <1>1, <1>2, <1>5, <1>6, <2>1 DEF LoadOwns, LoadAttached, OpenWs
  <2>2. CASE l \in Superseded(loads)
    BY <1>1, <1>7, <1>9, <2>2 DEF LoadOwns, LoadAttached, Decides
  <2> QED BY <1>1, <2>1, <2>2
<1>13. Resting' /\ ws'.isOpen /\ ws'.dir = d
  BY <1>1, <1>6 DEF Resting, OpenWs
<1> QED BY <1>1, <1>6, <1>11, <1>12, <1>13, Leaves DEF LoadsInv

-----------------------------------------------------------------------------
(***************************************************************************)
(* createLocked() and closeLocked().                                       *)
(***************************************************************************)
LEMMA CreateStepOK ==
    ASSUME TypeInv, LifecycleInv, NEW c \in Callers,
           CreateRefused(c) \/ CreateBegins(c) \/ CreateEnds(c)
    PROVE  LifecycleInv'
<1> DEFINE d == op[c].dir
<1>1. /\ InSection(c) /\ op[c].kind = "create" /\ UNCHANGED <<ria, epoch, tracked>>
  BY DEF CreateRefused, CreateBegins, CreateEnds, Serving, Files, Loading
<1>2. d \in Dirs /\ FilesOK
  BY <1>1 DEF TypeInv, TargetsKnown, LifecycleInv
<1>3. CASE CreateRefused(c)
  <2>1. /\ Finish(c, FALSE) /\ UNCHANGED <<ria, db, module, ws, epoch, tracked, loads>>
        /\ op[c].pc = "start"
    BY <1>3 DEF CreateRefused, Serving, Files, Loading
  <2>2. Resting
    BY <1>1, <2>1, RestsUntil DEF Keeping, Waiting
  <2> QED BY <1>1, <2>1, <2>2, SameWorld, Leaves
<1>4. CASE CreateBegins(c)
  <2>1. /\ Goto(c, "creating") /\ db' = db /\ db[d] = "none" /\ ria[d] = "absent"
        /\ ~ws'.isOpen /\ op[c].pc = "start"
        /\ \/ module' = NoDir /\ loads' = Superseded(loads)
           \/ module' = module /\ loads' = loads /\ ws' = ws
    BY <1>4 DEF CreateBegins, Serving, DbCloses, DbOpens, ClosedWs, Files
  <2>2. tracked = 0
    BY <1>1 DEF LifecycleInv, CallsInv, CreateAlone
  <2>3. \A l \in loads : ~Decides(l) /\ LoadAttached(l)
    BY <2>2, AwaitOver DEF LifecycleInv, LoadsInv
  <2>4. loads' = loads /\ ws' = ws => \A l \in loads : ~l.attached /\ LoadAttached(l)'
    BY <2>1, <2>3 DEF LoadAttached
  <2>5. loads' = Superseded(loads) \/ (loads' = loads /\ \A l \in loads : LoadAttached(l)')
    BY <2>1, <2>4
  <2>6. LoadsInv' /\ \A l \in loads' : ~Decides(l)' /\ l.epoch < epoch'
    BY <1>1, <2>3, <2>5, Quiet
  <2>7. \A l \in loads' : ~l.attached
    BY <1>1, <2>1, <2>3, <2>4, <2>5, Quiet
  <2>8. FilesOK'
    BY <1>1, <1>2, <2>1 DEF FilesOK
  <2>9. op'[c].pc = "creating" /\ op'[c].dir = d
    BY <2>1, GotoFacts DEF TypeInv, Pcs
  <2>10. LoadsSuperseded(c)' /\ StepOK(c)'
    BY <1>1, <2>1, <2>6, <2>7, <2>9 DEF LoadsSuperseded, StepOK
  <2> QED BY <1>1, <2>1, <2>6, <2>8, <2>10, DeepPcs, GoesTo
<1>5. CASE CreateEnds(c)
  <2>1. /\ op[c].pc = "creating" /\ loads' = Superseded(loads)
        /\ OpenSucceeds(d) \/ OpenFails(d)
        /\ \/ OpenSucceeds(d) /\ ws' = OpenWs(d, "created") /\ Finish(c, TRUE)
           \/ ws' = ws /\ Finish(c, FALSE)
    BY <1>5 DEF CreateEnds, Serving, Created
  <2>2. op[c].pc \notin Keeping /\ loads' \in {loads, Superseded(loads)}
    BY <2>1, DeepPcs
  <2>3. db[d] = "none" /\ ria[d] = "absent" /\ ~ws.isOpen /\ NoDir \notin Dirs
    BY <2>1, <2>2, DeepFacts DEF StepOK
  <2>4. FilesOK' /\ (OpenSucceeds(d) => module' = d /\ db'[d] = "whole")
    BY <1>1, <1>2, <2>1, <2>3, OpenKeepsFiles
  <2>5. CASE OpenSucceeds(d) /\ ws' = OpenWs(d, "created") /\ Finish(c, TRUE)
    <3>1. Resting' /\ ws'.isOpen /\ ws'.dir = d
      BY <1>2, <2>4, <2>5 DEF Resting, OpenWs
    <3> QED BY <1>1, <2>2, <2>4, <2>5, <3>1, DeepLeaves
  <2>6. CASE ws' = ws /\ Finish(c, FALSE)
    <3>1. Resting'
      BY <2>3, <2>6 DEF Resting
    <3> QED BY <1>1, <2>2, <2>4, <2>6, <3>1, DeepLeaves
  <2> QED BY <2>1, <2>5, <2>6
<1> QED BY <1>3, <1>4, <1>5

LEMMA CloseEndsStep ==
    ASSUME TypeInv, LifecycleInv, NEW c \in Callers, CloseEnds(c)
    PROVE  LifecycleInv'
<1>1. /\ InSection(c) /\ op[c].pc = "closing" /\ op[c].kind = "close" /\ AwaitEnds
      /\ Finish(c, TRUE) /\ module' = NoDir /\ loads' = Superseded(loads)
      /\ ws' = ClosedWs /\ UNCHANGED <<ria, db, epoch, tracked>>
  BY DEF CloseEnds, Serving, DbCloses, DbOpens, Files
<1>2. LoadsInv'
  BY <1>1, AwaitOver, Quiet
<1>3. ~ws'.isOpen /\ Resting' /\ FilesOK'
  BY <1>1 DEF ClosedWs, Resting, FilesOK, LifecycleInv
<1> QED BY <1>1, <1>2, <1>3, Leaves

-----------------------------------------------------------------------------
(***************************************************************************)
(* The background load.                                                    *)
(***************************************************************************)
\* What a step of a load, or of nobody, must leave for the calls.
LEMMA CallsKept ==
    ASSUME TypeInv, LifecycleInv, UNCHANGED <<epoch, waiting, op, last>>, tracked' \in {tracked, 0},
           \A j \in loads' : \E i \in loads : /\ i.epoch = j.epoch
                                              /\ Decides(j)' => Decides(i)
                                              /\ j.attached => i.attached,
           LoadsInv', FilesOK', Kept => Resting', \A x \in Callers : StepOK(x)',
           ws'.isOpen = ws.isOpen, ws'.dir = ws.dir, module' \in {module, NoDir}
    PROVE  LifecycleInv'
<1>1. ASSUME NEW x \in Callers
      PROVE  (CallOK(x) /\ CreateAlone(x) /\ LoadsSuperseded(x))'
  <2>1. CallOK(x)' /\ CreateAlone(x)'
    BY DEF LifecycleInv, CallsInv, CallOK, CreateAlone, InSection
  <2>2. LoadsSuperseded(x)
    BY DEF LifecycleInv, CallsInv
  <2>3. LoadsSuperseded(x)'
    <3> SUFFICES ASSUME NEW j \in loads'
                 PROVE  /\ op[x].pc \notin {"idle", "start"} => j.epoch < epoch
                        /\ op[x].pc \notin Waiting => ~Decides(j)'
                        /\ op[x].pc \notin Keeping => ~j.attached
      BY DEF LoadsSuperseded
    <3>1. PICK i \in loads : i.epoch = j.epoch /\ (Decides(j)' => Decides(i)) /\ (j.attached => i.attached)
      OBVIOUS
    <3> QED BY <2>2, <3>1 DEF LoadsSuperseded
  <2> QED BY <2>1, <2>3
<1>2. LastKept'
  BY DEF LifecycleInv, LastKept
<1>3. Kept' => Resting'
  BY DEF Kept
<1> QED BY <1>1, <1>2, <1>3 DEF LifecycleInv, CallsInv

\* A load that has settled is gone, and the others are still told apart.
LEMMA SettleKeeps ==
    ASSUME TypeInv, LoadsTracked, NEW l \in loads, Settle(l), epoch' = epoch
    PROVE  /\ LoadsTracked' /\ tracked' \in {tracked, 0}
           /\ \A j \in loads' : j \in loads /\ j # l /\ (Decides(j)' <=> Decides(j))
<1>1. loads \subseteq LoadRecord /\ epoch \in Nat
  BY DEF TypeInv, TypesKept
<1>2. \A j \in loads' : j \in loads /\ j # l /\ j.epoch # l.epoch
  BY DEF Settle, LoadsTracked
<1>3. tracked' = IF tracked = l.epoch THEN 0 ELSE tracked
  BY DEF Settle
<1>4. LoadsTracked'
  BY <1>1, <1>2, <1>3 DEF LoadsTracked
<1> QED BY <1>2, <1>3, <1>4 DEF Decides

\* A load that goes on keeps its epoch.
LEMMA AdvanceKeeps ==
    ASSUME TypeInv, LoadsTracked, NEW l \in loads, NEW pc \in {"cleanup", "closing"},
           Advance(l, pc), l.epoch = epoch, epoch' = epoch
    PROVE  LET k == [l EXCEPT !.pc = pc]
           IN  /\ LoadsTracked' /\ tracked' = tracked
               /\ loads' = (loads \ {l}) \cup {k}
               /\ k.dir = l.dir /\ k.epoch = l.epoch /\ k.pc = pc /\ k.attached = l.attached
<1> DEFINE k == [l EXCEPT !.pc = pc]
<1>1. /\ k.epoch = l.epoch /\ k.dir = l.dir /\ k.attached = l.attached /\ k.pc = pc
      /\ loads' = (loads \ {l}) \cup {k} /\ tracked' = tracked
  <2>1. pc \in {"loading", "cleanup", "closing", "removing"}
    OBVIOUS
  <2> QED BY <2>1, AdvanceFacts
<1>2. loads \subseteq LoadRecord /\ epoch \in Nat
  BY DEF TypeInv, TypesKept
<1> HIDE DEF k
<1>3. LoadsTracked'
  BY <1>1, <1>2 DEF LoadsTracked
<1> QED BY <1>1, <1>3 DEF k

LEMMA LoadKnown ==
    ASSUME TypeInv, LifecycleInv, NEW l \in loads
    PROVE  /\ LoadsTracked /\ LoadOwns(l) /\ LoadAttached(l) /\ l \in LoadRecord /\ l.dir \in Dirs
           /\ FilesOK /\ NoDir \notin Dirs /\ ws \in StatusTypes /\ db \in [Dirs -> Databases]
           /\ \A j \in loads : LoadOwns(j) /\ LoadAttached(j) /\ j.dir \in Dirs
BY LifecycleAssumption
   DEF LifecycleInv, LoadsInv, TypeInv, TypesKept, LoadRecord, StatusTypes, LifecycleAssumption

LEMMA LoadReadsAllStep ==
    ASSUME TypeInv, LifecycleInv, NEW l \in loads, LoadReadsAll(l)
    PROVE  LifecycleInv'
<1>1. /\ l.pc = "loading" /\ l.attached /\ db' = [db EXCEPT ![l.dir] = "whole"]
      /\ UNCHANGED <<ria, module, ws, epoch, waiting, op, last>>
      /\ \/ l.epoch = epoch /\ Advance(l, "cleanup")
         \/ l.epoch # epoch /\ Settle(l)
  BY DEF LoadReadsAll, StillCurrent
<1>2. /\ ws.isOpen /\ ws.dir = l.dir /\ module = l.dir /\ l.dir \in Dirs
      /\ db \in [Dirs -> Databases] /\ LoadsTracked /\ FilesOK /\ LoadOwns(l)
      /\ db[l.dir] \in {"partial", "whole"}
      /\ \A j \in loads : LoadOwns(j) /\ LoadAttached(j) /\ j.dir \in Dirs
  BY <1>1, LoadKnown DEF LoadAttached
<1>3. db'[l.dir] = "whole" /\ \A x \in Dirs : x # l.dir => db'[x] = db[x]
  BY <1>1, <1>2
<1>4. FilesOK' /\ (Resting => Resting')
  BY <1>1, <1>2, <1>3 DEF FilesOK, Resting
<1>5. ASSUME NEW x \in Callers PROVE StepOK(x)'
  <2>1. op[x].pc \in Keeping /\ StepOK(x)
    BY <1>1 DEF LifecycleInv, CallsInv, LoadsSuperseded
  <2>2. CASE op[x].pc \in {"rechecking", "rereading"}
    BY <1>1, <1>2, <1>3, <2>1, <2>2 DEF StepOK
  <2>3. CASE op[x].pc \in Waiting
    BY <1>1, <2>3 DEF StepOK, Waiting
  <2> QED BY <2>1, <2>2, <2>3 DEF Keeping
<1>6. ASSUME NEW j \in loads
      PROVE  LoadOwns(j)' /\ LoadAttached(j)'
  BY <1>1, <1>2, <1>3 DEF LoadOwns, LoadAttached, Decides
<1>7. Kept => Resting'
  BY <1>4 DEF LifecycleInv
<1>8. CASE l.epoch # epoch /\ Settle(l)
  <2>1. /\ LoadsTracked' /\ tracked' \in {tracked, 0}
        /\ \A j \in loads' : j \in loads /\ (Decides(j)' <=> Decides(j))
    BY <1>1, <1>2, <1>8, SettleKeeps
  <2>2. LoadsInv'
    BY <1>6, <2>1 DEF LoadsInv
  <2> QED BY <1>1, <1>4, <1>5, <1>7, <2>1, <2>2, CallsKept
<1>9. CASE l.epoch = epoch /\ Advance(l, "cleanup")
  <2> DEFINE k == [l EXCEPT !.pc = "cleanup"]
  <2>1. /\ LoadsTracked' /\ tracked' = tracked /\ loads' = (loads \ {l}) \cup {k}
        /\ k.dir = l.dir /\ k.epoch = l.epoch /\ k.pc = "cleanup" /\ k.attached = l.attached
    BY <1>1, <1>2, <1>9, AdvanceKeeps
  <2> HIDE DEF k
  <2>2. Decides(l) /\ (\A j \in loads : Decides(j)' <=> Decides(j))
    BY <1>1, <1>9 DEF Decides
  <2>3. LoadOwns(k)' /\ LoadAttached(k)'
    BY <1>1, <1>2, <1>3, <2>1, <2>2 DEF LoadOwns, LoadAttached
  <2>4. LoadsInv'
    BY <1>6, <2>1, <2>3 DEF LoadsInv
  <2>5. \A j \in loads' : \E i \in loads : /\ i.epoch = j.epoch
                                           /\ Decides(j)' => Decides(i)
                                           /\ j.attached => i.attached
    BY <2>1, <2>2
  <2> QED BY <1>1, <1>4, <1>5, <1>7, <2>1, <2>4, <2>5, CallsKept
<1> QED BY <1>1, <1>8, <1>9

LEMMA LoadFailsStep ==
    ASSUME TypeInv, LifecycleInv, NEW l \in loads, LoadFails(l)
    PROVE  LifecycleInv'
<1>1. /\ l.pc \in {"loading", "cleanup"}
      /\ UNCHANGED <<ria, db, module, ws, epoch, waiting, op, last>>
      /\ \/ l.epoch = epoch /\ Advance(l, "closing")
         \/ l.epoch # epoch /\ Settle(l)
  BY DEF LoadFails, StillCurrent, Files
<1>2. /\ LoadsTracked /\ FilesOK /\ LoadOwns(l) /\ LoadAttached(l)
      /\ \A j \in loads : LoadOwns(j) /\ LoadAttached(j)
  BY LoadKnown
<1>3. FilesOK' /\ (Kept => Resting')
  BY <1>1 DEF LifecycleInv, FilesOK, Resting
<1>4. ASSUME NEW x \in Callers PROVE StepOK(x)'
  <2>1. StepOK(x)
    BY DEF LifecycleInv, CallsInv
  <2> QED BY <1>1, <2>1 DEF StepOK, CaseOf
<1>5. \A j \in loads : LoadOwns(j)' /\ LoadAttached(j)'
  BY <1>1, <1>2 DEF LoadOwns, LoadAttached, Decides
<1>6. CASE l.epoch # epoch /\ Settle(l)
  <2>1. /\ LoadsTracked' /\ tracked' \in {tracked, 0}
        /\ \A j \in loads' : j \in loads /\ (Decides(j)' <=> Decides(j))
    BY <1>1, <1>2, <1>6, SettleKeeps
  <2>2. LoadsInv'
    BY <1>5, <2>1 DEF LoadsInv
  <2> QED BY <1>1, <1>3, <1>4, <2>1, <2>2, CallsKept
<1>7. CASE l.epoch = epoch /\ Advance(l, "closing")
  <2> DEFINE k == [l EXCEPT !.pc = "closing"]
  <2>1. /\ LoadsTracked' /\ tracked' = tracked /\ loads' = (loads \ {l}) \cup {k}
        /\ k.dir = l.dir /\ k.epoch = l.epoch /\ k.pc = "closing" /\ k.attached = l.attached
    BY <1>1, <1>2, <1>7, AdvanceKeeps
  <2> HIDE DEF k
  <2>2. Decides(l) /\ (\A j \in loads : Decides(j)' <=> Decides(j))
    BY <1>1, <1>7 DEF Decides
  <2>3. LoadOwns(k)' /\ LoadAttached(k)'
    BY <1>1, <1>2, <2>1, <2>2 DEF LoadOwns, LoadAttached
  <2>4. LoadsInv'
    BY <1>5, <2>1, <2>3 DEF LoadsInv
  <2>5. \A j \in loads' : \E i \in loads : /\ i.epoch = j.epoch
                                           /\ Decides(j)' => Decides(i)
                                           /\ j.attached => i.attached
    BY <2>1, <2>2
  <2> QED BY <1>1, <1>3, <1>4, <2>1, <2>4, <2>5, CallsKept
<1> QED BY <1>1, <1>6, <1>7

LEMMA LoadPublishesStep ==
    ASSUME TypeInv, LifecycleInv, NEW l \in loads, LoadPublishes(l)
    PROVE  LifecycleInv'
<1>1. /\ l.pc = "cleanup" /\ Settle(l)
      /\ UNCHANGED <<ria, db, module, epoch, waiting, op, last>>
      /\ \/ l.epoch = epoch /\ ws' = [ws EXCEPT !.action = "loaded"]
         \/ l.epoch # epoch /\ ws' = ws
  BY DEF LoadPublishes, StillCurrent, Files
<1>2. /\ LoadsTracked /\ FilesOK /\ LoadOwns(l) /\ l.dir \in Dirs
      /\ \A j \in loads : LoadOwns(j) /\ LoadAttached(j)
  BY LoadKnown
<1>3. /\ LoadsTracked' /\ tracked' \in {tracked, 0}
      /\ \A j \in loads' : j \in loads /\ j # l /\ (Decides(j)' <=> Decides(j))
  BY <1>1, <1>2, SettleKeeps
<1>4. FilesOK'
  BY <1>1, <1>2 DEF FilesOK
<1>5. CASE l.epoch # epoch /\ ws' = ws
  <2>1. Kept => Resting'
    BY <1>1, <1>5 DEF LifecycleInv, Resting
  <2>2. ASSUME NEW x \in Callers PROVE StepOK(x)'
    <3>1. StepOK(x)
      BY DEF LifecycleInv, CallsInv
    <3> QED BY <1>1, <1>5, <3>1 DEF StepOK, CaseOf
  <2>3. LoadsInv'
    BY <1>1, <1>2, <1>3, <1>5 DEF LoadsInv, LoadOwns, LoadAttached
  <2> QED BY <1>1, <1>3, <1>4, <1>5, <2>1, <2>2, <2>3, CallsKept
<1>6. CASE l.epoch = epoch /\ ws' = [ws EXCEPT !.action = "loaded"]
  <2>1. Decides(l) /\ ws = OpenWs(l.dir, "loading") /\ module = l.dir /\ db[l.dir] = "whole"
    BY <1>1, <1>2, <1>6 DEF LoadOwns, Decides
  <2>2. ws' = OpenWs(l.dir, "loaded")
    BY <1>6, <2>1 DEF OpenWs
  <2>3. ws'.isOpen = ws.isOpen /\ ws'.dir = ws.dir /\ Resting'
    BY <1>1, <1>2, <2>1, <2>2 DEF OpenWs, Resting
  <2>4. ASSUME NEW x \in Callers PROVE StepOK(x)'
    <3>1. op[x].pc \in Waiting
      BY <2>1, DeciderHoldsCalls
    <3> QED BY <1>1, <3>1 DEF StepOK, Waiting
  <2>5. ASSUME NEW j \in loads' PROVE LoadOwns(j)' /\ LoadAttached(j)'
    <3>1. ~Decides(j)' /\ LoadAttached(j)
      BY <1>2, <1>3, <2>1, SoleDecider
    <3> QED BY <1>1, <2>3, <3>1 DEF LoadOwns, LoadAttached
  <2>6. LoadsInv'
    BY <1>3, <2>5 DEF LoadsInv
  <2> QED BY <1>1, <1>3, <1>4, <2>3, <2>4, <2>6, CallsKept
<1> QED BY <1>1, <1>5, <1>6

LEMMA LoadClosesStep ==
    ASSUME TypeInv, LifecycleInv, NEW l \in loads, LoadCloses(l)
    PROVE  LifecycleInv'
<1> DEFINE k == [l EXCEPT !.pc = "removing", !.attached = FALSE]
<1>1. /\ k \in LoadRecord /\ k.epoch = l.epoch /\ k.dir = l.dir /\ ~k.attached
      /\ k.pc = "removing" /\ l.pc = "closing"
      /\ loads' = Superseded(loads \ {l}) \cup {k}
      /\ module' = NoDir
      /\ UNCHANGED <<ria, db, ws, epoch, tracked, waiting, op, last>>
  BY LoadClosesFacts
<1> HIDE DEF k
<1>2. /\ LoadsTracked /\ FilesOK /\ LoadOwns(l) /\ Decides(l) /\ l.dir \in Dirs
      /\ loads \ {l} \in SUBSET LoadRecord /\ epoch \in Nat /\ tracked \in Nat /\ l.epoch \in Nat
  BY <1>1, LoadKnown DEF Decides, TypeInv, TypesKept, LoadRecord
<1>3. ws = OpenWs(l.dir, "loading") /\ ria[l.dir] = "readable"
  BY <1>2 DEF LoadOwns
<1>4. ASSUME NEW j \in Superseded(loads \ {l})
      PROVE  /\ j.epoch > 0 /\ j.epoch <= epoch /\ j.epoch # l.epoch /\ ~j.attached /\ ~Decides(j)
             /\ \E i \in loads : i.epoch = j.epoch
  <2>1. PICK i \in loads \ {l} : i.epoch = j.epoch /\ i.pc = j.pc /\ ~j.attached
    BY <1>2, SupersededFacts
  <2>2. ~Decides(i)
    BY <1>2, <2>1, SoleDecider
  <2> QED BY <1>2, <2>1, <2>2 DEF LoadsTracked, Decides
<1>5. ASSUME NEW j \in Superseded(loads \ {l}), NEW m \in Superseded(loads \ {l}), j.epoch = m.epoch
      PROVE  j = m
  <2>1. PICK a \in loads \ {l} : a.epoch = j.epoch /\ j = [a EXCEPT !.attached = FALSE]
    BY <1>2, SupersededFacts
  <2>2. PICK b \in loads \ {l} : b.epoch = m.epoch /\ m = [b EXCEPT !.attached = FALSE]
    BY <1>2, SupersededFacts
  <2> QED BY <1>2, <1>5, <2>1, <2>2 DEF LoadsTracked
<1>6. LoadsTracked'
  <2>1. ASSUME NEW j \in loads'
        PROVE  /\ j.epoch > 0 /\ j.epoch <= epoch'
               /\ j.epoch = epoch' => tracked' = epoch'
               /\ j.pc \in {"closing", "removing"} => tracked' = j.epoch
    BY <1>1, <1>2, <1>4 DEF LoadsTracked, Decides
  <2>2. ASSUME NEW j \in loads', NEW m \in loads', j.epoch = m.epoch
        PROVE  j = m
    BY <1>1, <1>4, <1>5, <2>2
  <2> QED BY <2>1, <2>2 DEF LoadsTracked
<1>7. ASSUME NEW j \in loads'
      PROVE  /\ LoadOwns(j)' /\ LoadAttached(j)'
             /\ \E i \in loads : i.epoch = j.epoch /\ (Decides(j)' => Decides(i)) /\ ~j.attached
  <2>1. CASE j = k
    BY <1>1, <1>2, <1>3, <2>1 DEF LoadOwns, LoadAttached
  <2>2. CASE j \in Superseded(loads \ {l})
    BY <1>1, <1>4, <2>2 DEF LoadOwns, LoadAttached, Decides
  <2> QED BY <1>1, <2>1, <2>2
<1>8. ASSUME NEW x \in Callers PROVE StepOK(x)'
  <2>1. op[x].pc \in Waiting
    BY <1>2, DeciderHoldsCalls
  <2> QED BY <1>1, <2>1 DEF StepOK, Waiting
<1>9. FilesOK' /\ Resting'
  BY <1>1, <1>2, <1>3 DEF FilesOK, Resting, OpenWs
<1>10. LoadsInv'
  BY <1>6, <1>7 DEF LoadsInv
<1> QED BY <1>1, <1>7, <1>8, <1>9, <1>10, CallsKept

LEMMA LoadDiscardsStep ==
    ASSUME TypeInv, LifecycleInv, NEW l \in loads, LoadDiscards(l)
    PROVE  LifecycleInv'
<1>1. /\ l.pc = "removing" /\ Settle(l) /\ db' = [db EXCEPT ![l.dir] = "none"]
      /\ ws' = [ws EXCEPT !.action = "failed"]
      /\ UNCHANGED <<ria, module, epoch, waiting, op, last>>
  BY DEF LoadDiscards
<1>2. /\ LoadsTracked /\ FilesOK /\ LoadOwns(l) /\ Decides(l) /\ l.dir \in Dirs /\ NoDir \notin Dirs
      /\ db \in [Dirs -> Databases]
      /\ \A j \in loads : LoadAttached(j) /\ j.dir \in Dirs
  BY <1>1, LoadKnown DEF Decides
<1>3. ws = OpenWs(l.dir, "loading") /\ module = NoDir
  BY <1>1, <1>2 DEF LoadOwns
<1>4. /\ LoadsTracked' /\ tracked' \in {tracked, 0}
      /\ \A j \in loads' : j \in loads /\ j # l /\ (Decides(j)' <=> Decides(j))
  BY <1>1, <1>2, SettleKeeps
<1>5. ws' = OpenWs(l.dir, "failed")
  BY <1>1, <1>3 DEF OpenWs
<1>6. ws'.isOpen = ws.isOpen /\ ws'.dir = ws.dir /\ FilesOK' /\ Resting'
  BY <1>1, <1>2, <1>3, <1>5 DEF FilesOK, Resting, OpenWs
<1>7. ASSUME NEW j \in loads' PROVE LoadOwns(j)' /\ LoadAttached(j)'
  <2>1. ~Decides(j)' /\ ~j.attached
    BY <1>2, <1>3, <1>4, SoleDecider DEF LoadAttached
  <2> QED BY <2>1 DEF LoadOwns, LoadAttached
<1>8. ASSUME NEW x \in Callers PROVE StepOK(x)'
  <2>1. op[x].pc \in Waiting
    BY <1>2, DeciderHoldsCalls
  <2> QED BY <1>1, <2>1 DEF StepOK, Waiting
<1>9. LoadsInv'
  BY <1>4, <1>7 DEF LoadsInv
<1> QED BY <1>1, <1>4, <1>6, <1>8, <1>9, CallsKept

-----------------------------------------------------------------------------
(***************************************************************************)
(* What happens around the service, and the end of the process.            *)
(***************************************************************************)
\* Nobody is past the start of a call while nobody waits.
LEMMA NobodyInside ==
    ASSUME LifecycleInv, waiting = <<>>
    PROVE  /\ \A x \in Callers : op[x].pc \in {"idle", "start"}
           /\ Kept /\ Resting
<1>1. \A x \in Callers : op[x].pc \in {"idle", "start"}
  BY DEF LifecycleInv, CallsInv, CallOK, InSection
<1>2. Kept
  BY <1>1 DEF Kept, Keeping, Waiting
<1> QED BY <1>1, <1>2 DEF LifecycleInv

LEMMA AroundStep ==
    ASSUME TypeInv, LifecycleInv, NotifyStoreCompleted \/ \E d \in Dirs : SnapshotChanges(d)
    PROVE  LifecycleInv'
<1>1. /\ waiting = <<>>
      /\ UNCHANGED <<db, module, epoch, tracked, loads, waiting, op, last>>
  BY DEF NotifyStoreCompleted, SnapshotChanges, Loading
<1>2. Resting /\ \A x \in Callers : StepOK(x)'
  BY <1>1, NobodyInside DEF StepOK
<1>3. /\ ria \in [Dirs -> Snapshots] /\ ws \in StatusTypes /\ LoadsTracked /\ FilesOK
      /\ \A j \in loads : LoadOwns(j) /\ LoadAttached(j)
  BY DEF TypeInv, TypesKept, StatusTypes, LifecycleInv, LoadsInv
<1>4. LoadsTracked' /\ \A j \in loads : Decides(j)' <=> Decides(j)
  BY <1>1, <1>3 DEF LoadsTracked, Decides
<1>5. CASE NotifyStoreCompleted
  <2>1. /\ ws.isOpen /\ ws.action \in {"created", "loaded", "saved", "consistent"}
        /\ module = ws.dir /\ db[ws.dir] # "stale"
        /\ ria' = [ria EXCEPT ![ws.dir] = "readable"] /\ ws' = [ws EXCEPT !.action = "saved"]
    BY <1>5 DEF NotifyStoreCompleted
  <2>2. /\ ws.dir \in Dirs /\ db[ws.dir] = "whole"
    BY <1>2, <2>1 DEF Resting
  <2>3. ws'.isOpen /\ ws'.dir = ws.dir /\ ws'.action = "saved"
    BY <1>3, <2>1 DEF StatusTypes
  <2>4. Resting'
    BY <1>1, <2>1, <2>2, <2>3 DEF Resting
  <2>5. FilesOK'
    BY <1>1, <1>3, <2>1, <2>2 DEF FilesOK
  <2>6. ASSUME NEW j \in loads PROVE LoadOwns(j)' /\ LoadAttached(j)'
    <3>1. ~Decides(j)
      BY <1>3, <2>1 DEF LoadOwns, OpenWs
    <3> QED BY <1>1, <1>3, <1>4, <2>1, <2>3, <3>1 DEF LoadOwns, LoadAttached
  <2>7. LoadsInv'
    BY <1>1, <1>4, <2>6 DEF LoadsInv
  <2> QED BY <1>1, <1>2, <1>4, <2>1, <2>3, <2>4, <2>5, <2>7, CallsKept
<1>6. CASE \E d \in Dirs : SnapshotChanges(d)
  <2>1. PICK d \in Dirs : SnapshotChanges(d)
    BY <1>6
  <2>2. /\ loads = {} /\ ws' = ws
        /\ \E s \in Snapshots \ {"absent", ria[d]} : ria' = [ria EXCEPT ![d] = s]
    BY <2>1 DEF SnapshotChanges
  <2>3. FilesOK' /\ Resting'
    BY <1>1, <1>2, <1>3, <2>2 DEF FilesOK, Resting
  <2>4. LoadsInv'
    BY <1>1, <1>4, <2>2 DEF LoadsInv
  <2> QED BY <1>1, <1>2, <2>2, <2>3, <2>4, CallsKept
<1> QED BY <1>5, <1>6

LEMMA DeathStep ==
    ASSUME TypeInv, LifecycleInv, Crash \/ \E c \in Callers : OpenAborts(c)
    PROVE  LifecycleInv'
<1>1. WorkerDies
  BY DEF Crash, OpenAborts
<1>2. /\ module' = NoDir /\ ws' = ClosedWs /\ epoch' = 0 /\ tracked' = 0 /\ loads' = {}
      /\ waiting' = <<>> /\ op' = [c \in Callers |-> NoOp]
      /\ last' = [kind |-> "none", dir |-> NoDir, ok |-> FALSE]
  BY <1>1 DEF WorkerDies
<1>3. /\ ria \in [Dirs -> Snapshots] /\ db \in [Dirs -> Databases] /\ FilesOK
      /\ module \in Dirs \cup {NoDir}
  BY DEF TypeInv, TypesKept, LifecycleInv
<1>4. FilesOK'
  <2>1. CASE \E c \in Callers : OpenAborts(c)
    BY <1>2, <1>3, <2>1 DEF OpenAborts, Files, FilesOK
  <2>2. CASE Crash
    <3>1. \A d \in Dirs : ria'[d] \in {ria[d], "unusable"}
      BY <1>3, <2>2 DEF Crash
    <3>2. \A d \in Dirs : db'[d] \in {db[d], "torn"}
      BY <1>3, <2>2 DEF Crash
    <3> QED BY <1>2, <1>3, <3>1, <3>2 DEF FilesOK
  <2> QED BY <2>1, <2>2
<1>5. \A x \in Callers : op'[x].pc = "idle" /\ op'[x].kind = "none"
  BY <1>2, IdleTyped
<1>6. CallsInv'
  BY <1>5 DEF CallsInv, CallOK, CreateAlone, LoadsSuperseded, StepOK, Waiting, Keeping
<1>7. LoadsInv' /\ Resting' /\ LastKept'
  BY <1>2 DEF LoadsInv, LoadsTracked, Resting, ClosedWs, LastKept
<1> QED BY <1>4, <1>6, <1>7 DEF LifecycleInv

\* A new call waits for the mutex, or has it and has not begun.
LEMMA RequestStep ==
    ASSUME TypeInv, LifecycleInv, GatedCreate, NEW c \in Callers, Requests(c)
    PROVE  LifecycleInv'
<1>1. PICK kind \in {"open", "create", "close"}, d \in Dirs \cup {NoDir}, r \in BOOLEAN :
             /\ op[c] = NoOp
             /\ kind = "create" => (waiting = <<>> /\ tracked = 0)
             /\ op'[c] = [kind |-> kind, dir |-> d, recheck |-> r, pc |-> "start", case |-> "none"]
             /\ \A x \in Callers : x # c => op'[x] = op[x]
             /\ waiting' # <<>>
             /\ waiting # <<>> => Head(waiting') = Head(waiting)
             /\ waiting = <<>> => Head(waiting') = c
             /\ UNCHANGED <<ria, db, module, ws, epoch, tracked, loads, last>>
  BY RequestFacts
<1>2. LoadsInv' /\ FilesOK' /\ (Resting => Resting')
  BY <1>1, SameWorld
<1>3. op[c].pc = "idle" /\ op'[c].pc = "start" /\ op'[c].kind = kind
  BY <1>1, IdleTyped
<1>4. ASSUME NEW x \in Callers
      PROVE  (CallOK(x) /\ CreateAlone(x) /\ LoadsSuperseded(x) /\ StepOK(x))'
  <2>1. CASE x = c
    BY <1>1, <1>3, <2>1 DEF CallOK, CreateAlone, InSection, LoadsSuperseded, StepOK, Waiting, Keeping
  <2>2. CASE x # c
    <3>1. op'[x] = op[x] /\ (InSection(x) => InSection(x)')
      BY <1>1, <2>2 DEF InSection
    <3>2. CallOK(x) /\ CreateAlone(x) /\ LoadsSuperseded(x) /\ StepOK(x)
      BY DEF LifecycleInv, CallsInv
    <3>3. CallOK(x)' /\ CreateAlone(x)'
      BY <1>1, <3>1, <3>2 DEF CallOK, CreateAlone
    <3>4. LoadsSuperseded(x)'
      BY <1>1, <3>1, <3>2 DEF LoadsSuperseded, Decides
    <3>5. StepOK(x)'
      BY <1>1, <3>1, <3>2 DEF StepOK, CaseOf
    <3> QED BY <3>3, <3>4, <3>5
  <2> QED BY <2>1, <2>2
<1>5. Kept' => Resting'
  <2>1. Kept' => Kept
    BY <1>1, <1>3 DEF Kept, Keeping, Waiting
  <2> QED BY <1>2, <2>1 DEF LifecycleInv
<1>6. LastKept'
  BY <1>1 DEF LastKept
<1> QED BY <1>2, <1>4, <1>5, <1>6 DEF LifecycleInv, CallsInv

-----------------------------------------------------------------------------
(***************************************************************************)
(* The theorems.                                                           *)
(***************************************************************************)
LEMMA InitInv ==
    ASSUME LifecycleInit
    PROVE  TypeInv /\ LifecycleInv
<1>1. TypesKept
  BY IdleTyped DEF LifecycleInit, TypesKept, Snapshots, Databases, ClosedWs, Actions
<1>2. \A x \in Callers : op[x].pc = "idle" /\ op[x].kind = "none"
  BY IdleTyped DEF LifecycleInit
<1>3. TargetsKnown /\ TrackedRuns
  BY <1>2 DEF LifecycleInit, TargetsKnown, TrackedRuns
<1>4. CallsInv
  BY <1>2 DEF CallsInv, CallOK, CreateAlone, LoadsSuperseded, StepOK, Waiting, Keeping
<1>5. LoadsInv /\ Resting /\ LastKept
  BY DEF LifecycleInit, LoadsInv, LoadsTracked, Resting, ClosedWs, LastKept
<1>6. FilesOK
  BY DEF LifecycleInit, FilesOK
<1> QED BY <1>1, <1>3, <1>4, <1>5, <1>6 DEF TypeInv, LifecycleInv

LEMMA InvStep ==
    ASSUME TypeInv, LifecycleInv, GatedCreate, LifecycleNext
    PROVE  LifecycleInv'
<1>1. ASSUME NEW c \in Callers, OpenStep(c) PROVE LifecycleInv'
  BY <1>1, SupersedesStep, BeginsStep, RecheckStep, ProbeStep, DeathStep, OpeningStep, OpenLoadsStep,
     CasesEnd, FreshStep DEF OpenStep
<1>2. ASSUME NEW c \in Callers, CreateStep(c) \/ CloseStep(c) PROVE LifecycleInv'
  BY <1>2, CreateStepOK, SupersedesStep, CloseEndsStep DEF CreateStep, CloseStep
<1>3. ASSUME NEW l \in loads, LoadStep(l) PROVE LifecycleInv'
  BY <1>3, LoadReadsAllStep, LoadFailsStep, LoadPublishesStep, LoadClosesStep, LoadDiscardsStep
     DEF LoadStep
<1> QED BY <1>1, <1>2, <1>3, RequestStep, AroundStep, DeathStep DEF LifecycleNext, ServiceStep

LEMMA StutterKeeps ==
    ASSUME TypeInv, UNCHANGED vars
    PROVE  TypeInv' /\ (LifecycleInv => LifecycleInv')
<1>1. TypeInv'
  BY DEF vars, TypeInv, TypesKept, TargetsKnown, TrackedRuns
<1>2. ASSUME LifecycleInv PROVE LifecycleInv'
  <2>1. \A x \in Callers : StepOK(x)'
    BY <1>2 DEF vars, LifecycleInv, CallsInv, StepOK, CaseOf
  <2>2. LoadsInv' /\ FilesOK' /\ (Resting => Resting')
    BY <1>2, SameWorld DEF vars
  <2>3. \A j \in loads : Decides(j)' <=> Decides(j)
    BY DEF vars, Decides
  <2> QED BY <1>2, <2>1, <2>2, <2>3, CallsKept DEF vars, LifecycleInv
<1> QED BY <1>1, <1>2

\* The state has its types, and the tracked load is one that has not settled, whether
\* or not the callers of create() are gated.
THEOREM LifecycleTypeCorrect == LifecycleSpec => []LifecycleTypeOK
<1>1. LifecycleInit => TypeInv
  BY InitInv
<1>2. TypeInv /\ [LifecycleNext]_vars => TypeInv'
  BY TypeStep, StutterKeeps
<1>3. TypeInv => LifecycleTypeOK
  BY DEF TypeInv, TypesKept, TrackedRuns, LifecycleTypeOK, LoadRecord
<1> QED BY <1>1, <1>2, <1>3, PTL DEF LifecycleSpec

\* As long as create() is called when no call waits and no load runs, only the load of
\* the workspace that is open decides anything, and no call goes past the await of a
\* load that may.
THEOREM LifecycleInvariant == GatedCreate => (LifecycleSpec => [](TypeInv /\ LifecycleInv))
<1> SUFFICES ASSUME GatedCreate PROVE LifecycleSpec => [](TypeInv /\ LifecycleInv)
  OBVIOUS
<1>1. LifecycleInit => TypeInv /\ LifecycleInv
  BY InitInv
<1>2. TypeInv /\ LifecycleInv /\ [LifecycleNext]_vars => (TypeInv /\ LifecycleInv)'
  BY TypeStep, InvStep, StutterKeeps
<1> QED BY <1>1, <1>2, PTL DEF LifecycleSpec

\* Between two calls the workspace is that of the last one, however its loads end.
THEOREM LifecycleLastCallWins == GatedCreate => (LifecycleSpec => []LastCallWins)
<1>1. LifecycleInv => LastCallWins
  <2> SUFFICES ASSUME LifecycleInv, waiting = <<>>
               PROVE  /\ last.kind = "close" => ~ws.isOpen /\ module = NoDir
                      /\ (last.kind \in {"open", "create"} /\ last.ok) =>
                            /\ ws.isOpen
                            /\ ws.dir = last.dir
                            /\ \/ module = ws.dir
                               \/ (module = NoDir /\ ws.action \in {"loading", "failed", "dbOnly", "unusable"})
    BY DEF LastCallWins
  <2>1. Resting /\ LastKept
    BY NobodyInside DEF LifecycleInv
  <2> QED BY <2>1 DEF Resting, LastKept
<1> QED BY <1>1, LifecycleInvariant, PTL

\* A status that reports the content as synchronised is about an open database of that
\* directory that has its content.
THEOREM LifecycleHealthy == GatedCreate => (LifecycleSpec => []HealthyMeansWhole)
<1>1. LifecycleInv => HealthyMeansWhole
  <2> SUFFICES ASSUME LifecycleInv, waiting = <<>>, ws.isOpen,
                      ws.action \in {"loaded", "saved", "consistent"}
               PROVE  /\ module = ws.dir
                      /\ db[ws.dir] \in {"whole", "stale"}
                      /\ db[ws.dir] = "stale" => ws.action = "consistent"
    BY DEF HealthyMeansWhole
  <2>1. Resting
    BY NobodyInside
  <2> QED BY <2>1 DEF Resting
<1> QED BY <1>1, LifecycleInvariant, PTL

\* The catch block of a failed load closes the database of its own directory.
THEOREM LifecycleLoadCloses == GatedCreate => (LifecycleSpec => LoadClosesOwnDatabase)
<1>1. TypeInv /\ LifecycleInv /\ [LifecycleNext]_vars
        => [\A l \in loads : LoadCloses(l) => module \in {l.dir, NoDir}]_vars
  <2> SUFFICES ASSUME LifecycleInv, NEW l \in loads, LoadCloses(l)
               PROVE  module \in {l.dir, NoDir}
    OBVIOUS
  <2> QED BY DEF LifecycleInv, LoadsInv, LoadOwns, Decides, LoadCloses
<1> QED BY <1>1, LifecycleInvariant, PTL DEF LifecycleSpec, LoadClosesOwnDatabase

\* Databases are deleted by a fresh load and by the catch block of a load.
LEMMA Deletions ==
    ASSUME TypeInv, LifecycleNext, NEW d \in Dirs, db[d] \in {"whole", "stale", "torn"}, db'[d] = "none"
    PROVE  \/ \E c \in Callers : (FreshDiscards(c) \/ FreshLoadEnds(c)) /\ op[c].dir = d
           \/ \E l \in loads : LoadDiscards(l) /\ l.dir = d
<1>1. /\ db \in [Dirs -> Databases] /\ TypesKept
      /\ \A c \in Callers : op[c].kind \in {"open", "create"} => op[c].dir \in Dirs
      /\ \A l \in loads : l.dir \in Dirs
  BY DEF TypeInv, TypesKept, TargetsKnown, LoadRecord
<1>2. ASSUME NEW x \in Dirs, OpenSucceeds(x) \/ OpenFails(x) PROVE FALSE
  BY <1>1, <1>2, OpenedFacts DEF OpenFails
<1>3. ASSUME NEW c \in Callers, OpenStep(c), ~FreshDiscards(c), ~FreshLoadEnds(c) PROVE FALSE
  <2>1. CASE OpenSupersedesLoad(c) \/ OpenFastPath(c) \/ OpenRechecks(c) \/ OpenClosesPrevious(c)
               \/ OpenFromClosed(c) \/ Recheck(c) \/ Probe(c) \/ OpenAborts(c) \/ StoreEnds(c)
               \/ Evaluate(c)
    <3>1. db' = db
      BY <2>1 DEF OpenSupersedesLoad, OpenFastPath, OpenRechecks, OpenClosesPrevious, OpenFromClosed,
                  Recheck, Probe, OpenAborts, StoreEnds, Evaluate, Files
    <3> QED BY <3>1
  <2>2. CASE RecheckLoads(c) \/ ReloadEnds(c)
    <3>1. db' = db \/ db' = [db EXCEPT ![op[c].dir] = "whole"]
      BY <2>2 DEF RecheckLoads, ReloadEnds
    <3> QED BY <1>1, <3>1
  <2>3. CASE OpenRefused(c) \/ OpenUnusable(c) \/ OpenCreates(c) \/ OpenLoads(c) \/ StaleKept(c)
               \/ StaleRebuilt(c) \/ OpenSaves(c) \/ OpenCompares(c) \/ FreshOpens(c)
    <3>1. op[c].kind = "open" /\ (OpenSucceeds(op[c].dir) \/ OpenFails(op[c].dir))
      BY <2>3 DEF OpenRefused, OpenUnusable, OpenCreates, OpenLoads, StaleKept, StaleRebuilt,
                  OpenSaves, OpenCompares, FreshOpens, FoundStale, Opening, Serving
    <3> QED BY <1>1, <1>2, <3>1
  <2> QED BY <1>3, <2>1, <2>2, <2>3 DEF OpenStep
<1>4. ASSUME NEW c \in Callers, CreateStep(c) \/ CloseStep(c) PROVE FALSE
  <2>1. CASE CreateEnds(c)
    <3>1. op[c].kind = "create" /\ (OpenSucceeds(op[c].dir) \/ OpenFails(op[c].dir))
      BY <2>1 DEF CreateEnds, Serving
    <3> QED BY <1>1, <1>2, <3>1
  <2>2. CASE ~CreateEnds(c)
    BY <1>4, <2>2 DEF CreateStep, CloseStep, CreateRefused, CreateBegins, CloseBegins, CloseEnds, Files
  <2> QED BY <2>1, <2>2
<1>5. ASSUME NEW c \in Callers, FreshDiscards(c) \/ FreshLoadEnds(c) PROVE op[c].dir = d
  <2>1. db' = [db EXCEPT ![op[c].dir] = "none"] \/ db' = [db EXCEPT ![op[c].dir] = "whole"]
    BY <1>5 DEF FreshDiscards, FreshLoadEnds
  <2> QED BY <1>1, <2>1
<1>6. ASSUME NEW l \in loads, LoadStep(l) PROVE LoadDiscards(l) /\ l.dir = d
  <2>1. \/ db' = db
        \/ db' = [db EXCEPT ![l.dir] = "whole"]
        \/ LoadDiscards(l) /\ db' = [db EXCEPT ![l.dir] = "none"]
    BY <1>6 DEF LoadStep, LoadReadsAll, LoadFails, LoadPublishes, LoadCloses, LoadDiscards, Files
  <2> QED BY <1>1, <2>1
<1>7. ASSUME NEW c \in Callers, Requests(c) PROVE FALSE
  BY <1>7, RequestFacts
<1>8. ASSUME NotifyStoreCompleted \/ \E x \in Dirs : SnapshotChanges(x) PROVE FALSE
  BY <1>8 DEF NotifyStoreCompleted, SnapshotChanges
<1>9. ASSUME Crash PROVE FALSE
  BY <1>1, <1>9 DEF Crash
<1> QED BY <1>3, <1>4, <1>5, <1>6, <1>7, <1>8, <1>9 DEF LifecycleNext, ServiceStep

\* The service writes ria-data at the end of a store.
LEMMA SnapshotWrites ==
    ASSUME TypeInv, ServiceStep, NEW d \in Dirs, ria'[d] # ria[d]
    PROVE  \E c \in Callers : StoreEnds(c) /\ op[c].dir = d
<1>1. ASSUME NEW l \in loads, LoadStep(l) PROVE FALSE
  BY <1>1 DEF LoadStep, LoadReadsAll, LoadFails, LoadPublishes, LoadCloses, LoadDiscards, Files
<1>2. ASSUME NEW c \in Callers, CreateStep(c) \/ CloseStep(c) PROVE FALSE
  BY <1>2 DEF CreateStep, CloseStep, CreateRefused, CreateBegins, CreateEnds, CloseBegins, CloseEnds,
              Files
<1>3. ASSUME NEW c \in Callers, OpenStep(c) PROVE StoreEnds(c)
  <2> SUFFICES ASSUME ~StoreEnds(c) PROVE FALSE
    OBVIOUS
  <2>1. CASE OpenSupersedesLoad(c) \/ OpenFastPath(c) \/ OpenRechecks(c) \/ OpenClosesPrevious(c)
               \/ OpenFromClosed(c) \/ Recheck(c) \/ RecheckLoads(c) \/ Probe(c) \/ OpenAborts(c)
               \/ Evaluate(c)
    BY <2>1 DEF OpenSupersedesLoad, OpenFastPath, OpenRechecks, OpenClosesPrevious, OpenFromClosed,
                Recheck, RecheckLoads, Probe, OpenAborts, Evaluate, Files
  <2>2. CASE OpenRefused(c) \/ OpenUnusable(c) \/ OpenCreates(c) \/ OpenLoads(c) \/ StaleKept(c)
               \/ StaleRebuilt(c) \/ OpenSaves(c) \/ OpenCompares(c) \/ ReloadEnds(c)
               \/ FreshDiscards(c) \/ FreshOpens(c) \/ FreshLoadEnds(c)
    BY <2>2 DEF OpenRefused, OpenUnusable, OpenCreates, OpenLoads, StaleKept, StaleRebuilt,
                OpenSaves, OpenCompares, ReloadEnds, FreshDiscards, FreshOpens, FreshLoadEnds
  <2> QED BY <1>3, <2>1, <2>2 DEF OpenStep
<1>4. ASSUME NEW c \in Callers, StoreEnds(c) PROVE op[c].dir = d
  <2>1. ria \in [Dirs -> Snapshots]
    BY DEF TypeInv, TypesKept
  <2>2. ria' = ria \/ \E s \in Snapshots : ria' = [ria EXCEPT ![op[c].dir] = s]
    BY <1>4 DEF StoreEnds, Snapshots
  <2> QED BY <2>1, <2>2
<1> QED BY <1>1, <1>2, <1>3, <1>4 DEF ServiceStep

LEMMA OnlyCopyStep ==
    ASSUME TypeInv, LifecycleInv, LifecycleNext, NEW d \in Dirs
    PROVE  /\ db[d] \in {"whole", "stale", "torn"} /\ db'[d] = "none" => ria[d] = "readable"
           /\ ServiceStep /\ ria[d] \in {"unusable", "incompatible"} => ria'[d] = ria[d]
<1>1. ASSUME db[d] \in {"whole", "stale", "torn"}, db'[d] = "none" PROVE ria[d] = "readable"
  <2>1. CASE \E c \in Callers : (FreshDiscards(c) \/ FreshLoadEnds(c)) /\ op[c].dir = d
    BY <2>1 DEF LifecycleInv, CallsInv, StepOK, FreshDiscards, FreshLoadEnds, Serving
  <2>2. CASE \E l \in loads : LoadDiscards(l) /\ l.dir = d
    BY <2>2 DEF LifecycleInv, LoadsInv, LoadOwns, Decides, LoadDiscards
  <2> QED BY <1>1, <2>1, <2>2, Deletions
<1>2. ASSUME ServiceStep, ria'[d] # ria[d] PROVE ria[d] = "absent"
  <2>1. PICK c \in Callers : StoreEnds(c) /\ op[c].dir = d
    BY <1>2, SnapshotWrites
  <2> QED BY <2>1 DEF LifecycleInv, CallsInv, StepOK, StoreEnds, Serving
<1> QED BY <1>1, <1>2

\* The only copy of a content stays.
THEOREM LifecycleOnlyCopyKept == GatedCreate => (LifecycleSpec => OnlyCopyKept)
<1>1. TypeInv /\ LifecycleInv /\ [LifecycleNext]_vars
        => [\A d \in Dirs :
              /\ db[d] \in {"whole", "stale", "torn"} /\ db'[d] = "none" => ria[d] = "readable"
              /\ ServiceStep /\ ria[d] \in {"unusable", "incompatible"} => ria'[d] = ria[d]]_vars
  BY OnlyCopyStep
<1> QED BY <1>1, LifecycleInvariant, PTL DEF LifecycleSpec, OnlyCopyKept
=============================================================================
