--------------------------- MODULE CommandDispatch ---------------------------
(***************************************************************************)
(* The way of a request through the worker: the load gate                  *)
(* (packages/app-core/src/dispatch/load-gating.ts), the dispatcher         *)
(* (command-dispatcher.ts) and two handlers, over the lifecycle of the     *)
(* workspace.  A command stands for every gated channel; its handler runs  *)
(* several statements, as does the cleanup after workspace.open            *)
(* (handlers/workspace-channels.ts).                                       *)
(*                                                                         *)
(* The lifecycle is that of WorkspaceLifecycle with what the gate sees:    *)
(* which database is open, whether a background load (Case B) fills it and *)
(* what the status says.  Each opening of a database is a new number.      *)
(***************************************************************************)
EXTENDS Naturals, Sequences

CONSTANTS
    Commands, Opens,  \* the requests, each sent once
    Dirs,
    Statements        \* of a command, and of the cleanup

ASSUME DispatchAssumption == Commands \cap Opens = {} /\ Statements \in Nat \ {0}

Requests == Commands \cup Opens

None == 0

VARIABLES
    ws,          \* what getStatus() publishes, and of which directory
    db,          \* the open database, or None
    generation,  \* of the database module
    load,        \* currentLoad: the database it fills, and whether it is superseded
    call,        \* each request: where it is, and what it holds
    chain,       \* the drain chain of the gate
    mutex        \* open() calls that hold the lifecycle mutex or wait for it

workspace == <<ws, db, generation, load>>
vars == <<workspace, call, chain, mutex>>

NoLoad == [db |-> None, superseded |-> FALSE]

\* saw: the load the gate found published.
NewCall == [pc |-> "new", dir |-> "none", saw |-> None, awaited |-> None, captured |-> 0, left |-> 0]

DispatchInit ==
    /\ ws = [status |-> "ready", dir |-> CHOOSE d \in Dirs : TRUE]
    /\ db = 1 /\ generation = 1 /\ load = NoLoad
    /\ call = [r \in Requests |-> NewCall]
    /\ chain = <<>> /\ mutex = <<>>

Goes(r, pc) == call' = [call EXCEPT ![r].pc = pc]

Answered == [NewCall EXCEPT !.pc = "answered"]

\* What the answer says is left out.
Answer(r) == call' = [call EXCEPT ![r] = Answered]

-----------------------------------------------------------------------------
(* The gate.                                                               *)

\* READ_ONLY_EXEMPTION_SET, as far as it changes anything.
Exempt == Opens

\* The dispatcher: a channel that requires a workspace is refused without one.
Starts(r, arrived) ==
    IF r \in Opens
      THEN /\ call' = [call EXCEPT ![r] = [arrived EXCEPT !.pc = "locking"]]
           /\ mutex' = Append(mutex, r)
      ELSE /\ call' = [call EXCEPT ![r] = IF db = None THEN Answered
                                           ELSE [arrived EXCEPT !.pc = "running", !.left = Statements]]
           /\ mutex' = mutex

\* The gate reads the status and decides in the turn the request arrives: the
\* awaits between are settled before the next event.
Loading(r) == ws.status = "loading" /\ r \notin Exempt

Passes(r, dir) ==
    /\ call[r].pc = "new" /\ ~Loading(r)
    /\ Starts(r, [NewCall EXCEPT !.dir = dir])
    /\ UNCHANGED <<workspace, chain>>

Defers(r, dir) ==
    /\ call[r].pc = "new" /\ Loading(r)
    /\ chain' = Append(chain, r)
    /\ call' = [call EXCEPT ![r] = [NewCall EXCEPT !.pc = "deferred", !.dir = dir, !.saw = db]]
    /\ UNCHANGED <<workspace, mutex>>

\* A mutant of InTurn: the chain does not wait for the requests ahead.
InTurnAtOnce(r) == \E i \in DOMAIN chain : chain[i] = r

InTurn(r) == chain # <<>> /\ r = Head(chain)

\* A mutant of AwaitsLoad: the chain is all that a deferred request waits for.
AwaitsLoadNot(r) ==
    /\ call[r].pc = "deferred" /\ InTurn(r)
    /\ call' = [call EXCEPT ![r].pc = "settling"]
    /\ UNCHANGED <<workspace, chain, mutex>>

\* whenLoadSettled(): the load that is in flight when the turn comes.
AwaitsLoad(r) ==
    /\ call[r].pc = "deferred" /\ InTurn(r)
    /\ call' = [call EXCEPT ![r].pc = "settling", ![r].awaited = load.db]
    /\ UNCHANGED <<workspace, chain, mutex>>

LoadSettled(r) ==
    /\ call[r].pc = "settling"
    /\ call[r].awaited = None \/ load.db # call[r].awaited
    /\ Starts(r, call[r])
    /\ UNCHANGED <<workspace, chain>>

\* Any answer of the request in turn, an error too, lets the next one go on.
NextInTurn ==
    /\ chain # <<>> /\ call[Head(chain)].pc = "answered"
    /\ chain' = Tail(chain)
    /\ UNCHANGED <<workspace, call, mutex>>

-----------------------------------------------------------------------------
(* Statements.  Each one captures the generation and is refused when the   *)
(* database was closed or replaced meanwhile; the next one starts afresh.  *)

\* A handler waits for files and the network, too, between two statements.
StatementBegins(r) ==
    /\ call[r].pc = "running"
    /\ call' = [call EXCEPT ![r].pc = "executing", ![r].captured = generation]
    /\ UNCHANGED <<workspace, chain, mutex>>

Executes(r) == call[r].captured = generation /\ db # None

\* A statement of a command that fails ends it, as a superseded command when the
\* database was replaced.
CommandStatement(r) ==
    /\ call[r].pc = "executing"
    /\ IF Executes(r) /\ call[r].left > 1
         THEN call' = [call EXCEPT ![r].pc = "running", ![r].left = @ - 1]
         ELSE Answer(r)
    /\ UNCHANGED <<workspace, chain, mutex>>

\* A step of the cleanup that fails is noted, and the next one begins at once.
CleanupStatement(r) ==
    /\ call[r].pc = "cleaning"
    /\ IF call[r].left > 1
         THEN call' = [call EXCEPT ![r].captured = generation, ![r].left = @ - 1]
         ELSE Answer(r)
    /\ UNCHANGED <<workspace, chain, mutex>>

-----------------------------------------------------------------------------
(* workspace.open.                                                         *)

Holds(r, pc) == mutex # <<>> /\ r = Head(mutex) /\ call[r].pc = pc

OpenBegins(r) ==
    /\ Holds(r, "locking")
    /\ load' = IF load = NoLoad THEN load ELSE [load EXCEPT !.superseded = TRUE]
    /\ Goes(r, IF load = NoLoad THEN "switching" ELSE "awaiting")
    /\ UNCHANGED <<ws, db, generation, chain, mutex>>

\* A mutant of AwaitEnds: the wait for the load has no bound.
AwaitEndsSettled(r) ==
    /\ Holds(r, "awaiting") /\ load = NoLoad
    /\ Goes(r, "switching")
    /\ UNCHANGED <<workspace, chain, mutex>>

\* The load settles, or five seconds pass.
AwaitEnds(r) ==
    /\ Holds(r, "awaiting")
    /\ Goes(r, "switching")
    /\ UNCHANGED <<workspace, chain, mutex>>

\* The handler goes on: unless the answer says that a load is running, the
\* leftovers of earlier sessions are cleaned up.
OpenReturns(r, action, g) ==
    /\ mutex' = Tail(mutex)
    /\ IF action \in {"loading", "failed"}
         THEN Answer(r)
         ELSE call' = [call EXCEPT ![r].pc = "cleaning", ![r].captured = g, ![r].left = Statements]

\* The directory is open already and its database exists, which a failed load has
\* deleted; that the load still runs makes no difference.
AlreadyOpen(dir) == ws.status \in {"loading", "ready"} /\ ws.dir = dir

FastPath(r) ==
    /\ Holds(r, "switching") /\ AlreadyOpen(call[r].dir)
    /\ OpenReturns(r, "consistent", generation)
    /\ UNCHANGED <<workspace, chain>>

ClosesPrevious(r) ==
    /\ Holds(r, "switching") /\ ~AlreadyOpen(call[r].dir)
    /\ ws' = [ws EXCEPT !.status = "closed"]
    /\ db' = None /\ generation' = generation + 1
    /\ Goes(r, "opening")
    /\ UNCHANGED <<load, chain, mutex>>

\* Every case of the detection: one loads in the background, the others are
\* done when they return.
OpenEnds(r) ==
    /\ Holds(r, "opening")
    /\ \/ /\ db' = generation + 1 /\ generation' = generation + 1
          /\ \/ /\ ws' = [status |-> "loading", dir |-> call[r].dir]
                /\ load' = [db |-> generation + 1, superseded |-> FALSE]
                /\ OpenReturns(r, "loading", generation')
             \/ /\ ws' = [status |-> "ready", dir |-> call[r].dir]
                /\ OpenReturns(r, "consistent", generation')
                /\ UNCHANGED load
       \/ /\ OpenReturns(r, "failed", generation)
          /\ UNCHANGED workspace
    /\ UNCHANGED chain

LoadEnds ==
    /\ load # NoLoad
    /\ load' = NoLoad
    /\ IF load.superseded
         THEN UNCHANGED <<ws, db, generation>>
         ELSE \/ /\ load.db = db
                 /\ ws' = [ws EXCEPT !.status = "ready"]
                 /\ UNCHANGED <<db, generation>>
              \/ /\ ws' = [ws EXCEPT !.status = "failed"]
                 /\ db' = None /\ generation' = generation + 1
    /\ UNCHANGED <<call, chain, mutex>>

-----------------------------------------------------------------------------
GateStep(r) == AwaitsLoad(r) \/ LoadSettled(r)
HandlerStep(r) == StatementBegins(r) \/ CommandStatement(r) \/ CleanupStatement(r)
OpenStep(r) == OpenBegins(r) \/ AwaitEnds(r) \/ FastPath(r) \/ ClosesPrevious(r) \/ OpenEnds(r)

DispatchNext ==
    \/ \E r \in Opens, d \in Dirs : Passes(r, d)
    \/ \E r \in Commands : Passes(r, "none") \/ Defers(r, "none")
    \/ NextInTurn
    \/ \E r \in Requests : GateStep(r) \/ HandlerStep(r)
    \/ \E r \in Opens : OpenStep(r)
    \/ LoadEnds

DispatchSpec == DispatchInit /\ [][DispatchNext]_vars

\* Continuations run, statements are answered and timers fire.  A load may hang
\* while its database is open; once it is closed, its next statement throws.
FairDispatchSpec ==
    /\ DispatchSpec
    /\ WF_vars(NextInTurn)
    /\ \A r \in Requests : WF_vars(GateStep(r)) /\ WF_vars(HandlerStep(r))
    /\ \A r \in Opens : WF_vars(OpenStep(r))
    /\ WF_vars(load.db # db /\ LoadEnds)
=============================================================================
