------------------------- MODULE DispatchProperties -------------------------
(***************************************************************************)
(* What CommandDispatch must guarantee, stated over its variables.         *)
(***************************************************************************)
EXTENDS CommandDispatch

Executing == {r \in Commands : call[r].pc = "executing" /\ Executes(r)}

\* A command that arrived during a load executes nothing on the database that
\* is loaded before that load has settled, whoever re-opens or replaces it.
HeldUntilSettled ==
    \A r \in Executing : call[r].saw = db => load.db # db

\* The gate "drains them FIFO" (apps/desktop-host/src/worker.ts:184-187): of two
\* deferred commands the later one starts when the earlier one is answered.
DeferredInOrder ==
    [][\A i, j \in DOMAIN chain : i < j =>
          ~(call[chain[j]].pc = "settling" /\ call'[chain[j]].pc = "running")]_vars

\* Every open is answered although a load never ends, and with it every command,
\* unless a load hangs for ever and nobody opens anything else.
EveryRequestAnswered ==
    /\ \A r \in Opens : (call[r].pc # "new") ~> (call[r].pc = "answered")
    /\ []<>(load = NoLoad) =>
         \A r \in Commands : (call[r].pc # "new") ~> (call[r].pc = "answered")

\* "Running cleanup queries here concurrently caused a native use-after-free
\* crash" (handlers/workspace-channels.ts:56-61): no step of the cleanup executes
\* on a database that a background load is filling.
CleanupOutsideLoads ==
    \A r \in Opens : call[r].pc = "cleaning" /\ Executes(r) => load.db # db

\* "Defers non-exempt channels on whenLoadSettled() while a ria-data load is in
\* flight" (apps/desktop-host/src/worker.ts:184-186): no command executes on the
\* database that is loaded.
GateHolds == \A r \in Executing : load.db # db

\* The statements of a command reach one database.
CommandOnOneDatabase ==
    [][\A r \in Commands :
          call[r].pc = "running" /\ call[r].left < Statements /\ call'[r].pc = "executing"
              => db = None \/ call[r].captured = generation]_vars

\* Commands start in the order they arrived.
NoCommandOvertakes ==
    [][\A i \in DOMAIN chain : \A r \in Commands :
          ~(call[chain[i]].pc = "deferred" /\ call[r].pc = "new" /\ call'[r].pc = "running")]_vars
=============================================================================
