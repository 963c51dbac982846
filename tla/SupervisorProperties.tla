------------------------ MODULE SupervisorProperties ------------------------
(***************************************************************************)
(* What WorkerSupervisor must guarantee, stated over its variables.        *)
(***************************************************************************)
EXTENDS WorkerSupervisor

\* The variables keep their types, and the process the manager waits for exists.
SupervisorTypeOK ==
    /\ process \in {"starting", "up", "flushing", "closing", "dead", "gone"}
    /\ startup \in {"none", "first", "restart"}
    /\ flags \subseteq {"restarting", "failed", "shutting down"}
    /\ crashCount \in 0..MaxRetries + 1
    /\ request \in [Requests -> {"new", "queued", "pending", "resolved", "rejected"}]
    /\ retries \in [Requests -> 0..1]
    /\ work \subseteq Requests /\ answers \subseteq Requests
    /\ shutdown \in {"none", "waiting", "killing", "done", "rejected"}
    /\ startup # "none" => child /\ process \in {"starting", "dead"}
    /\ "restarting" \in flags <=> startup = "restart"

\* A request that takes the worker down takes down one more at most, and only
\* when it may be repeated.
RetriedOnce == \A r \in Requests : handed[r] <= IF r \in Retryable THEN 2 ELSE 1

\* A worker that dies before it proves stable is replaced MaxRetries times.
CrashLoopEnds == streak <= MaxRetries + 1

\* When shutdown() has resolved, no worker is left that holds the database.
NoWorkerAfterShutdown == shutdown = "done" => ~Alive /\ ~child

\* Every request that was accepted is answered or refused, through any series of
\* crashes, restarts and a shutdown, and every shutdown() settles.
EveryCallSettles ==
    /\ \A r \in Requests :
         request[r] \in {"queued", "pending"} ~> request[r] \in {"resolved", "rejected"}
    /\ shutdown \in {"waiting", "killing"} ~> shutdown \in {"done", "rejected"}
=============================================================================
