-------------------------- MODULE WorkerSupervisor --------------------------
(***************************************************************************)
(* The main process and its worker: apps/desktop-host/src/                 *)
(* utility-process-manager.ts (start, crash, restart, queue, retry,        *)
(* shutdown) and the end of the worker in worker.ts (shutdownWorker).      *)
(*                                                                         *)
(* One process runs at a time: a new one is forked only when the exit of   *)
(* the one before has been handled.  Between its death and that event the  *)
(* manager still sends to it, and answers it gave still arrive.            *)
(***************************************************************************)
EXTENDS Integers

CONSTANTS
    Requests,    \* the requests of the renderer, each sent once
    Retryable,   \* those whose channel shouldRetryRequest() names
    MaxRetries,
    MaxCrashes   \* bound on the crashes explored

ASSUME SupervisorAssumption ==
    /\ Retryable \subseteq Requests
    /\ MaxRetries \in Nat /\ MaxCrashes \in Nat

VARIABLES
    process,     \* the last process forked
    killed,      \* SIGKILL has been sent to it
    child,       \* the manager tracks it
    startup,     \* who awaits its handshake: "first", "restart" or nobody
    relay,       \* requests come in: the first start has succeeded
    flags,       \* isRestarting, permanentlyFailed, isShuttingDown
    crashCount, stableReset,
    request,     \* where each request is; pending and queue are sets of them
    retries,
    work, answers,  \* what the process has to do, and its answers on the way
    shutdown,    \* the promise of shutdown()
    handed,      \* ghost: the processes each request was sent to
    streak,      \* ghost: processes forked since the last that proved stable
    crashes

manager == <<child, startup, relay, flags, crashCount, stableReset>>
worker == <<process, killed>>
traffic == <<request, retries, work, answers, handed>>
vars == <<manager, worker, traffic, shutdown, streak, crashes>>

Alive == process \in {"starting", "up", "flushing", "closing"}

SupervisorInit ==
    /\ process = "starting" /\ killed = FALSE /\ child = TRUE
    /\ startup = "first" /\ relay = FALSE
    /\ flags = {}
    /\ crashCount = 0 /\ stableReset = FALSE
    /\ request = [r \in Requests |-> "new"]
    /\ retries = [r \in Requests |-> 0]
    /\ work = {} /\ answers = {}
    /\ shutdown = "none"
    /\ handed = [r \in Requests |-> 0] /\ streak = 1 /\ crashes = 0

In(where) == {r \in Requests : request[r] = where}

Settle(S, outcome) == [r \in Requests |-> IF r \in S THEN outcome ELSE request[r]]

Hand(S) == handed' = [r \in Requests |-> IF r \in S THEN handed[r] + 1 ELSE handed[r]]

-----------------------------------------------------------------------------
(* Requests.                                                               *)

\* dispatchRequest() for a new request.  A message to a process that is already
\* dead is lost; one that cannot be serialised throws.
Send(r) ==
    /\ relay /\ request[r] = "new"
    /\ \/ /\ flags \cap {"shutting down", "failed"} # {} \/ ("restarting" \notin flags /\ ~child)
          /\ request' = Settle({r}, "rejected")
          /\ UNCHANGED <<work, handed>>
       \/ /\ flags = {"restarting"}
          /\ request' = Settle({r}, "queued")
          /\ UNCHANGED <<work, handed>>
       \/ /\ flags = {} /\ child
          /\ request' = Settle({r}, "pending")
          /\ work' = IF Alive THEN work \cup {r} ELSE work
          /\ Hand({r})
       \/ /\ flags = {} /\ child
          /\ request' = Settle({r}, "rejected")
          /\ UNCHANGED <<work, handed>>
    /\ UNCHANGED <<manager, worker, retries, answers, shutdown, streak, crashes>>

\* The gate settles; whether the answer is an error does not matter here.
Answers(r) ==
    /\ process \in {"up", "flushing", "closing"} /\ r \in work
    /\ work' = work \ {r} /\ answers' = answers \cup {r}
    /\ UNCHANGED <<manager, worker, request, retries, handed, shutdown, streak, crashes>>

\* An answer to a request that is no longer pending is dropped.
Deliver(r) ==
    /\ r \in answers
    /\ answers' = answers \ {r}
    /\ request' = IF request[r] = "pending" THEN Settle({r}, "resolved") ELSE request
    /\ UNCHANGED <<manager, worker, retries, work, handed, shutdown, streak, crashes>>

-----------------------------------------------------------------------------
(* start().                                                                *)

\* drainQueue(): S is sent; the rest cannot be serialised and is rejected.
Drain(S) ==
    /\ request' = [r \in Requests |->
          IF r \in S THEN "pending" ELSE IF request[r] = "queued" THEN "rejected" ELSE request[r]]
    /\ work' = work \cup S
    /\ Hand(S)

\* A mutant of Ready: a respawn that succeeds ends the streak.
ReadyForgetsCrashes ==
    /\ process = "starting" /\ startup # "none"
    /\ process' = "up"
    /\ startup' = "none"
    /\ relay' = (relay \/ "shutting down" \notin flags)
    /\ flags' = flags \ {"restarting"}
    /\ stableReset' = TRUE
    /\ crashCount' = 0
    /\ \E S \in SUBSET In("queued") : Drain(S)
    /\ UNCHANGED <<killed, child, retries, answers, shutdown, streak, crashes>>

\* The queue is drained in the turn the handshake arrives.  The relay of the
\* requests is registered after the first one, unless the application quits.
Ready ==
    /\ process = "starting" /\ startup # "none"
    /\ process' = "up"
    /\ startup' = "none"
    /\ relay' = (relay \/ "shutting down" \notin flags)
    /\ flags' = flags \ {"restarting"}
    /\ stableReset' = TRUE
    /\ \E S \in SUBSET In("queued") : Drain(S)
    /\ UNCHANGED <<killed, child, crashCount, retries, answers, shutdown, streak, crashes>>

\* A mutant of StartRejects: the manager goes on waiting for the restart.
StartRejectsStillRestarting ==
    /\ startup' = "none"
    /\ flags' = flags \cup (IF startup = "restart" THEN {"failed"} ELSE {})
    /\ request' = Settle(In("queued"), "rejected")
    /\ UNCHANGED <<relay, crashCount, stableReset, retries, work, answers, handed, streak, crashes>>

\* The promise of start() rejects: a restart gives up for good.
StartRejects ==
    /\ startup' = "none"
    /\ flags' = (flags \ {"restarting"})
          \cup (IF startup = "restart" /\ "shutting down" \notin flags THEN {"failed"} ELSE {})
    /\ request' = Settle(In("queued"), "rejected")
    /\ UNCHANGED <<relay, crashCount, stableReset, retries, work, answers, handed, streak, crashes>>

\* The exit of a process that never got ready; a shutdown that waits ends with it.
StartExits ==
    /\ process = "dead" /\ startup # "none"
    /\ process' = "gone" /\ child' = FALSE
    /\ StartRejects
    /\ shutdown' = IF shutdown \in {"waiting", "killing"} THEN "done" ELSE shutdown
    /\ UNCHANGED killed

\* The worker reports that it cannot initialise, and ends.
StartFails ==
    /\ process = "starting" /\ startup # "none"
    /\ process' = "dead"
    /\ StartRejects
    /\ UNCHANGED <<killed, child, shutdown>>

\* A mutant of StartTimesOut: the process is given up.
StartTimesOutUntracked ==
    /\ process = "starting" /\ startup # "none"
    /\ killed' = TRUE /\ child' = FALSE
    /\ StartRejects
    /\ UNCHANGED <<process, shutdown>>

\* The handshake takes too long.  The child stays tracked: the kill may fail.
StartTimesOut ==
    /\ process = "starting" /\ startup # "none"
    /\ killed' = TRUE
    /\ StartRejects
    /\ UNCHANGED <<process, child, shutdown>>

StableReset ==
    /\ stableReset
    /\ stableReset' = FALSE /\ crashCount' = 0 /\ streak' = 0
    /\ UNCHANGED <<child, startup, relay, flags, worker, traffic, shutdown, crashes>>

-----------------------------------------------------------------------------
(* The process ends.                                                       *)

Dies ==
    /\ process' = "dead" /\ work' = {}
    /\ UNCHANGED <<killed, manager, request, retries, answers, handed, shutdown, streak>>

Crash == Alive /\ crashes < MaxCrashes /\ crashes' = crashes + 1 /\ Dies

KillTakes == Alive /\ killed /\ Dies /\ UNCHANGED crashes

\* A mutant of Retried: the count of a request is not carried over.
RetriedAgain == Retryable \cap In("pending")

\* shouldRetryRequest()
Retried == {r \in Retryable : request[r] = "pending" /\ retries[r] < 1}

\* A mutant of Crashed: the queue waits for a restart that will not come.
CrashedKeepsQueue ==
    /\ request' = [r \in Requests |->
          IF r \in Retried THEN "queued" ELSE IF request[r] = "pending" THEN "rejected" ELSE request[r]]
    /\ crashCount' = crashCount + 1
    /\ IF crashCount < MaxRetries
         THEN /\ flags' = {"restarting"} /\ startup' = "restart"
              /\ process' = "starting" /\ child' = TRUE /\ streak' = streak + 1
         ELSE /\ flags' = {"failed"}
              /\ process' = "gone" /\ child' = FALSE
              /\ UNCHANGED <<startup, streak>>

\* The exit of a process that was ready: pending requests are queued again or
\* rejected, and a new process is forked unless the loop has lasted too long.
Crashed ==
    /\ crashCount' = crashCount + 1
    /\ IF crashCount < MaxRetries
         THEN /\ flags' = {"restarting"} /\ startup' = "restart"
              /\ process' = "starting" /\ child' = TRUE /\ streak' = streak + 1
              /\ request' = [r \in Requests |->
                    IF r \in Retried THEN "queued"
                    ELSE IF request[r] = "pending" THEN "rejected" ELSE request[r]]
         ELSE /\ flags' = {"failed"}
              /\ process' = "gone" /\ child' = FALSE
              /\ request' = Settle(In("pending") \cup In("queued"), "rejected")
              /\ UNCHANGED <<startup, streak>>

WorkerExits ==
    /\ process = "dead" /\ startup = "none"
    /\ relay /\ "failed" \notin flags /\ "shutting down" \notin flags
    /\ Crashed
    /\ retries' = [r \in Requests |-> IF r \in Retried THEN retries[r] + 1 ELSE retries[r]]
    /\ stableReset' = FALSE
    /\ killed' = FALSE
    /\ answers' = {}
    /\ UNCHANGED <<relay, work, handed, shutdown, crashes>>

\* Nobody but a shutdown looks at the exit any more.
ExitUnheeded ==
    /\ process = "dead" /\ startup = "none"
    /\ ~relay \/ flags \cap {"failed", "shutting down"} # {}
    /\ process' = "gone"
    /\ IF shutdown \in {"waiting", "killing"}
         THEN shutdown' = "done" /\ child' = FALSE
         ELSE UNCHANGED <<shutdown, child>>
    /\ UNCHANGED <<killed, startup, relay, flags, crashCount, stableReset, traffic, streak, crashes>>

-----------------------------------------------------------------------------
(* shutdown().                                                             *)

\* Called when the application quits, or when the first start failed.
Shutdown ==
    /\ "shutting down" \notin flags
    /\ flags' = flags \cup {"shutting down"}
    /\ stableReset' = FALSE
    /\ request' = Settle(In("pending") \cup In("queued"), "rejected")
    /\ shutdown' = IF ~child \/ process = "gone" THEN "done" ELSE "waiting"
    /\ child' = (child /\ process # "gone")
    /\ UNCHANGED <<startup, relay, crashCount, worker, retries, work, answers, handed, streak, crashes>>

\* shutdownWorker(): flush, close, exit; its deadline may end it at any step.
WorkerShutsDown ==
    /\ process = "up" /\ shutdown = "waiting"
    /\ process' = "flushing"
    /\ UNCHANGED <<killed, manager, traffic, shutdown, streak, crashes>>

WorkerFlushed ==
    /\ process = "flushing"
    /\ process' = "closing"
    /\ UNCHANGED <<killed, manager, traffic, shutdown, streak, crashes>>

WorkerEnds ==
    /\ process \in {"flushing", "closing"}
    /\ Dies /\ UNCHANGED crashes

\* The timeout of the manager, or a message that cannot be sent.
ForceKill ==
    /\ shutdown = "waiting"
    /\ shutdown' = "killing" /\ killed' = TRUE
    /\ UNCHANGED <<process, manager, traffic, streak, crashes>>

\* The kill fails, or its exit does not come within a second.
ShutdownGivesUp ==
    /\ shutdown = "killing"
    /\ shutdown' = "rejected"
    /\ UNCHANGED <<manager, worker, traffic, streak, crashes>>

-----------------------------------------------------------------------------
SupervisorNext ==
    \/ \E r \in Requests : Send(r) \/ Answers(r) \/ Deliver(r)
    \/ Ready \/ StartExits \/ StartFails \/ StartTimesOut \/ StableReset
    \/ Crash \/ KillTakes \/ WorkerExits \/ ExitUnheeded
    \/ Shutdown \/ WorkerShutsDown \/ WorkerFlushed \/ WorkerEnds
    \/ ForceKill \/ ShutdownGivesUp

SupervisorSpec == SupervisorInit /\ [][SupervisorNext]_vars

\* Timers fire, the exit of a dead process is reported, and the worker answers
\* what it was asked.  It need not die of a kill, and nobody has to quit.
FairSupervisorSpec ==
    /\ SupervisorSpec
    /\ WF_vars(StartTimesOut) /\ WF_vars(StartExits)
    /\ WF_vars(WorkerExits) /\ WF_vars(ExitUnheeded)
    /\ WF_vars(ForceKill) /\ WF_vars(ShutdownGivesUp)
    /\ \A r \in Requests : WF_vars(Answers(r)) /\ WF_vars(Deliver(r))
=============================================================================
