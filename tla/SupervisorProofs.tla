-------------------------- MODULE SupervisorProofs --------------------------
(***************************************************************************)
(* The safety of the worker's supervision, for any number of requests,     *)
(* crashes and restarts.                                                   *)
(*                                                                         *)
(* Three facts that no property names make it inductive: a request that    *)
(* waits was handed over no more often than it was repeated; a streak of   *)
(* crashes is never longer than the counter that stops it, which passes    *)
(* its bound only when the manager has given up; and a process that runs   *)
(* is one the manager tracks.                                              *)
(***************************************************************************)
EXTENDS SupervisorProperties, TLAPS

SupervisorTypes ==
    /\ SupervisorTypeOK
    /\ {child, relay, stableReset} \subseteq BOOLEAN
    /\ handed \in [Requests -> Nat]
    /\ streak \in Nat

HandedCounted ==
    \A r \in Requests :
        /\ handed[r] <= retries[r] + 1
        /\ request[r] \in {"new", "queued"} => handed[r] <= retries[r]
        /\ retries[r] = 1 => r \in Retryable

StreakCounted ==
    /\ streak <= crashCount + 1 /\ streak <= MaxRetries + 1
    /\ crashCount <= MaxRetries \/ "failed" \in flags

WorkerTracked ==
    /\ Alive => child
    /\ shutdown # "none" => "shutting down" \in flags
    /\ NoWorkerAfterShutdown

SupervisorInv == SupervisorTypes /\ HandedCounted /\ StreakCounted /\ WorkerTracked

-----------------------------------------------------------------------------
LEMMA InvInit == SupervisorInit => SupervisorInv
<1> SUFFICES ASSUME SupervisorInit PROVE SupervisorInv
  OBVIOUS
<1> USE SupervisorAssumption DEF SupervisorInit, SupervisorAssumption
<1>1. SupervisorTypeOK
  BY DEF SupervisorTypeOK
<1>2. SupervisorTypes
  BY <1>1 DEF SupervisorTypes
<1>3. HandedCounted
  <2>1. handed = [r \in Requests |-> 0] /\ retries = [r \in Requests |-> 0]
    OBVIOUS
  <2>2. \A r \in Requests : handed[r] = 0 /\ retries[r] = 0
    BY ONLY <2>1
  <2>3. ASSUME NEW r \in Requests
        PROVE  /\ handed[r] <= retries[r] + 1 /\ handed[r] <= retries[r]
               /\ retries[r] # 1
    BY ONLY <2>2, r \in Requests
  <2> QED BY ONLY <2>3 DEF HandedCounted
<1>4. StreakCounted
  BY DEF StreakCounted
<1>5. WorkerTracked
  BY DEF WorkerTracked, NoWorkerAfterShutdown, Alive
<1> QED BY <1>2, <1>3, <1>4, <1>5 DEF SupervisorInv

\* The streak: only a respawn lengthens it, and StableReset ends it with its counter.
LEMMA StreakKept ==
    ASSUME SupervisorInv, [SupervisorNext]_vars
    PROVE  StreakCounted' /\ streak' \in Nat /\ crashCount' \in 0..MaxRetries + 1
<1> USE SupervisorAssumption DEF SupervisorAssumption
<1>1. /\ crashCount \in 0..MaxRetries + 1 /\ streak \in Nat
      /\ StreakCounted
  BY DEF SupervisorInv, SupervisorTypes, SupervisorTypeOK
<1>2. CASE UNCHANGED <<flags, crashCount, streak>>
  BY <1>1, <1>2 DEF StreakCounted
<1>3. CASE StableReset
  BY <1>1, <1>3 DEF StreakCounted, StableReset
<1>4. CASE WorkerExits
  <2>1. "failed" \notin flags /\ crashCount <= MaxRetries
    BY <1>1, <1>4 DEF StreakCounted, WorkerExits
  <2>2. CASE crashCount < MaxRetries
    <3>1. crashCount' = crashCount + 1 /\ streak' = streak + 1
      BY <1>4, <2>2 DEF WorkerExits, Crashed
    <3> QED BY ONLY <1>1, <2>1, <2>2, <3>1, SupervisorAssumption
             DEF StreakCounted, SupervisorAssumption
  <2>3. CASE ~(crashCount < MaxRetries)
    <3>1. crashCount' = crashCount + 1 /\ streak' = streak /\ flags' = {"failed"}
      BY <1>4, <2>3 DEF WorkerExits, Crashed
    <3> QED BY ONLY <1>1, <2>1, <2>3, <3>1, SupervisorAssumption
             DEF StreakCounted, SupervisorAssumption
  <2> QED BY <2>2, <2>3
<1>5. CASE /\ UNCHANGED <<crashCount, streak>>
           /\ "failed" \in flags => "failed" \in flags'
  BY <1>1, <1>5 DEF StreakCounted
<1>6. CASE Ready \/ StartExits \/ StartFails \/ StartTimesOut \/ Shutdown
  BY <1>5, <1>6 DEF Ready, StartExits, StartFails, StartTimesOut, StartRejects, Shutdown
<1>7. ASSUME NEW r \in Requests, Send(r) \/ Answers(r) \/ Deliver(r)
      PROVE  UNCHANGED <<flags, crashCount, streak>>
  BY <1>7 DEF Send, Answers, Deliver, manager
<1>8. CASE \/ Crash \/ KillTakes \/ ExitUnheeded \/ WorkerShutsDown \/ WorkerFlushed
           \/ WorkerEnds \/ ForceKill \/ ShutdownGivesUp \/ UNCHANGED vars
  BY <1>2, <1>8 DEF Crash, KillTakes, ExitUnheeded, WorkerShutsDown, WorkerFlushed, WorkerEnds,
                    ForceKill, ShutdownGivesUp, Dies, manager, vars
<1> QED BY <1>2, <1>3, <1>4, <1>6, <1>7, <1>8 DEF SupervisorNext

\* What a request goes through: the actions that move one, with what they hand over.
LEMMA HandedKept ==
    ASSUME SupervisorInv, [SupervisorNext]_vars
    PROVE  /\ HandedCounted'
           /\ handed' \in [Requests -> Nat] /\ retries' \in [Requests -> 0..1]
           /\ request' \in [Requests -> {"new", "queued", "pending", "resolved", "rejected"}]
<1> DEFINE States == {"new", "queued", "pending", "resolved", "rejected"}
           Kept == /\ HandedCounted'
                   /\ handed' \in [Requests -> Nat] /\ retries' \in [Requests -> 0..1]
                   /\ request' \in [Requests -> States]
<1>1. /\ HandedCounted /\ handed \in [Requests -> Nat]
      /\ retries \in [Requests -> 0..1] /\ request \in [Requests -> States]
  BY DEF SupervisorInv, SupervisorTypes, SupervisorTypeOK
\* Nothing is handed over, and a request settles or stays where it is.
<1>2. ASSUME UNCHANGED <<handed, retries>>, request' \in [Requests -> States],
             \A r \in Requests : request'[r] \in {"new", "queued"} =>
                                    request[r] \in {"new", "queued"}
      PROVE  Kept
  BY <1>1, <1>2 DEF HandedCounted
<1>3. ASSUME UNCHANGED <<handed, retries>>, NEW S \in SUBSET Requests,
             NEW o \in {"resolved", "rejected"}, request' = Settle(S, o)
      PROVE  Kept
  <2>1. request' \in [Requests -> States]
    BY <1>1, <1>3 DEF Settle
  <2>2. \A r \in Requests : request'[r] \in {"new", "queued"} => request[r] \in {"new", "queued"}
    BY <1>1, <1>3 DEF Settle
  <2> QED BY <1>2, <1>3, <2>1, <2>2
<1>4. ASSUME UNCHANGED <<handed, retries, request>> PROVE Kept
  BY <1>1, <1>2, <1>4
\* Requests that were handed over no more often than repeated are handed over.
<1>5. ASSUME NEW S \in SUBSET Requests, \A r \in S : request[r] \in {"new", "queued"},
             request' \in [Requests -> States], \A r \in S : request'[r] = "pending",
             \A r \in Requests \ S : request'[r] \in {"new", "queued"} =>
                                        request[r] \in {"new", "queued"},
             Hand(S), UNCHANGED retries
      PROVE  Kept
  <2>1. handed' \in [Requests -> Nat]
    BY <1>1, <1>5 DEF Hand
  <2>2. ASSUME NEW r \in Requests
        PROVE  /\ handed'[r] <= retries[r] + 1
               /\ request'[r] \in {"new", "queued"} => handed'[r] <= retries[r]
    <3>1. CASE r \in S
      BY <1>1, <1>5, <3>1 DEF Hand, HandedCounted
    <3>2. CASE r \notin S
      BY <1>1, <1>5, <3>2 DEF Hand, HandedCounted
    <3> QED BY <3>1, <3>2
  <2> QED BY <1>1, <1>5, <2>1, <2>2 DEF HandedCounted
<1>6. ASSUME NEW r \in Requests, Send(r) PROVE Kept
  <2>1. CASE request' = Settle({r}, "rejected") /\ UNCHANGED <<handed, retries>>
    BY <1>3, <2>1
  <2>2. CASE request' = Settle({r}, "queued") /\ UNCHANGED <<handed, retries>>
    <3>1. request[r] = "new"
      BY <1>6 DEF Send
    <3>2. request' \in [Requests -> States]
      BY <1>1, <2>2 DEF Settle
    <3>3. \A q \in Requests : request'[q] \in {"new", "queued"} => request[q] \in {"new", "queued"}
      BY <1>1, <2>2, <3>1 DEF Settle
    <3> QED BY <1>2, <2>2, <3>2, <3>3
  <2>3. CASE request' = Settle({r}, "pending") /\ Hand({r}) /\ UNCHANGED retries
    <3>1. request[r] = "new"
      BY <1>6 DEF Send
    <3>2. /\ request' \in [Requests -> States] /\ request'[r] = "pending"
          /\ \A q \in Requests \ {r} : request'[q] = request[q]
      BY <1>1, <2>3 DEF Settle
    <3> QED BY <1>5, <2>3, <3>1, <3>2
  <2> QED BY <1>6, <2>1, <2>2, <2>3 DEF Send
<1>7. ASSUME NEW r \in Requests, Answers(r) \/ Deliver(r) PROVE Kept
  <2>1. CASE Answers(r)
    BY <1>4, <2>1 DEF Answers
  <2>2. CASE Deliver(r)
    BY <1>3, <1>4, <2>2 DEF Deliver
  <2> QED BY <1>7, <2>1, <2>2
<1>8. CASE Ready
  <2>1. PICK S \in SUBSET In("queued") : Drain(S) /\ UNCHANGED retries
    BY <1>8 DEF Ready
  <2>2. S \in SUBSET Requests /\ \A r \in S : request[r] \in {"new", "queued"}
    BY <2>1 DEF In
  <2>3. /\ request' \in [Requests -> States] /\ \A r \in S : request'[r] = "pending"
        /\ \A r \in Requests \ S : request'[r] \in {"new", "queued"} =>
                                       request[r] \in {"new", "queued"}
    BY <1>1, <2>1, <2>2 DEF Drain
  <2> QED BY <1>5, <2>1, <2>2, <2>3 DEF Drain
<1>9. CASE StartExits \/ StartFails \/ StartTimesOut
  <2>1. In("queued") \in SUBSET Requests
    BY DEF In
  <2> QED BY <1>3, <1>9, <2>1 DEF StartExits, StartFails, StartTimesOut, StartRejects
<1>10. CASE Shutdown
  <2>1. In("pending") \cup In("queued") \in SUBSET Requests
    BY DEF In
  <2> QED BY <1>3, <1>10, <2>1 DEF Shutdown
<1>11. CASE WorkerExits
  <2>1. UNCHANGED handed
    BY <1>11 DEF WorkerExits
  <2>2. retries' = [r \in Requests |-> IF r \in Retried THEN retries[r] + 1 ELSE retries[r]]
    BY <1>11 DEF WorkerExits
  <2>3. retries' \in [Requests -> 0..1]
    BY <1>1, <2>2 DEF Retried
  <2>4. /\ request' \in [Requests -> States]
        /\ \A r \in Requests : request'[r] \in {"new", "queued"} =>
                                  request[r] \in {"new", "queued"} \/ r \in Retried
    <3>1. CASE crashCount < MaxRetries
      BY <1>1, <1>11, <3>1 DEF WorkerExits, Crashed
    <3>2. CASE ~(crashCount < MaxRetries)
      BY <1>1, <1>11, <3>2 DEF WorkerExits, Crashed, Settle
    <3> QED BY <3>1, <3>2
  <2>5. ASSUME NEW r \in Requests
        PROVE  /\ handed[r] <= retries'[r] + 1
               /\ request'[r] \in {"new", "queued"} => handed[r] <= retries'[r]
               /\ retries'[r] = 1 => r \in Retryable
    <3>1. CASE r \in Retried
      BY <1>1, <2>2, <3>1 DEF Retried, HandedCounted
    <3>2. CASE r \notin Retried
      BY <1>1, <2>2, <2>4, <3>2 DEF HandedCounted
    <3> QED BY <3>1, <3>2
  <2> QED BY <1>1, <2>1, <2>3, <2>4, <2>5 DEF HandedCounted
<1>12. CASE \/ StableReset \/ Crash \/ KillTakes \/ ExitUnheeded \/ WorkerShutsDown
            \/ WorkerFlushed \/ WorkerEnds \/ ForceKill \/ ShutdownGivesUp \/ UNCHANGED vars
  BY <1>4, <1>12 DEF StableReset, Crash, KillTakes, ExitUnheeded, WorkerShutsDown, WorkerFlushed,
                     WorkerEnds, ForceKill, ShutdownGivesUp, Dies, traffic, vars
<1> QED BY <1>6, <1>7, <1>8, <1>9, <1>10, <1>11, <1>12 DEF SupervisorNext

\* Nothing loses track of a process that runs, and shutdown() resolves when none does.
LEMMA TrackedKept ==
    ASSUME SupervisorInv, [SupervisorNext]_vars
    PROVE  /\ WorkerTracked'
           /\ {child', relay', stableReset'} \subseteq BOOLEAN
<1>1. /\ {child, relay, stableReset} \subseteq BOOLEAN /\ WorkerTracked
      /\ startup # "none" => child /\ process \in {"starting", "dead"}
      /\ "restarting" \in flags <=> startup = "restart"
  BY DEF SupervisorInv, SupervisorTypes, SupervisorTypeOK
<1> USE <1>1 DEF WorkerTracked, NoWorkerAfterShutdown, Alive
<1>2. ASSUME NEW r \in Requests, Send(r) \/ Answers(r) \/ Deliver(r)
      PROVE  UNCHANGED <<manager, worker, shutdown>>
  BY <1>2 DEF Send, Answers, Deliver
<1>3. CASE UNCHANGED <<manager, worker, shutdown>>
  BY <1>3 DEF manager, worker
<1>4. CASE Ready
  BY <1>4 DEF Ready
<1>5. CASE StartExits
  BY <1>5 DEF StartExits, StartRejects
<1>6. CASE StartFails
  BY <1>6 DEF StartFails, StartRejects
<1>7. CASE StartTimesOut
  BY <1>7 DEF StartTimesOut, StartRejects
<1>8. CASE StableReset
  BY <1>8 DEF StableReset, worker
<1>9. CASE Crash \/ KillTakes \/ WorkerEnds
  BY <1>9 DEF Crash, KillTakes, WorkerEnds, Dies, manager
<1>10. CASE WorkerExits
  BY <1>10 DEF WorkerExits, Crashed
<1>11. CASE ExitUnheeded
  BY <1>11 DEF ExitUnheeded
<1>12. CASE Shutdown
  BY <1>12 DEF Shutdown, worker
<1>13. CASE WorkerShutsDown \/ WorkerFlushed
  BY <1>13 DEF WorkerShutsDown, WorkerFlushed, manager
<1>14. CASE ForceKill \/ ShutdownGivesUp
  BY <1>14 DEF ForceKill, ShutdownGivesUp, manager, worker
<1>15. CASE UNCHANGED vars
  BY <1>3, <1>15 DEF vars
<1> QED BY <1>2, <1>3, <1>4, <1>5, <1>6, <1>7, <1>8, <1>9, <1>10, <1>11, <1>12, <1>13, <1>14,
           <1>15 DEF SupervisorNext

\* The rest of the types: what the manager waits for exists.
LEMMA ManagerKept ==
    ASSUME SupervisorInv, [SupervisorNext]_vars
    PROVE  /\ process' \in {"starting", "up", "flushing", "closing", "dead", "gone"}
           /\ startup' \in {"none", "first", "restart"}
           /\ flags' \subseteq {"restarting", "failed", "shutting down"}
           /\ work' \subseteq Requests /\ answers' \subseteq Requests
           /\ shutdown' \in {"none", "waiting", "killing", "done", "rejected"}
           /\ startup' # "none" => child' /\ process' \in {"starting", "dead"}
           /\ "restarting" \in flags' <=> startup' = "restart"
<1>1. /\ process \in {"starting", "up", "flushing", "closing", "dead", "gone"}
      /\ startup \in {"none", "first", "restart"}
      /\ flags \subseteq {"restarting", "failed", "shutting down"}
      /\ shutdown \in {"none", "waiting", "killing", "done", "rejected"}
      /\ startup # "none" => child /\ process \in {"starting", "dead"}
      /\ "restarting" \in flags <=> startup = "restart"
  BY DEF SupervisorInv, SupervisorTypes, SupervisorTypeOK
<1>2. work \subseteq Requests /\ answers \subseteq Requests
  BY DEF SupervisorInv, SupervisorTypes, SupervisorTypeOK
<1> DEFINE Managed ==
      /\ process' \in {"starting", "up", "flushing", "closing", "dead", "gone"}
      /\ startup' \in {"none", "first", "restart"}
      /\ flags' \subseteq {"restarting", "failed", "shutting down"}
      /\ shutdown' \in {"none", "waiting", "killing", "done", "rejected"}
      /\ startup' # "none" => child' /\ process' \in {"starting", "dead"}
      /\ "restarting" \in flags' <=> startup' = "restart"
    Carried == work' \subseteq Requests /\ answers' \subseteq Requests
    Result == Managed /\ Carried
<1> SUFFICES Result
  OBVIOUS
<1>3. ASSUME NEW r \in Requests, Send(r) \/ Answers(r) \/ Deliver(r)
      PROVE  Result
  <2>1. UNCHANGED <<manager, worker, shutdown>>
    BY <1>3 DEF Send, Answers, Deliver
  <2>2. Carried
    BY <1>2, <1>3 DEF Send, Answers, Deliver
  <2> QED BY <1>1, <2>1, <2>2 DEF manager, worker
<1>5. CASE Ready
  <2>1. Managed
    BY <1>1, <1>5 DEF Ready
  <2>2. Carried
    BY <1>2, <1>5 DEF Ready, Drain, In
  <2> QED BY <2>1, <2>2
<1>6. ASSUME StartRejects, child' = child \/ process' = "gone",
             startup # "none", process' \in {"starting", "dead", "gone"},
             shutdown' \in {shutdown, "done"}
      PROVE  Result
  <2>1. Carried
    BY <1>2, <1>6 DEF StartRejects
  <2>2. startup' = "none" /\ "restarting" \notin flags'
    BY <1>6 DEF StartRejects
  <2>3. flags' \subseteq {"restarting", "failed", "shutting down"}
    BY <1>1, <1>6 DEF StartRejects
  <2> QED BY <1>1, <1>6, <2>1, <2>2, <2>3
<1>7. CASE StartExits
  BY <1>6, <1>7 DEF StartExits
<1>8. CASE StartFails
  BY <1>6, <1>8 DEF StartFails
<1>9. CASE StartTimesOut
  BY <1>6, <1>9 DEF StartTimesOut
<1>10. CASE StableReset
  BY <1>1, <1>2, <1>10 DEF StableReset, worker, traffic
<1>11. CASE Crash \/ KillTakes \/ WorkerEnds
  <2>1. Carried
    BY <1>2, <1>11 DEF Crash, KillTakes, WorkerEnds, Dies
  <2>2. process' = "dead" /\ UNCHANGED <<manager, shutdown>>
    BY <1>11 DEF Crash, KillTakes, WorkerEnds, Dies
  <2> QED BY <1>1, <2>1, <2>2 DEF manager
<1>12. CASE WorkerExits
  <2>1. Carried
    BY <1>2, <1>12 DEF WorkerExits
  <2>2. CASE crashCount < MaxRetries
    <3>1. /\ flags' = {"restarting"} /\ startup' = "restart" /\ shutdown' = shutdown
          /\ process' = "starting" /\ child' = TRUE
      BY <1>12, <2>2 DEF WorkerExits, Crashed
    <3> QED BY <1>1, <2>1, <3>1
  <2>3. CASE ~(crashCount < MaxRetries)
    <3>1. /\ flags' = {"failed"} /\ startup' = "none" /\ shutdown' = shutdown
          /\ process' = "gone"
      BY <1>12, <2>3 DEF WorkerExits, Crashed
    <3> QED BY <1>1, <2>1, <3>1
  <2> QED BY <2>2, <2>3
<1>13. CASE ExitUnheeded
  BY <1>1, <1>2, <1>13 DEF ExitUnheeded, traffic
<1>14. CASE Shutdown
  <2>1. /\ flags' = flags \cup {"shutting down"} /\ UNCHANGED <<startup, process, work, answers>>
        /\ shutdown' \in {"waiting", "done"} /\ child' = (child /\ process # "gone")
    BY <1>14 DEF Shutdown, worker
  <2> QED BY <1>1, <1>2, <2>1
<1>15. CASE WorkerShutsDown \/ WorkerFlushed
  BY <1>1, <1>2, <1>15 DEF WorkerShutsDown, WorkerFlushed, manager, traffic
<1>16. CASE ForceKill \/ ShutdownGivesUp
  BY <1>1, <1>2, <1>16 DEF ForceKill, ShutdownGivesUp, manager, worker, traffic
<1>17. CASE UNCHANGED vars
  BY <1>1, <1>2, <1>17 DEF vars, manager, worker, traffic
<1> QED
  BY <1>3, <1>5, <1>7, <1>8, <1>9, <1>10, <1>11, <1>12, <1>13, <1>14, <1>15, <1>16,
     <1>17 DEF SupervisorNext

\* SupervisorInv holds throughout.
THEOREM SupervisorInvariant == SupervisorSpec => []SupervisorInv
<1>1. SupervisorInit => SupervisorInv
  BY InvInit
<1>2. SupervisorInv /\ [SupervisorNext]_vars => SupervisorInv'
  <2> SUFFICES ASSUME SupervisorInv, [SupervisorNext]_vars PROVE SupervisorInv'
    OBVIOUS
  <2>1. SupervisorTypes'
    BY StreakKept, HandedKept, TrackedKept, ManagerKept DEF SupervisorTypes, SupervisorTypeOK
  <2> QED BY <2>1, StreakKept, HandedKept, TrackedKept DEF SupervisorInv
<1> QED BY <1>1, <1>2, PTL DEF SupervisorSpec

\* Every variable keeps its type, and the process the manager waits for exists.
THEOREM SupervisorTypeCorrect == SupervisorSpec => []SupervisorTypeOK
<1>1. SupervisorInv => SupervisorTypeOK
  BY DEF SupervisorInv, SupervisorTypes
<1> QED BY <1>1, SupervisorInvariant, PTL

\* However often the worker dies, a request reaches two workers at most, and one
\* only when its channel may not be repeated (shouldRetryRequest()).
THEOREM SupervisorRetriesOnce == SupervisorSpec => []RetriedOnce
<1>1. SupervisorInv => RetriedOnce
  <2> SUFFICES ASSUME SupervisorInv, NEW r \in Requests
               PROVE  handed[r] <= IF r \in Retryable THEN 2 ELSE 1
    BY DEF RetriedOnce
  <2>1. /\ handed[r] \in Nat /\ retries[r] \in 0..1
        /\ handed[r] <= retries[r] + 1 /\ (retries[r] = 1 => r \in Retryable)
    BY DEF SupervisorInv, SupervisorTypes, SupervisorTypeOK, HandedCounted
  <2> QED BY ONLY <2>1
<1> QED BY <1>1, SupervisorInvariant, PTL

\* A worker that dies before it proves stable is replaced MaxRetries times at most.
THEOREM SupervisorCrashLoopEnds == SupervisorSpec => []CrashLoopEnds
<1>1. SupervisorInv => CrashLoopEnds
  BY DEF SupervisorInv, StreakCounted, CrashLoopEnds
<1> QED BY <1>1, SupervisorInvariant, PTL

\* When shutdown() has resolved, no worker is left that holds the database.
THEOREM SupervisorLeavesNoWorker == SupervisorSpec => []NoWorkerAfterShutdown
<1>1. SupervisorInv => NoWorkerAfterShutdown
  BY DEF SupervisorInv, WorkerTracked
<1> QED BY <1>1, SupervisorInvariant, PTL
=============================================================================
