---------------------------- MODULE CanvasProofs ----------------------------
(***************************************************************************)
(* The auto-save of the canvas, for any workspaces and any number of       *)
(* canvases, edits, failures and retries.                                  *)
(*                                                                         *)
(* A coordinator owes the layers of a workspace that its saves and its     *)
(* pending work cover.  Everything it does, except to store, leaves it     *)
(* owing what it owed (Continues), and what it owes is armed.              *)
(***************************************************************************)
EXTENDS CanvasProperties, TLAPS

SaveCall == [dir : Dirs, scope : Scopes, st : Outcomes \cup {"sent"}]

Coordinator ==
    [timers : SUBSET Timers, followUps : Nat, burst : BOOLEAN, pending : BOOLEAN,
     scope : Scopes, dir : Dirs, inFlight : BOOLEAN, retries : 0..MAX_RETRIES,
     failed : BOOLEAN, everSaved : BOOLEAN, saves : Seq(SaveCall),
     flush : [Flushes -> {"none", "waiting", "saving"}], late : SUBSET Flushes]

\* The status tells whether a save is in flight, and there is one at most.
Serial(c) == Len(c.saves) = IF c.inFlight THEN 1 ELSE 0

\* What is pending will be taken up, or was given up.
Armed(c) == c.pending => (active(c) \/ GivenUp(c))

Good(c) == c \in Coordinator /\ Serial(c) /\ Armed(c)

\* What c has yet to save.
Owes(c, d, s) ==
    \/ \E i \in DOMAIN c.saves :
         c.saves[i].st # "stored" /\ c.saves[i].dir = d /\ s \in covered(c.saves[i].scope)
    \/ c.pending /\ c.dir = d /\ s \in covered(c.scope)

\* A save in flight is for the workspace that pending work will be saved in.
Homed(c) == \A i \in DOMAIN c.saves : c.saves[i].dir = c.dir

\* Coordinator c becomes e, and e owes all that c did.
Continues(c, e) ==
    Homed(c) =>
        /\ Homed(e)
        /\ unfinished(e) \subseteq unfinished(c)
        /\ \A d \in Dirs, s \in Scopes : Owes(c, d, s) => Owes(e, d, s)

Statuses == {"idle", "pending", "saving", "saved", "failed", "needs_decision"}

-----------------------------------------------------------------------------
(***************************************************************************)
(* The steps of a coordinator.                                             *)
(***************************************************************************)
LEMMA CoordinatorFields ==
    ASSUME NEW c \in Coordinator
    PROVE  /\ c.timers \subseteq Timers
           /\ c.followUps \in Nat
           /\ c.retries \in 0..MAX_RETRIES
           /\ {c.burst, c.pending, c.inFlight, c.failed, c.everSaved} \subseteq BOOLEAN
           /\ c.scope \in Scopes /\ c.dir \in Dirs
           /\ c.saves \in Seq(SaveCall)
           /\ c.flush \in [Flushes -> {"none", "waiting", "saving"}]
           /\ c.late \subseteq Flushes
BY DEF Coordinator

LEMMA Covering ==
    ASSUME NEW a \in Scopes, NEW b \in Scopes
    PROVE  /\ joinScope(a, b) \in Scopes
           /\ covered(a) \subseteq covered(joinScope(a, b))
           /\ covered(b) \subseteq covered(joinScope(a, b))
           /\ a \in covered(a)
           /\ covered(a) \subseteq Scopes
BY DEF Scopes, joinScope, covered

LEMMA NoSaves ==
    ASSUME NEW c \in Coordinator, Serial(c), ~c.inFlight
    PROVE  c.saves = <<>> /\ DOMAIN c.saves = {}
<1>1. c.saves \in Seq(SaveCall) /\ Len(c.saves) = 0
  BY CoordinatorFields DEF Serial
<1> QED BY <1>1

LEMMA OneSave ==
    ASSUME NEW c \in Coordinator, Serial(c), NEW i \in DOMAIN c.saves
    PROVE  /\ i = 1 /\ c.inFlight /\ c.saves[1] \in SaveCall
           /\ Len(c.saves) = 1 /\ DOMAIN c.saves = {1}
<1>1. c.saves \in Seq(SaveCall) /\ c.inFlight \in BOOLEAN
  BY CoordinatorFields
<1>2. DOMAIN c.saves = 1..Len(c.saves)
  BY <1>1
<1>3. c.inFlight
  BY <1>1, <1>2 DEF Serial
<1>4. Len(c.saves) = 1
  BY <1>3 DEF Serial
<1> QED BY <1>1, <1>2, <1>3, <1>4

\* The status of a coordinator is "saved" only when it has nothing to do.
LEMMA DerivedStatus ==
    ASSUME NEW c \in Coordinator
    PROVE  /\ deriveStatus(c) \in Statuses
           /\ deriveStatus(c) = "saved" => ~c.pending /\ ~c.inFlight
           /\ c.inFlight => deriveStatus(c) = "saving"
BY CoordinatorFields DEF deriveStatus, Statuses

\* A save takes over what is pending.
LEMMA ExecuteSave ==
    ASSUME NEW c \in Coordinator, Serial(c), c.pending, ~c.inFlight
    PROVE  /\ Good(executeSave(c))
           /\ Continues(c, executeSave(c))
           /\ executeSave(c).inFlight /\ ~executeSave(c).pending
<1> DEFINE e == executeSave(c)
           call == [dir |-> c.dir, scope |-> c.scope, st |-> "sent"]
<1>1. c.saves = <<>> /\ DOMAIN c.saves = {}
  BY NoSaves
<1>2. call \in SaveCall
  BY CoordinatorFields DEF SaveCall
<1>3. /\ e = [c EXCEPT !.timers = {}, !.burst = FALSE, !.pending = FALSE,
                       !.scope = "universe", !.failed = FALSE, !.inFlight = TRUE,
                       !.saves = <<call>>]
  BY <1>1 DEF executeSave, clearTimers, Coordinator
<1>4. <<call>> \in Seq(SaveCall) /\ Len(<<call>>) = 1 /\ DOMAIN <<call>> = {1} /\ <<call>>[1] = call
  BY <1>2
<1> HIDE DEF e
<1>5. /\ e \in Coordinator
      /\ e.saves = <<call>> /\ e.inFlight /\ ~e.pending /\ e.dir = c.dir
  BY <1>3, <1>4 DEF Coordinator, Scopes
<1>6. Good(e)
  BY <1>4, <1>5 DEF Good, Serial, Armed
<1>7. Continues(c, e)
  <2>1. Homed(e)
    BY <1>4, <1>5 DEF Homed
  <2>2. unfinished(e) \subseteq unfinished(c)
    BY <1>4, <1>5 DEF unfinished
  <2>3. ASSUME NEW d \in Dirs, NEW s \in Scopes, Owes(c, d, s)
        PROVE  Owes(e, d, s)
    <3>1. c.dir = d /\ s \in covered(c.scope)
      BY <2>3, <1>1 DEF Owes
    <3>2. 1 \in DOMAIN e.saves /\ e.saves[1].dir = d /\ e.saves[1].st = "sent"
          /\ s \in covered(e.saves[1].scope)
      BY <3>1, <1>4, <1>5
    <3> QED BY <3>2 DEF Owes
  <2> QED BY <2>1, <2>2, <2>3 DEF Continues
<1> QED BY <1>5, <1>6, <1>7 DEF e

\* A timer or a follow-up that fires.
LEMMA MaybeStart ==
    ASSUME NEW c, Good(c), NEW b \in Coordinator,
           b.saves = c.saves, b.inFlight = c.inFlight, b.pending = c.pending,
           b.scope = c.scope, b.dir = c.dir
    PROVE  LET e == IF mayStart(b) THEN executeSave(b) ELSE b
           IN  Good(e) /\ Continues(c, e)
<1>1. Serial(b) /\ c \in Coordinator
  BY DEF Good, Serial
<1>2. Continues(c, b) /\ (Homed(c) => Homed(b))
      /\ \A d \in Dirs, s \in Scopes : Owes(c, d, s) <=> Owes(b, d, s)
  BY DEF Continues, Homed, unfinished, Owes
<1>3. CASE mayStart(b)
  <2>1. Good(executeSave(b)) /\ Continues(b, executeSave(b))
    BY <1>1, <1>3, ExecuteSave DEF mayStart
  <2>2. unfinished(b) = unfinished(c)
    BY DEF unfinished
  <2> QED BY <1>2, <1>3, <2>1, <2>2 DEF Continues
<1>4. CASE ~mayStart(b)
  <2>1. Armed(b)
    BY <1>1, <1>4 DEF mayStart, Armed, active
  <2> QED BY <1>1, <1>2, <1>4, <2>1 DEF Good
<1> QED BY <1>3, <1>4

\* A flush: it waits for the save in flight, or starts one, or finds nothing to do.
LEMMA Flush ==
    ASSUME NEW c, Good(c), NEW f \in Flushes
    PROVE  /\ Good(flushed(c, f)) /\ Continues(c, flushed(c, f))
           /\ ~mayStart(c) => /\ flushed(c, f).pending = c.pending
                              /\ flushed(c, f).inFlight = c.inFlight
           /\ mayStart(c) => flushed(c, f).inFlight
<1> DEFINE z == clearTimers(c)
<1>1. c \in Coordinator /\ Serial(c)
  BY DEF Good
<1>2. /\ z \in Coordinator
      /\ z.saves = c.saves /\ z.inFlight = c.inFlight /\ z.pending = c.pending
      /\ z.scope = c.scope /\ z.dir = c.dir
  BY <1>1 DEF clearTimers, Coordinator
<1> HIDE DEF z
<1>3. CASE c.inFlight
  <2> DEFINE e == [z EXCEPT !.flush[f] = "waiting"]
  <2>1. flushed(c, f) = e
    BY <1>3 DEF flushed, z
  <2>2. /\ e \in Coordinator /\ e.saves = c.saves /\ e.inFlight = c.inFlight
        /\ e.pending = c.pending /\ e.scope = c.scope /\ e.dir = c.dir
    BY <1>2 DEF Coordinator
  <2> HIDE DEF e
  <2>3. Good(e)
    BY <1>1, <1>3, <2>2 DEF Good, Serial, Armed, active
  <2>4. Continues(c, e)
    BY <2>2 DEF Continues, Homed, unfinished, Owes
  <2> QED BY <1>3, <2>1, <2>2, <2>3, <2>4 DEF mayStart
<1>4. CASE ~c.inFlight /\ c.pending
  <2> DEFINE x == executeSave(c)
             e == [x EXCEPT !.flush[f] = "saving"]
  <2>1. flushed(c, f) = e
    BY <1>4 DEF flushed
  <2>2. Good(x) /\ Continues(c, x) /\ x.inFlight /\ ~x.pending
    BY <1>1, <1>4, ExecuteSave
  <2> HIDE DEF x
  <2>3. /\ e \in Coordinator /\ e.saves = x.saves /\ e.inFlight = x.inFlight
        /\ e.pending = x.pending /\ e.scope = x.scope /\ e.dir = x.dir
    BY <2>2 DEF Good, Coordinator
  <2> HIDE DEF e
  <2>4. Good(e)
    BY <2>2, <2>3 DEF Good, Serial, Armed, active
  <2>5. Continues(c, e)
    BY <2>2, <2>3 DEF Continues, Homed, unfinished, Owes
  <2> QED BY <1>4, <2>1, <2>2, <2>3, <2>4, <2>5 DEF mayStart
<1>5. CASE ~c.inFlight /\ ~c.pending
  <2>1. flushed(c, f) = z
    BY <1>5 DEF flushed, z
  <2>2. Good(z)
    BY <1>1, <1>2, <1>5 DEF Good, Serial, Armed
  <2>3. Continues(c, z)
    BY <1>2 DEF Continues, Homed, unfinished, Owes
  <2> QED BY <1>2, <1>5, <2>1, <2>2, <2>3 DEF mayStart
<1>6. {c.pending, c.inFlight} \subseteq BOOLEAN
  BY <1>1, CoordinatorFields
<1> QED BY <1>3, <1>4, <1>5, <1>6

\* An edit that is reported adds its layer to what is owed.
LEMMA Schedule ==
    ASSUME NEW c, Good(c), NEW scope \in Scopes, NEW d \in Dirs
    PROVE  LET e == scheduled(c, scope, d)
           IN  /\ Good(e) /\ e.pending
               /\ (Homed(c) /\ unfinished(c) \subseteq {d}) =>
                    /\ Homed(e) /\ unfinished(e) \subseteq {d} /\ Owes(e, d, scope)
                    /\ \A dir \in Dirs, s \in Scopes : Owes(c, dir, s) => Owes(e, dir, s)
<1> DEFINE e == scheduled(c, scope, d)
           timers == (c.timers \ {"retry"}) \cup {"debounce"}
                       \cup (IF c.burst THEN {} ELSE {"deferral"})
<1>1. c \in Coordinator /\ Serial(c)
  BY DEF Good
<1>2. joinScope(c.scope, scope) \in Scopes
  BY <1>1, CoordinatorFields, Covering
<1>3. timers \in SUBSET Timers /\ timers # {}
  BY <1>1, CoordinatorFields DEF Timers
<1>4. 0 \in 0..MAX_RETRIES
  BY CanvasAssumption DEF CanvasAssumption
<1>5. e = [c EXCEPT !.dir = d, !.pending = TRUE, !.scope = joinScope(c.scope, scope),
                    !.failed = FALSE, !.retries = 0, !.timers = timers, !.burst = TRUE]
  BY DEF scheduled
<1> HIDE DEF e, timers
<1>6. /\ e \in Coordinator /\ e.saves = c.saves /\ e.inFlight = c.inFlight
      /\ e.pending /\ e.dir = d /\ e.scope = joinScope(c.scope, scope)
      /\ e.timers = timers
  BY <1>1, <1>2, <1>3, <1>4, <1>5 DEF Coordinator
<1>7. Good(e)
  BY <1>1, <1>3, <1>6 DEF Good, Serial, Armed, active
<1>8. ASSUME Homed(c), unfinished(c) \subseteq {d}
      PROVE  /\ Homed(e) /\ unfinished(e) \subseteq {d} /\ Owes(e, d, scope)
             /\ \A dir \in Dirs, s \in Scopes : Owes(c, dir, s) => Owes(e, dir, s)
  <2>1. \A i \in DOMAIN c.saves : c.saves[i].dir = d
    BY <1>8 DEF unfinished
  <2>2. Homed(e) /\ unfinished(e) \subseteq {d}
    BY <1>6, <2>1 DEF Homed, unfinished
  <2>3. c.scope \in Scopes
    BY <1>1, CoordinatorFields
  <2>4. Owes(e, d, scope)
    BY <1>6, <2>3, Covering DEF Owes
  <2>5. ASSUME NEW dir \in Dirs, NEW s \in Scopes, Owes(c, dir, s)
        PROVE  Owes(e, dir, s)
    <3>1. CASE \E i \in DOMAIN c.saves : c.saves[i].st # "stored" /\ c.saves[i].dir = dir
                                          /\ s \in covered(c.saves[i].scope)
      BY <1>6, <3>1 DEF Owes
    <3>2. CASE c.pending /\ c.dir = dir /\ s \in covered(c.scope)
      <4>1. dir = d
        BY <1>8, <3>2 DEF unfinished
      <4> QED BY <1>6, <2>3, <3>2, <4>1, Covering DEF Owes
    <3> QED BY <2>5, <3>1, <3>2 DEF Owes
  <2> QED BY <2>2, <2>4, <2>5
<1> QED BY <1>6, <1>7, <1>8 DEF e

\* The deadline of a flush passes.
LEMMA Deadline ==
    ASSUME NEW c, Good(c), NEW f \in Flushes
    PROVE  LET e == [c EXCEPT !.failed = TRUE, !.late = @ \cup {f}]
           IN  Good(e) /\ Continues(c, e) /\ active(e) = active(c)
<1> DEFINE e == [c EXCEPT !.failed = TRUE, !.late = @ \cup {f}]
<1>1. /\ e \in Coordinator /\ e.saves = c.saves /\ e.inFlight = c.inFlight /\ e.pending = c.pending
      /\ e.dir = c.dir /\ e.scope = c.scope /\ e.timers = c.timers /\ e.followUps = c.followUps
      /\ e.retries = c.retries /\ e.failed
  BY DEF Good, Coordinator
<1> HIDE DEF e
<1>2. Good(e)
  BY <1>1 DEF Good, Serial, Armed, active, GivenUp
<1>3. Continues(c, e) /\ active(e) = active(c)
  BY <1>1 DEF Continues, Homed, unfinished, Owes, active
<1> QED BY <1>2, <1>3 DEF e

\* What the end of a save leads to, before the flushes go on.
LEMMA SaveEnds ==
    ASSUME NEW c, Good(c), NEW i \in DOMAIN c.saves, c.saves[i].st # "sent"
    PROVE  LET rest == [c EXCEPT !.saves = RemoveAt(@, i)]
               e == IF c.saves[i].st = "stored" THEN succeeded(rest) ELSE failedSave(rest, c.saves[i].scope)
           IN  Good(e) /\ Continues(c, e) /\ ~e.inFlight
<1> DEFINE save == c.saves[1]
           rest == [c EXCEPT !.saves = RemoveAt(@, i)]
           retry == ~c.pending /\ c.retries < MAX_RETRIES
<1>1. c \in Coordinator /\ Serial(c)
  BY DEF Good
<1>2. i = 1 /\ c.inFlight /\ save \in SaveCall /\ Len(c.saves) = 1 /\ DOMAIN c.saves = {1}
  BY <1>1, OneSave
<1>3. c.saves \in Seq(SaveCall)
  BY <1>1, CoordinatorFields
<1>4. RemoveAt(c.saves, i) = <<>>
  BY <1>2, <1>3 DEF RemoveAt
<1>5. rest = [c EXCEPT !.saves = <<>>]
  BY <1>1, <1>4 DEF Coordinator
<1> HIDE DEF rest
<1> DEFINE followUps == IF c.pending THEN c.followUps + 1 ELSE c.followUps
           retries == IF retry THEN c.retries + 1 ELSE c.retries
           timers == IF retry THEN c.timers \cup {"retry"} ELSE c.timers
<1>6. /\ followUps \in Nat /\ (c.pending => followUps > 0)
      /\ 0 \in 0..MAX_RETRIES /\ retries \in 0..MAX_RETRIES
      /\ (~retry => retries = c.retries) /\ (~c.pending /\ ~retry => retries = MAX_RETRIES)
      /\ timers \in SUBSET Timers /\ (retry => "retry" \in timers)
      /\ <<>> \in Seq(SaveCall)
  BY <1>1, CoordinatorFields, CanvasAssumption DEF CanvasAssumption, Timers
<1>7. CASE save.st = "stored"
  <2> DEFINE e == succeeded(rest)
  <2>1. e = [c EXCEPT !.saves = <<>>, !.inFlight = FALSE, !.retries = 0, !.everSaved = TRUE,
                      !.followUps = followUps]
    BY <1>1, <1>5 DEF succeeded, Coordinator
  <2> HIDE DEF e, followUps, retries, timers
  <2>2. /\ e \in Coordinator /\ e.saves = <<>> /\ ~e.inFlight /\ e.pending = c.pending
        /\ e.dir = c.dir /\ e.scope = c.scope
        /\ c.pending => e.followUps > 0
    BY <1>1, <1>6, <2>1 DEF Coordinator
  <2>3. Good(e)
    BY <2>2 DEF Good, Serial, Armed, active
  <2>4. Continues(c, e)
    BY <1>2, <1>7, <2>2 DEF Continues, Homed, unfinished, Owes
  <2> QED BY <1>2, <1>7, <2>2, <2>3, <2>4 DEF e, rest
<1>8. CASE save.st # "stored"
  <2> DEFINE e == failedSave(rest, save.scope)
  <2>1. e = [c EXCEPT !.saves = <<>>, !.inFlight = FALSE, !.failed = TRUE, !.pending = TRUE,
                      !.scope = joinScope(c.scope, save.scope),
                      !.followUps = followUps, !.retries = retries, !.timers = timers]
    BY <1>1, <1>5 DEF failedSave, joinFailed, Coordinator
  <2> HIDE DEF e, followUps, retries, timers
  <2>2. joinScope(c.scope, save.scope) \in Scopes
    BY <1>1, <1>2, CoordinatorFields, Covering DEF SaveCall
  <2>3. /\ e \in Coordinator /\ e.saves = <<>> /\ ~e.inFlight /\ e.pending /\ e.failed
        /\ e.dir = c.dir /\ e.scope = joinScope(c.scope, save.scope)
        /\ e.followUps = followUps /\ e.retries = retries /\ e.timers = timers
    BY <1>1, <1>6, <2>1, <2>2 DEF Coordinator
  <2>5. Armed(e)
    <3>1. c.pending => e.followUps > 0
      BY <1>6, <2>3
    <3>2. retry => e.timers # {}
      BY <1>6, <2>3
    <3>3. ~c.pending /\ ~retry => e.retries = MAX_RETRIES
      BY <1>6, <2>3
    <3> QED BY <2>3, <3>1, <3>2, <3>3 DEF Armed, active, GivenUp
  <2>6. Good(e)
    BY <2>3, <2>5 DEF Good, Serial
  <2>7. ASSUME Homed(c) PROVE Homed(e) /\ unfinished(e) \subseteq unfinished(c)
    BY <1>2, <2>3, <2>7 DEF Homed, unfinished
  <2>8. ASSUME Homed(c), NEW d \in Dirs, NEW s \in Scopes, Owes(c, d, s)
        PROVE  Owes(e, d, s)
    <3>1. c.dir = d /\ s \in covered(c.scope) \cup covered(save.scope)
      BY <1>2, <2>8 DEF Owes, Homed
    <3>2. s \in covered(e.scope)
      BY <1>1, <1>2, <2>3, <3>1, CoordinatorFields, Covering DEF SaveCall
    <3> QED BY <2>3, <3>1, <3>2 DEF Owes
  <2> QED BY <1>2, <1>8, <2>3, <2>6, <2>7, <2>8 DEF Continues, e, rest
<1> QED BY <1>7, <1>8

\* The flushes that waited for a save go on.
LEMMA Resume ==
    ASSUME NEW c, Good(c), ~c.inFlight
    PROVE  Good(resumeFlushes(c)) /\ Continues(c, resumeFlushes(c))
<1> DEFINE waiting == {f \in Flushes : c.flush[f] = "waiting"}
           next == IF waiting = {} THEN "none" ELSE CHOOSE f \in waiting : TRUE
           goesOn == waiting # {} /\ c.pending
           x == IF goesOn THEN executeSave(c) ELSE c
           g == [f \in Flushes |-> IF goesOn /\ f = next THEN "saving" ELSE "none"]
           l == IF goesOn THEN x.late \cap {next} ELSE {}
           e == [x EXCEPT !.flush = g, !.late = l]
<1>1. c \in Coordinator /\ Serial(c)
  BY DEF Good
<1>2. Good(x) /\ Continues(c, x)
  <2>1. CASE goesOn
    BY <1>1, <2>1, ExecuteSave
  <2>2. CASE ~goesOn
    BY <2>2 DEF Continues
  <2> QED BY <2>1, <2>2
<1>3. resumeFlushes(c) = e
  BY <1>1, <1>2 DEF resumeFlushes, Good, Coordinator
<1> HIDE DEF x
<1>4. g \in [Flushes -> {"none", "waiting", "saving"}]
  OBVIOUS
<1> HIDE DEF g
<1>5. l \in SUBSET Flushes
  BY <1>2, CoordinatorFields DEF Good
<1> HIDE DEF l, goesOn
<1>6. /\ e \in Coordinator /\ e.saves = x.saves /\ e.inFlight = x.inFlight /\ e.pending = x.pending
      /\ e.dir = x.dir /\ e.scope = x.scope /\ e.timers = x.timers /\ e.followUps = x.followUps
      /\ e.retries = x.retries /\ e.failed = x.failed
  BY <1>2, <1>4, <1>5 DEF Good, Coordinator
<1> HIDE DEF e
<1>7. Good(e)
  BY <1>2, <1>6 DEF Good, Serial, Armed, active, GivenUp
<1>8. Continues(c, e)
  BY <1>2, <1>6 DEF Continues, Homed, unfinished, Owes
<1> QED BY <1>3, <1>7, <1>8

\* Together: what SaveSettles makes of a coordinator.
LEMMA Settle ==
    ASSUME NEW c, Good(c), NEW i \in DOMAIN c.saves, c.saves[i].st # "sent"
    PROVE  LET rest == [c EXCEPT !.saves = RemoveAt(@, i)]
               after == IF c.saves[i].st = "stored" THEN succeeded(rest)
                        ELSE failedSave(rest, c.saves[i].scope)
           IN  Good(resumeFlushes(after)) /\ Continues(c, resumeFlushes(after))
<1> DEFINE rest == [c EXCEPT !.saves = RemoveAt(@, i)]
           after == IF c.saves[i].st = "stored" THEN succeeded(rest)
                    ELSE failedSave(rest, c.saves[i].scope)
<1>1. Good(after) /\ Continues(c, after) /\ ~after.inFlight
  BY SaveEnds
<1> HIDE DEF after
<1>2. Good(resumeFlushes(after)) /\ Continues(after, resumeFlushes(after))
  BY <1>1, Resume
<1>3. Continues(c, resumeFlushes(after))
  BY <1>1, <1>2 DEF Continues
<1> QED BY <1>2, <1>3 DEF after

\* A store ends: what it has written is no longer owed by this save.
LEMMA StoreEnds ==
    ASSUME NEW c, Good(c), NEW i \in DOMAIN c.saves, NEW outcome \in Outcomes
    PROVE  LET e == [c EXCEPT !.saves[i].st = outcome]
           IN  /\ Good(e) /\ e.pending = c.pending /\ e.inFlight = c.inFlight
               /\ active(e) = active(c)
               /\ Homed(c) => Homed(e)
               /\ unfinished(e) \subseteq unfinished(c)
               /\ \A d \in Dirs, s \in Scopes : Owes(c, d, s) =>
                    \/ Owes(e, d, s)
                    \/ /\ outcome = "stored" /\ d = c.saves[i].dir
                       /\ s \in covered(c.saves[i].scope)
<1> DEFINE save == [c.saves[1] EXCEPT !.st = outcome]
           e == [c EXCEPT !.saves[i].st = outcome]
<1>1. c \in Coordinator /\ Serial(c)
  BY DEF Good
<1>2. i = 1 /\ c.inFlight /\ c.saves[1] \in SaveCall /\ Len(c.saves) = 1 /\ DOMAIN c.saves = {1}
  BY <1>1, OneSave
<1>3. c.saves \in Seq(SaveCall)
  BY <1>1, CoordinatorFields
<1>4. /\ save \in SaveCall /\ save.dir = c.saves[1].dir /\ save.scope = c.saves[1].scope
      /\ save.st = outcome
  BY <1>2 DEF SaveCall
<1>5. e = [c EXCEPT !.saves = [c.saves EXCEPT ![1] = save]]
  BY <1>2
<1> HIDE DEF save, e
<1>6. /\ [c.saves EXCEPT ![1] = save] \in Seq(SaveCall)
      /\ Len([c.saves EXCEPT ![1] = save]) = 1
      /\ DOMAIN [c.saves EXCEPT ![1] = save] = {1}
      /\ [c.saves EXCEPT ![1] = save][1] = save
  BY <1>2, <1>3, <1>4
<1>7. /\ e \in Coordinator /\ e.inFlight = c.inFlight /\ e.pending = c.pending
      /\ e.dir = c.dir /\ e.scope = c.scope /\ e.timers = c.timers /\ e.followUps = c.followUps
      /\ e.retries = c.retries /\ e.failed = c.failed
      /\ e.saves = [c.saves EXCEPT ![1] = save]
  BY <1>1, <1>5, <1>6 DEF Coordinator
<1>8. DOMAIN e.saves = {1} /\ e.saves[1] = save /\ Len(e.saves) = 1
  BY <1>6, <1>7
<1>9. Good(e) /\ active(e) = active(c)
  BY <1>1, <1>2, <1>7, <1>8 DEF Good, Serial, Armed, active, GivenUp
<1>10. (Homed(c) => Homed(e)) /\ unfinished(e) \subseteq unfinished(c)
  BY <1>2, <1>4, <1>7, <1>8 DEF Homed, unfinished
<1>11. ASSUME NEW d \in Dirs, NEW s \in Scopes, Owes(c, d, s)
       PROVE  \/ Owes(e, d, s)
              \/ outcome = "stored" /\ d = c.saves[i].dir /\ s \in covered(c.saves[i].scope)
  BY <1>2, <1>4, <1>7, <1>8, <1>11 DEF Owes
<1> QED BY <1>7, <1>9, <1>10, <1>11 DEF e

-----------------------------------------------------------------------------
(***************************************************************************)
(* The invariants.                                                         *)
(***************************************************************************)
TypesKept ==
    /\ unsaved \in [Dirs -> SUBSET Scopes]
    /\ open \in Dirs /\ wanted \in Dirs /\ shown \in Dirs
    /\ opening \in BOOLEAN /\ mounted \in BOOLEAN
    /\ mount \in Mounts
    /\ co \in [Mounts -> Coordinator]
    /\ indicator \in Statuses
    /\ reply \in Scopes \cup {"none"}
    /\ edits \in 0..MaxEdits /\ failures \in 0..MaxFailures

\* A canvas that was never mounted has nothing to do.
Unborn(m) == m > mount => ~co[m].pending /\ ~active(co[m])

CanvasInv == TypesKept /\ \A m \in Mounts : Good(co[m]) /\ Unborn(m)

\* While an edit is about to be reported, nothing changes the workspace under it.
ReplyAtHome == reply # "none" => mounted /\ AtHome

\* What is not on disk is about to be reported or owed.
AllOwed ==
    \A d \in Dirs : \A s \in unsaved[d] :
        (s = reply /\ d = shown) \/ \E m \in Mounts : Owes(co[m], d, s)

\* "saved" is shown for the only canvas when it owes nothing.
SavedQuiet == (mount = 1 /\ indicator = "saved") => ~co[1].pending /\ ~co[1].inFlight

KeptInv == (\A m \in Mounts : Homed(co[m])) /\ ReplyAtHome /\ AllOwed /\ SavedQuiet

\* A step of one coordinator that loses nothing.
Moves(m) ==
    /\ co' = [co EXCEPT ![m] = co'[m]]
    /\ Good(co'[m]) /\ Continues(co[m], co'[m])
    /\ \/ m = mount
       \/ active(co[m])
       \/ co'[m].pending = co[m].pending /\ active(co'[m]) = active(co[m])
    /\ indicator' \in Statuses
    /\ SavedQuiet => SavedQuiet'
    /\ UNCHANGED <<unsaved, open, wanted, shown, mount, edits, failures>>

LEMMA FirstMount == 1 \in Mounts /\ \A m \in Mounts : m \in Nat /\ m >= 1
BY CanvasAssumption DEF CanvasAssumption, Mounts

LEMMA Moving ==
    ASSUME CanvasInv, NEW m \in Mounts, Moves(m),
           opening' \in BOOLEAN, mounted' \in BOOLEAN, reply' \in Scopes \cup {"none"}
    PROVE  CanvasInv'
<1>1. TypesKept'
  BY DEF CanvasInv, TypesKept, Moves, Good
<1>2. ASSUME NEW n \in Mounts PROVE Good(co'[n]) /\ Unborn(n)'
  <2>1. CASE n = m
    BY <2>1, FirstMount DEF CanvasInv, TypesKept, Moves, Unborn
  <2>2. CASE n # m
    <3>1. co'[n] = co[n]
      BY <2>2 DEF CanvasInv, TypesKept, Moves
    <3> QED BY <3>1 DEF CanvasInv, Moves, Unborn
  <2> QED BY <2>1, <2>2
<1> QED BY <1>1, <1>2 DEF CanvasInv

LEMMA MovingKeeps ==
    ASSUME CanvasInv, KeptInv, NEW m \in Mounts, Moves(m),
           reply' = reply, reply # "none" => mounted'
    PROVE  KeptInv'
<1>1. co'[m] = co'[m] /\ \A n \in Mounts : n # m => co'[n] = co[n]
  BY DEF CanvasInv, TypesKept, Moves
<1>2. Homed(co[m]) /\ Homed(co'[m]) /\ unfinished(co'[m]) \subseteq unfinished(co[m])
  BY DEF KeptInv, Moves, Continues
<1>3. \A n \in Mounts : Homed(co[n])'
  BY <1>1, <1>2 DEF KeptInv
<1>4. ReplyAtHome'
  <2> SUFFICES ASSUME reply # "none" PROVE AtHome'
    BY DEF ReplyAtHome
  <2>1. AtHome
    BY DEF KeptInv, ReplyAtHome
  <2>2. ASSUME NEW n \in Mounts, n = mount \/ active(co'[n])
        PROVE  unfinished(co'[n]) \subseteq {shown}
    <3>1. CASE n # m
      BY <1>1, <2>1, <2>2, <3>1 DEF AtHome
    <3>2. CASE n = m /\ (m = mount \/ active(co[m]))
      BY <1>2, <2>1, <3>2 DEF AtHome
    <3>3. CASE n = m /\ m # mount /\ ~active(co[m])
      BY <2>2, <3>3 DEF Moves
    <3> QED BY <3>1, <3>2, <3>3
  <2> QED BY <2>1, <2>2 DEF AtHome, Moves
<1>5. AllOwed'
  <2> SUFFICES ASSUME NEW d \in Dirs, NEW s \in unsaved[d], ~(s = reply /\ d = shown)
               PROVE  \E n \in Mounts : Owes(co'[n], d, s)
    BY DEF AllOwed, Moves
  <2>1. s \in Scopes
    BY DEF CanvasInv, TypesKept
  <2>2. PICK n \in Mounts : Owes(co[n], d, s)
    BY DEF KeptInv, AllOwed
  <2>3. Owes(co'[n], d, s)
    BY <1>1, <1>2, <2>1, <2>2 DEF Moves, Continues
  <2> QED BY <2>3
<1> QED BY <1>3, <1>4, <1>5 DEF KeptInv, Moves

-----------------------------------------------------------------------------
(***************************************************************************)
(* Each step of a coordinator moves it so.                                 *)
(***************************************************************************)
LEMMA BecomesMoves ==
    ASSUME CanvasInv, NEW m \in Mounts, NEW e, NEW status, Becomes(m, e, status),
           Good(e), Continues(co[m], e),
           \/ m = mount
           \/ active(co[m])
           \/ e.pending = co[m].pending /\ active(e) = active(co[m]),
           status \in Statuses,
           (SavedQuiet /\ m = 1 /\ status = "saved" /\ mount = 1) => ~e.pending /\ ~e.inFlight,
           m = 1 \/ active(co[m]) \/ m = mount \/ status # "saved",
           UNCHANGED <<unsaved, open, wanted, shown, mount, edits, failures>>
    PROVE  Moves(m)
<1>1. co' = [co EXCEPT ![m] = e] /\ co'[m] = e /\ indicator' = status
  BY DEF Becomes, CanvasInv, TypesKept
<1>2. SavedQuiet => SavedQuiet'
  <2> SUFFICES ASSUME SavedQuiet, mount = 1, status = "saved"
               PROVE  ~co'[1].pending /\ ~co'[1].inFlight
    BY <1>1 DEF SavedQuiet
  <2>1. m = 1
    BY FirstMount DEF CanvasInv, Unborn
  <2> QED BY <1>1, <2>1
<1> QED BY <1>1, <1>2 DEF Moves

LEMMA MaybeStartMoves ==
    ASSUME CanvasInv, NEW m \in Mounts, active(co[m]), NEW b \in Coordinator,
           b.saves = co[m].saves, b.inFlight = co[m].inFlight, b.pending = co[m].pending,
           b.scope = co[m].scope, b.dir = co[m].dir,
           maybeStartSave(m, b),
           UNCHANGED <<unsaved, open, wanted, shown, mount, edits, failures>>
    PROVE  Moves(m)
<1> DEFINE e == IF mayStart(b) THEN executeSave(b) ELSE b
           status == IF mayStart(b) THEN "saving" ELSE indicator
<1>1. Good(co[m])
  BY DEF CanvasInv
<1>2. Good(e) /\ Continues(co[m], e)
  BY <1>1, MaybeStart
<1>3. Becomes(m, e, status)
  BY DEF maybeStartSave
<1>4. status \in Statuses
  BY DEF CanvasInv, TypesKept, Statuses
<1>5. (SavedQuiet /\ m = 1 /\ status = "saved" /\ mount = 1) => ~e.pending /\ ~e.inFlight
  BY DEF SavedQuiet
<1> HIDE DEF e, status
<1> QED BY <1>2, <1>3, <1>4, <1>5, BecomesMoves

LEMMA TimerMoves ==
    ASSUME CanvasInv, NEW m \in Mounts, SomeTimerFires(m)
    PROVE  Moves(m) /\ UNCHANGED <<opening, mounted, reply>>
<1>1. co[m] \in Coordinator
  BY DEF CanvasInv, TypesKept
<1>2. ASSUME NEW t \in Timers, TimerFires(m, t)
      PROVE  Moves(m) /\ UNCHANGED <<opening, mounted, reply>>
  <2> DEFINE b == [co[m] EXCEPT !.timers = @ \ {t}]
  <2>1. /\ b \in Coordinator /\ b.saves = co[m].saves /\ b.inFlight = co[m].inFlight
        /\ b.pending = co[m].pending /\ b.scope = co[m].scope /\ b.dir = co[m].dir
    BY <1>1 DEF Coordinator
  <2>2. maybeStartSave(m, b) /\ active(co[m])
        /\ UNCHANGED <<unsaved, open, wanted, opening, shown, mount, mounted, reply, edits, failures>>
    BY <1>2 DEF TimerFires, active
  <2> HIDE DEF b
  <2> QED BY <2>1, <2>2, MaybeStartMoves
<1>3. ASSUME FollowUpFires(m)
      PROVE  Moves(m) /\ UNCHANGED <<opening, mounted, reply>>
  <2> DEFINE b == [co[m] EXCEPT !.followUps = @ - 1]
  <2>0. co[m].followUps - 1 \in Nat
    BY <1>1, <1>3, CoordinatorFields DEF FollowUpFires
  <2>1. /\ b \in Coordinator /\ b.saves = co[m].saves /\ b.inFlight = co[m].inFlight
        /\ b.pending = co[m].pending /\ b.scope = co[m].scope /\ b.dir = co[m].dir
    BY <1>1, <2>0 DEF Coordinator
  <2>2. maybeStartSave(m, b) /\ active(co[m])
        /\ UNCHANGED <<unsaved, open, wanted, opening, shown, mount, mounted, reply, edits, failures>>
    BY <1>3 DEF FollowUpFires, active
  <2> HIDE DEF b
  <2> QED BY <2>1, <2>2, MaybeStartMoves
<1> QED BY <1>2, <1>3 DEF SomeTimerFires

LEMMA FlushMoves ==
    ASSUME CanvasInv, NEW f \in Flushes, NEW quiet \in Statuses \ {"saved"},
           LET c == flushed(co[mount], f)
           IN  \/ Becomes(mount, c, IF mayStart(co[mount]) THEN deriveStatus(c) ELSE indicator)
               \/ Becomes(mount, c, IF mayStart(co[mount]) THEN deriveStatus(c) ELSE quiet),
           UNCHANGED <<unsaved, open, wanted, shown, mount, edits, failures>>
    PROVE  Moves(mount)
<1> DEFINE c == flushed(co[mount], f)
<1>1. mount \in Mounts /\ Good(co[mount])
  BY DEF CanvasInv, TypesKept
<1>2. /\ Good(c) /\ Continues(co[mount], c)
      /\ ~mayStart(co[mount]) => c.pending = co[mount].pending /\ c.inFlight = co[mount].inFlight
      /\ mayStart(co[mount]) => c.inFlight
  BY <1>1, Flush
<1>3. mayStart(co[mount]) => deriveStatus(c) = "saving"
  BY <1>2, DerivedStatus DEF Good
<1>4. PICK status \in Statuses :
        /\ Becomes(mount, c, status)
        /\ status = "saved" => ~mayStart(co[mount]) /\ indicator = "saved"
  BY <1>3 DEF CanvasInv, TypesKept, Statuses
<1> HIDE DEF c
<1>5. (SavedQuiet /\ mount = 1 /\ status = "saved") => ~c.pending /\ ~c.inFlight
  BY <1>2, <1>4 DEF SavedQuiet
<1> QED BY <1>1, <1>2, <1>4, <1>5, BecomesMoves

LEMMA DeadlineMoves ==
    ASSUME CanvasInv, NEW m \in Mounts, NEW f \in Flushes, FlushDeadline(m, f)
    PROVE  Moves(m) /\ UNCHANGED <<opening, mounted, reply>>
<1> DEFINE e == [co[m] EXCEPT !.failed = TRUE, !.late = @ \cup {f}]
<1>1. co[m] \in Coordinator /\ Good(co[m])
  BY DEF CanvasInv, TypesKept
<1>2. Good(e) /\ Continues(co[m], e) /\ active(e) = active(co[m])
  BY <1>1, Deadline
<1>3. e.pending = co[m].pending
  BY <1>1 DEF Coordinator
<1>4. Becomes(m, e, "failed")
  BY DEF FlushDeadline
<1> HIDE DEF e
<1>5. Moves(m)
  BY <1>2, <1>3, <1>4, BecomesMoves DEF FlushDeadline, Statuses
<1> QED BY <1>5 DEF FlushDeadline

LEMMA SettleMoves ==
    ASSUME CanvasInv, NEW m \in Mounts, NEW i \in DOMAIN co[m].saves, SaveSettles(m, i)
    PROVE  Moves(m) /\ UNCHANGED <<opening, mounted, reply>>
<1> DEFINE c == co[m]
           rest == [c EXCEPT !.saves = RemoveAt(@, i)]
           after == IF c.saves[i].st = "stored" THEN succeeded(rest) ELSE failedSave(rest, c.saves[i].scope)
           e == resumeFlushes(after)
           status == IF c.saves[i].st = "refused" /\ ~e.inFlight THEN "needs_decision" ELSE deriveStatus(e)
<1>1. co[m] \in Coordinator /\ Good(co[m])
  BY DEF CanvasInv, TypesKept
<1>2. /\ c.saves[i].st # "sent" /\ Becomes(m, e, status)
      /\ UNCHANGED <<unsaved, open, wanted, opening, shown, mount, mounted, reply, edits, failures>>
  BY DEF SaveSettles
<1>3. Good(e) /\ Continues(co[m], e)
  BY <1>1, <1>2, Settle
<1>4. active(co[m])
  BY <1>1, OneSave DEF Good, active
<1> HIDE DEF e
<1>5. status \in Statuses /\ (status = "saved" => ~e.pending /\ ~e.inFlight)
  BY <1>3, DerivedStatus DEF Good, Statuses
<1> HIDE DEF status
<1>6. Moves(m)
  BY <1>2, <1>3, <1>4, <1>5, BecomesMoves
<1> QED BY <1>2, <1>6

-----------------------------------------------------------------------------
(***************************************************************************)
(* Types, and saves one at a time.                                         *)
(***************************************************************************)
LEMMA InitInv ==
    ASSUME CanvasInit
    PROVE  CanvasInv /\ KeptInv
<1> DEFINE c == NewCoordinator(open)
<1>1. 0 \in 0..MAX_RETRIES /\ 0 \in 0..MaxEdits /\ 0 \in 0..MaxFailures
  BY CanvasAssumption DEF CanvasAssumption
<1>2. <<>> \in Seq(SaveCall) /\ Len(<<>>) = 0 /\ DOMAIN <<>> = {}
  OBVIOUS
<1>3. open \in Dirs /\ co = [m \in Mounts |-> c]
  BY DEF CanvasInit
<1>4. c \in Coordinator /\ ~c.pending /\ ~active(c) /\ c.saves = <<>> /\ ~c.inFlight
  BY <1>1, <1>2, <1>3 DEF NewCoordinator, Coordinator, Scopes, Flushes, active
<1>5. Good(c) /\ Homed(c)
  BY <1>2, <1>4 DEF Good, Serial, Armed, Homed
<1> HIDE DEF c
<1>6. TypesKept
  BY <1>1, <1>3, <1>4, FirstMount DEF CanvasInit, TypesKept, Statuses
<1>7. CanvasInv
  BY <1>3, <1>4, <1>5, <1>6 DEF CanvasInv, Unborn
<1>8. AllOwed
  BY DEF CanvasInit, AllOwed
<1>9. ReplyAtHome /\ SavedQuiet
  BY DEF CanvasInit, ReplyAtHome, SavedQuiet
<1> QED BY <1>3, <1>5, <1>7, <1>8, <1>9 DEF KeptInv

\* A mount puts a new coordinator beside those there are.
LEMMA Mounting ==
    ASSUME CanvasInv, Mount
    PROVE  /\ CanvasInv'
           /\ KeptInv /\ (reply = "none") => KeptInv'
<1> DEFINE c == NewCoordinator(shown)
           n == mount + 1
<1>1. /\ shown \in Dirs /\ mount \in Mounts /\ n \in Mounts /\ n > mount
      /\ mount' = n /\ mounted' /\ co' = [co EXCEPT ![n] = c]
      /\ UNCHANGED <<unsaved, open, wanted, opening, shown, indicator, reply, edits, failures>>
  BY CanvasAssumption DEF CanvasInv, TypesKept, Mount, Mounts, CanvasAssumption
<1>2. 0 \in 0..MAX_RETRIES /\ <<>> \in Seq(SaveCall) /\ Len(<<>>) = 0 /\ DOMAIN <<>> = {}
  BY CanvasAssumption DEF CanvasAssumption
<1>3. c \in Coordinator /\ ~c.pending /\ ~active(c) /\ c.saves = <<>> /\ ~c.inFlight
  BY <1>1, <1>2 DEF NewCoordinator, Coordinator, Scopes, Flushes, active
<1>4. Good(c) /\ Homed(c) /\ unfinished(c) = {}
  BY <1>2, <1>3 DEF Good, Serial, Armed, Homed, unfinished
<1> HIDE DEF c
<1>5. TypesKept'
  BY <1>1, <1>3 DEF CanvasInv, TypesKept, Mount
<1>6. \A m \in Mounts : co'[m] = IF m = n THEN c ELSE co[m]
  BY <1>1 DEF CanvasInv, TypesKept
<1>7. \A m \in Mounts : Good(co'[m]) /\ Unborn(m)'
  BY <1>1, <1>3, <1>4, <1>6, FirstMount DEF CanvasInv, Unborn
<1>8. ~co[n].pending /\ ~active(co[n]) /\ co[n].saves = <<>> /\ DOMAIN co[n].saves = {}
  <2>1. Good(co[n]) /\ ~co[n].pending /\ ~active(co[n])
    BY <1>1 DEF CanvasInv, Unborn
  <2> QED BY <2>1, NoSaves DEF Good, active
<1>9. ASSUME KeptInv, reply = "none" PROVE KeptInv'
  <2>1. AllOwed'
    <3> SUFFICES ASSUME NEW d \in Dirs, NEW s \in unsaved[d], ~(s = reply /\ d = shown)
                 PROVE  \E m \in Mounts : Owes(co'[m], d, s)
      BY <1>1 DEF AllOwed
    <3>1. PICK m \in Mounts : Owes(co[m], d, s)
      BY <1>9 DEF KeptInv, AllOwed
    <3>2. m # n
      BY <1>8, <3>1 DEF Owes
    <3> QED BY <1>6, <3>1, <3>2
  <2>2. SavedQuiet'
    BY <1>1, FirstMount DEF SavedQuiet
  <2>3. ReplyAtHome'
    BY <1>1, <1>9 DEF ReplyAtHome
  <2>4. \A m \in Mounts : Homed(co'[m])
    BY <1>4, <1>6, <1>9 DEF KeptInv
  <2> QED BY <2>1, <2>2, <2>3, <2>4 DEF KeptInv
<1> QED BY <1>5, <1>7, <1>9 DEF CanvasInv

\* The success of an edit reaches the coordinator on screen.
LEMMA Reporting ==
    ASSUME CanvasInv, EditReported
    PROVE  CanvasInv' /\ (KeptInv => KeptInv')
<1> DEFINE e == scheduled(co[mount], reply, shown)
           c == co[mount]
<1>1. /\ mount \in Mounts /\ Good(c) /\ reply \in Scopes /\ shown \in Dirs /\ reply' = "none"
      /\ Becomes(mount, e, deriveStatus(e))
      /\ UNCHANGED <<unsaved, open, wanted, opening, shown, mount, mounted, edits, failures>>
  BY DEF CanvasInv, TypesKept, EditReported
<1>2. /\ Good(e) /\ e.pending
      /\ (Homed(c) /\ unfinished(c) \subseteq {shown}) =>
           /\ Homed(e) /\ unfinished(e) \subseteq {shown} /\ Owes(e, shown, reply)
           /\ \A d \in Dirs, s \in Scopes : Owes(c, d, s) => Owes(e, d, s)
  BY <1>1, Schedule
<1>3. deriveStatus(e) \in Statuses \ {"saved"}
  BY <1>2, DerivedStatus DEF Good
<1> HIDE DEF e
<1>4. co' = [co EXCEPT ![mount] = e] /\ indicator' \in Statuses \ {"saved"}
  BY <1>1, <1>3 DEF Becomes
<1>5. \A m \in Mounts : co'[m] = IF m = mount THEN e ELSE co[m]
  BY <1>1, <1>4 DEF CanvasInv, TypesKept
<1>6. TypesKept'
  BY <1>1, <1>2, <1>4 DEF CanvasInv, TypesKept, Good
<1>7. \A m \in Mounts : Good(co'[m]) /\ Unborn(m)'
  BY <1>1, <1>2, <1>5, FirstMount DEF CanvasInv, Unborn
<1>8. ASSUME KeptInv PROVE KeptInv'
  <2>1. Homed(c) /\ unfinished(c) \subseteq {shown}
    BY <1>1, <1>8 DEF KeptInv, ReplyAtHome, AtHome, Scopes
  <2>2. AllOwed'
    <3> SUFFICES ASSUME NEW d \in Dirs, NEW s \in unsaved[d]
                 PROVE  \E m \in Mounts : Owes(co'[m], d, s)
      BY <1>1 DEF AllOwed
    <3>1. CASE s = reply /\ d = shown
      BY <1>1, <1>2, <1>5, <2>1, <3>1
    <3>2. CASE ~(s = reply /\ d = shown)
      <4>1. PICK m \in Mounts : Owes(co[m], d, s)
        BY <1>8, <3>2 DEF KeptInv, AllOwed
      <4>2. s \in Scopes
        BY DEF CanvasInv, TypesKept
      <4>3. Owes(co'[m], d, s)
        BY <1>2, <1>5, <2>1, <4>1, <4>2
      <4> QED BY <4>3
    <3> QED BY <3>1, <3>2
  <2>3. SavedQuiet' /\ ReplyAtHome'
    BY <1>1, <1>4 DEF SavedQuiet, ReplyAtHome
  <2>4. \A m \in Mounts : Homed(co'[m])
    BY <1>2, <1>5, <1>8, <2>1 DEF KeptInv
  <2> QED BY <2>2, <2>3, <2>4 DEF KeptInv
<1> QED BY <1>6, <1>7, <1>8 DEF CanvasInv

\* The worker stores: what it writes is owed no longer, and saved.
LEMMA Storing ==
    ASSUME CanvasInv, NEW m \in Mounts, NEW i \in DOMAIN co[m].saves,
           NEW outcome \in Outcomes, Store(m, i, outcome)
    PROVE  CanvasInv' /\ (KeptInv => KeptInv')
<1> DEFINE c == co[m]
           save == co[m].saves[i]
           e == [c EXCEPT !.saves[i].st = outcome]
           written == [unsaved EXCEPT ![save.dir] = @ \ covered(save.scope)]
<1>1. c \in Coordinator /\ Good(c)
  BY DEF CanvasInv, TypesKept
<1>2. save.dir \in Dirs /\ save.scope \in Scopes /\ c.inFlight
  BY <1>1, OneSave DEF Good, SaveCall
<1>3. /\ Good(e) /\ e.pending = c.pending /\ e.inFlight = c.inFlight /\ active(e) = active(c)
      /\ Homed(c) => Homed(e)
      /\ unfinished(e) \subseteq unfinished(c)
      /\ \A d \in Dirs, s \in Scopes : Owes(c, d, s) =>
           Owes(e, d, s) \/ (outcome = "stored" /\ d = save.dir /\ s \in covered(save.scope))
  BY <1>1, StoreEnds
<1>4. co' = [co EXCEPT ![m] = e]
  BY DEF Store
<1> HIDE DEF e
<1>5. /\ open' = save.dir
      /\ unsaved' \in {unsaved, written} /\ (outcome = "stored" => unsaved' = written)
      /\ UNCHANGED <<wanted, opening, shown, mount, mounted, indicator, reply, edits>>
  BY DEF Store, Outcomes
<1>6. failures' \in 0..MaxFailures
  <2>1. failures' = failures \/ failures' = failures + 1
    BY DEF Store, Outcomes
  <2>2. failures' <= MaxFailures
    BY DEF Store
  <2> QED BY <2>1, <2>2, CanvasAssumption DEF CanvasInv, TypesKept, CanvasAssumption
<1>7. written \in [Dirs -> SUBSET Scopes]
      /\ \A d \in Dirs : /\ written[d] \subseteq unsaved[d]
                         /\ d = save.dir => written[d] \cap covered(save.scope) = {}
  BY <1>2 DEF CanvasInv, TypesKept
<1> HIDE DEF written
<1>8. \A n \in Mounts : co'[n] = IF n = m THEN e ELSE co[n]
  BY <1>4 DEF CanvasInv, TypesKept
<1>9. TypesKept'
  BY <1>2, <1>3, <1>4, <1>5, <1>6, <1>7 DEF CanvasInv, TypesKept, Good
<1>10. \A n \in Mounts : Good(co'[n]) /\ Unborn(n)'
  BY <1>3, <1>5, <1>8 DEF CanvasInv, Unborn
<1>11. ASSUME KeptInv PROVE KeptInv'
  <2>1. AllOwed'
    <3> SUFFICES ASSUME NEW d \in Dirs, NEW s \in unsaved'[d], ~(s = reply /\ d = shown)
                 PROVE  \E n \in Mounts : Owes(co'[n], d, s)
      BY <1>5 DEF AllOwed
    <3>1. s \in unsaved[d] /\ s \in Scopes
      BY <1>5, <1>7 DEF CanvasInv, TypesKept
    <3>2. PICK n \in Mounts : Owes(co[n], d, s)
      BY <1>11, <3>1 DEF KeptInv, AllOwed
    <3>3. ~(outcome = "stored" /\ d = save.dir /\ s \in covered(save.scope))
      BY <1>5, <1>7
    <3>4. Owes(co'[n], d, s)
      BY <1>3, <1>8, <3>1, <3>2, <3>3
    <3> QED BY <3>4
  <2>2. ReplyAtHome'
    <3> SUFFICES ASSUME reply # "none" PROVE AtHome' /\ mounted
      BY <1>5 DEF ReplyAtHome
    <3>1. AtHome /\ mounted
      BY <1>11 DEF KeptInv, ReplyAtHome
    <3>2. active(c) /\ save.dir \in unfinished(c)
      BY <1>2 DEF active, unfinished
    <3>3. save.dir = shown
      BY <3>1, <3>2 DEF AtHome
    <3> QED BY <1>3, <1>5, <1>8, <3>1, <3>3 DEF AtHome
  <2>3. SavedQuiet'
    BY <1>3, <1>5, <1>8, <1>11, FirstMount DEF KeptInv, SavedQuiet
  <2>4. \A n \in Mounts : Homed(co'[n])
    BY <1>3, <1>8, <1>11 DEF KeptInv
  <2> QED BY <2>1, <2>2, <2>3, <2>4 DEF KeptInv
<1> QED BY <1>9, <1>10, <1>11 DEF CanvasInv

\* A canvas leaves the screen, for whatever reason.
LEMMA Leaving ==
    ASSUME CanvasInv, NEW quiet \in Statuses \ {"saved"},
           LET c == flushed(co[mount], "unmount")
           IN  \/ Becomes(mount, c, IF mayStart(co[mount]) THEN deriveStatus(c) ELSE indicator)
               \/ Becomes(mount, c, IF mayStart(co[mount]) THEN deriveStatus(c) ELSE quiet),
           opening' \in BOOLEAN, mounted' = FALSE, reply' = "none",
           UNCHANGED <<unsaved, open, wanted, shown, mount, edits, failures>>
    PROVE  CanvasInv' /\ (KeptInv /\ reply = "none" => KeptInv')
<1>1. mount \in Mounts /\ "unmount" \in Flushes
  BY DEF CanvasInv, TypesKept, Flushes
<1>2. Moves(mount)
  BY <1>1, FlushMoves
<1>3. CanvasInv'
  BY <1>1, <1>2, Moving
<1>4. KeptInv /\ reply = "none" => KeptInv'
  BY <1>1, <1>2, MovingKeeps
<1> QED BY <1>3, <1>4

LEMMA CanvasStep ==
    ASSUME CanvasInv, CanvasNext
    PROVE  CanvasInv' /\ ((KeptInv /\ ~StrayEdits) => KeptInv')
<1>1. ASSUME NEW scope \in Scopes, Edit(scope)
      PROVE  CanvasInv' /\ ((KeptInv /\ ~StrayEdits) => KeptInv')
  <2>1. /\ open \in Dirs /\ mounted /\ reply = "none" /\ (~StrayEdits => AtHome)
        /\ unsaved' = [unsaved EXCEPT ![open] = @ \cup {scope}] /\ reply' = scope
        /\ UNCHANGED <<open, wanted, opening, shown, mount, mounted, co, indicator, failures>>
    BY <1>1 DEF Edit, CanvasInv, TypesKept
  <2>2. edits' \in 0..MaxEdits
    BY <1>1, CanvasAssumption DEF Edit, CanvasInv, TypesKept, CanvasAssumption
  <2>3. TypesKept'
    BY <2>1, <2>2 DEF CanvasInv, TypesKept
  <2>4. \A m \in Mounts : Good(co'[m]) /\ Unborn(m)'
    BY <2>1 DEF CanvasInv, Unborn
  <2>5. ASSUME KeptInv, ~StrayEdits PROVE KeptInv'
    <3>1. open = shown
      BY <2>1, <2>5 DEF AtHome
    <3>2. AllOwed'
      <4> SUFFICES ASSUME NEW d \in Dirs, NEW s \in unsaved'[d], ~(s = reply' /\ d = shown)
                   PROVE  \E m \in Mounts : Owes(co[m], d, s)
        BY <2>1 DEF AllOwed
      <4>1. s \in unsaved[d] /\ s # "none"
        BY <2>1, <3>1 DEF CanvasInv, TypesKept, Scopes
      <4> QED BY <2>1, <2>5, <4>1 DEF KeptInv, AllOwed
    <3>3. AtHome'
      BY <2>1, <2>5 DEF AtHome
    <3> QED BY <2>1, <2>5, <3>2, <3>3 DEF KeptInv, ReplyAtHome, SavedQuiet
  <2> QED BY <2>3, <2>4, <2>5 DEF CanvasInv
<1>2. ASSUME EditReported
      PROVE  CanvasInv' /\ ((KeptInv /\ ~StrayEdits) => KeptInv')
  BY <1>2, Reporting
<1>3. ASSUME EditFails
      PROVE  CanvasInv' /\ ((KeptInv /\ ~StrayEdits) => KeptInv')
  <2>1. /\ indicator' = "failed"
        /\ UNCHANGED <<unsaved, open, wanted, opening, shown, mount, mounted, co, reply, edits, failures>>
    BY <1>3 DEF EditFails
  <2>2. TypesKept' /\ \A m \in Mounts : Good(co'[m]) /\ Unborn(m)'
    BY <2>1 DEF CanvasInv, TypesKept, Unborn, Statuses
  <2>3. KeptInv => KeptInv'
    BY <2>1 DEF KeptInv, ReplyAtHome, AtHome, AllOwed, SavedQuiet
  <2> QED BY <2>2, <2>3 DEF CanvasInv
<1>4. ASSUME BeforeUnload
      PROVE  CanvasInv' /\ ((KeptInv /\ ~StrayEdits) => KeptInv')
  <2>1. mount \in Mounts /\ "unload" \in Flushes /\ mounted \in BOOLEAN /\ opening \in BOOLEAN
        /\ reply \in Scopes \cup {"none"} /\ "idle" \in Statuses \ {"saved"}
    BY DEF CanvasInv, TypesKept, Flushes, Statuses
  <2>2. /\ FlushSave(mount, "unload")
        /\ UNCHANGED <<unsaved, open, wanted, opening, shown, mount, mounted, reply, edits, failures>>
        /\ mounted
    BY <1>4 DEF BeforeUnload
  <2>3. Moves(mount)
    BY <2>1, <2>2, FlushMoves DEF FlushSave
  <2>4. CanvasInv'
    BY <2>1, <2>2, <2>3, Moving
  <2>5. KeptInv => KeptInv'
    BY <2>1, <2>2, <2>3, MovingKeeps
  <2> QED BY <2>4, <2>5
<1>5. ASSUME Unmount
      PROVE  CanvasInv' /\ ((KeptInv /\ ~StrayEdits) => KeptInv')
  <2>1. /\ FlushSave(mount, "unmount") /\ mounted' = FALSE /\ reply' = "none"
        /\ ~StrayEdits => reply = "none"
        /\ UNCHANGED <<unsaved, open, wanted, opening, shown, mount, edits, failures>>
    BY <1>5 DEF Unmount, Settled
  <2>2. opening \in BOOLEAN /\ "idle" \in Statuses \ {"saved"}
    BY DEF CanvasInv, TypesKept, Statuses
  <2> QED BY <2>1, <2>2, Leaving DEF FlushSave
<1>6. ASSUME Mount
      PROVE  CanvasInv' /\ ((KeptInv /\ ~StrayEdits) => KeptInv')
  <2>1. KeptInv => reply = "none"
    BY <1>6 DEF Mount, KeptInv, ReplyAtHome
  <2> QED BY <1>6, <2>1, Mounting
<1>7. ASSUME Opened
      PROVE  CanvasInv' /\ ((KeptInv /\ ~StrayEdits) => KeptInv')
  <2>1. /\ opening' = FALSE /\ mounted' = FALSE /\ reply' = "none"
        /\ ~StrayEdits => reply = "none"
        /\ UNCHANGED <<unsaved, open, wanted, shown, mount, edits, failures>>
    BY <1>7 DEF Opened, Settled
  <2>2. CASE mounted
    <3>1. LET c == flushed(co[mount], "unmount")
          IN  Becomes(mount, c, IF mayStart(co[mount]) THEN deriveStatus(c) ELSE "idle")
      BY <1>7, <2>2 DEF Opened
    <3>2. "idle" \in Statuses \ {"saved"}
      BY DEF Statuses
    <3> QED BY <2>1, <3>1, <3>2, Leaving
  <2>3. CASE ~mounted
    <3>1. indicator' = "idle" /\ UNCHANGED co
      BY <1>7, <2>3 DEF Opened
    <3>2. TypesKept' /\ \A m \in Mounts : Good(co'[m]) /\ Unborn(m)'
      BY <2>1, <3>1 DEF CanvasInv, TypesKept, Unborn, Statuses
    <3>3. (KeptInv /\ ~StrayEdits) => KeptInv'
      BY <2>1, <3>1 DEF KeptInv, ReplyAtHome, AllOwed, SavedQuiet
    <3> QED BY <3>2, <3>3 DEF CanvasInv
  <2>4. mounted \in BOOLEAN
    BY DEF CanvasInv, TypesKept
  <2> QED BY <2>2, <2>3, <2>4
<1>8. ASSUME StatusPolled
      PROVE  CanvasInv' /\ ((KeptInv /\ ~StrayEdits) => KeptInv')
  <2>1. /\ shown' = open
        /\ UNCHANGED <<unsaved, open, wanted, opening, mount, mounted, co, indicator, reply, edits, failures>>
    BY <1>8 DEF StatusPolled
  <2>2. TypesKept' /\ \A m \in Mounts : Good(co'[m]) /\ Unborn(m)'
    BY <2>1 DEF CanvasInv, TypesKept, Unborn
  <2>3. ASSUME KeptInv PROVE KeptInv'
    <3>1. CASE reply = "none"
      <4>1. AllOwed'
        <5> SUFFICES ASSUME NEW d \in Dirs, NEW s \in unsaved[d]
                     PROVE  \E m \in Mounts : Owes(co[m], d, s)
          BY <2>1 DEF AllOwed
        <5>1. s # "none"
          BY DEF CanvasInv, TypesKept, Scopes
        <5> QED BY <2>3, <3>1, <5>1 DEF KeptInv, AllOwed
      <4> QED BY <2>1, <2>3, <3>1, <4>1 DEF KeptInv, ReplyAtHome, SavedQuiet
    <3>2. CASE reply # "none"
      <4>1. open = shown
        BY <2>3, <3>2 DEF KeptInv, ReplyAtHome, AtHome
      <4> QED BY <2>1, <2>3, <4>1 DEF KeptInv, ReplyAtHome, AtHome, AllOwed, SavedQuiet
    <3> QED BY <3>1, <3>2
  <2> QED BY <2>2, <2>3 DEF CanvasInv
<1>9. ASSUME NEW d \in Dirs, OpenWorkspace(d)
      PROVE  CanvasInv' /\ ((KeptInv /\ ~StrayEdits) => KeptInv')
  <2>1. /\ open' = d /\ wanted' = d /\ opening' = TRUE /\ (~StrayEdits => reply = "none")
        /\ UNCHANGED <<unsaved, shown, mount, mounted, co, indicator, reply, edits, failures>>
    BY <1>9 DEF OpenWorkspace, Settled
  <2>2. TypesKept' /\ \A m \in Mounts : Good(co'[m]) /\ Unborn(m)'
    BY <2>1 DEF CanvasInv, TypesKept, Unborn
  <2>3. (KeptInv /\ ~StrayEdits) => KeptInv'
    BY <2>1 DEF KeptInv, ReplyAtHome, AllOwed, SavedQuiet
  <2> QED BY <2>2, <2>3 DEF CanvasInv
<1>10. ASSUME NEW m \in Mounts,
              SomeTimerFires(m) \/ (\E f \in Flushes : FlushDeadline(m, f))
                \/ (\E i \in DOMAIN co[m].saves : SaveSettles(m, i))
       PROVE  CanvasInv' /\ ((KeptInv /\ ~StrayEdits) => KeptInv')
  <2>1. Moves(m) /\ UNCHANGED <<opening, mounted, reply>>
    BY <1>10, TimerMoves, DeadlineMoves, SettleMoves
  <2>2. opening' \in BOOLEAN /\ mounted' \in BOOLEAN /\ reply' \in Scopes \cup {"none"}
    BY <2>1 DEF CanvasInv, TypesKept
  <2>3. CanvasInv'
    BY <2>1, <2>2, Moving
  <2>4. KeptInv => KeptInv'
    <3>1. KeptInv => (reply # "none" => mounted')
      BY <2>1 DEF KeptInv, ReplyAtHome
    <3> QED BY <2>1, <3>1, MovingKeeps
  <2> QED BY <2>3, <2>4
<1>11. ASSUME NEW m \in Mounts, NEW i \in DOMAIN co[m].saves, NEW outcome \in Outcomes,
              Store(m, i, outcome)
       PROVE  CanvasInv' /\ ((KeptInv /\ ~StrayEdits) => KeptInv')
  BY <1>11, Storing
<1> QED
  BY <1>1, <1>2, <1>3, <1>4, <1>5, <1>6, <1>7, <1>8, <1>9, <1>10, <1>11
  DEF CanvasNext, WorkerServes

LEMMA CanvasStutter ==
    ASSUME CanvasInv, UNCHANGED canvasVars
    PROVE  CanvasInv' /\ (KeptInv => KeptInv')
<1>1. CanvasInv'
  BY DEF CanvasInv, TypesKept, Unborn, canvasVars
<1>2. KeptInv => KeptInv'
  BY DEF KeptInv, ReplyAtHome, AtHome, AllOwed, SavedQuiet, canvasVars
<1> QED BY <1>1, <1>2

-----------------------------------------------------------------------------
(***************************************************************************)
(* The theorems.                                                           *)
(***************************************************************************)
\* Whatever timers, flushes, failures and changes of workspace do: each coordinator
\* keeps its form, and a canvas that was never mounted has nothing to do.
THEOREM CanvasInvariant == CanvasSpec => []CanvasInv
<1>1. CanvasInit => CanvasInv
  BY InitInv
<1>2. CanvasInv /\ [CanvasNext]_canvasVars => CanvasInv'
  BY CanvasStep, CanvasStutter
<1> QED BY <1>1, <1>2, PTL DEF CanvasSpec

\* Every variable keeps its type, and no coordinator has two saves in flight
\* (maybeStartSave() and executeSave() of canvasAutoSaveCoordinator.ts).
THEOREM CanvasTypeCorrect == CanvasSpec => []CanvasTypeOK
<1>1. CanvasInv => CanvasTypeOK
  <2> SUFFICES ASSUME CanvasInv PROVE CanvasTypeOK
    OBVIOUS
  <2>1. ASSUME NEW m \in Mounts
        PROVE  /\ co[m].timers \subseteq Timers
               /\ co[m].followUps \in Nat
               /\ {co[m].burst, co[m].pending, co[m].inFlight, co[m].failed, co[m].everSaved} \subseteq BOOLEAN
               /\ co[m].scope \in Scopes /\ co[m].dir \in Dirs
               /\ co[m].retries \in 0..MAX_RETRIES
               /\ co[m].saves \in BoundedSeq(SaveCall, 1)
               /\ co[m].inFlight <=> co[m].saves # <<>>
               /\ co[m].flush \in [Flushes -> {"none", "waiting", "saving"}]
               /\ co[m].late \subseteq Flushes
    <3>1. co[m] \in Coordinator /\ Serial(co[m])
      BY DEF CanvasInv, Good
    <3> DEFINE saves == co[m].saves
    <3>2. saves \in Seq(SaveCall) /\ co[m].inFlight \in BOOLEAN
      BY <3>1, CoordinatorFields
    <3>3. Len(saves) \in 0..1 /\ (co[m].inFlight <=> saves # <<>>)
      BY <3>1, <3>2 DEF Serial
    <3>4. saves \in [1..Len(saves) -> SaveCall]
      BY <3>2
    <3> HIDE DEF saves
    <3>5. saves \in BoundedSeq(SaveCall, 1)
      BY <3>3, <3>4 DEF BoundedSeq, SeqOf
    <3> QED BY <3>1, <3>3, <3>5, CoordinatorFields DEF saves
  <2>2. TypesKept
    BY DEF CanvasInv
  <2> QED BY <2>1, <2>2 DEF CanvasTypeOK, TypesKept, SaveCall, Statuses
<1> QED BY <1>1, CanvasInvariant, PTL

\* If no edit is under way while the workspace or the canvas changes: what is not on
\* disk is about to be reported or owed by a coordinator, for the workspace it is of.
THEOREM CanvasKeeps == ~StrayEdits => (CanvasSpec => [](CanvasInv /\ KeptInv))
<1> SUFFICES ASSUME ~StrayEdits PROVE CanvasSpec => [](CanvasInv /\ KeptInv)
  OBVIOUS
<1>1. CanvasInit => CanvasInv /\ KeptInv
  BY InitInv
<1>2. CanvasInv /\ KeptInv /\ [CanvasNext]_canvasVars => (CanvasInv /\ KeptInv)'
  BY CanvasStep, CanvasStutter
<1> QED BY <1>1, <1>2, PTL DEF CanvasSpec

\* No edit is forgotten: what is unsaved will be reported or saved, by a timer, a
\* follow-up, the end of a save or, when all retries failed, at the user's next edit
\* (scheduleSave() to executeSave(), flushSave() and dispose()).
THEOREM CanvasForgetsNothing == ~StrayEdits => (CanvasSpec => []NothingForgotten)
<1> SUFFICES ASSUME ~StrayEdits PROVE CanvasSpec => []NothingForgotten
  OBVIOUS
<1>1. CanvasInv /\ KeptInv => NothingForgotten
  <2> SUFFICES ASSUME CanvasInv, KeptInv, NEW d \in Dirs, NEW s \in unsaved[d], s # reply
               PROVE  \E m \in Mounts : WillSave(co[m], d, s)
    BY DEF NothingForgotten
  <2>1. PICK m \in Mounts : Owes(co[m], d, s)
    BY DEF KeptInv, AllOwed
  <2>2. Armed(co[m])
    BY DEF CanvasInv, Good
  <2> QED BY <2>1, <2>2 DEF Owes, Armed, WillSave
<1> QED BY <1>1, CanvasKeeps, PTL

\* While there was one canvas, "saved" is shown only when nothing reported is left to
\* save (deriveStatus() and syncStatus()).
THEOREM CanvasSavedIsTrue == ~StrayEdits => (CanvasSpec => []SavedMeansSaved)
<1> SUFFICES ASSUME ~StrayEdits PROVE CanvasSpec => []SavedMeansSaved
  OBVIOUS
<1>1. CanvasInv /\ KeptInv => SavedMeansSaved
  <2> SUFFICES ASSUME CanvasInv, KeptInv, mount = 1, indicator = "saved",
                      NEW s \in unsaved[shown], s # reply
               PROVE  FALSE
    BY DEF SavedMeansSaved
  <2>1. shown \in Dirs
    BY DEF CanvasInv, TypesKept
  <2>2. PICK m \in Mounts : Owes(co[m], shown, s)
    BY <2>1 DEF KeptInv, AllOwed
  <2>3. Good(co[m]) /\ Unborn(m) /\ ~co[1].pending /\ ~co[1].inFlight
    BY DEF CanvasInv, KeptInv, SavedQuiet
  <2>4. ~co[m].pending /\ ~co[m].inFlight
    BY <2>3, FirstMount DEF Unborn, active
  <2>5. DOMAIN co[m].saves = {}
    BY <2>3, <2>4, NoSaves DEF Good
  <2> QED BY <2>2, <2>4, <2>5 DEF Owes
<1> QED BY <1>1, CanvasKeeps, PTL
=============================================================================
