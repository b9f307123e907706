------------------------------ MODULE Supervision ------------------------------
(***************************************************************************)
(* The fleet runner under its watchdog, the heartbeat rows between them,   *)
(* and the warden that reads the same rows and writes alerts.  Time goes   *)
(* by minutes: the watchdog looks once a minute, a runner that gets quotes *)
(* writes its heartbeats with every bar.                                   *)
(*                                                                         *)
(* Source: scripts/fleet_runner_watchdog.sh, runner_watchdog.sh,           *)
(* check_runner_heartbeat.py, warden/, src/acme/conductor/conductor.py.    *)
(***************************************************************************)
EXTENDS Integers, Sequences, SequencesExt

CONSTANTS
  Services,     \* the services the watchdog's expression and the warden name
  Active,       \* those the runner has a strategy for
  FirstBar,     \* minutes from a spawn to the first closed bar, at most
  BarMinutes,   \* minutes between two bars
  StartLines,   \* lines of activity a runner logs when it starts
  MaxFaults,    \* bound: crashes, hangs, lost writes, ... of a behaviour
  MaxAlerts     \* bound: alerts in the window at once for a service

ASSUME SupervisionAssumption ==
  /\ Active \subseteq Services /\ FirstBar \in Nat /\ BarMinutes \in Nat \ {0}
  /\ FirstBar >= BarMinutes
  /\ StartLines \in Nat /\ MaxFaults \in Nat /\ MaxAlerts \in Nat

MaxStale == 5
LiveMax == 5
OfflineMin == 15
Oldest == OfflineMin + 1
Grace == 6
StaleProbes == 2
RequiredActivity == 3
BlindProbes == 5      \* unanswered probes in a row that may hide a good runner
AlertKinds == {"heartbeat_stale", "heartbeat_offline"}

VARIABLES
  phase,       \* the watchdog: "spawning" or "watching"
  runner,      \* "none", "up" or "hung"
  due,         \* minutes to the runner's next bar
  market,      \* "open" or "silent": whether quotes come
  age,         \* minutes since the service's row was written
  grace,       \* minutes left until the heartbeats are probed
  stale,       \* consecutive_stale
  checked,     \* the watchdog has looked in this minute
  dropped,     \* the log's tail is full of closed connections
  activity,    \* lines of activity in the tail
  events,      \* alerts of the last day not resolved, oldest first
  faults,      \* faults so far
  calm,        \* the runner had quotes and its writes since it was spawned
  drops,       \* connections lost for good
  wronged,     \* runners killed though calm
  missed       \* probes without an answer in a row; it stays at BlindProbes

vars == <<phase, runner, due, market, age, grace, stale, checked, dropped, activity,
          events, faults, calm, drops, wronged, missed>>

dogVars == <<phase, grace, stale, checked>>
logVars == <<dropped, activity>>
history == <<calm, drops, wronged, missed>>

OpenOf(s) == SelectSeq(events, LAMBDA e : e.strategy = s)
Alerts == [strategy : Services, kind : AlertKinds]

TypeOK ==
  /\ phase \in {"spawning", "watching"} /\ runner \in {"none", "up", "hung"}
  /\ due \in 0..FirstBar /\ market \in {"open", "silent"}
  /\ age \in [Services -> 0..Oldest] /\ grace \in 0..Grace
  /\ stale \in 0..StaleProbes /\ checked \in BOOLEAN /\ dropped \in BOOLEAN
  /\ activity \in 0..RequiredActivity /\ events \in Seq(Alerts)
  /\ \A s \in Services : Len(OpenOf(s)) <= MaxAlerts
  /\ faults \in 0..MaxFaults /\ calm \in BOOLEAN
  /\ drops \in 0..MaxFaults /\ wronged \in Nat /\ missed \in 0..BlindProbes

\* The rows are those of earlier runners, of a while or of long ago.
Init ==
  /\ phase = "spawning" /\ runner = "none" /\ due = 0 /\ market = "open"
  /\ age \in [Services -> {MaxStale + 1, Oldest}] /\ grace = 0 /\ stale = 0
  /\ checked = TRUE /\ dropped = FALSE /\ activity = 0 /\ events = <<>>
  /\ faults = 0 /\ calm = FALSE /\ drops = 0 /\ wronged = 0
  /\ missed = 0

AtMost(n, bound) == IF n < bound THEN n ELSE bound
AtLeast(n, bound) == IF n > bound THEN n ELSE bound
-----------------------------------------------------------------------------
(* Time.  A minute passes once its bar and its look have happened.         *)
BarComes == runner = "up" /\ market = "open" /\ due = 0

Tick ==
  /\ ~BarComes /\ phase = "watching" /\ checked
  /\ age' = [s \in Services |-> AtMost(age[s] + 1, Oldest)]
  /\ due' = AtLeast(due - 1, 0) /\ grace' = AtLeast(grace - 1, 0)
  /\ checked' = FALSE
  /\ UNCHANGED <<phase, runner, market, stale, logVars, events, faults, history>>

(* The runner closes a bar and writes a row for every active strategy; a   *)
(* failed write is swallowed.                                              *)
\* Not the third bar in a row without a row, nor the runner's first.
LossTolerated == \A s \in Active : age[s] <= 2 * BarMinutes

WriteHeartbeats == age' = [s \in Services |-> IF s \in Active THEN 0 ELSE age[s]]

Bar ==
  /\ BarComes /\ due' = BarMinutes
  /\ \/ WriteHeartbeats /\ UNCHANGED <<faults, calm>>
     \/ /\ faults < MaxFaults /\ faults' = faults + 1
        /\ calm' = (calm /\ LossTolerated) /\ UNCHANGED age
  /\ UNCHANGED <<dogVars, runner, market, logVars, events, drops, wronged, missed>>
-----------------------------------------------------------------------------
(* The watchdog.                                                           *)
Spawn ==
  /\ phase = "spawning"
  /\ phase' = "watching" /\ runner' = "up" /\ due' \in BarMinutes..FirstBar
  /\ grace' = Grace /\ stale' = 0 /\ checked' = TRUE
  /\ activity' = AtMost(activity + StartLines, RequiredActivity)
  /\ calm' = (market = "open")
  /\ UNCHANGED <<market, age, dropped, events, faults, drops, wronged, missed>>

LogIsZombie == dropped /\ activity < RequiredActivity

\* The probe: 0 when a row is fresh, 1 when none is.
Probe == IF \E s \in Services : age[s] <= MaxStale THEN 0 ELSE 1

StaleCount_ForgetsLast(answer) == answer
StaleCount(answer) ==
  CASE answer = 0 -> 0 [] answer = 1 -> stale + 1 [] OTHER -> stale

GraceOver_Short == grace <= Grace - 2
GraceOver == grace = 0

Kill ==
  /\ phase' = "spawning" /\ runner' = "none"
  /\ wronged' = IF runner = "up" /\ calm THEN wronged + 1 ELSE wronged

\* The count starts again with every answer, until it was once too long.
Misses(answer) ==
  IF missed = BlindProbes THEN missed ELSE IF answer = 2 THEN missed + 1 ELSE 0

Leave ==
  /\ phase' = IF runner = "none" THEN "spawning" ELSE phase
  /\ UNCHANGED <<runner, wronged>>

(* One look: the log first, then, after the grace period, the heartbeats.  *)
(* A runner that is gone is noticed at the end of the look.                *)
Look ==
  /\ phase = "watching" /\ ~checked /\ checked' = TRUE
  /\ \/ LogIsZombie /\ Kill /\ UNCHANGED <<stale, faults, missed>>
     \/ ~LogIsZombie /\ ~GraceOver /\ Leave /\ UNCHANGED <<stale, faults, missed>>
     \/ /\ ~LogIsZombie /\ GraceOver
        /\ \E answer \in {Probe, 2} :
             /\ answer = 2 => faults < MaxFaults
             /\ faults' = IF answer = 2 THEN faults + 1 ELSE faults
             /\ stale' = StaleCount(answer) /\ missed' = Misses(answer)
             /\ IF answer = 1 /\ stale' >= StaleProbes THEN Kill ELSE Leave
  /\ UNCHANGED <<due, market, age, grace, logVars, events, calm, drops>>
-----------------------------------------------------------------------------
(* What goes wrong.                                                        *)
Fault == faults < MaxFaults /\ faults' = faults + 1

Crash ==
  /\ Fault /\ runner # "none" /\ runner' = "none"
  /\ UNCHANGED <<dogVars, due, market, age, logVars, events, history>>

Hang ==
  /\ Fault /\ runner = "up" /\ runner' = "hung"
  /\ UNCHANGED <<dogVars, due, market, age, logVars, events, history>>

\* The client's reconnects fail and fill the log.
LoseConnection ==
  /\ Fault /\ runner = "up" /\ runner' = "hung"
  /\ dropped' = TRUE /\ activity' = 0 /\ drops' = drops + 1
  /\ UNCHANGED <<dogVars, due, market, age, events, calm, wronged, missed>>

GoSilent ==
  /\ Fault /\ market = "open" /\ market' = "silent" /\ calm' = FALSE
  /\ UNCHANGED <<dogVars, runner, due, age, logVars, events, drops, wronged, missed>>

Reopen ==
  /\ market = "silent" /\ market' = "open" /\ due' = BarMinutes
  /\ UNCHANGED <<dogVars, runner, age, logVars, events, faults, history>>

\* Other lines push the closed connections out of the tail.
LogMovesOn ==
  /\ dropped /\ runner = "up" /\ dropped' = FALSE /\ activity' = 0
  /\ UNCHANGED <<dogVars, runner, due, market, age, events, faults, history>>
-----------------------------------------------------------------------------
(* The warden.  It reads the alerts of the last 24 hours only.             *)
HbStatus(s) ==
  CASE age[s] < LiveMax -> "live"
    [] age[s] >= LiveMax /\ age[s] < OfflineMin -> "stale"
    [] OTHER -> "offline"

\* The rows come newest first and the last one seen stays.
OpenEvent(s) == Head(OpenOf(s)).kind
KindFor(s) == IF HbStatus(s) = "stale" THEN "heartbeat_stale" ELSE "heartbeat_offline"

Emits_OncePerOutage(s) == HbStatus(s) # "live" /\ OpenOf(s) = <<>>
Emits(s) ==
  /\ HbStatus(s) # "live"
  /\ OpenOf(s) # <<>> => OpenEvent(s) # KindFor(s)

Resolves_StaleOnly(s) ==
  /\ HbStatus(s) = "live" /\ OpenOf(s) # <<>> /\ OpenEvent(s) = "heartbeat_stale"
Resolves(s) == HbStatus(s) = "live" /\ OpenOf(s) # <<>>

AlertFor(s) == [strategy |-> s, kind |-> KindFor(s)]
First(s) == SelectInSeq(events, LAMBDA e : e.strategy = s)

(* A pass takes one service after another; what it writes for one does not *)
(* change what it saw for the others.  Any write may fail.                 *)
WardenPass(s) ==
  /\ \/ /\ Emits(s) /\ Len(OpenOf(s)) < MaxAlerts
        /\ events' = Append(events, AlertFor(s)) /\ UNCHANGED faults
     \/ /\ Resolves(s) /\ events' = RemoveAt(events, First(s)) /\ UNCHANGED faults
     \/ (Emits(s) \/ Resolves(s)) /\ Fault /\ UNCHANGED events
  /\ UNCHANGED <<dogVars, runner, due, market, age, logVars, history>>

(* A day after it was written an alert leaves what the warden reads.  A    *)
(* day is not counted out in minutes: the oldest may leave at any of them. *)
AgeOut ==
  /\ events # <<>>
  /\ events' = Tail(events)
  /\ UNCHANGED <<dogVars, runner, due, market, age, logVars, faults, history>>
-----------------------------------------------------------------------------
Next ==
  \/ Tick \/ Bar \/ Spawn \/ Look
  \/ Crash \/ Hang \/ LoseConnection \/ GoSilent \/ Reopen \/ LogMovesOn
  \/ AgeOut \/ \E s \in Services : WardenPass(s)

(* Time passes, the watchdog loops, a runner that has quotes closes bars,  *)
(* a silent market opens again, and the warden loops.  Nothing has to fail.*)
Fairness ==
  /\ WF_vars(Tick) /\ WF_vars(Bar) /\ WF_vars(Spawn) /\ WF_vars(Look)
  /\ WF_vars(Reopen) /\ \A s \in Services : WF_vars(WardenPass(s))
Spec == Init /\ [][Next]_vars /\ Fairness
-----------------------------------------------------------------------------
(* Of the runners that had quotes and wrote their heartbeats since they    *)
(* were spawned, the watchdog kills at most one per lost connection.  That *)
(* one it can kill: the log's tail still holds the lines of the runner     *)
(* before it, and a start in dry-run mode logs one line too few to be told *)
(* from it.  After it the tail holds enough lines.                         *)
(* Code: the grace period, the two stale probes, the tail of the log.      *)
OneWrongKillPerDrop == wronged <= drops

(* Once nothing fails any more, the runner works, its heartbeats are fresh *)
(* and the watchdog never kills it again.                                  *)
(* Code: the loop of the watchdog and the exit status of the probe.        *)
RunnerRecovers == <>[](phase = "watching" /\ runner = "up" /\ Probe = 0)

(* A service that stays without heartbeats has, again and again, an alert  *)
(* of the last day that says it is offline, whatever alerts were opened    *)
(* before, lost, or aged out.  It may have several.                        *)
(* Code: run in warden/monitors/heartbeat.py.                              *)
OfflineIsAlerted ==
  \A s \in Services :
    []<>(age[s] < OfflineMin
         \/ \E i \in DOMAIN events : events[i] = [strategy |-> s, kind |-> "heartbeat_offline"])

(* A service whose heartbeats stay fresh ends with no open alert among     *)
(* those of the last day, however many were opened.  An alert that is      *)
(* older when the heartbeats come back is never resolved.                  *)
(* Code: events_to_resolve, one alert per pass.                            *)
AlertsAreCleared ==
  \A s \in Services : <>[](HbStatus(s) = "live") => []<>(OpenOf(s) = <<>>)
=============================================================================
