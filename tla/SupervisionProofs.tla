------------------------- MODULE SupervisionProofs -------------------------
(***************************************************************************)
(* The watchdog kills at most one healthy runner per lost connection: a    *)
(* proof for every set of services and every history, however long, of     *)
(* crashes, hangs, lost connections and lost writes.                       *)
(***************************************************************************)
EXTENDS Supervision, TLAPS

(* What the deployment relies on: some strategy runs, a start logs two     *)
(* lines, the first bar closes within the grace period, and two bars       *)
(* without a row are still fresh when the third one comes.                 *)
Deployed ==
  /\ Active # {} /\ StartLines >= 2
  /\ FirstBar < Grace /\ 3 * BarMinutes <= MaxStale + 1

\* Types of what the argument counts.
Counts ==
  /\ phase \in {"spawning", "watching"} /\ runner \in {"none", "up", "hung"}
  /\ due \in Nat /\ age \in [Services -> Nat] /\ grace \in 0..Grace /\ stale \in Nat
  /\ checked \in BOOLEAN /\ dropped \in BOOLEAN /\ calm \in BOOLEAN
  /\ market \in {"open", "silent"}
  /\ activity \in Nat /\ drops \in Nat /\ wronged \in Nat
  /\ missed \in 0..BlindProbes
  /\ phase = "spawning" => runner = "none"

\* A log full of closed connections names a connection that is not yet paid
\* for, until a runner was killed for it and the next one logs its start.
ZombieInv ==
  /\ dropped => activity = 0 \/ activity >= 2
  /\ dropped /\ activity = 0 => runner # "up"
  /\ dropped /\ activity < RequiredActivity /\ (activity = 0 \/ phase # "spawning")
       => wronged < drops

\* A calm runner is before its first bar, in its grace period, or its rows are
\* at most three bars old when the next bar comes.
RowsInv ==
  calm /\ runner = "up" =>
    /\ market = "open"
    /\ \/ due + Grace <= FirstBar + grace
       \/ \A s \in Active : age[s] + due <= 3 * BarMinutes

\* One stale probe of a calm runner just happened, with the bar to come now, or
\* every probe since the row was written got no answer.
StaleInv ==
  /\ grace > 0 => stale = 0
  /\ calm /\ runner = "up" /\ stale > 0 =>
       /\ stale = 1
       /\ \/ checked /\ due = 0 /\ \A s \in Active : age[s] > MaxStale
          \/ \A s \in Active : missed + (IF checked THEN 0 ELSE 1) >= age[s]

Spared == wronged <= drops
WatchInv == Counts /\ (missed < BlindProbes => ZombieInv /\ RowsInv /\ StaleInv /\ Spared)

\* Only a look counts probes, and a count that was too long stays too long.
LEMMA MissedStep ==
  ASSUME Counts, [Next]_vars
  PROVE  /\ missed' \in 0..BlindProbes
         /\ missed' < BlindProbes => missed < BlindProbes
<1> USE DEF Counts, BlindProbes
<1>1. CASE UNCHANGED missed
  BY <1>1
<1>2. CASE Look
  <2>1. CASE UNCHANGED missed
    BY <1>1, <2>1
  <2>2. ASSUME NEW answer \in {Probe, 2}, missed' = Misses(answer)
        PROVE  /\ missed' \in 0..BlindProbes
               /\ missed' < BlindProbes => missed < BlindProbes
    BY <2>2 DEF Misses
  <2>3. QED
    BY <1>2, <2>1, <2>2 DEF Look
<1>3. CASE Next /\ ~Look
  BY <1>1, <1>3 DEF Next, Tick, Bar, Spawn, Crash, Hang, LoseConnection, GoSilent,
     Reopen, LogMovesOn, WardenPass, AgeOut, history
<1>4. CASE UNCHANGED vars
  BY <1>1, <1>4 DEF vars
<1>5. QED
  BY <1>2, <1>3, <1>4

\* The types and the phase of a runner that is gone are kept.
LEMMA CountsStep == ASSUME Counts, [Next]_vars PROVE Counts'
<1> USE DEF Counts, Grace, dogVars, logVars, history
<1>0. missed' \in 0..BlindProbes
  BY MissedStep
<1>1. CASE Tick
  <2>1. age' \in [Services -> Nat]
    BY <1>1 DEF Tick, AtMost, Oldest, OfflineMin
  <2>2. due' \in Nat /\ grace' \in 0..Grace
    BY <1>1 DEF Tick, AtLeast
  <2>3. QED
    BY <1>0, <1>1, <2>1, <2>2 DEF Tick
<1>2. CASE Bar
  <2>1. age' \in [Services -> Nat]
    BY <1>2 DEF Bar, WriteHeartbeats
  <2>2. due' \in Nat /\ calm' \in BOOLEAN
    BY <1>2, SupervisionAssumption DEF Bar, LossTolerated
  <2>3. QED
    BY <1>0, <1>2, <2>1, <2>2 DEF Bar
<1>3. CASE Spawn
  BY <1>0, <1>3, SupervisionAssumption DEF Spawn, AtMost, RequiredActivity
<1>4. CASE Look
  <2>1. /\ phase' \in {"spawning", "watching"} /\ runner' \in {"none", "up", "hung"}
        /\ wronged' \in Nat /\ (phase' = "spawning" => runner' = "none")
    BY <1>4 DEF Look, Kill, Leave
  <2>2. stale' \in Nat
    BY <1>4 DEF Look, StaleCount, Probe
  <2>3. QED
    BY <1>0, <1>4, <2>1, <2>2 DEF Look
<1>5. CASE Crash \/ Hang \/ LoseConnection \/ GoSilent
  <2>1. CASE Crash
    BY <1>0, <2>1 DEF Crash
  <2>2. CASE Hang
    BY <1>0, <2>2 DEF Hang
  <2>3. CASE LoseConnection
    BY <1>0, <2>3 DEF LoseConnection
  <2>4. CASE GoSilent
    BY <1>0, <2>4 DEF GoSilent
  <2>5. QED
    BY <1>5, <2>1, <2>2, <2>3, <2>4
<1>6. CASE Reopen \/ LogMovesOn
  <2>1. CASE Reopen
    BY <1>0, <2>1, SupervisionAssumption DEF Reopen
  <2>2. CASE LogMovesOn
    BY <1>0, <2>2 DEF LogMovesOn
  <2>3. QED
    BY <1>6, <2>1, <2>2
<1>7. ASSUME NEW s \in Services, WardenPass(s) PROVE Counts'
  BY <1>0, <1>7 DEF WardenPass
<1>8. CASE AgeOut
  BY <1>0, <1>8 DEF AgeOut
<1>9. CASE UNCHANGED vars
  BY <1>9 DEF vars
<1>10. QED
  BY <1>1, <1>2, <1>3, <1>4, <1>5, <1>6, <1>7, <1>8, <1>9 DEF Next

\* One look at a calm runner kills it only for a connection that was lost.
LEMMA LookSpares ==
  ASSUME Deployed, Counts, Counts', ZombieInv, RowsInv, StaleInv, Spared, Look,
         missed' < BlindProbes, missed < BlindProbes
  PROVE  ZombieInv' /\ RowsInv' /\ StaleInv' /\ Spared'
<1> USE DEF Counts, Grace, RequiredActivity, MaxStale, StaleProbes, BlindProbes
<1>1. /\ phase = "watching" /\ ~checked /\ checked'
      /\ UNCHANGED <<due, market, age, grace, dropped, activity, calm, drops>>
  BY DEF Look, logVars
<1>2. CASE LogIsZombie /\ Kill /\ UNCHANGED <<stale, faults, missed>>
  <2>1. dropped /\ activity < 3 /\ wronged < drops
    BY <1>1, <1>2 DEF LogIsZombie, ZombieInv
  <2>2. runner' = "none" /\ phase' = "spawning" /\ wronged' <= wronged + 1
    BY <1>2 DEF Kill
  <2>3. ZombieInv'
    <3>1. activity = 0 => runner # "up"
      BY <2>1 DEF ZombieInv
    <3>2. activity = 0 => wronged' = wronged
      BY <1>2, <3>1 DEF Kill
    <3>3. QED
      BY <1>1, <2>1, <2>2, <3>2 DEF ZombieInv
  <2>4. QED
    BY <1>1, <1>2, <2>1, <2>2, <2>3 DEF RowsInv, StaleInv, Spared
<1>3. ASSUME Leave
      PROVE  ZombieInv' /\ RowsInv' /\ Spared'
             /\ (runner' = "none" \/ phase' = phase) /\ runner' = runner
  <2>1. runner' = runner /\ wronged' = wronged
        /\ (runner' = "none" \/ phase' = phase)
    BY <1>3 DEF Leave
  <2>2. QED
    BY <1>1, <2>1 DEF ZombieInv, RowsInv, Spared
<1>4. CASE ~LogIsZombie /\ ~GraceOver /\ Leave /\ UNCHANGED <<stale, faults, missed>>
  <2>1. grace > 0 /\ stale = 0 /\ stale' = 0
    BY <1>4 DEF GraceOver, StaleInv
  <2>2. StaleInv'
    BY <1>1, <2>1 DEF StaleInv
  <2>3. QED
    BY <1>3, <1>4, <2>2
<1>5. ASSUME GraceOver, NEW answer \in {Probe, 2},
             stale' = StaleCount(answer), missed' = Misses(answer),
             IF answer = 1 /\ stale' >= StaleProbes THEN Kill ELSE Leave
      PROVE  ZombieInv' /\ RowsInv' /\ StaleInv' /\ Spared'
  <2>1. grace = 0
    BY <1>5 DEF GraceOver
  <2>2. calm /\ runner = "up" => \A s \in Active : age[s] + due <= 6
    <3>1. ~(due + Grace <= FirstBar + grace)
      BY <2>1, SupervisionAssumption DEF Deployed
    <3>2. \A s \in Active : age[s] \in Nat
      BY SupervisionAssumption
    <3>3. BarMinutes \in Nat /\ 3 * BarMinutes <= 6
      BY SupervisionAssumption DEF Deployed
    <3>4. QED
      BY <3>1, <3>2, <3>3 DEF RowsInv
  <2>3. CASE answer = 1
    <3>1. \A s \in Services : age[s] > 5
      BY <2>3, <1>5 DEF Probe
    <3>2. \A s \in Active : age[s] \in Nat /\ age[s] > 5
      BY <3>1, SupervisionAssumption
    <3>3. calm /\ runner = "up" => due = 0 /\ stale = 0
      <4>1. PICK s \in Active : TRUE
        BY DEF Deployed
      <4>2. SUFFICES ASSUME calm, runner = "up" PROVE due = 0 /\ stale = 0
        OBVIOUS
      <4>3. age[s] \in Nat /\ age[s] + due <= 6 /\ age[s] > 5
        BY <2>2, <3>2, <4>2
      <4>4. age[s] = 6 /\ due = 0
        BY <4>3
      <4>5. ~checked /\ missed < 5
        BY <1>1
      <4>6. ~(stale > 0)
        BY <4>1, <4>2, <4>4, <4>5 DEF StaleInv
      <4>7. QED
        BY <4>4, <4>6
    <3>4. stale' = stale + 1
      BY <1>5, <2>3 DEF StaleCount
    <3>5. CASE Kill
      <4>1. /\ phase' = "spawning" /\ runner' = "none"
            /\ wronged' = IF runner = "up" /\ calm THEN wronged + 1 ELSE wronged
            /\ (runner = "up" /\ calm => FALSE)
        <5>1. CASE stale' >= 2
          BY <3>3, <3>4, <3>5, <5>1 DEF Kill
        <5>2. CASE ~(stale' >= 2)
          BY <1>5, <3>5, <5>2 DEF Kill, Leave
        <5>3. QED
          BY <5>1, <5>2
      <4>2. wronged' = wronged
        BY <4>1
      <4>3. QED
        BY <1>1, <2>1, <4>1, <4>2 DEF ZombieInv, RowsInv, StaleInv, Spared
    <3>6. CASE Leave
      <4>1. StaleInv'
        BY <1>1, <1>3, <2>1, <3>2, <3>3, <3>4, <3>6 DEF StaleInv
      <4>2. QED
        BY <1>3, <3>6, <4>1
    <3>7. QED
      BY <1>5, <3>5, <3>6
  <2>4. CASE answer # 1
    <3>1. Leave
      BY <1>5, <2>4
    <3>2. CASE answer = 0
      <4>1. stale' = 0
        BY <1>5, <3>2 DEF StaleCount
      <4>2. QED
        BY <1>3, <3>1, <4>1 DEF StaleInv
    <3>3. CASE answer = 2
      <4>1. stale' = stale /\ missed' = missed + 1 /\ runner' = runner
        BY <1>3, <1>5, <3>1, <3>3 DEF StaleCount, Misses
      <4>2. calm /\ runner = "up" /\ stale > 0 =>
              stale = 1 /\ \A s \in Active : missed + 1 >= age[s]
        BY <1>1 DEF StaleInv
      <4>3. StaleInv'
        BY <1>1, <2>1, <4>1, <4>2 DEF StaleInv
      <4>4. QED
        BY <1>3, <3>1, <4>3
    <3>4. QED
      BY <1>5, <2>4, <3>2, <3>3 DEF Probe
  <2>5. QED
    BY <2>3, <2>4
<1>6. QED
  BY <1>2, <1>4, <1>5 DEF Look

\* No other step kills, and a tolerated loss leaves the rows young enough.
LEMMA OthersSpare ==
  ASSUME Deployed, Counts, Counts', ZombieInv, RowsInv, StaleInv, Spared,
         [Next]_vars, ~Look, missed' < BlindProbes
  PROVE  ZombieInv' /\ RowsInv' /\ StaleInv' /\ Spared'
<1> USE DEF Counts, Grace, RequiredActivity, MaxStale, dogVars, logVars, history
<1>a. /\ \A s \in Active : s \in Services /\ age[s] \in Nat
      /\ BarMinutes \in Nat \ {0} /\ FirstBar \in Nat /\ StartLines \in Nat
      /\ 3 * BarMinutes <= 6 /\ FirstBar < 6 /\ StartLines >= 2
  BY SupervisionAssumption DEF Deployed
<1>1. CASE Tick
  <2>1. /\ phase = "watching" /\ ~BarComes /\ checked /\ ~checked'
        /\ \A s \in Active : age'[s] \in Nat /\ age'[s] <= age[s] + 1
        /\ due' = (IF due - 1 > 0 THEN due - 1 ELSE 0)
        /\ grace' = (IF grace - 1 > 0 THEN grace - 1 ELSE 0)
        /\ UNCHANGED <<phase, runner, market, stale, dropped, activity, missed, calm,
                       drops, wronged>>
    BY <1>1, <1>a DEF Tick, AtMost, AtLeast, Oldest, OfflineMin
  <2>2. ZombieInv' /\ Spared'
    BY <2>1 DEF ZombieInv, Spared
  <2>3. calm /\ runner = "up" => due > 0
    BY <2>1 DEF RowsInv, BarComes
  <2>4. RowsInv'
    <3>1. SUFFICES ASSUME calm, runner = "up"
                   PROVE  \/ due' + 6 <= FirstBar + grace'
                          \/ \A s \in Active : age'[s] + due' <= 3 * BarMinutes
      BY <2>1 DEF RowsInv
    <3>2. due' = due - 1
      BY <2>1, <2>3, <3>1
    <3>3. CASE due + 6 <= FirstBar + grace
      BY <1>a, <2>1, <2>3, <3>1, <3>2, <3>3
    <3>4. CASE \A s \in Active : age[s] + due <= 3 * BarMinutes
      BY <1>a, <2>1, <3>2, <3>4
    <3>5. QED
      BY <3>1, <3>3, <3>4 DEF RowsInv
  <2>5. StaleInv'
    <3>1. grace' > 0 => stale' = 0
      BY <2>1 DEF StaleInv
    <3>2. ASSUME calm, runner = "up", stale > 0
          PROVE  stale = 1 /\ \A s \in Active : missed + 1 >= age'[s]
      BY <1>a, <2>1, <2>3, <3>2 DEF StaleInv
    <3>3. QED
      BY <2>1, <3>1, <3>2 DEF StaleInv
  <2>6. QED
    BY <2>2, <2>4, <2>5
<1>2. CASE Bar
  <2>1. /\ BarComes /\ due' = BarMinutes
        /\ UNCHANGED <<phase, grace, stale, checked, runner, market, dropped, activity,
                       drops, wronged, missed>>
    BY <1>2 DEF Bar
  <2>2. ZombieInv' /\ Spared'
    BY <2>1 DEF ZombieInv, Spared
  <2>3. CASE WriteHeartbeats /\ UNCHANGED calm
    <3>1. \A s \in Active : age'[s] = 0
      BY <1>a, <2>3 DEF WriteHeartbeats
    <3>2. RowsInv' /\ StaleInv'
      BY <1>a, <2>1, <2>3, <3>1 DEF RowsInv, StaleInv
    <3>3. QED
      BY <2>2, <3>2
  <2>4. CASE calm' = (calm /\ LossTolerated) /\ UNCHANGED age
    <3>1. calm' => calm /\ \A s \in Active : age[s] <= 2 * BarMinutes
      BY <2>4 DEF LossTolerated
    <3>2. RowsInv'
      BY <1>a, <2>1, <2>4, <3>1 DEF RowsInv, BarComes
    <3>3. StaleInv'
      <4>1. PICK s \in Active : TRUE
        BY DEF Deployed
      <4>2. calm' => ~(age[s] > 5)
        BY <1>a, <3>1, <4>1
      <4>3. QED
        BY <1>a, <2>1, <2>4, <3>1, <4>1, <4>2 DEF StaleInv
    <3>4. QED
      BY <2>2, <3>2, <3>3
  <2>5. QED
    BY <1>2, <2>3, <2>4 DEF Bar
<1>3. CASE Spawn
  <2>1. /\ phase = "spawning" /\ phase' = "watching" /\ runner = "none" /\ runner' = "up"
        /\ due' \in BarMinutes..FirstBar /\ grace' = 6 /\ stale' = 0
        /\ activity' = (IF activity + StartLines < 3 THEN activity + StartLines ELSE 3)
        /\ calm' = (market = "open") /\ UNCHANGED <<market, dropped, drops, wronged>>
    BY <1>3 DEF Spawn, AtMost
  <2>2. ZombieInv'
    BY <1>a, <2>1 DEF ZombieInv
  <2>3. RowsInv'
    <3>1. FirstBar \in Int /\ BarMinutes \in Int
      BY SupervisionAssumption
    <3>2. due' \in Int /\ due' <= FirstBar /\ grace' = 6
      BY <2>1, <3>1
    <3>3. due' + 6 <= FirstBar + grace'
      <4>1. ASSUME NEW a \in Int, NEW b \in Int, a <= b PROVE a + 6 <= b + 6
        BY <4>1
      <4>2. due' + 6 <= FirstBar + 6
        BY <3>1, <3>2, <4>1
      <4>3. QED
        BY <4>2, <3>2
    <3>4. QED
      BY <2>1, <3>3 DEF RowsInv
  <2>4. StaleInv'
    BY <2>1 DEF StaleInv
  <2>5. Spared'
    BY <2>1 DEF Spared
  <2>6. QED
    BY <2>2, <2>3, <2>4, <2>5
<1>4. CASE Crash \/ Hang
  BY <1>4 DEF Crash, Hang, ZombieInv, RowsInv, StaleInv, Spared
<1>5. CASE LoseConnection
  BY <1>5 DEF LoseConnection, ZombieInv, RowsInv, StaleInv, Spared
<1>6. CASE GoSilent \/ Reopen
  BY <1>6 DEF GoSilent, Reopen, ZombieInv, RowsInv, StaleInv, Spared
<1>7. CASE LogMovesOn
  BY <1>7 DEF LogMovesOn, ZombieInv, RowsInv, StaleInv, Spared
<1>8. ASSUME NEW s \in Services, WardenPass(s)
      PROVE  ZombieInv' /\ RowsInv' /\ StaleInv' /\ Spared'
  <2>1. UNCHANGED <<dogVars, runner, due, market, age, logVars, history>>
    BY <1>8 DEF WardenPass
  <2>2. ZombieInv' /\ RowsInv' /\ Spared'
    BY <2>1 DEF ZombieInv, RowsInv, Spared
  <2>3. StaleInv'
    BY <1>a, <2>1 DEF StaleInv
  <2>4. QED
    BY <2>2, <2>3
<1>9. CASE AgeOut
  BY <1>9 DEF AgeOut, ZombieInv, RowsInv, StaleInv, Spared
<1>10. CASE UNCHANGED vars
  BY <1>10 DEF vars, ZombieInv, RowsInv, StaleInv, Spared
<1>11. QED
  BY <1>1, <1>2, <1>3, <1>4, <1>5, <1>6, <1>7, <1>8, <1>9, <1>10 DEF Next

\* Up to the fifth unanswered probe in a row.
LEMMA WatchStep == ASSUME Deployed, WatchInv, [Next]_vars PROVE WatchInv'
<1>1. Counts /\ Counts'
  BY CountsStep DEF WatchInv
<1>2. SUFFICES ASSUME missed' < BlindProbes
               PROVE  ZombieInv' /\ RowsInv' /\ StaleInv' /\ Spared'
  BY <1>1 DEF WatchInv
<1>3. missed < BlindProbes /\ ZombieInv /\ RowsInv /\ StaleInv /\ Spared
  BY <1>1, <1>2, MissedStep DEF WatchInv
<1>4. QED
  BY <1>1, <1>2, <1>3, LookSpares, OthersSpare

\* At first no runner is calm and no connection was lost.
LEMMA WatchInit == ASSUME Init PROVE WatchInv
<1>1. age \in [Services -> Nat]
  BY DEF Init, MaxStale, Oldest, OfflineMin
<1>2. Counts
  <2>1. checked \in BOOLEAN /\ dropped \in BOOLEAN /\ calm \in BOOLEAN
    BY DEF Init
  <2>2. due \in Nat /\ grace \in 0..Grace /\ stale \in Nat
    BY DEF Init, Grace
  <2>3. activity \in Nat /\ drops \in Nat /\ wronged \in Nat /\ missed \in 0..BlindProbes
    BY DEF Init, BlindProbes
  <2>4. /\ phase \in {"spawning", "watching"} /\ runner \in {"none", "up", "hung"}
        /\ market \in {"open", "silent"} /\ runner = "none"
    BY DEF Init
  <2>5. QED
    BY <1>1, <2>1, <2>2, <2>3, <2>4 DEF Counts
<1>3. ZombieInv /\ RowsInv /\ StaleInv /\ Spared
  BY DEF Init, ZombieInv, RowsInv, StaleInv, Spared
<1>4. QED
  BY <1>2, <1>3 DEF WatchInv

\* In the deployment, the watchdog kills at most one connected runner that gets
\* quotes and writes its rows per lost connection, whatever crashes, hangs, lost
\* writes and silent markets come, as long as no five probes in a row went
\* without an answer: those would hide a row from one stale probe to another.
THEOREM WrongKillsBounded ==
  ASSUME Deployed
  PROVE  Spec => [](missed < BlindProbes => OneWrongKillPerDrop)
<1>1. WatchInv => (missed < BlindProbes => OneWrongKillPerDrop)
  BY DEF WatchInv, Spared, OneWrongKillPerDrop
<1>2. QED
  BY <1>1, WatchInit, WatchStep, PTL DEF Spec
=============================================================================
