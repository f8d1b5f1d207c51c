---------------------------- MODULE ArmedMissions ----------------------------
(***************************************************************************)
(* One user's armed missions (internal/api/armed_mission.go over the         *)
(* `armed_missions` collection, internal/app/armed_missions.go): a mission   *)
(* waits for a setup inside its window and then enters the market once.      *)
(* Every API instance may watch it, may arm and disarm it for the user, and  *)
(* may crash and boot again.  What a triggered mission does between its      *)
(* recorded confirmation and the end of the plan is MissionClose.            *)
(*                                                                         *)
(* Expiry is kept as time left; `late` is how long ago a handler or a check   *)
(* read the clock it passes to the store.                                   *)
(***************************************************************************)
EXTENDS Integers, FiniteSets

CONSTANTS
  Instances,    \* API instances, each handling one arm request at a time
  Missions,     \* armed mission ids (random: never drawn twice)
  Symbols,
  Windows,      \* planDuration of the durations a user may choose
  OpLimit,      \* the longest a check or an arm request lasts
  ArmLimit,     \* maxActiveArmedMissionsPerUser
  DailyLimit    \* MissionsPerDay of the user's tier (0: already used up)

ASSUME ArmAssumption ==
  /\ Windows \subseteq Nat \ {0} /\ IsFiniteSet(Windows) /\ Windows # {}
  /\ OpLimit \in Nat /\ ArmLimit \in Nat \ {0} /\ DailyLimit \in Nat
  /\ Symbols # {} /\ Missions # {}
  /\ IsFiniteSet(Instances) /\ IsFiniteSet(Missions)

VARIABLES
  row,      \* row[m]: the stored mission
  up,       \* up: the instances that have booted
  arm,      \* arm[i]: the arm request instance i is handling
  watch,    \* watch[i][m]: the goroutine of instance i that watches m
  usage,    \* usage[i]: instance i's in-memory count of missions today
  staged,   \* staged[m]: confirmations prepared for m (history)
  entered   \* entered[m]: entry orders sent for m (history)

vars == <<row, up, arm, watch, usage, staged, entered>>
history == <<staged, entered>>
-----------------------------------------------------------------------------
Status == {"absent", "armed", "triggered", "expired", "disarmed"}
WatchSteps ==
  {"none", "waiting", "expire", "claim", "prepare", "record", "gate", "confirm", "cancel"}

LongestWindow == CHOOSE w \in Windows : \A v \in Windows : v <= w
Left == -OpLimit..LongestWindow

\* `recorded`: triggered_confirmation_id is set.
Rows == [status : Status, symbol : Symbols, left : Left, recorded : BOOLEAN]
NoRow == [status |-> "absent"]
\* `seen`: the time left when ListActive returned the row.
Requests ==
  [step : {"extend", "save"}, mission : Missions, symbol : Symbols, window : Windows,
   seen : Left, late : 0..OpLimit]
NoRequest == [step |-> "idle"]
Watches == [step : WatchSteps, late : 0..OpLimit]

TypeOK ==
  /\ row \in [Missions -> Rows \cup {NoRow}]
  /\ up \in SUBSET Instances
  /\ arm \in [Instances -> Requests \cup {NoRequest}]
  /\ watch \in [Instances -> [Missions -> Watches]]
  /\ usage \in [Instances -> Nat]
  /\ staged \in [Missions -> Nat]
  /\ entered \in [Missions -> Nat]

NoWatch == [step |-> "none", late |-> 0]
Waiting == [step |-> "waiting", late |-> 0]

Init ==
  /\ row = [m \in Missions |-> NoRow]
  /\ up = {}
  /\ arm = [i \in Instances |-> NoRequest]
  /\ watch = [i \in Instances |-> [m \in Missions |-> NoWatch]]
  /\ usage = [i \in Instances |-> 0]
  /\ staged = [m \in Missions |-> 0] /\ entered = [m \in Missions |-> 0]
-----------------------------------------------------------------------------
\* The store: FindOneAndUpdate with a status filter (`transition`), one step each.
IsArmed(m) == row[m].status = "armed"
Active == {m \in Missions : IsArmed(m) /\ row[m].left > 0}

Become(m, status) == row' = [row EXCEPT ![m].status = status]

\* Seeded faults: transitions whose filter lost a condition.
TriggerableTwice(m, late) == row[m].status \in {"armed", "triggered"} /\ row[m].left + late > 0
ExpirableAnyway(m) == row[m].status # "absent"
DisarmableInFlight(m) == row[m].status \in {"armed", "triggered"}

Triggerable(m, late) == IsArmed(m) /\ row[m].left + late > 0
Expirable(m)         == IsArmed(m)
Disarmable(m)        == IsArmed(m)
Recordable(m)        == row[m].status = "triggered" /\ ~row[m].recorded

\* Seeded fault: the new window is added to what is left of the old one.
RewindowedOnTop(r, w, late) == [r EXCEPT !.left = @ + w - late]

\* A new window, counted from the clock the handler read.
Rewindowed(r, w, late) == [r EXCEPT !.left = w - late]

\* startArmedMissionWatcher: at most one goroutine per mission and instance.
Watched(ws, m, left) ==
  IF left > 0 /\ ws[m].step = "none" THEN [ws EXCEPT ![m] = Waiting] ELSE ws
-----------------------------------------------------------------------------
\* Run: sweep what expired while nobody watched (UpdateMany, one document after the
\* other), then watch what is active; an error of either is only logged.
ExpireStale(i, m) ==
  /\ i \notin up
  /\ IsArmed(m) /\ row[m].left <= 0
  /\ Become(m, "expired")
  /\ UNCHANGED <<up, arm, watch, usage, history>>

WatchActive(i) ==
  /\ i \notin up
  /\ up' = up \cup {i}
  /\ \/ watch' = [watch EXCEPT ![i] = [m \in Missions |-> IF m \in Active THEN Waiting
                                                          ELSE NoWatch]]
     \/ UNCHANGED watch
  /\ UNCHANGED <<row, arm, usage, history>>

\* The process dies: its requests, its watchers and its counters are gone.  Sooner or
\* later, or never, it boots again.
Crash(i) ==
  /\ i \in up
  /\ up' = up \ {i}
  /\ arm' = [arm EXCEPT ![i] = NoRequest]
  /\ watch' = [watch EXCEPT ![i] = [m \in Missions |-> NoWatch]]
  /\ usage' = [usage EXCEPT ![i] = 0]
  /\ UNCHANGED <<row, history>>
-----------------------------------------------------------------------------
RoomLeft == Cardinality(Active) < ArmLimit

\* armANNYBasicMission reads the active missions.  One on the same symbol (the first to
\* expire) is re-armed; otherwise a new one is stored if the user has room.
ScanActive(i, s, w) ==
  /\ i \in up /\ arm[i].step = "idle"
  /\ LET same == {m \in Active : row[m].symbol = s}
     IN \/ \E m \in same :
             /\ \A n \in same : row[m].left <= row[n].left
             /\ IF w > row[m].left
                THEN /\ arm' = [arm EXCEPT ![i] = [step |-> "extend", mission |-> m, symbol |-> s,
                                                   window |-> w, seen |-> row[m].left, late |-> 0]]
                     /\ UNCHANGED watch
                ELSE /\ watch' = [watch EXCEPT ![i] = Watched(@, m, row[m].left)]
                     /\ UNCHANGED arm
        \/ /\ same = {} /\ RoomLeft
           /\ \E m \in Missions :
                /\ row[m].status = "absent"
                /\ \A j \in Instances : arm[j].step = "save" => arm[j].mission # m
                /\ arm' = [arm EXCEPT ![i] = [step |-> "save", mission |-> m, symbol |-> s,
                                              window |-> w, seen |-> 0, late |-> 0]]
           /\ UNCHANGED watch
  /\ UNCHANGED <<row, up, usage, history>>

\* ExtendWindow: only while armed.  When it fails (applied or not) the handler goes on
\* with the row it had listed.
ExtendWindow(i) ==
  LET a == arm[i]
  IN /\ a.step = "extend"
     /\ \E ok \in BOOLEAN :
          /\ row' \in {[row EXCEPT ![a.mission] =
                          IF IsArmed(a.mission) THEN Rewindowed(@, a.window, a.late) ELSE @]}
                      \cup (IF ok THEN {} ELSE {row})
          /\ watch' = [watch EXCEPT ![i] =
               Watched(@, a.mission, IF ok /\ IsArmed(a.mission) THEN row'[a.mission].left
                                     ELSE a.seen - a.late)]
     /\ arm' = [arm EXCEPT ![i] = NoRequest]
     /\ UNCHANGED <<up, usage, history>>

\* Save: an insert; on an error, applied or not, no watcher is started.
SaveMission(i) ==
  LET a == arm[i]
      new == [status |-> "armed", symbol |-> a.symbol, left |-> a.window - a.late,
              recorded |-> FALSE]
  IN /\ a.step = "save"
     /\ \/ /\ row' = [row EXCEPT ![a.mission] = new]
           /\ watch' = [watch EXCEPT ![i] = Watched(@, a.mission, new.left)]
        \/ /\ row' \in {row, [row EXCEPT ![a.mission] = new]}
           /\ UNCHANGED watch
     /\ arm' = [arm EXCEPT ![i] = NoRequest]
     /\ UNCHANGED <<up, usage, history>>

\* handleDisarmMission, through any instance.  Otherwise it answers with the status it
\* finds and changes nothing.
DisarmMission(m) ==
  /\ up # {}
  /\ Disarmable(m)
  /\ Become(m, "disarmed")
  /\ UNCHANGED <<up, arm, watch, usage, history>>
-----------------------------------------------------------------------------
\* allow: under the daily limit of the user's tier.
UnderLimit(i) == usage[i] < DailyLimit

At(i, m, s)   == watch[i][m].step = s
Goto(i, m, s) == watch' = [watch EXCEPT ![i][m].step = s]
Wait(i, m)    == watch' = [watch EXCEPT ![i][m] = Waiting]
Stop(i, m)    == watch' = [watch EXCEPT ![i][m] = NoWatch]

\* checkArmedMission: the clock, then the row; an error of the read ends the watcher.
\* Gate closed, no candles or no setup: it waits for the next tick.
Check(i, m) ==
  /\ At(i, m, "waiting")
  /\ \/ ~IsArmed(m) /\ Stop(i, m)
     \/ Stop(i, m)
     \/ IsArmed(m) /\ row[m].left <= 0 /\ Goto(i, m, "expire")
     \/ IsArmed(m) /\ row[m].left > 0 /\ UnderLimit(i) /\ Goto(i, m, "claim")
  /\ UNCHANGED <<row, up, arm, usage, history>>

\* The setup went away, or the market data failed, after the gate was read.
NoSetup(i, m) ==
  /\ At(i, m, "claim")
  /\ Wait(i, m)
  /\ UNCHANGED <<row, up, arm, usage, history>>

\* MarkExpired: whatever expires_at is by now.
MarkExpired(i, m) ==
  /\ At(i, m, "expire")
  /\ \/ Expirable(m) /\ Become(m, "expired")
     \/ UNCHANGED row
  /\ Stop(i, m)
  /\ UNCHANGED <<up, arm, usage, history>>

\* MarkTriggered is the claim; the winner counts the mission.  A lost reply ends it.
MarkTriggered(i, m) ==
  /\ At(i, m, "claim")
  /\ \/ /\ Triggerable(m, watch[i][m].late)
        /\ Become(m, "triggered")
        /\ \/ Goto(i, m, "prepare") /\ usage' = [usage EXCEPT ![i] = @ + 1]
           \/ Stop(i, m) /\ UNCHANGED usage
     \/ Stop(i, m) /\ UNCHANGED <<row, usage>>
  /\ UNCHANGED <<up, arm, history>>

\* PrepareWithIdempotencyKey, as in Confirmations: stored, or not, or with an error.
Prepare(i, m) ==
  /\ At(i, m, "prepare")
  /\ \/ /\ staged' = [staged EXCEPT ![m] = @ + 1]
        /\ Goto(i, m, "record") \/ Stop(i, m)
     \/ Stop(i, m) /\ UNCHANGED staged
  /\ UNCHANGED <<row, up, arm, usage, entered>>

\* Seeded fault: an error of SetTriggeredConfirmation is only logged.
RecordBestEffort(i, m) ==
  /\ At(i, m, "record")
  /\ \/ Recordable(m) /\ row' = [row EXCEPT ![m].recorded = TRUE]
     \/ UNCHANGED row
  /\ Goto(i, m, "gate")
  /\ UNCHANGED <<up, arm, usage, history>>

\* SetTriggeredConfirmation; an error, applied or not, cancels the confirmation.
Record(i, m) ==
  /\ At(i, m, "record")
  /\ \/ /\ Recordable(m)
        /\ row' = [row EXCEPT ![m].recorded = TRUE]
        /\ Goto(i, m, "gate") \/ Goto(i, m, "cancel")
     \/ UNCHANGED row /\ Goto(i, m, "cancel")
  /\ UNCHANGED <<up, arm, usage, history>>

\* The gate is read again: the key, and the daily limit, which now counts this mission.
Gate(i, m) ==
  /\ At(i, m, "gate")
  /\ IF UnderLimit(i)
     THEN Goto(i, m, "confirm") \/ Goto(i, m, "cancel")
     ELSE Goto(i, m, "cancel")
  /\ UNCHANGED <<row, up, arm, usage, history>>

\* The timed close is stored and the entry confirmed (MissionClose), or one of them fails.
Confirm(i, m) ==
  /\ At(i, m, "confirm")
  /\ entered' = [entered EXCEPT ![m] = @ + 1] \/ UNCHANGED entered
  /\ Stop(i, m)
  /\ UNCHANGED <<row, up, arm, usage, staged>>

\* orders.Cancel on the mission's own confirmation; its error is dropped.
Cancel(i, m) ==
  /\ At(i, m, "cancel")
  /\ Stop(i, m)
  /\ UNCHANGED <<row, up, arm, usage, history>>
-----------------------------------------------------------------------------
\* handleMissionPrepare staged a mission on the web: it counts too.
WebMission(i) ==
  /\ i \in up /\ UnderLimit(i)
  /\ usage' = [usage EXCEPT ![i] = @ + 1]
  /\ UNCHANGED <<row, up, arm, watch, history>>

\* The counters are keyed by the day.
NewDay ==
  /\ usage' = [i \in Instances |-> 0]
  /\ UNCHANGED <<row, up, arm, watch, history>>

Busy(i, m) == watch[i][m].step \notin {"none", "waiting"}

Tick ==
  /\ \A i \in Instances :
       /\ arm[i].step # "idle" => arm[i].late < OpLimit
       /\ \A m \in Missions : Busy(i, m) => watch[i][m].late < OpLimit
  /\ row' = [m \in Missions |->
               IF IsArmed(m) /\ row[m].left > -OpLimit THEN [row[m] EXCEPT !.left = @ - 1]
               ELSE row[m]]
  /\ arm' = [i \in Instances |->
               IF arm[i].step = "idle" THEN arm[i] ELSE [arm[i] EXCEPT !.late = @ + 1]]
  /\ watch' = [i \in Instances |-> [m \in Missions |->
                 IF Busy(i, m) THEN [watch[i][m] EXCEPT !.late = @ + 1] ELSE watch[i][m]]]
  /\ UNCHANGED <<up, usage, history>>

Watcher(i, m) ==
  \/ Check(i, m) \/ NoSetup(i, m) \/ MarkExpired(i, m) \/ MarkTriggered(i, m)
  \/ Prepare(i, m) \/ Record(i, m) \/ Gate(i, m) \/ Confirm(i, m) \/ Cancel(i, m)

Instance(i) ==
  \/ (\E m \in Missions : ExpireStale(i, m))
  \/ WatchActive(i) \/ Crash(i) \/ WebMission(i)
  \/ \E s \in Symbols, w \in Windows : ScanActive(i, s, w)
  \/ ExtendWindow(i) \/ SaveMission(i)

Next ==
  \/ \E i \in Instances : Instance(i) \/ \E m \in Missions : Watcher(i, m)
  \/ \E m \in Missions : DisarmMission(m)
  \/ Tick \/ NewDay

Spec == Init /\ [][Next]_vars
-----------------------------------------------------------------------------
\* However many instances watch a mission, and however often they crash and boot in the
\* middle of it, it prepares and sends at most one entry.
EntersOnce == \A m \in Missions : staged[m] <= 1 /\ entered[m] <= 1

\* handleDisarmMission answers "Disarmed. No order will be placed." and "Already expired.
\* No order was placed.": true for good, against every watcher in flight on any instance.
NoOrderMeansNoOrder ==
  \A m \in Missions : row[m].status \in {"disarmed", "expired"} => staged[m] = 0

\* An entry is on record before it is sent: its mission shows the confirmation id.
EntryIsOnRecord == \A m \in Missions : entered[m] > 0 => row[m].recorded

\* What the user is shown of a mission is true of its entry: at most one, on record
\* before it is sent, none when the mission was called off.
MissionTellsItsEntry == EntersOnce /\ NoOrderMeansNoOrder /\ EntryIsOnRecord

\* A mission that stopped waiting never changes its mind: no stale watcher, sweep, disarm
\* or longer window touches it.
StatusIsFinal ==
  [][\A m \in Missions : row[m].status \notin {"absent", "armed"} =>
       row'[m].status = row[m].status /\ row'[m].left = row[m].left]_vars

\* An armed mission is a one-shot order: offered when armed, claimed by its trigger,
\* filled by its entry, withdrawn when it expires or is disarmed.
PhaseOf(m) ==
  CASE entered[m] > 0 -> "filled"
    [] entered[m] = 0 /\ row[m].status = "triggered" -> "claimed"
    [] entered[m] = 0 /\ row[m].status = "armed" -> "offered"
    [] entered[m] = 0 /\ row[m].status = "absent" -> "none"
    [] OTHER -> "withdrawn"

OneShot == INSTANCE OneShotOrder
             WITH Ids <- Missions, phase <- [m \in Missions |-> PhaseOf(m)]

IsOneShotMission == OneShot!Spec

\* The daily limit lets its number of missions through: one that was under it when it
\* triggered is not refused at its second gate because it has been counted itself.
OwnCountNeverBlocks ==
  \A i \in Instances, m \in Missions :
    At(i, m, "gate") /\ usage[i] - 1 < DailyLimit => UnderLimit(i)
=============================================================================
