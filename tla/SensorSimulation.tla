--------------------------- MODULE SensorSimulation ---------------------------
(***************************************************************************)
(* The sensor simulation (application/simulation.py, driven by             *)
(* _simulation_loop of main.py) against the dispatcher's commands on the   *)
(* same rows (application/services.py).                                    *)
(*                                                                         *)
(* A tick is one READ COMMITTED transaction: it lists every sensor once,   *)
(* then goes through them in the order of their ids, reads the sensor's    *)
(* lift, writes the drifted value, and for a critical value looks for an   *)
(* open CRITICAL event, files an event and a service request when there is *)
(* none, and stops the lift.  Every repository call reads the row afresh,  *)
(* so only what the domain objects carry from one call to the next is      *)
(* stale.  An update first reads the row, then writes the columns that     *)
(* differ from what it read: another writer's commit can come in between,  *)
(* while it waits for the row.  A written row stays locked until its       *)
(* transaction ends; an update that finds no difference writes nothing.    *)
(*                                                                         *)
(* A sensor's value is a level on a grid relative to its threshold, and    *)
(* thresholds do not change.                                               *)
(***************************************************************************)
EXTENDS Integers

CONSTANTS Lifts,
          NumSensors,   \* sensors have the ids 1..NumSensors
          LiftOf,       \* LiftOf[s]: the lift of sensor s
          Clients,      \* commands that can be in flight at a time
          Threshold,    \* the highest normal level
          Critical,     \* the level of threshold * CRITICAL_MULTIPLIER
          MaxLevel,     \* bound: the highest level a drift reaches
          MaxAlarms,    \* bound: alarms of a lift up to which one is resolved
          MaxManual,    \* bound: open CRITICAL events filed by hand on a lift
          Bodies,       \* bound: columns a patch of a lift gives
          Targets,      \* bound: status a restore asks for
          NewLevels     \* bound: levels a patch of a sensor sets

Sensors == 1..NumSensors
Levels == 0..MaxLevel

VARIABLES
    lift,       \* lift[l]: the committed columns status and is_emergency
    level,      \* level[s]: the committed current_value
    alarms,     \* alarms[l]: unresolved CRITICAL events the simulation filed
    manual,     \* manual[l]: open CRITICAL events filed or reopened by hand
    requests,   \* requests[l]: service requests the simulation filed
    announced,  \* sensors that had a WARNING event or a level set by hand
    tick,       \* the tick's transaction
    command     \* command[c]: the client's transaction

vars == <<lift, level, alarms, manual, requests, announced, tick, command>>

Status == {"active", "stopped", "maintenance"}
Columns == {"status", "is_emergency"}
LiftRow == [status : Status, is_emergency : BOOLEAN]
Stopped == [status |-> "stopped", is_emergency |-> TRUE]

ASSUME SimulationAssumption ==
    /\ NumSensors \in Nat
    /\ LiftOf \in [Sensors -> Lifts]
    /\ Threshold \in Nat /\ Critical \in Nat /\ MaxLevel \in Nat
    /\ Threshold < Critical /\ Critical <= MaxLevel
    /\ MaxAlarms \in Nat /\ MaxManual \in Nat
    /\ Bodies \subseteq LiftRow /\ Targets \subseteq Status /\ NewLevels \subseteq Levels

\* What an update that read old wants to write, and the row it leaves.
Changed(row, old) == {k \in Columns : row[k] # old[k]}
Write(old, row, cols) ==
    [status |-> IF "status" \in cols THEN row.status ELSE old.status,
     is_emergency |-> IF "is_emergency" \in cols THEN row.is_emergency ELSE old.is_emergency]

\* _classify
Zone(v) ==
    IF v <= Threshold THEN "normal" ELSE IF v > Critical THEN "critical" ELSE "warning"

\* A plausible bug: the level just below the threshold, not clamped at zero.
UnclampedSafeLevel == Threshold - 1

\* The level restore_operational_state sets, 0.45 of the threshold.
SafeLevel == (45 * Threshold) \div 100

NoTick == [pc |-> "idle"]
Tick == [pc : {"look", "drift", "alarm", "stop", "write", "commit"},
         at : 1..(NumSensors + 1),               \* the sensor being handled
         seen : [Sensors -> Levels],             \* as listed, then as written
         wrote : SUBSET Sensors,                 \* sensor rows written and locked
         stopped : [Lifts -> SUBSET Columns],    \* columns written of each lift
         cols : SUBSET Columns,                  \* columns about to be written
         raised : [Lifts -> Nat],                \* events and requests inserted
         warned : SUBSET Sensors]                \* WARNING events inserted

NoCommand == [op |-> "none"]
PatchLiftCommand == [op : {"patch lift", "write lift"}, lift : Lifts, seen : LiftRow,
                     given : SUBSET Columns, row : LiftRow, cols : SUBSET Columns]
PatchSensorCommand == [op : {"patch sensor"}, sensor : Sensors, level : Levels,
                       given : BOOLEAN]
RestoreCommand == [op : {"restore"}, lift : Lifts, row : LiftRow, cols : SUBSET Columns,
                   at : 0..(NumSensors + 1), wrote : SUBSET Sensors]
Command == {NoCommand} \union PatchLiftCommand \union PatchSensorCommand
           \union RestoreCommand

Init ==
    /\ lift = [l \in Lifts |-> [status |-> "active", is_emergency |-> FALSE]]
    /\ level \in [Sensors -> 0..Threshold]
    /\ alarms = [l \in Lifts |-> 0]
    /\ manual = [l \in Lifts |-> 0]
    /\ requests = [l \in Lifts |-> 0]
    /\ announced = {}
    /\ tick = NoTick
    /\ command = [c \in Clients |-> NoCommand]

-----------------------------------------------------------------------------
(* Row locks.                                                              *)

TickHoldsLift(l) == tick # NoTick /\ tick.stopped[l] # {}
TickHoldsSensor(s) == tick # NoTick /\ s \in tick.wrote

Restoring(c) == command[c].op = "restore"
HoldsLift(c, l) ==
    Restoring(c) /\ command[c].lift = l /\ command[c].at > 0 /\ command[c].cols # {}
HoldsSensor(c, s) == Restoring(c) /\ s \in command[c].wrote

LiftFreeFor(c, l) == ~TickHoldsLift(l) /\ \A d \in Clients \ {c} : ~HoldsLift(d, l)
SensorFreeFor(c, s) == ~TickHoldsSensor(s) /\ \A d \in Clients \ {c} : ~HoldsSensor(d, s)

-----------------------------------------------------------------------------
(* run_sensor_simulation_tick.                                             *)

StartTick ==
    /\ tick = NoTick
    /\ tick' = [pc |-> IF NumSensors = 0 THEN "commit" ELSE "look", at |-> 1,
                seen |-> level, wrote |-> {}, stopped |-> [l \in Lifts |-> {}], cols |-> {},
                raised |-> [l \in Lifts |-> 0], warned |-> {}]
    /\ UNCHANGED <<lift, level, alarms, manual, requests, announced, command>>

\* The loop goes on with the sensor after the one being handled.
NextSensor(t) ==
    [t EXCEPT !.at = @ + 1, !.cols = {},
              !.pc = IF t.at = NumSensors THEN "commit" ELSE "look"]

TickStep(pc) ==
    /\ tick.pc = pc
    /\ UNCHANGED <<lift, level, alarms, manual, requests, announced, command>>

\* What the tick reads of a lift: the committed row under its own writes.
LiftInTick(l) == Write(lift[l], Stopped, tick.stopped[l])

\* A plausible bug: a lift in maintenance is waited for.
AwaitLift ==
    /\ TickStep("look")
    /\ LiftInTick(LiftOf[tick.at]).status # "maintenance"
    /\ tick' = [tick EXCEPT !.pc = "drift"]

\* lifts.get_by_id: a lift in maintenance is left out of the simulation.
LookAtLift ==
    /\ TickStep("look")
    /\ tick' = IF LiftInTick(LiftOf[tick.at]).status = "maintenance"
               THEN NextSensor(tick) ELSE [tick EXCEPT !.pc = "drift"]

\* A plausible bug: the old zone is taken after the sensor was updated.
DriftNoWarning ==
    /\ TickStep("drift")
    /\ \A c \in Clients : ~HoldsSensor(c, tick.at)
    /\ \E new \in {n \in Levels : n - tick.seen[tick.at] \in {-1, 0, 1}} :
         LET wrote == [tick EXCEPT !.seen[tick.at] = new, !.wrote = @ \union {tick.at}]
         IN  tick' = IF Zone(new) = "critical" THEN [wrote EXCEPT !.pc = "alarm"]
                     ELSE NextSensor(wrote)

\* A plausible bug: the zone of the listed value decides.
DriftListedZone ==
    /\ TickStep("drift")
    /\ \A c \in Clients : ~HoldsSensor(c, tick.at)
    /\ \E new \in {n \in Levels : n - tick.seen[tick.at] \in {-1, 0, 1}} :
         LET wrote == [tick EXCEPT !.seen[tick.at] = new, !.wrote = @ \union {tick.at}]
         IN  tick' = IF Zone(tick.seen[tick.at]) = "critical"
                     THEN [wrote EXCEPT !.pc = "alarm"]
                     ELSE NextSensor([wrote EXCEPT !.warned = @ \union {tick.at}])

\* sensors.update with the listed value plus a drift, and what follows from
\* the zones before and after.
Drift ==
    /\ TickStep("drift")
    /\ \A c \in Clients : ~HoldsSensor(c, tick.at)
    /\ \E new \in {n \in Levels : n - tick.seen[tick.at] \in {-1, 0, 1}} :
         LET wrote == [tick EXCEPT !.seen[tick.at] = new, !.wrote = @ \union {tick.at}]
             worse == Zone(new) = "warning" /\ Zone(tick.seen[tick.at]) = "normal"
         IN  tick' = IF Zone(new) = "critical" THEN [wrote EXCEPT !.pc = "alarm"]
                     ELSE IF worse THEN NextSensor([wrote EXCEPT !.warned = @ \union {tick.at}])
                     ELSE NextSensor(wrote)

\* A plausible bug: an insert that is not flushed before the next query.
OpenCriticalCommitted(l) == alarms[l] + manual[l] > 0

\* has_open_critical_for_lift: committed events and the tick's own inserts.
HasOpenCritical(l) == alarms[l] + manual[l] + tick.raised[l] > 0

\* A plausible bug: the lift is only stopped along with a new event.
RaiseOrIgnore ==
    /\ TickStep("alarm")
    /\ LET l == LiftOf[tick.at] IN
       tick' = IF HasOpenCritical(l) THEN NextSensor(tick)
               ELSE [tick EXCEPT !.pc = "stop", !.raised[l] = @ + 1]

\* _handle_critical: the event and the request.
RaiseAlarm ==
    /\ TickStep("alarm")
    /\ LET l == LiftOf[tick.at] IN
       tick' = [tick EXCEPT !.pc = "stop",
                            !.raised[l] = IF HasOpenCritical(l) THEN @ ELSE @ + 1]

\* lifts.update in _handle_critical: the read.
ReadLift ==
    /\ TickStep("stop")
    /\ LET cols == Changed(Stopped, LiftInTick(LiftOf[tick.at])) IN
       tick' = IF cols = {} THEN NextSensor(tick)
               ELSE [tick EXCEPT !.pc = "write", !.cols = cols]

\* The write, once the row is free.
StopLift ==
    /\ TickStep("write")
    /\ LET l == LiftOf[tick.at] IN
       /\ \A c \in Clients : ~HoldsLift(c, l)
       /\ tick' = NextSensor([tick EXCEPT !.stopped[l] = @ \union tick.cols])

CommitTick ==
    /\ tick.pc = "commit"
    /\ level' = [s \in Sensors |-> IF s \in tick.wrote THEN tick.seen[s] ELSE level[s]]
    /\ lift' = [l \in Lifts |-> LiftInTick(l)]
    /\ alarms' = [l \in Lifts |-> alarms[l] + tick.raised[l]]
    /\ requests' = [l \in Lifts |-> requests[l] + tick.raised[l]]
    /\ announced' = announced \union tick.warned
    /\ tick' = NoTick
    /\ UNCHANGED <<manual, command>>

\* A plausible bug: an event and its request are committed at once.
AbortTickKeepsAlarms ==
    /\ tick # NoTick
    /\ alarms' = [l \in Lifts |-> alarms[l] + tick.raised[l]]
    /\ requests' = [l \in Lifts |-> requests[l] + tick.raised[l]]
    /\ tick' = NoTick
    /\ UNCHANGED <<lift, level, manual, announced, command>>

\* An exception or a restart of the process: everything is rolled back, and
\* the loop starts a new tick later.
AbortTick ==
    /\ tick # NoTick
    /\ tick' = NoTick
    /\ UNCHANGED <<lift, level, alarms, manual, requests, announced, command>>

-----------------------------------------------------------------------------
(* The dispatcher's commands.                                              *)

Advance(c, r) ==
    /\ command' = [command EXCEPT ![c] = r]
    /\ UNCHANGED <<lift, level, alarms, manual, requests, announced, tick>>

Begin(c, r) == command[c] = NoCommand /\ Advance(c, r)
EndCommand(c) == command' = [command EXCEPT ![c] = NoCommand]

\* A plausible bug: a column the body leaves out gets the schema's default.
BeginPatchLiftDefaults(c, l, given, body) ==
    Begin(c, [op |-> "patch lift", lift |-> l, given |-> given, seen |-> lift[l], cols |-> {},
              row |-> Write([status |-> "active", is_emergency |-> FALSE], body, given)])

\* LiftCommandService.update up to lifts.update: the columns the body leaves
\* out are filled in from the lift as read here.  With both columns given it
\* is also the report that closes a repair (is_emergency FALSE), and a restore
\* without sensors.
BeginPatchLift(c, l, given, body) ==
    Begin(c, [op |-> "patch lift", lift |-> l, given |-> given, seen |-> lift[l],
              row |-> Write(lift[l], body, given), cols |-> {}])

\* lifts.update: the read.
ReadLiftAgain(c) ==
    /\ command[c].op = "patch lift"
    /\ Advance(c, [command[c] EXCEPT !.op = "write lift",
                      !.cols = Changed(command[c].row, lift[command[c].lift])])

\* The write and the commit.
PatchLift(c) ==
    LET r == command[c] IN
    /\ r.op = "write lift"
    /\ r.cols # {} => LiftFreeFor(c, r.lift)
    /\ lift' = [lift EXCEPT ![r.lift] = Write(@, r.row, r.cols)]
    /\ EndCommand(c)
    /\ UNCHANGED <<level, alarms, manual, requests, announced, tick>>

\* SensorCommandService.update, the same way.
BeginPatchSensor(c, s, given, v) ==
    Begin(c, [op |-> "patch sensor", sensor |-> s, given |-> given,
              level |-> IF given THEN v ELSE level[s]])

PatchSensor(c) ==
    LET r == command[c] IN
    /\ r.op = "patch sensor"
    /\ level[r.sensor] = r.level \/ SensorFreeFor(c, r.sensor)
    /\ level' = [level EXCEPT ![r.sensor] = r.level]
    /\ announced' = IF r.given THEN announced \union {r.sensor} ELSE announced
    /\ EndCommand(c)
    /\ UNCHANGED <<lift, alarms, manual, requests, tick>>

\* restore_operational_state with reset_sensors: lifts.update reads the lift,
BeginRestore(c, l, status) ==
    LET row == [status |-> status, is_emergency |-> FALSE] IN
    Begin(c, [op |-> "restore", lift |-> l, row |-> row,
              cols |-> Changed(row, lift[l]), at |-> 0, wrote |-> {}])

\* writes what differs,
RestoreLift(c) ==
    LET r == command[c] IN
    /\ Restoring(c) /\ r.at = 0
    /\ r.cols # {} => LiftFreeFor(c, r.lift)
    /\ Advance(c, [r EXCEPT !.at = 1])

\* then sets the lift's sensors in the order of their ids; one that has the
\* safe value already is not written, one only near it is.
RestoreSensor(c) ==
    LET r == command[c] IN
    /\ Restoring(c) /\ r.at \in Sensors
    /\ \/ /\ LiftOf[r.at] # r.lift \/ level[r.at] = SafeLevel
          /\ Advance(c, [r EXCEPT !.at = @ + 1])
       \/ /\ LiftOf[r.at] = r.lift
          /\ SensorFreeFor(c, r.at)
          /\ Advance(c, [r EXCEPT !.at = @ + 1, !.wrote = @ \union {r.at}])

CommitRestore(c) ==
    LET r == command[c] IN
    /\ Restoring(c) /\ r.at = NumSensors + 1
    /\ lift' = [lift EXCEPT ![r.lift] = Write(@, r.row, r.cols)]
    /\ level' = [s \in Sensors |-> IF s \in r.wrote THEN SafeLevel ELSE level[s]]
    /\ EndCommand(c)
    /\ UNCHANGED <<alarms, manual, requests, announced, tick>>

AbortCommand(c) ==
    /\ command[c] # NoCommand
    /\ EndCommand(c)
    /\ UNCHANGED <<lift, level, alarms, manual, requests, announced, tick>>

\* EventCommandService.create of a CRITICAL event, or an update that opens one.
FileCritical(l) ==
    /\ manual[l] < MaxManual
    /\ manual' = [manual EXCEPT ![l] = @ + 1]
    /\ UNCHANGED <<lift, level, alarms, requests, announced, tick, command>>

\* EventCommandService.update with the status RESOLVED.
ResolveCritical(l) ==
    /\ \/ /\ manual[l] > 0
          /\ manual' = [manual EXCEPT ![l] = @ - 1]
          /\ UNCHANGED alarms
       \/ /\ alarms[l] > 0 /\ requests[l] < MaxAlarms
          /\ alarms' = [alarms EXCEPT ![l] = @ - 1]
          /\ UNCHANGED manual
    /\ UNCHANGED <<lift, level, requests, announced, tick, command>>

\* The tick holds a sensor and wants the lift, the restore holds the lift and
\* wants the sensor.
Deadlocked(c) ==
    /\ tick.pc = "write" /\ Restoring(c)
    /\ HoldsLift(c, LiftOf[tick.at])
    /\ command[c].at \in tick.wrote /\ LiftOf[command[c].at] = command[c].lift

\* PostgreSQL rolls one of the two back; the other goes on.
BreakDeadlock(c) ==
    /\ tick # NoTick
    /\ Deadlocked(c)
    /\ \/ tick' = NoTick /\ UNCHANGED command
       \/ EndCommand(c) /\ UNCHANGED tick
    /\ UNCHANGED <<lift, level, alarms, manual, requests, announced>>

-----------------------------------------------------------------------------

TickNext ==
    \/ StartTick \/ LookAtLift \/ Drift \/ RaiseAlarm \/ ReadLift \/ StopLift \/ CommitTick

BeginSome(c) ==
    \/ \E l \in Lifts, given \in SUBSET Columns, body \in Bodies :
         BeginPatchLift(c, l, given, body)
    \/ \E s \in Sensors, given \in BOOLEAN, v \in NewLevels : BeginPatchSensor(c, s, given, v)
    \/ \E l \in Lifts, status \in Targets : BeginRestore(c, l, status)

Finish(c) ==
    \/ ReadLiftAgain(c) \/ PatchLift(c)
    \/ PatchSensor(c)
    \/ RestoreLift(c) \/ RestoreSensor(c) \/ CommitRestore(c)

Next ==
    \/ TickNext
    \/ AbortTick
    \/ \E c \in Clients : BeginSome(c) \/ Finish(c) \/ AbortCommand(c) \/ BreakDeadlock(c)
    \/ \E l \in Lifts : FileCritical(l) \/ ResolveCritical(l)

SafeSpec == Init /\ [][Next]_vars

\* The loop survives its exceptions and sleeps a bounded time; a command that
\* has begun runs on; PostgreSQL queues the waiters of a row, so nobody waits
\* for one that keeps becoming free, and it looks for deadlocks.
Spec ==
    /\ SafeSpec
    /\ SF_vars(TickNext)
    /\ \A c \in Clients : SF_vars(Finish(c)) /\ WF_vars(BreakDeadlock(c))

-----------------------------------------------------------------------------
(* Properties.                                                             *)

\* The type invariant.
TypeOK ==
    /\ lift \in [Lifts -> LiftRow]
    /\ level \in [Sensors -> Levels]
    /\ alarms \in [Lifts -> Nat]
    /\ manual \in [Lifts -> Nat]
    /\ requests \in [Lifts -> Nat]
    /\ announced \in SUBSET Sensors
    /\ tick \in {NoTick} \union Tick
    /\ command \in [Clients -> Command]

\* However many sensors of a lift are critical and however the events are
\* resolved meanwhile, the simulation has at most one unresolved alarm on a
\* lift, its own uncommitted one included.
OneAlarmPerLift ==
    \A l \in Lifts : alarms[l] + (IF tick = NoTick THEN 0 ELSE tick.raised[l]) <= 1

\* The simulation touches a lift's row only for a sensor of that lift that is
\* critical in the very state its transaction commits, whatever the commands
\* wrote since the sensors were listed.
StopsAreJustified ==
    [][\A l \in Lifts :
         lift'[l] # lift[l] /\ tick' # tick =>
            \E s \in Sensors : LiftOf[s] = l /\ Zone(level'[s]) = "critical"]_vars

\* Nobody is alarmed without notice: when the simulation files an alarm, some
\* sensor of the lift had a WARNING event before, or was set by hand, also if
\* restores and rolled back ticks came in between.
AlarmsAreAnnounced ==
    [][\A l \in Lifts :
         alarms'[l] > alarms[l] => \E s \in announced' : LiftOf[s] = l]_vars

\* A stopped lift goes back to another state only by a restore, by a patch
\* that was given one of the columns, or by one that was given neither and
\* filled them in from a lift it read before the stop.
StopsAreNotForgotten ==
    [][\A l \in Lifts :
         lift[l] = Stopped /\ lift'[l] # Stopped =>
            \E c \in Clients :
                /\ command[c] # NoCommand /\ command'[c] = NoCommand
                /\ Restoring(c) \/ command[c].given # {} \/ command[c].seen # Stopped]_vars

\* To who sees only what is committed a tick is one step, whatever commands
\* commit while it runs and however often it is rolled back: an alarm comes
\* with its service request, where there is none, and it and a stop only for a
\* sensor that is critical in the same step, never from levels of another time.
Emergency == INSTANCE Emergencies
    WITH Abnormal <- {v \in Levels : Zone(v) # "normal"},
         Dire <- {v \in Levels : Zone(v) = "critical"},
         Safe <- SafeLevel
ImplementsEmergencies == Emergency!Spec

\* No tick waits for ever for the commands' locks.
TicksEnd == (tick # NoTick) ~> (tick = NoTick)

\* A lift one of whose sensors stays critical ends up stopped for good, if it
\* is not in maintenance, the commands pause, and ticks still commit; also
\* when an open event keeps the simulation from filing one.
CriticalLiftStops ==
    \A s \in Sensors :
        /\ <>[](/\ Zone(level[s]) = "critical"
                /\ lift[LiftOf[s]].status # "maintenance"
                /\ \A c \in Clients : command[c] = NoCommand)
        /\ []<><<CommitTick>>_vars
        => <>[](lift[LiftOf[s]] = Stopped)

\* Contradicted by the code: a tick that has raised an alarm and written the
\* lift, with the warning "emergency stop of the lift" (simulation.py:127),
\* leaves it stopped when it commits.
EmergencyStopsLift ==
    [][\A l \in Lifts :
           CommitTick /\ tick.raised[l] > 0 /\ tick.stopped[l] # {}
               => lift'[l] = Stopped]_vars
=============================================================================
