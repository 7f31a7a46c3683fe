------------------------ MODULE SensorSimulationProofs ------------------------
(* Theorems about SensorSimulation.                                        *)
EXTENDS SensorSimulation, TLAPS

\* A tick that is not over is at one of the sensors.
AtSensor == tick # NoTick /\ tick.pc # "commit" => tick.at \in Sensors

Typed == TypeOK /\ AtSensor

\* Writing columns of a typed row over a typed row gives a typed row.
LEMMA WriteType ==
    ASSUME NEW old \in LiftRow, NEW row \in LiftRow, NEW cols
    PROVE  Write(old, row, cols) \in LiftRow
  BY DEF Write, LiftRow

\* Writing no column changes nothing.
LEMMA WriteNothing ==
    ASSUME NEW old \in LiftRow, NEW row
    PROVE  Write(old, row, {}) = old
  BY DEF Write, LiftRow

LEMMA StoppedType == Stopped \in LiftRow
  BY DEF Stopped, LiftRow, Status

LEMMA SafeLevelType == SafeLevel \in Levels
  BY SimulationAssumption DEF SafeLevel, Levels

LEMMA InitTyped == Init => Typed
  <1> SUFFICES ASSUME Init PROVE Typed
    OBVIOUS
  <1>1. lift \in [Lifts -> LiftRow]
    BY DEF Init, LiftRow, Status
  <1>2. level \in [Sensors -> Levels]
    BY SimulationAssumption DEF Init, Levels
  <1>3. command \in [Clients -> Command]
    BY DEF Init, Command
  <1> QED
    BY <1>1, <1>2, <1>3 DEF Init, Typed, TypeOK, AtSensor

\* The records of the commands, by the kind of command.
LEMMA CommandKinds ==
    ASSUME Typed, NEW c \in Clients
    PROVE  /\ command[c].op \in {"patch lift", "write lift"} => command[c] \in PatchLiftCommand
           /\ command[c].op = "patch sensor" => command[c] \in PatchSensorCommand
           /\ command[c].op = "restore" => command[c] \in RestoreCommand
  <1>1. PICK r \in Command : r = command[c]
    BY DEF Typed, TypeOK
  <1>2. r \in PatchLiftCommand => r.op \in {"patch lift", "write lift"}
    BY DEF PatchLiftCommand
  <1>3. r \in PatchSensorCommand => r.op = "patch sensor"
    BY DEF PatchSensorCommand
  <1>4. r \in RestoreCommand => r.op = "restore"
    BY DEF RestoreCommand
  <1>5. r = NoCommand => r.op = "none"
    BY DEF NoCommand
  <1> QED
    BY <1>1, <1>2, <1>3, <1>4, <1>5 DEF Command

-----------------------------------------------------------------------------
(* The steps of a tick.                                                    *)

\* The fields of a tick under way.
LEMMA TickFields ==
    ASSUME Typed, tick # NoTick
    PROVE  /\ tick \in Tick
           /\ tick.at \in 1..(NumSensors + 1)
           /\ tick.seen \in [Sensors -> Levels]
           /\ tick.wrote \subseteq Sensors
           /\ tick.stopped \in [Lifts -> SUBSET Columns]
           /\ tick.cols \subseteq Columns
           /\ tick.raised \in [Lifts -> Nat]
           /\ tick.warned \subseteq Sensors
  BY DEF Typed, TypeOK, Tick

\* Going on to the next sensor keeps a tick in its type.
LEMMA NextSensorType ==
    ASSUME NEW t \in Tick, t.at \in Sensors
    PROVE  /\ NextSensor(t) \in Tick
           /\ NextSensor(t).pc # "commit" => NextSensor(t).at \in Sensors
           /\ NextSensor(t).pc \in {"look", "commit"}
           /\ NextSensor(t).at = t.at + 1
           /\ NextSensor(t).seen = t.seen
           /\ NextSensor(t).wrote = t.wrote
           /\ NextSensor(t).stopped = t.stopped
           /\ NextSensor(t).raised = t.raised
           /\ NextSensor(t).warned = t.warned
  <1> DEFINE n == t.at + 1
             pc == IF t.at = NumSensors THEN "commit" ELSE "look"
  <1>1. /\ n \in 1..(NumSensors + 1)
        /\ pc \in {"look", "commit"}
        /\ pc # "commit" => n \in Sensors
    BY SimulationAssumption DEF Sensors
  <1>2. NextSensor(t) = [t EXCEPT !.at = n, !.cols = {}, !.pc = pc]
    BY DEF NextSensor
  <1> HIDE DEF n, pc
  <1>3. /\ NextSensor(t).pc = pc
        /\ NextSensor(t).at = n
    BY <1>2 DEF Tick
  <1>4. /\ NextSensor(t).seen = t.seen
        /\ NextSensor(t).wrote = t.wrote
        /\ NextSensor(t).stopped = t.stopped
        /\ NextSensor(t).raised = t.raised
        /\ NextSensor(t).warned = t.warned
    BY <1>2 DEF Tick
  <1>5. NextSensor(t) \in Tick
    BY <1>1, <1>2 DEF Tick
  <1> QED
    BY <1>1, <1>3, <1>4, <1>5 DEF n

\* What a drift leaves of the tick: the sensor is written at its new level,
\* and the tick stays at it only for an alarm.
LEMMA DriftFields ==
    ASSUME Drift, tick \in Tick, tick.at \in Sensors
    PROVE  /\ tick' \in Tick /\ (tick'.pc # "commit" => tick'.at \in Sensors)
           /\ \E new \in Levels :
                /\ tick'.seen = [tick.seen EXCEPT ![tick.at] = new]
                /\ \/ tick'.pc = "alarm" /\ tick'.at = tick.at /\ Zone(new) = "critical"
                   \/ tick'.pc \in {"look", "commit"} /\ tick'.at = tick.at + 1
                /\ new - tick.seen[tick.at] \in {-1, 0, 1}
                /\ Zone(new) = "warning" /\ Zone(tick.seen[tick.at]) = "normal"
                      => tick.at \in tick'.warned
           /\ tick.warned \subseteq tick'.warned
           /\ tick'.wrote = tick.wrote \union {tick.at}
           /\ tick'.stopped = tick.stopped /\ tick'.raised = tick.raised
  <1> DEFINE worse(n) == Zone(n) = "warning" /\ Zone(tick.seen[tick.at]) = "normal"
  <1>1. PICK new \in {n \in Levels : n - tick.seen[tick.at] \in {-1, 0, 1}} :
          LET wrote == [tick EXCEPT !.seen[tick.at] = new, !.wrote = @ \union {tick.at}]
          IN  \/ tick' = [wrote EXCEPT !.pc = "alarm"] /\ Zone(new) = "critical"
              \/ tick' = NextSensor([wrote EXCEPT !.warned = @ \union {tick.at}])
              \/ tick' = NextSensor(wrote) /\ ~worse(new)
    BY DEF Drift
  <1> DEFINE t == [tick EXCEPT !.seen[tick.at] = new, !.wrote = @ \union {tick.at}]
             u == [t EXCEPT !.warned = @ \union {tick.at}]
  <1>2. /\ t \in Tick /\ t.at = tick.at
        /\ t.seen = [tick.seen EXCEPT ![tick.at] = new]
        /\ t.wrote = tick.wrote \union {tick.at}
        /\ t.stopped = tick.stopped /\ t.raised = tick.raised /\ t.warned = tick.warned
    BY DEF Tick
  <1>3. \/ tick' = [t EXCEPT !.pc = "alarm"] /\ Zone(new) = "critical"
        \/ tick' = NextSensor(u)
        \/ tick' = NextSensor(t) /\ ~worse(new)
    BY <1>1
  <1> HIDE DEF t, worse
  <1>4. /\ u \in Tick /\ u.at = t.at /\ u.seen = t.seen /\ u.wrote = t.wrote
        /\ u.stopped = t.stopped /\ u.raised = t.raised
        /\ u.warned = t.warned \union {tick.at}
    BY <1>2 DEF Tick
  <1> HIDE DEF u
  <1>5. CASE tick' = [t EXCEPT !.pc = "alarm"] /\ Zone(new) = "critical"
    <2>1. /\ tick' \in Tick /\ tick'.pc = "alarm" /\ tick'.at = t.at /\ tick'.seen = t.seen
          /\ tick'.wrote = t.wrote /\ tick'.stopped = t.stopped /\ tick'.raised = t.raised
          /\ tick'.warned = t.warned
      BY <1>2, <1>5 DEF Tick
    <2> QED
      BY <1>2, <1>5, <2>1
  <1>6. CASE tick' = NextSensor(u)
    BY <1>2, <1>4, <1>6, NextSensorType
  <1>7. CASE tick' = NextSensor(t) /\ ~worse(new)
    BY <1>2, <1>7, NextSensorType DEF worse
  <1> QED
    BY <1>3, <1>5, <1>6, <1>7

\* What the look at a lift leaves of the tick.
LEMMA LookFields ==
    ASSUME LookAtLift, tick \in Tick, tick.at \in Sensors
    PROVE  /\ tick' \in Tick /\ (tick'.pc # "commit" => tick'.at \in Sensors)
           /\ \/ tick'.pc \in {"look", "commit"} /\ tick'.at = tick.at + 1
              \/ tick'.pc = "drift" /\ tick'.at = tick.at
           /\ tick'.seen = tick.seen /\ tick'.wrote = tick.wrote
           /\ tick'.stopped = tick.stopped /\ tick'.raised = tick.raised
           /\ tick'.warned = tick.warned
  <1>1. tick' = NextSensor(tick) \/ tick' = [tick EXCEPT !.pc = "drift"]
    BY DEF LookAtLift
  <1>2. CASE tick' = NextSensor(tick)
    BY <1>2, NextSensorType
  <1>3. CASE tick' = [tick EXCEPT !.pc = "drift"]
    BY <1>3 DEF Tick
  <1> QED
    BY <1>1, <1>2, <1>3

\* What an alarm leaves of the tick.
LEMMA AlarmFields ==
    ASSUME RaiseAlarm, tick \in Tick, tick.at \in Sensors, LiftOf[tick.at] \in Lifts
    PROVE  /\ tick' \in Tick /\ tick'.pc = "stop" /\ tick'.at = tick.at
           /\ tick'.seen = tick.seen /\ tick'.wrote = tick.wrote
           /\ tick'.stopped = tick.stopped /\ tick'.warned = tick.warned
           /\ LET l == LiftOf[tick.at] IN
              tick'.raised = [tick.raised EXCEPT
                                ![l] = IF HasOpenCritical(l) THEN @ ELSE @ + 1]
  <1> DEFINE l == LiftOf[tick.at]
             n == IF HasOpenCritical(l) THEN tick.raised[l] ELSE tick.raised[l] + 1
  <1>1. tick.raised[l] \in Nat
    BY DEF Tick
  <1>2. n \in Nat
    BY <1>1
  <1>3. tick' = [tick EXCEPT !.pc = "stop", !.raised[l] = n]
    BY DEF RaiseAlarm
  <1>4. tick'.raised = [tick.raised EXCEPT ![l] = n]
    <2> HIDE DEF n
    <2> QED
      BY <1>3 DEF Tick
  <1>5. /\ tick' \in Tick /\ tick'.pc = "stop" /\ tick'.at = tick.at
        /\ tick'.seen = tick.seen /\ tick'.wrote = tick.wrote
        /\ tick'.stopped = tick.stopped /\ tick'.warned = tick.warned
    <2> HIDE DEF n
    <2> QED
      BY <1>2, <1>3 DEF Tick
  <1> QED
    BY <1>4, <1>5

\* What the second read of a lift leaves of the tick.
LEMMA ReadLiftFields ==
    ASSUME ReadLift, tick \in Tick, tick.at \in Sensors
    PROVE  /\ tick' \in Tick /\ (tick'.pc # "commit" => tick'.at \in Sensors)
           /\ \/ tick'.pc \in {"look", "commit"} /\ tick'.at = tick.at + 1
              \/ tick'.pc = "write" /\ tick'.at = tick.at
           /\ tick'.seen = tick.seen /\ tick'.wrote = tick.wrote
           /\ tick'.stopped = tick.stopped /\ tick'.raised = tick.raised
           /\ tick'.warned = tick.warned
  <1> DEFINE cols == Changed(Stopped, LiftInTick(LiftOf[tick.at]))
  <1>1. cols \in SUBSET Columns
    BY DEF Changed
  <1>2. tick' = NextSensor(tick) \/ tick' = [tick EXCEPT !.pc = "write", !.cols = cols]
    BY DEF ReadLift
  <1> HIDE DEF cols
  <1>3. CASE tick' = NextSensor(tick)
    BY <1>3, NextSensorType
  <1>4. CASE tick' = [tick EXCEPT !.pc = "write", !.cols = cols]
    BY <1>1, <1>4 DEF Tick
  <1> QED
    BY <1>2, <1>3, <1>4

\* What the write of a lift leaves of the tick.
LEMMA StopLiftFields ==
    ASSUME StopLift, tick \in Tick, tick.at \in Sensors, LiftOf[tick.at] \in Lifts
    PROVE  /\ tick' \in Tick /\ (tick'.pc # "commit" => tick'.at \in Sensors)
           /\ tick'.pc \in {"look", "commit"} /\ tick'.at = tick.at + 1
           /\ tick'.seen = tick.seen /\ tick'.wrote = tick.wrote
           /\ tick'.raised = tick.raised /\ tick'.warned = tick.warned
           /\ \A l \in Lifts : tick'.stopped[l] # {} =>
                l = LiftOf[tick.at] \/ tick.stopped[l] # {}
  <1> DEFINE t == [tick EXCEPT !.stopped[LiftOf[tick.at]] = @ \union tick.cols]
  <1>1. /\ t \in Tick /\ t.at = tick.at /\ t.seen = tick.seen /\ t.wrote = tick.wrote
        /\ t.raised = tick.raised /\ t.warned = tick.warned
        /\ \A l \in Lifts : t.stopped[l] # {} => l = LiftOf[tick.at] \/ tick.stopped[l] # {}
    BY DEF Tick
  <1>2. tick' = NextSensor(t)
    BY DEF StopLift
  <1> HIDE DEF t
  <1> QED
    BY <1>1, <1>2, NextSensorType

LEMMA StepTyped == Typed /\ [Next]_vars => Typed'
  <1> SUFFICES ASSUME Typed, [Next]_vars PROVE Typed'
    OBVIOUS
  <1> USE SimulationAssumption
  <1>a. ASSUME NEW pc \in {"look", "drift", "alarm", "stop", "write"}, TickStep(pc),
               tick' \in Tick, tick'.pc # "commit" => tick'.at \in Sensors
        PROVE  Typed'
    BY <1>a DEF TickStep, Typed, TypeOK, AtSensor
  <1>b. ASSUME NEW pc \in {"look", "drift", "alarm", "stop", "write"}, TickStep(pc)
        PROVE  tick # NoTick /\ tick \in Tick /\ tick.at \in Sensors /\ LiftOf[tick.at] \in Lifts
    BY <1>b DEF TickStep, Typed, TypeOK, AtSensor, NoTick
  <1>1. CASE StartTick
    <2>1. tick' \in Tick
      BY <1>1 DEF StartTick, Tick, Typed, TypeOK
    <2> QED
      BY <1>1, <2>1 DEF StartTick, Typed, TypeOK, AtSensor, Sensors
  <1>2. CASE LookAtLift
    <2>1. TickStep("look")
      BY <1>2 DEF LookAtLift
    <2> QED
      BY <1>2, <1>a, <1>b, <2>1, LookFields
  <1>3. CASE Drift
    <2>1. TickStep("drift")
      BY <1>3 DEF Drift
    <2> QED
      BY <1>3, <1>a, <1>b, <2>1, DriftFields
  <1>4. CASE RaiseAlarm
    <2>1. TickStep("alarm")
      BY <1>4 DEF RaiseAlarm
    <2> QED
      BY <1>4, <1>a, <1>b, <2>1, AlarmFields
  <1>5. CASE ReadLift
    <2>1. TickStep("stop")
      BY <1>5 DEF ReadLift
    <2> QED
      BY <1>5, <1>a, <1>b, <2>1, ReadLiftFields
  <1>6. CASE StopLift
    <2>1. TickStep("write")
      BY <1>6 DEF StopLift
    <2> QED
      BY <1>6, <1>a, <1>b, <2>1, StopLiftFields
  <1>7. CASE CommitTick
    <2>1. tick # NoTick
      BY <1>7 DEF CommitTick, NoTick
    <2>2. level' \in [Sensors -> Levels]
      BY <1>7, <2>1, TickFields DEF CommitTick, Typed, TypeOK
    <2>3. lift' \in [Lifts -> LiftRow]
      BY <1>7, WriteType, StoppedType DEF CommitTick, LiftInTick, Typed, TypeOK
    <2>4. alarms' \in [Lifts -> Nat] /\ requests' \in [Lifts -> Nat]
      BY <1>7, <2>1, TickFields DEF CommitTick, Typed, TypeOK
    <2>5. announced' \subseteq Sensors
      BY <1>7, <2>1, TickFields DEF CommitTick, Typed, TypeOK
    <2> QED
      BY <1>7, <2>2, <2>3, <2>4, <2>5 DEF CommitTick, Typed, TypeOK, AtSensor
  <1>8. CASE AbortTick
    BY <1>8 DEF AbortTick, Typed, TypeOK, AtSensor
  <1>9. ASSUME NEW c \in Clients, NEW r \in Command, Advance(c, r)
        PROVE  Typed'
    BY <1>9 DEF Advance, Typed, TypeOK, AtSensor
  <1>10. ASSUME NEW c \in Clients, EndCommand(c)
         PROVE  command' \in [Clients -> Command]
    BY <1>10 DEF EndCommand, Typed, TypeOK, Command
  <1>11. ASSUME NEW c \in Clients, BeginSome(c)
         PROVE  Typed'
    <2>1. ASSUME NEW l \in Lifts, NEW given \in SUBSET Columns, NEW body \in Bodies,
                 BeginPatchLift(c, l, given, body)
          PROVE  Typed'
      <3>1. lift[l] \in LiftRow /\ Write(lift[l], body, given) \in LiftRow
        BY WriteType DEF Typed, TypeOK
      <3>2. PICK r \in PatchLiftCommand : Advance(c, r)
        BY <2>1, <3>1 DEF BeginPatchLift, Begin, PatchLiftCommand
      <3> QED
        BY <1>9, <3>2 DEF Command
    <2>2. ASSUME NEW s \in Sensors, NEW given \in BOOLEAN, NEW v \in NewLevels,
                 BeginPatchSensor(c, s, given, v)
          PROVE  Typed'
      <3>1. (IF given THEN v ELSE level[s]) \in Levels
        BY DEF Typed, TypeOK
      <3>2. PICK r \in PatchSensorCommand : Advance(c, r)
        BY <2>2, <3>1 DEF BeginPatchSensor, Begin, PatchSensorCommand
      <3> QED
        BY <1>9, <3>2 DEF Command
    <2>3. ASSUME NEW l \in Lifts, NEW status \in Targets, BeginRestore(c, l, status)
          PROVE  Typed'
      <3>1. [status |-> status, is_emergency |-> FALSE] \in LiftRow
        BY DEF LiftRow
      <3> DEFINE row == [status |-> status, is_emergency |-> FALSE]
                 cols == Changed(row, lift[l])
                 r == [op |-> "restore", lift |-> l, row |-> row, cols |-> cols,
                       at |-> 0, wrote |-> {}]
      <3>2. cols \in SUBSET Columns
        BY DEF Changed
      <3>3. Advance(c, r)
        BY <2>3 DEF BeginRestore, Begin
      <3> HIDE DEF cols
      <3>4. r \in RestoreCommand
        BY <3>1, <3>2 DEF RestoreCommand
      <3> QED
        BY <1>9, <3>3, <3>4 DEF Command
    <2> QED
      BY <1>11, <2>1, <2>2, <2>3 DEF BeginSome
  <1>12. ASSUME NEW c \in Clients, Finish(c)
         PROVE  Typed'
    <2> command[c] \in Command
      BY DEF Typed, TypeOK
    <2>1. CASE ReadLiftAgain(c)
      <3>1. command[c] \in PatchLiftCommand
        BY <2>1, CommandKinds DEF ReadLiftAgain
      <3> DEFINE cols == Changed(command[c].row, lift[command[c].lift])
                 r == [command[c] EXCEPT !.op = "write lift", !.cols = cols]
      <3>2. cols \in SUBSET Columns
        BY DEF Changed
      <3>3. Advance(c, r)
        BY <2>1 DEF ReadLiftAgain
      <3> HIDE DEF cols
      <3>4. r \in PatchLiftCommand
        BY <3>1, <3>2 DEF PatchLiftCommand
      <3> QED
        BY <1>9, <3>3, <3>4 DEF Command
    <2>2. CASE PatchLift(c)
      <3>1. command[c] \in PatchLiftCommand
        BY <2>2, CommandKinds DEF PatchLift
      <3>2. command[c].lift \in Lifts /\ command[c].row \in LiftRow
        BY <3>1 DEF PatchLiftCommand
      <3>3. lift' \in [Lifts -> LiftRow]
        BY <2>2, <3>2, WriteType DEF PatchLift, Typed, TypeOK
      <3> QED
        BY <1>10, <2>2, <3>3 DEF PatchLift, Typed, TypeOK, AtSensor
    <2>3. CASE PatchSensor(c)
      <3>1. command[c] \in PatchSensorCommand
        BY <2>3, CommandKinds DEF PatchSensor
      <3>2. command[c].sensor \in Sensors /\ command[c].level \in Levels
        BY <3>1 DEF PatchSensorCommand
      <3> QED
        BY <1>10, <2>3, <3>2 DEF PatchSensor, Typed, TypeOK, AtSensor
    <2>4. ASSUME Restoring(c)
          PROVE  command[c] \in RestoreCommand
      BY <2>4, CommandKinds DEF Restoring
    <2>5. CASE RestoreLift(c)
      <3>1. PICK r \in RestoreCommand : r = command[c]
        BY <2>4, <2>5 DEF RestoreLift
      <3>2. [r EXCEPT !.at = 1] \in RestoreCommand
        BY DEF RestoreCommand
      <3> QED
        BY <1>9, <2>5, <3>1, <3>2 DEF RestoreLift, Command
    <2>6. CASE RestoreSensor(c)
      <3>1. command[c] \in RestoreCommand /\ command[c].at \in Sensors
        BY <2>4, <2>6 DEF RestoreSensor
      <3> DEFINE r == command[c]
                 n == r.at + 1
                 w == r.wrote \union {r.at}
      <3>2. n \in 0..(NumSensors + 1) /\ w \in SUBSET Sensors
        BY <3>1 DEF RestoreCommand, Sensors
      <3>3. \/ Advance(c, [r EXCEPT !.at = n])
            \/ Advance(c, [r EXCEPT !.at = n, !.wrote = w])
        BY <2>6 DEF RestoreSensor
      <3> HIDE DEF n, w
      <3>4. [r EXCEPT !.at = n] \in RestoreCommand
        BY <3>1, <3>2 DEF RestoreCommand
      <3>5. [r EXCEPT !.at = n, !.wrote = w] \in RestoreCommand
        BY <3>1, <3>2 DEF RestoreCommand
      <3> QED
        BY <1>9, <3>3, <3>4, <3>5 DEF Command
    <2>7. CASE CommitRestore(c)
      <3>1. command[c] \in RestoreCommand
        BY <2>4, <2>7 DEF CommitRestore
      <3>2. command[c].lift \in Lifts /\ command[c].row \in LiftRow
        BY <3>1 DEF RestoreCommand
      <3>3. lift' \in [Lifts -> LiftRow]
        BY <2>7, <3>2, WriteType DEF CommitRestore, Typed, TypeOK
      <3>4. level' \in [Sensors -> Levels]
        BY <2>7, SafeLevelType DEF CommitRestore, Typed, TypeOK
      <3> QED
        BY <1>10, <2>7, <3>3, <3>4 DEF CommitRestore, Typed, TypeOK, AtSensor
    <2> QED
      BY <1>12, <2>1, <2>2, <2>3, <2>5, <2>6, <2>7 DEF Finish
  <1>13. ASSUME NEW c \in Clients, AbortCommand(c)
         PROVE  Typed'
    BY <1>10, <1>13 DEF AbortCommand, Typed, TypeOK, AtSensor
  <1>14. ASSUME NEW c \in Clients, BreakDeadlock(c)
         PROVE  Typed'
    BY <1>10, <1>14 DEF BreakDeadlock, Typed, TypeOK, AtSensor
  <1>15. ASSUME NEW l \in Lifts, FileCritical(l)
         PROVE  Typed'
    BY <1>15 DEF FileCritical, Typed, TypeOK, AtSensor
  <1>16. ASSUME NEW l \in Lifts, ResolveCritical(l)
         PROVE  Typed'
    BY <1>16 DEF ResolveCritical, Typed, TypeOK, AtSensor
  <1>17. CASE UNCHANGED vars
    BY <1>17 DEF vars, Typed, TypeOK, AtSensor
  <1> QED
    BY <1>1, <1>2, <1>3, <1>4, <1>5, <1>6, <1>7, <1>8, <1>11, <1>12, <1>13, <1>14,
       <1>15, <1>16, <1>17 DEF Next, TickNext

\* Every row, level, count and transaction keeps its type whatever the ticks
\* and the commands do to each other.
THEOREM TypeCorrect == SafeSpec => []TypeOK
  <1>1. Typed => TypeOK
    BY DEF Typed
  <1> QED
    BY InitTyped, StepTyped, <1>1, PTL DEF SafeSpec

-----------------------------------------------------------------------------
(* What a step does to the tick.                                           *)

\* A step of a tick between its start and its end leaves all else alone, and
\* goes on from one of the sensors.
LEMMA TickStepFacts ==
    ASSUME Typed, NEW pc \in {"look", "drift", "alarm", "stop", "write"}, TickStep(pc)
    PROVE  /\ tick # NoTick /\ tick.pc = pc /\ tick \in Tick
           /\ tick.at \in Sensors /\ LiftOf[tick.at] \in Lifts
           /\ UNCHANGED <<lift, level, alarms>>
  BY SimulationAssumption DEF TickStep, Typed, TypeOK, AtSensor, NoTick

\* A step of anybody else leaves the tick alone or ends it, and files no alarm.
LEMMA OtherSteps ==
    ASSUME Typed, [Next]_vars, ~TickNext
    PROVE  /\ UNCHANGED tick \/ tick' = NoTick
           /\ tick' # tick => UNCHANGED lift
           /\ alarms' \in [Lifts -> Int]
           /\ \A l \in Lifts : alarms'[l] <= alarms[l]
  <1> alarms \in [Lifts -> Nat]
    BY DEF Typed, TypeOK
  <1>1. CASE AbortTick
    BY <1>1 DEF AbortTick
  <1>2. ASSUME NEW c \in Clients, BeginSome(c)
        PROVE  UNCHANGED <<tick, alarms>>
    BY <1>2 DEF BeginSome, BeginPatchLift, BeginPatchSensor, BeginRestore, Begin, Advance
  <1>3. ASSUME NEW c \in Clients, Finish(c)
        PROVE  UNCHANGED <<tick, alarms>>
    BY <1>3 DEF Finish, ReadLiftAgain, PatchLift, PatchSensor, RestoreLift, RestoreSensor,
                CommitRestore, Advance
  <1>4. ASSUME NEW c \in Clients, AbortCommand(c) \/ BreakDeadlock(c)
        PROVE  (UNCHANGED tick \/ tick' = NoTick) /\ UNCHANGED <<lift, alarms>>
    BY <1>4 DEF AbortCommand, BreakDeadlock
  <1>5. ASSUME NEW l \in Lifts, FileCritical(l)
        PROVE  UNCHANGED <<tick, alarms>>
    BY <1>5 DEF FileCritical
  <1>6. ASSUME NEW l \in Lifts, ResolveCritical(l)
        PROVE  /\ UNCHANGED tick
               /\ alarms' \in [Lifts -> Int]
               /\ \A m \in Lifts : alarms'[m] <= alarms[m]
    BY <1>6 DEF ResolveCritical
  <1>7. CASE UNCHANGED vars
    BY <1>7 DEF vars
  <1> QED
    BY <1>1, <1>2, <1>3, <1>4, <1>5, <1>6, <1>7 DEF Next

-----------------------------------------------------------------------------
(* One alarm per lift.                                                     *)

\* The simulation never has two unresolved alarms on a lift: the query before
\* an insert sees what the tick itself has inserted.
THEOREM AlarmsDoNotPileUp == SafeSpec => []OneAlarmPerLift
  <1>1. Init => OneAlarmPerLift
    <2> SUFFICES ASSUME Init, NEW l \in Lifts
                 PROVE  alarms[l] + (IF tick = NoTick THEN 0 ELSE tick.raised[l]) <= 1
      BY DEF OneAlarmPerLift
    <2>1. alarms[l] = 0 /\ tick = NoTick
      BY DEF Init
    <2> QED
      BY <2>1
  <1>2. Typed /\ OneAlarmPerLift /\ [Next]_vars => OneAlarmPerLift'
    <2> SUFFICES ASSUME Typed, OneAlarmPerLift, [Next]_vars
                 PROVE  OneAlarmPerLift'
      OBVIOUS
    <2> alarms \in [Lifts -> Nat] /\ manual \in [Lifts -> Nat]
      BY DEF Typed, TypeOK
    <2>t. tick # NoTick => tick.raised \in [Lifts -> Nat]
      BY TickFields
    <2>a. ASSUME UNCHANGED alarms, tick # NoTick, tick'.raised = tick.raised
          PROVE  OneAlarmPerLift'
      BY <2>a, <2>t DEF OneAlarmPerLift
    <2>1. CASE StartTick
      BY <2>1 DEF StartTick, OneAlarmPerLift
    <2>2. CASE LookAtLift
      <3>1. TickStep("look")
        BY <2>2 DEF LookAtLift
      <3> QED
        BY <2>2, <3>1, <2>a, TickStepFacts, LookFields
    <2>3. CASE Drift
      <3>1. TickStep("drift")
        BY <2>3 DEF Drift
      <3> QED
        BY <2>3, <3>1, <2>a, TickStepFacts, DriftFields
    <2>4. CASE RaiseAlarm
      <3> DEFINE l == LiftOf[tick.at]
      <3>1. TickStep("alarm")
        BY <2>4 DEF RaiseAlarm
      <3>2. tick # NoTick /\ tick \in Tick /\ l \in Lifts /\ UNCHANGED alarms
        BY <3>1, TickStepFacts
      <3>3. tick'.raised = [tick.raised EXCEPT ![l] = IF HasOpenCritical(l) THEN @ ELSE @ + 1]
        BY <2>4, <3>1, TickStepFacts, AlarmFields
      <3>4. ASSUME NEW m \in Lifts
            PROVE  tick'.raised[m] \in Nat /\ alarms[m] + tick'.raised[m] <= 1
        BY <3>2, <3>3, <2>t DEF OneAlarmPerLift, HasOpenCritical
      <3> QED
        BY <3>2, <3>4 DEF OneAlarmPerLift
    <2>5. CASE ReadLift
      <3>1. TickStep("stop")
        BY <2>5 DEF ReadLift
      <3> QED
        BY <2>5, <3>1, <2>a, TickStepFacts, ReadLiftFields
    <2>6. CASE StopLift
      <3>1. TickStep("write")
        BY <2>6 DEF StopLift
      <3> QED
        BY <2>6, <3>1, <2>a, TickStepFacts, StopLiftFields
    <2>7. CASE CommitTick
      <3>1. tick # NoTick
        BY <2>7 DEF CommitTick, NoTick
      <3> QED
        BY <2>7, <3>1, <2>t DEF CommitTick, OneAlarmPerLift
    <2>8. CASE ~TickNext
      <3> DEFINE ofTick(l) == IF tick = NoTick THEN 0 ELSE tick.raised[l]
      <3>1. ASSUME NEW l \in Lifts
            PROVE  ofTick(l)' \in Nat /\ ofTick(l)' <= ofTick(l) /\ ofTick(l) \in Nat
        BY <2>8, <2>t, OtherSteps
      <3>2. ASSUME NEW l \in Lifts
            PROVE  alarms'[l] + ofTick(l)' <= 1
        BY <2>8, <3>1, OtherSteps DEF OneAlarmPerLift
      <3> QED
        BY <3>2 DEF OneAlarmPerLift
    <2> QED
      BY <2>1, <2>2, <2>3, <2>4, <2>5, <2>6, <2>7, <2>8 DEF TickNext
  <1> QED
    BY InitTyped, StepTyped, <1>1, <1>2, PTL DEF SafeSpec

-----------------------------------------------------------------------------
(* Justified stops.                                                        *)

\* A tick has written only sensors it has come to, and the one it is at once
\* it is past the drift.
WroteUpToHere ==
    \A s \in Sensors : tick # NoTick /\ s \in tick.wrote =>
        s < tick.at \/ (s = tick.at /\ tick.pc \in {"alarm", "stop", "write"})

\* A tick handles an alarm for a sensor it has written with a critical level.
InAlarm ==
    tick # NoTick /\ tick.pc \in {"alarm", "stop", "write"} =>
        tick.at \in tick.wrote /\ Zone(tick.seen[tick.at]) = "critical"

\* A tick has written a lift only for a sensor it has written so.
StopsForCritical ==
    \A l \in Lifts : tick # NoTick /\ tick.stopped[l] # {} =>
        \E s \in tick.wrote : LiftOf[s] = l /\ Zone(tick.seen[s]) = "critical"

Justified == WroteUpToHere /\ InAlarm /\ StopsForCritical

LEMMA InitJustified == Init => Justified
  BY DEF Init, Justified, WroteUpToHere, InAlarm, StopsForCritical

LEMMA StepJustified == Typed /\ Justified /\ [Next]_vars => Justified'
  <1> SUFFICES ASSUME Typed, Justified, [Next]_vars PROVE Justified'
    OBVIOUS
  <1>t. tick # NoTick => tick.wrote \subseteq Sensors /\ tick.at \in 1..(NumSensors + 1)
    BY TickFields
  <1>s. Sensors \subseteq Int
    BY DEF Sensors
  <1> USE DEF Justified, WroteUpToHere, InAlarm, StopsForCritical
  <1>1. CASE StartTick
    BY <1>1, SimulationAssumption DEF StartTick, Tick
  <1>2. CASE LookAtLift
    <2>1. TickStep("look")
      BY <1>2 DEF LookAtLift
    <2>2. /\ tick # NoTick /\ tick.pc = "look" /\ tick \in Tick
          /\ tick.at \in Sensors /\ LiftOf[tick.at] \in Lifts
      BY <2>1, TickStepFacts
    <2>3. /\ \/ tick'.pc \in {"look", "commit"} /\ tick'.at = tick.at + 1
             \/ tick'.pc = "drift" /\ tick'.at = tick.at
          /\ tick'.seen = tick.seen /\ tick'.wrote = tick.wrote /\ tick'.stopped = tick.stopped
      BY <1>2, <2>2, LookFields
    <2>4. WroteUpToHere'
      BY <1>t, <1>s, <2>2, <2>3
    <2>5. InAlarm'
      BY <2>2, <2>3
    <2>6. StopsForCritical'
      BY <2>2, <2>3
    <2> QED
      BY <2>4, <2>5, <2>6
  <1>3. CASE Drift
    <2>1. TickStep("drift")
      BY <1>3 DEF Drift
    <2>2. tick # NoTick /\ tick.pc = "drift" /\ tick \in Tick /\ tick.at \in Sensors
      BY <2>1, TickStepFacts
    <2>3. PICK new \in Levels :
            /\ tick'.seen = [tick.seen EXCEPT ![tick.at] = new]
            /\ \/ tick'.pc = "alarm" /\ tick'.at = tick.at /\ Zone(new) = "critical"
               \/ tick'.pc \in {"look", "commit"} /\ tick'.at = tick.at + 1
      BY <1>3, <2>2, DriftFields
    <2>4. tick'.wrote = tick.wrote \union {tick.at} /\ tick'.stopped = tick.stopped
      BY <1>3, <2>2, DriftFields
    <2>5. tick.seen \in [Sensors -> Levels]
      BY <2>2 DEF Tick
    <2>6. \A s \in tick.wrote : s # tick.at /\ tick'.seen[s] = tick.seen[s]
      BY <1>t, <1>s, <2>2, <2>3, <2>5
    <2>7. tick'.seen[tick.at] = new
      BY <2>2, <2>3, <2>5
    <2>8. WroteUpToHere'
      BY <1>t, <1>s, <2>2, <2>3, <2>4
    <2>9. InAlarm'
      BY <2>2, <2>3, <2>4, <2>7
    <2>10. StopsForCritical'
      BY <2>2, <2>4, <2>6
    <2> QED
      BY <2>8, <2>9, <2>10
  <1>4. CASE RaiseAlarm
    <2>1. TickStep("alarm")
      BY <1>4 DEF RaiseAlarm
    <2> QED
      BY <1>4, <2>1, TickStepFacts, AlarmFields
  <1>5. CASE ReadLift
    <2>1. TickStep("stop")
      BY <1>5 DEF ReadLift
    <2>2. /\ tick # NoTick /\ tick.pc = "stop" /\ tick \in Tick
          /\ tick.at \in Sensors /\ LiftOf[tick.at] \in Lifts
      BY <2>1, TickStepFacts
    <2>3. /\ \/ tick'.pc \in {"look", "commit"} /\ tick'.at = tick.at + 1
             \/ tick'.pc = "write" /\ tick'.at = tick.at
          /\ tick'.seen = tick.seen /\ tick'.wrote = tick.wrote /\ tick'.stopped = tick.stopped
      BY <1>5, <2>2, ReadLiftFields
    <2>4. WroteUpToHere'
      BY <1>t, <1>s, <2>2, <2>3
    <2>5. InAlarm'
      BY <2>2, <2>3
    <2>6. StopsForCritical'
      BY <2>2, <2>3
    <2> QED
      BY <2>4, <2>5, <2>6
  <1>6. CASE StopLift
    <2>1. TickStep("write")
      BY <1>6 DEF StopLift
    <2>2. /\ tick # NoTick /\ tick.pc = "write" /\ tick \in Tick
          /\ tick.at \in Sensors /\ LiftOf[tick.at] \in Lifts
      BY <2>1, TickStepFacts
    <2>3. /\ tick'.pc \in {"look", "commit"} /\ tick'.at = tick.at + 1
          /\ tick'.seen = tick.seen /\ tick'.wrote = tick.wrote
          /\ \A l \in Lifts : tick'.stopped[l] # {} =>
               l = LiftOf[tick.at] \/ tick.stopped[l] # {}
      BY <1>6, <2>2, StopLiftFields
    <2>4. ASSUME NEW s \in Sensors, s \in tick.wrote
          PROVE  s < tick.at + 1
      <3>1. s \in Int /\ tick.at \in Int
        BY <1>s, <2>2
      <3>2. s < tick.at \/ s = tick.at
        BY <2>2, <2>4
      <3> HIDE DEF Justified, WroteUpToHere, InAlarm, StopsForCritical
      <3> QED
        BY <3>1, <3>2
    <2>7. WroteUpToHere'
      BY <2>3, <2>4
    <2>5. InAlarm'
      BY <2>2, <2>3
    <2>6. StopsForCritical'
      BY <2>2, <2>3
    <2> QED
      BY <2>5, <2>6, <2>7
  <1>7. CASE CommitTick
    BY <1>7 DEF CommitTick
  <1>8. CASE ~TickNext
    BY <1>8, OtherSteps
  <1> QED
    BY <1>1, <1>2, <1>3, <1>4, <1>5, <1>6, <1>7, <1>8 DEF TickNext

LEMMA StopJustified ==
    ASSUME Typed, Justified, [Next]_vars, NEW l \in Lifts, lift'[l] # lift[l], tick' # tick
    PROVE  \E s \in Sensors : LiftOf[s] = l /\ Zone(level'[s]) = "critical"
  <1>1. CASE CommitTick
    <2>1. tick # NoTick
      BY <1>1 DEF CommitTick, NoTick
    <2>2. tick.stopped[l] # {}
      BY <1>1, WriteNothing DEF CommitTick, LiftInTick, Typed, TypeOK
    <2>3. PICK s \in tick.wrote : LiftOf[s] = l /\ Zone(tick.seen[s]) = "critical"
      BY <2>1, <2>2 DEF Justified, StopsForCritical
    <2>4. s \in Sensors /\ level'[s] = tick.seen[s]
      BY <1>1, <2>1, TickFields DEF CommitTick
    <2> QED
      BY <2>3, <2>4
  <1>2. CASE TickNext /\ ~CommitTick
    <2>1. UNCHANGED lift
      BY <1>2 DEF TickNext, StartTick, LookAtLift, Drift, RaiseAlarm, ReadLift, StopLift,
                  TickStep
    <2> QED
      BY <2>1
  <1>3. CASE ~TickNext
    BY <1>3, OtherSteps
  <1> QED
    BY <1>1, <1>2, <1>3

\* The simulation writes a lift only for a sensor of the lift that is critical
\* in the state the tick commits.
THEOREM StopsHaveACause == SafeSpec => StopsAreJustified
  <1>1. Typed /\ Justified /\ [Next]_vars =>
          [\A l \in Lifts :
             lift'[l] # lift[l] /\ tick' # tick =>
                \E s \in Sensors : LiftOf[s] = l /\ Zone(level'[s]) = "critical"]_vars
    BY StopJustified
  <1> QED
    BY InitTyped, StepTyped, InitJustified, StepJustified, <1>1, PTL
       DEF SafeSpec, StopsAreJustified

-----------------------------------------------------------------------------
(* Stops that last.                                                        *)

\* A patch that was given no column writes back the row it has read.
WritesBack(r) ==
    r.op \in {"patch lift", "write lift"} /\ r.given = {} => r.row = r.seen

EmptyPatchesWriteBack == \A c \in Clients : WritesBack(command[c])

LEMMA StepWritesBack ==
    Typed /\ EmptyPatchesWriteBack /\ [Next]_vars => EmptyPatchesWriteBack'
  <1> SUFFICES ASSUME Typed, EmptyPatchesWriteBack, [Next]_vars
               PROVE  EmptyPatchesWriteBack'
    OBVIOUS
  <1>a. ASSUME NEW c \in Clients, NEW r, command' = [command EXCEPT ![c] = r], WritesBack(r)
        PROVE  EmptyPatchesWriteBack'
    BY <1>a DEF EmptyPatchesWriteBack, Typed, TypeOK
  <1>b. ASSUME NEW c \in Clients, EndCommand(c)
        PROVE  EmptyPatchesWriteBack'
    <2>1. WritesBack(NoCommand)
      BY DEF WritesBack, NoCommand
    <2> QED
      BY <1>a, <1>b, <2>1 DEF EndCommand
  <1>c. ASSUME UNCHANGED command
        PROVE  EmptyPatchesWriteBack'
    BY <1>c DEF EmptyPatchesWriteBack
  <1>1. ASSUME NEW c \in Clients, NEW l \in Lifts, NEW given \in SUBSET Columns,
               NEW body \in Bodies, BeginPatchLift(c, l, given, body)
        PROVE  EmptyPatchesWriteBack'
    <2>1. given = {} => Write(lift[l], body, given) = lift[l]
      BY WriteNothing DEF Typed, TypeOK
    <2> DEFINE row == Write(lift[l], body, given)
               r == [op |-> "patch lift", lift |-> l, given |-> given, seen |-> lift[l],
                     cols |-> {}, row |-> row]
    <2>2. command' = [command EXCEPT ![c] = r]
      BY <1>1 DEF BeginPatchLift, Begin, Advance
    <2>3. WritesBack(r)
      BY <2>1 DEF WritesBack
    <2> QED
      BY <1>a, <2>2, <2>3
  <1>2. ASSUME NEW c \in Clients, NEW s \in Sensors, NEW given \in BOOLEAN,
               NEW v \in NewLevels, BeginPatchSensor(c, s, given, v)
        PROVE  EmptyPatchesWriteBack'
    <2> DEFINE r == [op |-> "patch sensor", sensor |-> s, given |-> given,
                     level |-> IF given THEN v ELSE level[s]]
    <2>1. command' = [command EXCEPT ![c] = r]
      BY <1>2 DEF BeginPatchSensor, Begin, Advance
    <2>2. WritesBack(r)
      BY DEF WritesBack
    <2> QED
      BY <1>a, <2>1, <2>2
  <1>3. ASSUME NEW c \in Clients, NEW l \in Lifts, NEW status \in Targets,
               BeginRestore(c, l, status)
        PROVE  EmptyPatchesWriteBack'
    <2> DEFINE row == [status |-> status, is_emergency |-> FALSE]
               r == [op |-> "restore", lift |-> l, row |-> row,
                     cols |-> Changed(row, lift[l]), at |-> 0, wrote |-> {}]
    <2>1. command' = [command EXCEPT ![c] = r]
      BY <1>3 DEF BeginRestore, Begin, Advance
    <2>2. WritesBack(r)
      BY DEF WritesBack
    <2> QED
      BY <1>a, <2>1, <2>2
  <1>4. ASSUME NEW c \in Clients, ReadLiftAgain(c)
        PROVE  EmptyPatchesWriteBack'
    <2>1. command[c] \in PatchLiftCommand /\ WritesBack(command[c])
      BY <1>4, CommandKinds DEF ReadLiftAgain, EmptyPatchesWriteBack
    <2>2. PICK cols : command' = [command EXCEPT ![c] =
                          [command[c] EXCEPT !.op = "write lift", !.cols = cols]]
      BY <1>4 DEF ReadLiftAgain, Advance
    <2>3. command[c].op \in {"patch lift", "write lift"}
      BY <2>1 DEF PatchLiftCommand
    <2>4. WritesBack([command[c] EXCEPT !.op = "write lift", !.cols = cols])
      BY <2>1, <2>3 DEF WritesBack, PatchLiftCommand
    <2> QED
      BY <1>a, <2>2, <2>4
  <1>5. ASSUME NEW c \in Clients, RestoreLift(c) \/ RestoreSensor(c)
        PROVE  EmptyPatchesWriteBack'
    <2>1. command[c] \in RestoreCommand
      BY <1>5, CommandKinds DEF RestoreLift, RestoreSensor, Restoring
    <2>2. PICK r : command' = [command EXCEPT ![c] = r] /\ r.op = command[c].op
      BY <1>5, <2>1 DEF RestoreLift, RestoreSensor, Advance, RestoreCommand
    <2>3. r.op = "restore"
      BY <2>1, <2>2 DEF RestoreCommand
    <2> QED
      BY <1>a, <2>2, <2>3 DEF WritesBack
  <1>6. ASSUME NEW c \in Clients,
               PatchLift(c) \/ PatchSensor(c) \/ CommitRestore(c) \/ AbortCommand(c)
        PROVE  EmptyPatchesWriteBack'
    BY <1>b, <1>6 DEF PatchLift, PatchSensor, CommitRestore, AbortCommand
  <1>7. ASSUME NEW c \in Clients, BreakDeadlock(c)
        PROVE  EmptyPatchesWriteBack'
    BY <1>b, <1>c, <1>7 DEF BreakDeadlock
  <1>8. CASE TickNext \/ AbortTick
    BY <1>c, <1>8 DEF TickNext, StartTick, LookAtLift, Drift, RaiseAlarm, ReadLift, StopLift,
                      TickStep, CommitTick, AbortTick
  <1>9. ASSUME NEW l \in Lifts, FileCritical(l) \/ ResolveCritical(l)
        PROVE  EmptyPatchesWriteBack'
    BY <1>c, <1>9 DEF FileCritical, ResolveCritical
  <1>10. CASE UNCHANGED vars
    BY <1>c, <1>10 DEF vars
  <1> QED
    BY <1>1, <1>2, <1>3, <1>4, <1>5, <1>6, <1>7, <1>8, <1>9, <1>10
    DEF Next, BeginSome, Finish

\* Writing the stop once more over a stopped lift leaves it stopped.
LEMMA StopIsKept ==
    ASSUME NEW cols
    PROVE  Write(Stopped, Stopped, cols) = Stopped
  BY DEF Write, Stopped

\* A command that ends leaves NoCommand behind, and was none before.
LEMMA EndedCommand ==
    ASSUME Typed, NEW c \in Clients, EndCommand(c), command[c].op # "none"
    PROVE  command[c] # NoCommand /\ command'[c] = NoCommand
  BY DEF EndCommand, Typed, TypeOK, NoCommand

LEMMA StopKept ==
    ASSUME Typed, EmptyPatchesWriteBack, [Next]_vars,
           NEW l \in Lifts, lift[l] = Stopped, lift'[l] # Stopped
    PROVE  \E c \in Clients :
                /\ command[c] # NoCommand /\ command'[c] = NoCommand
                /\ Restoring(c) \/ command[c].given # {} \/ command[c].seen # Stopped
  <1>0. lift \in [Lifts -> LiftRow]
    BY DEF Typed, TypeOK
  <1>1. CASE CommitTick
    BY <1>1, StopIsKept DEF CommitTick, LiftInTick
  <1>2. ASSUME NEW c \in Clients, PatchLift(c)
        PROVE  /\ command[c] # NoCommand /\ command'[c] = NoCommand
               /\ command[c].given # {} \/ command[c].seen # Stopped
    <2>1. lift' = [lift EXCEPT ![command[c].lift] =
                      Write(@, command[c].row, command[c].cols)]
      BY <1>2 DEF PatchLift
    <2>2. command[c].lift = l /\ Write(Stopped, command[c].row, command[c].cols) # Stopped
      BY <1>0, <2>1
    <2>3. command[c].row # Stopped
      BY <2>2, StopIsKept
    <2>4. command[c].given # {} \/ command[c].row = command[c].seen
      BY <1>2 DEF PatchLift, EmptyPatchesWriteBack, WritesBack
    <2> QED
      BY <1>2, <2>3, <2>4, EndedCommand DEF PatchLift
  <1>3. ASSUME NEW c \in Clients, CommitRestore(c)
        PROVE  command[c] # NoCommand /\ command'[c] = NoCommand /\ Restoring(c)
    BY <1>3, EndedCommand DEF CommitRestore, Restoring
  <1>4. CASE TickNext /\ ~CommitTick
    BY <1>4 DEF TickNext, StartTick, LookAtLift, Drift, RaiseAlarm, ReadLift, StopLift, TickStep
  <1>5. ASSUME NEW c \in Clients, BeginSome(c)
        PROVE  UNCHANGED lift
    BY <1>5 DEF BeginSome, BeginPatchLift, BeginPatchSensor, BeginRestore, Begin, Advance
  <1>6. ASSUME NEW c \in Clients, Finish(c), ~PatchLift(c), ~CommitRestore(c)
        PROVE  UNCHANGED lift
    BY <1>6 DEF Finish, ReadLiftAgain, PatchSensor, RestoreLift, RestoreSensor, Advance
  <1>7. ASSUME NEW c \in Clients, AbortCommand(c) \/ BreakDeadlock(c)
        PROVE  UNCHANGED lift
    BY <1>7 DEF AbortCommand, BreakDeadlock
  <1>8. ASSUME NEW m \in Lifts, FileCritical(m) \/ ResolveCritical(m)
        PROVE  UNCHANGED lift
    BY <1>8 DEF FileCritical, ResolveCritical
  <1>9. CASE AbortTick \/ UNCHANGED vars
    BY <1>9 DEF AbortTick, vars
  <1> QED
    BY <1>1, <1>2, <1>3, <1>4, <1>5, <1>6, <1>7, <1>8, <1>9 DEF Next

\* A stop of a lift is undone only by a restore, by a patch that was given a
\* column, or by one that filled both in from a lift read before the stop;
\* never by a tick, nor by a patch that saw the stop and was given nothing.
THEOREM StopsLast == SafeSpec => StopsAreNotForgotten
  <1>1. Init => EmptyPatchesWriteBack
    <2>1. WritesBack(NoCommand)
      BY DEF WritesBack, NoCommand
    <2> QED
      BY <2>1 DEF Init, EmptyPatchesWriteBack
  <1>2. Typed /\ EmptyPatchesWriteBack /\ [Next]_vars =>
          [\A l \in Lifts :
             lift[l] = Stopped /\ lift'[l] # Stopped =>
                \E c \in Clients :
                    /\ command[c] # NoCommand /\ command'[c] = NoCommand
                    /\ Restoring(c) \/ command[c].given # {} \/ command[c].seen # Stopped]_vars
    BY StopKept
  <1> QED
    BY InitTyped, StepTyped, StepWritesBack, <1>1, <1>2, PTL
       DEF SafeSpec, StopsAreNotForgotten

-----------------------------------------------------------------------------
(* Announced alarms.                                                       *)

\* A sensor that had a WARNING event or a level set by hand, the tick's own
\* warnings included.
KnownSensor(s) == s \in announced \/ (tick # NoTick /\ s \in tick.warned)

\* A sensor gets above its threshold with a warning or by hand only: in the
\* row,
LevelsAreKnown == \A s \in Sensors : level[s] > Threshold => s \in announced

\* in what the tick has listed and written, whatever was committed since,
SeenAreKnown ==
    tick # NoTick => \A s \in Sensors : tick.seen[s] > Threshold => KnownSensor(s)

\* and in what a patch without a level writes back.
KnownPatch(r) ==
    r.op = "patch sensor" /\ r.level > Threshold => r.given \/ r.sensor \in announced

PatchesAreKnown == \A c \in Clients : KnownPatch(command[c])

\* The tick has filed an alarm only for a lift with such a sensor.
RaisedAreKnown ==
    tick # NoTick => \A l \in Lifts :
        tick.raised[l] > 0 => \E s \in Sensors : LiftOf[s] = l /\ KnownSensor(s)

Known == LevelsAreKnown /\ SeenAreKnown /\ PatchesAreKnown /\ RaisedAreKnown

\* A drift of one level from the normal zone gets no further than a warning.
LEMMA Zones ==
    ASSUME NEW v \in Levels
    PROVE  /\ Zone(v) = "critical" => v > Threshold
           /\ v <= Threshold <=> Zone(v) = "normal"
           /\ v > Threshold /\ v <= Threshold + 1 => Zone(v) = "warning"
  BY SimulationAssumption DEF Zone, Levels

LEMMA SafeLevelIsNormal == SafeLevel <= Threshold
  BY SimulationAssumption DEF SafeLevel

LEMMA InitKnown == Init => Known
  <1> SUFFICES ASSUME Init PROVE Known
    OBVIOUS
  <1>1. LevelsAreKnown
    BY SimulationAssumption DEF Init, LevelsAreKnown
  <1>2. KnownPatch(NoCommand)
    BY DEF KnownPatch, NoCommand
  <1>3. PatchesAreKnown
    BY <1>2 DEF Init, PatchesAreKnown
  <1> QED
    BY <1>1, <1>3 DEF Init, Known, SeenAreKnown, RaisedAreKnown

LEMMA AnnouncedGrows == ASSUME [Next]_vars PROVE announced \subseteq announced'
  <1>1. CASE TickNext \/ AbortTick
    BY <1>1 DEF TickNext, StartTick, LookAtLift, Drift, RaiseAlarm, ReadLift, StopLift,
                TickStep, CommitTick, AbortTick
  <1>2. ASSUME NEW c \in Clients, BeginSome(c)
        PROVE  UNCHANGED announced
    BY <1>2 DEF BeginSome, BeginPatchLift, BeginPatchSensor, BeginRestore, Begin, Advance
  <1>3. ASSUME NEW c \in Clients, Finish(c)
        PROVE  announced \subseteq announced'
    BY <1>3 DEF Finish, ReadLiftAgain, PatchLift, PatchSensor, RestoreLift, RestoreSensor,
                CommitRestore, Advance
  <1>4. ASSUME NEW c \in Clients, AbortCommand(c) \/ BreakDeadlock(c)
        PROVE  UNCHANGED announced
    BY <1>4 DEF AbortCommand, BreakDeadlock
  <1>5. ASSUME NEW l \in Lifts, FileCritical(l) \/ ResolveCritical(l)
        PROVE  UNCHANGED announced
    BY <1>5 DEF FileCritical, ResolveCritical
  <1>6. CASE UNCHANGED vars
    BY <1>6 DEF vars
  <1> QED
    BY <1>1, <1>2, <1>3, <1>4, <1>5, <1>6 DEF Next

LEMMA StepLevelsKnown ==
    Typed /\ Known /\ [Next]_vars => LevelsAreKnown'
  <1> SUFFICES ASSUME Typed, Known, [Next]_vars, NEW s \in Sensors, level'[s] > Threshold
               PROVE  s \in announced'
    BY DEF LevelsAreKnown
  <1>g. announced \subseteq announced'
    BY AnnouncedGrows
  <1>k. level[s] > Threshold => s \in announced
    BY DEF Known, LevelsAreKnown
  <1>u. ASSUME level'[s] = level[s] PROVE s \in announced'
    BY <1>g, <1>k, <1>u
  <1>1. CASE CommitTick
    <2>1. tick # NoTick
      BY <1>1 DEF CommitTick, NoTick
    <2>2. CASE s \in tick.wrote
      <3>1. tick.seen[s] > Threshold
        BY <1>1, <2>2 DEF CommitTick
      <3>2. s \in announced \union tick.warned
        BY <2>1, <3>1 DEF Known, SeenAreKnown, KnownSensor
      <3> QED
        BY <1>1, <3>2 DEF CommitTick
    <2>3. CASE s \notin tick.wrote
      BY <1>1, <1>u, <2>3 DEF CommitTick
    <2> QED
      BY <2>2, <2>3
  <1>2. ASSUME NEW c \in Clients, PatchSensor(c)
        PROVE  s \in announced'
    <2>1. level \in [Sensors -> Levels]
      BY DEF Typed, TypeOK
    <2>2. CASE s = command[c].sensor
      <3>1. command[c].level > Threshold
        BY <1>2, <2>1, <2>2 DEF PatchSensor
      <3>2. command[c].given \/ s \in announced
        BY <1>2, <2>2, <3>1 DEF Known, PatchesAreKnown, KnownPatch, PatchSensor
      <3> QED
        BY <1>2, <1>g, <2>2, <3>2 DEF PatchSensor
    <2>3. CASE s # command[c].sensor
      BY <1>2, <1>u, <2>1, <2>3 DEF PatchSensor
    <2> QED
      BY <2>2, <2>3
  <1>3. ASSUME NEW c \in Clients, CommitRestore(c)
        PROVE  s \in announced'
    <2>1. level'[s] = level[s] \/ level'[s] = SafeLevel
      BY <1>3 DEF CommitRestore
    <2>2. ~(SafeLevel > Threshold)
      BY SafeLevelIsNormal, SafeLevelType, SimulationAssumption DEF Levels
    <2> QED
      BY <1>u, <2>1, <2>2
  <1>4. CASE (TickNext /\ ~CommitTick) \/ AbortTick
    BY <1>4, <1>u DEF TickNext, StartTick, LookAtLift, Drift, RaiseAlarm, ReadLift, StopLift,
                      TickStep, AbortTick
  <1>5. ASSUME NEW c \in Clients, BeginSome(c)
        PROVE  UNCHANGED level
    BY <1>5 DEF BeginSome, BeginPatchLift, BeginPatchSensor, BeginRestore, Begin, Advance
  <1>6. ASSUME NEW c \in Clients, Finish(c), ~PatchSensor(c), ~CommitRestore(c)
        PROVE  UNCHANGED level
    BY <1>6 DEF Finish, ReadLiftAgain, PatchLift, RestoreLift, RestoreSensor, Advance
  <1>7. ASSUME NEW c \in Clients, AbortCommand(c) \/ BreakDeadlock(c)
        PROVE  UNCHANGED level
    BY <1>7 DEF AbortCommand, BreakDeadlock
  <1>8. ASSUME NEW l \in Lifts, FileCritical(l) \/ ResolveCritical(l)
        PROVE  UNCHANGED level
    BY <1>8 DEF FileCritical, ResolveCritical
  <1>9. CASE UNCHANGED vars
    BY <1>9, <1>u DEF vars
  <1> QED
    BY <1>1, <1>2, <1>3, <1>4, <1>5, <1>6, <1>7, <1>8, <1>9, <1>u DEF Next

LEMMA StepPatchesKnown ==
    Typed /\ Known /\ [Next]_vars => PatchesAreKnown'
  <1> SUFFICES ASSUME Typed, Known, [Next]_vars
               PROVE  PatchesAreKnown'
    OBVIOUS
  <1>g. announced \subseteq announced'
    BY AnnouncedGrows
  <1>k. \A c \in Clients : KnownPatch(command[c])
    BY DEF Known, PatchesAreKnown
  <1>a. ASSUME NEW c \in Clients, NEW r, command' = [command EXCEPT ![c] = r], KnownPatch(r)
        PROVE  PatchesAreKnown'
    BY <1>a, <1>g, <1>k DEF PatchesAreKnown, KnownPatch, Typed, TypeOK
  <1>b. ASSUME NEW c \in Clients, EndCommand(c)
        PROVE  PatchesAreKnown'
    <2>1. KnownPatch(NoCommand)
      BY DEF KnownPatch, NoCommand
    <2> QED
      BY <1>a, <1>b, <2>1 DEF EndCommand
  <1>c. ASSUME UNCHANGED command
        PROVE  PatchesAreKnown'
    BY <1>c, <1>g, <1>k DEF PatchesAreKnown, KnownPatch
  <1>1. ASSUME NEW c \in Clients, NEW l \in Lifts, NEW given \in SUBSET Columns,
               NEW body \in Bodies, BeginPatchLift(c, l, given, body)
        PROVE  PatchesAreKnown'
    <2> DEFINE row == Write(lift[l], body, given)
               r == [op |-> "patch lift", lift |-> l, given |-> given, seen |-> lift[l],
                     cols |-> {}, row |-> row]
    <2>1. command' = [command EXCEPT ![c] = r]
      BY <1>1 DEF BeginPatchLift, Begin, Advance
    <2>2. KnownPatch(r)
      BY DEF KnownPatch
    <2> QED
      BY <1>a, <2>1, <2>2
  <1>2. ASSUME NEW c \in Clients, NEW s \in Sensors, NEW given \in BOOLEAN,
               NEW v \in NewLevels, BeginPatchSensor(c, s, given, v)
        PROVE  PatchesAreKnown'
    <2> DEFINE r == [op |-> "patch sensor", sensor |-> s, given |-> given,
                     level |-> IF given THEN v ELSE level[s]]
    <2>1. command' = [command EXCEPT ![c] = r]
      BY <1>2 DEF BeginPatchSensor, Begin, Advance
    <2>2. level[s] > Threshold => s \in announced
      BY DEF Known, LevelsAreKnown
    <2>3. KnownPatch(r)
      BY <2>2 DEF KnownPatch
    <2> QED
      BY <1>a, <2>1, <2>3
  <1>3. ASSUME NEW c \in Clients, NEW l \in Lifts, NEW status \in Targets,
               BeginRestore(c, l, status)
        PROVE  PatchesAreKnown'
    <2> DEFINE row == [status |-> status, is_emergency |-> FALSE]
               r == [op |-> "restore", lift |-> l, row |-> row,
                     cols |-> Changed(row, lift[l]), at |-> 0, wrote |-> {}]
    <2>1. command' = [command EXCEPT ![c] = r]
      BY <1>3 DEF BeginRestore, Begin, Advance
    <2>2. KnownPatch(r)
      BY DEF KnownPatch
    <2> QED
      BY <1>a, <2>1, <2>2
  <1>4. ASSUME NEW c \in Clients, ReadLiftAgain(c)
        PROVE  PatchesAreKnown'
    <2>1. command[c] \in PatchLiftCommand
      BY <1>4, CommandKinds DEF ReadLiftAgain
    <2>2. PICK cols : command' = [command EXCEPT ![c] =
                          [command[c] EXCEPT !.op = "write lift", !.cols = cols]]
      BY <1>4 DEF ReadLiftAgain, Advance
    <2>3. KnownPatch([command[c] EXCEPT !.op = "write lift", !.cols = cols])
      BY <2>1 DEF KnownPatch, PatchLiftCommand
    <2> QED
      BY <1>a, <2>2, <2>3
  <1>5. ASSUME NEW c \in Clients, RestoreLift(c) \/ RestoreSensor(c)
        PROVE  PatchesAreKnown'
    <2>1. command[c] \in RestoreCommand
      BY <1>5, CommandKinds DEF RestoreLift, RestoreSensor, Restoring
    <2>2. PICK r : command' = [command EXCEPT ![c] = r] /\ r.op = command[c].op
      BY <1>5, <2>1 DEF RestoreLift, RestoreSensor, Advance, RestoreCommand
    <2>3. r.op = "restore"
      BY <2>1, <2>2 DEF RestoreCommand
    <2> QED
      BY <1>a, <2>2, <2>3 DEF KnownPatch
  <1>6. ASSUME NEW c \in Clients,
               PatchLift(c) \/ PatchSensor(c) \/ CommitRestore(c) \/ AbortCommand(c)
        PROVE  PatchesAreKnown'
    BY <1>b, <1>6 DEF PatchLift, PatchSensor, CommitRestore, AbortCommand
  <1>7. ASSUME NEW c \in Clients, BreakDeadlock(c)
        PROVE  PatchesAreKnown'
    BY <1>b, <1>c, <1>7 DEF BreakDeadlock
  <1>8. CASE TickNext \/ AbortTick
    BY <1>c, <1>8 DEF TickNext, StartTick, LookAtLift, Drift, RaiseAlarm, ReadLift, StopLift,
                      TickStep, CommitTick, AbortTick
  <1>9. ASSUME NEW l \in Lifts, FileCritical(l) \/ ResolveCritical(l)
        PROVE  PatchesAreKnown'
    BY <1>c, <1>9 DEF FileCritical, ResolveCritical
  <1>10. CASE UNCHANGED vars
    BY <1>c, <1>10 DEF vars
  <1> QED
    BY <1>1, <1>2, <1>3, <1>4, <1>5, <1>6, <1>7, <1>8, <1>9, <1>10
    DEF Next, BeginSome, Finish

\* A tick that has seen and raised the same as before knows what it knew.
LEMMA SameTickKnown ==
    ASSUME Known, [Next]_vars, tick # NoTick, tick' # NoTick,
           tick'.seen = tick.seen, tick'.raised = tick.raised, tick'.warned = tick.warned
    PROVE  SeenAreKnown' /\ RaisedAreKnown'
  BY AnnouncedGrows DEF Known, SeenAreKnown, RaisedAreKnown, KnownSensor

LEMMA StepTickKnown ==
    Typed /\ Justified /\ Known /\ [Next]_vars => SeenAreKnown' /\ RaisedAreKnown'
  <1> SUFFICES ASSUME Typed, Justified, Known, [Next]_vars
               PROVE  SeenAreKnown' /\ RaisedAreKnown'
    OBVIOUS
  <1>g. announced \subseteq announced'
    BY AnnouncedGrows
  <1>n. tick' \in Tick => tick' # NoTick
    BY DEF Tick, NoTick
  <1>1. CASE StartTick
    <2>1. /\ tick' # NoTick /\ tick'.seen = level
          /\ \A l \in Lifts : tick'.raised[l] = 0
      BY <1>1 DEF StartTick, NoTick
    <2>2. SeenAreKnown'
      BY <1>g, <2>1 DEF Known, LevelsAreKnown, SeenAreKnown, KnownSensor
    <2>3. RaisedAreKnown'
      BY <2>1 DEF RaisedAreKnown
    <2> QED
      BY <2>2, <2>3
  <1>2. CASE LookAtLift
    <2>1. TickStep("look")
      BY <1>2 DEF LookAtLift
    <2> QED
      BY <1>2, <1>n, <2>1, TickStepFacts, LookFields, SameTickKnown
  <1>3. CASE Drift
    <2>1. TickStep("drift")
      BY <1>3 DEF Drift
    <2>2. tick # NoTick /\ tick \in Tick /\ tick.at \in Sensors
      BY <2>1, TickStepFacts
    <2>3. PICK new \in Levels :
            /\ tick'.seen = [tick.seen EXCEPT ![tick.at] = new]
            /\ new - tick.seen[tick.at] \in {-1, 0, 1}
            /\ Zone(new) = "warning" /\ Zone(tick.seen[tick.at]) = "normal"
                  => tick.at \in tick'.warned
      BY <1>3, <2>2, DriftFields
    <2>4. tick' # NoTick /\ tick.warned \subseteq tick'.warned /\ tick'.raised = tick.raised
      BY <1>3, <1>n, <2>2, DriftFields
    <2>5. tick.seen \in [Sensors -> Levels]
      BY <2>2 DEF Tick
    <2>6. ASSUME NEW s \in Sensors, KnownSensor(s)
          PROVE  KnownSensor(s)'
      BY <1>g, <2>2, <2>4, <2>6 DEF KnownSensor
    <2>7. ASSUME NEW s \in Sensors, tick'.seen[s] > Threshold
          PROVE  KnownSensor(s)'
      <3>1. CASE s # tick.at \/ tick.seen[s] > Threshold
        <4>1. tick.seen[s] > Threshold
          BY <2>3, <2>5, <2>7, <3>1
        <4> QED
          BY <2>2, <2>6, <4>1 DEF Known, SeenAreKnown
      <3>2. CASE s = tick.at /\ ~(tick.seen[s] > Threshold)
        <4> DEFINE old == tick.seen[s]
        <4>1. old \in Levels /\ new > Threshold /\ new - old \in {-1, 0, 1} /\ ~(old > Threshold)
          BY <2>2, <2>3, <2>5, <2>7, <3>2
        <4> HIDE DEF old
        <4>2. old <= Threshold /\ new <= Threshold + 1
          BY <4>1, SimulationAssumption DEF Levels
        <4>3. Zone(new) = "warning" /\ Zone(old) = "normal"
          BY <4>1, <4>2, Zones
        <4>4. s \in tick'.warned
          BY <2>3, <3>2, <4>3 DEF old
        <4> QED
          BY <2>4, <4>4 DEF KnownSensor
      <3> QED
        BY <3>1, <3>2
    <2>8. RaisedAreKnown'
      BY <2>2, <2>4, <2>6 DEF Known, RaisedAreKnown
    <2> QED
      BY <2>7, <2>8 DEF SeenAreKnown
  <1>4. CASE RaiseAlarm
    <2> DEFINE l == LiftOf[tick.at]
    <2>1. TickStep("alarm")
      BY <1>4 DEF RaiseAlarm
    <2>2. tick # NoTick /\ tick.pc = "alarm" /\ tick \in Tick /\ tick.at \in Sensors /\ l \in Lifts
      BY <2>1, TickStepFacts
    <2>3. tick' # NoTick /\ tick'.seen = tick.seen /\ tick'.warned = tick.warned
      BY <1>4, <1>n, <2>2, AlarmFields
    <2>4. \A m \in Lifts : m # l => tick'.raised[m] = tick.raised[m]
      <3>1. tick'.raised = [tick.raised EXCEPT ![l] = IF HasOpenCritical(l) THEN @ ELSE @ + 1]
        BY <1>4, <2>2, AlarmFields
      <3>2. tick.raised \in [Lifts -> Nat]
        BY <2>2 DEF Tick
      <3> QED
        BY <3>1, <3>2
    <2>5. ASSUME NEW s \in Sensors, KnownSensor(s)
          PROVE  KnownSensor(s)'
      BY <1>g, <2>2, <2>3, <2>5 DEF KnownSensor
    <2>6. KnownSensor(tick.at)
      <3>1. tick.seen[tick.at] \in Levels /\ Zone(tick.seen[tick.at]) = "critical"
        BY <2>2 DEF Justified, InAlarm, Tick
      <3>2. tick.seen[tick.at] > Threshold
        BY <3>1, Zones
      <3> QED
        BY <2>2, <3>2 DEF Known, SeenAreKnown
    <2>7. SeenAreKnown'
      BY <2>2, <2>3, <2>5 DEF Known, SeenAreKnown
    <2>8. RaisedAreKnown'
      BY <2>2, <2>4, <2>5, <2>6 DEF Known, RaisedAreKnown
    <2> QED
      BY <2>7, <2>8
  <1>5. CASE ReadLift
    <2>1. TickStep("stop")
      BY <1>5 DEF ReadLift
    <2> QED
      BY <1>5, <1>n, <2>1, TickStepFacts, ReadLiftFields, SameTickKnown
  <1>6. CASE StopLift
    <2>1. TickStep("write")
      BY <1>6 DEF StopLift
    <2> QED
      BY <1>6, <1>n, <2>1, TickStepFacts, StopLiftFields, SameTickKnown
  <1>7. CASE tick' = NoTick
    BY <1>7 DEF SeenAreKnown, RaisedAreKnown
  <1>8. CASE ~TickNext
    BY <1>7, <1>8, OtherSteps, SameTickKnown
  <1> QED
    BY <1>1, <1>2, <1>3, <1>4, <1>5, <1>6, <1>7, <1>8 DEF TickNext, CommitTick

LEMMA StepKnown == Typed /\ Justified /\ Known /\ [Next]_vars => Known'
  BY StepLevelsKnown, StepPatchesKnown, StepTickKnown DEF Known

LEMMA AlarmKnown ==
    ASSUME Typed, Known, [Next]_vars, NEW l \in Lifts, alarms'[l] > alarms[l]
    PROVE  \E s \in announced' : LiftOf[s] = l
  <1>0. alarms \in [Lifts -> Nat]
    BY DEF Typed, TypeOK
  <1>1. CASE CommitTick
    <2>1. tick # NoTick
      BY <1>1 DEF CommitTick, NoTick
    <2>2. tick.raised[l] \in Nat
      BY <2>1, TickFields
    <2>3. tick.raised[l] > 0
      BY <1>0, <1>1, <2>2 DEF CommitTick
    <2>4. PICK s \in Sensors : LiftOf[s] = l /\ KnownSensor(s)
      BY <2>1, <2>3 DEF Known, RaisedAreKnown
    <2>5. s \in announced'
      BY <1>1, <2>1, <2>4 DEF CommitTick, KnownSensor
    <2> QED
      BY <2>4, <2>5
  <1>2. CASE TickNext /\ ~CommitTick
    <2>1. UNCHANGED alarms
      BY <1>2 DEF TickNext, StartTick, LookAtLift, Drift, RaiseAlarm, ReadLift, StopLift,
                  TickStep
    <2> QED
      BY <1>0, <2>1
  <1>3. CASE ~TickNext
    BY <1>0, <1>3, OtherSteps
  <1> QED
    BY <1>1, <1>2, <1>3

\* No alarm without notice: the sensor it is filed for went through the
\* warning zone in a tick that has committed or commits with it, or had its
\* level set by hand; a level that is written back keeps its history.
THEOREM AlarmsHaveNotice == SafeSpec => AlarmsAreAnnounced
  <1>1. Typed /\ Known /\ [Next]_vars =>
          [\A l \in Lifts :
             alarms'[l] > alarms[l] => \E s \in announced' : LiftOf[s] = l]_vars
    BY AlarmKnown
  <1> QED
    BY InitTyped, StepTyped, InitJustified, StepJustified, InitKnown, StepKnown, <1>1, PTL
       DEF SafeSpec, AlarmsAreAnnounced

-----------------------------------------------------------------------------
(* The refinement of Emergencies.                                          *)

\* A tick has filed an alarm only for a sensor it has written as critical.
AlarmsForCritical ==
    \A l \in Lifts : tick # NoTick /\ tick.raised[l] > 0 =>
        \E s \in tick.wrote : LiftOf[s] = l /\ Zone(tick.seen[s]) = "critical"

LEMMA StepAlarmsForCritical ==
    Typed /\ Justified /\ AlarmsForCritical /\ [Next]_vars => AlarmsForCritical'
  <1> SUFFICES ASSUME Typed, Justified, AlarmsForCritical, [Next]_vars
               PROVE  AlarmsForCritical'
    OBVIOUS
  <1> USE DEF AlarmsForCritical
  <1>1. CASE StartTick
    <2>1. \A l \in Lifts : tick'.raised[l] = 0
      BY <1>1 DEF StartTick
    <2> QED
      BY <2>1
  <1>2. CASE LookAtLift
    <2>1. TickStep("look")
      BY <1>2 DEF LookAtLift
    <2> QED
      BY <1>2, <2>1, TickStepFacts, LookFields
  <1>3. CASE Drift
    <2>1. TickStep("drift")
      BY <1>3 DEF Drift
    <2>2. /\ tick # NoTick /\ tick.pc = "drift" /\ tick \in Tick /\ tick.at \in Sensors
          /\ tick.seen \in [Sensors -> Levels] /\ tick.wrote \subseteq Sensors
      BY <2>1, TickStepFacts, TickFields
    <2>3. /\ \E new \in Levels : tick'.seen = [tick.seen EXCEPT ![tick.at] = new]
          /\ tick'.wrote = tick.wrote \union {tick.at} /\ tick'.raised = tick.raised
      BY <1>3, <2>2, DriftFields
    <2>4. \A s \in tick.wrote : s # tick.at
      BY <2>2 DEF Justified, WroteUpToHere, Sensors
    <2>5. \A s \in tick.wrote : tick'.seen[s] = tick.seen[s]
      BY <2>2, <2>3, <2>4
    <2> QED
      BY <2>2, <2>3, <2>5
  <1>4. CASE RaiseAlarm
    <2> DEFINE l == LiftOf[tick.at]
    <2>1. TickStep("alarm")
      BY <1>4 DEF RaiseAlarm
    <2>2. /\ tick # NoTick /\ tick.pc = "alarm" /\ tick \in Tick /\ l \in Lifts
          /\ tick.raised \in [Lifts -> Nat]
      BY <2>1, TickStepFacts, TickFields
    <2>3. /\ tick'.seen = tick.seen /\ tick'.wrote = tick.wrote
          /\ tick'.raised = [tick.raised EXCEPT ![l] = IF HasOpenCritical(l) THEN @ ELSE @ + 1]
      BY <1>4, <2>1, TickStepFacts, AlarmFields
    <2>4. \A m \in Lifts : m # l => tick'.raised[m] = tick.raised[m]
      BY <2>2, <2>3
    <2>5. tick.at \in tick.wrote /\ Zone(tick.seen[tick.at]) = "critical"
      BY <2>2 DEF Justified, InAlarm
    <2> QED
      BY <2>2, <2>3, <2>4, <2>5
  <1>5. CASE ReadLift
    <2>1. TickStep("stop")
      BY <1>5 DEF ReadLift
    <2> QED
      BY <1>5, <2>1, TickStepFacts, ReadLiftFields
  <1>6. CASE StopLift
    <2>1. TickStep("write")
      BY <1>6 DEF StopLift
    <2> QED
      BY <1>6, <2>1, TickStepFacts, StopLiftFields
  <1>7. CASE CommitTick
    BY <1>7 DEF CommitTick
  <1>8. CASE ~TickNext
    BY <1>8, OtherSteps
  <1> QED
    BY <1>1, <1>2, <1>3, <1>4, <1>5, <1>6, <1>7, <1>8 DEF TickNext

\* A restore sets only sensors of its own lift.
OwnSensors(r) == r.op = "restore" => \A s \in r.wrote : LiftOf[s] = r.lift

RestoresStayOnLift == \A c \in Clients : OwnSensors(command[c])

\* The steps in which a command begins or goes on.
LEMMA CommandMoves ==
    ASSUME [Next]_vars
    PROVE  \/ UNCHANGED command
           \/ \E c \in Clients :
                \/ EndCommand(c)
                \/ BeginSome(c) \/ ReadLiftAgain(c) \/ RestoreLift(c) \/ RestoreSensor(c)
  <1>1. CASE TickNext \/ AbortTick
    BY <1>1 DEF TickNext, StartTick, LookAtLift, Drift, RaiseAlarm, ReadLift, StopLift,
                TickStep, CommitTick, AbortTick
  <1>2. ASSUME NEW c \in Clients, PatchLift(c) \/ PatchSensor(c) \/ CommitRestore(c)
        PROVE  EndCommand(c)
    BY <1>2 DEF PatchLift, PatchSensor, CommitRestore
  <1>3. ASSUME NEW c \in Clients, AbortCommand(c) \/ BreakDeadlock(c)
        PROVE  UNCHANGED command \/ EndCommand(c)
    BY <1>3 DEF AbortCommand, BreakDeadlock
  <1>4. ASSUME NEW l \in Lifts, FileCritical(l) \/ ResolveCritical(l)
        PROVE  UNCHANGED command
    BY <1>4 DEF FileCritical, ResolveCritical
  <1>5. CASE UNCHANGED vars
    BY <1>5 DEF vars
  <1> QED
    BY <1>1, <1>2, <1>3, <1>4, <1>5 DEF Next, Finish

LEMMA StepRestoresStay ==
    Typed /\ RestoresStayOnLift /\ [Next]_vars => RestoresStayOnLift'
  <1> SUFFICES ASSUME Typed, RestoresStayOnLift, [Next]_vars
               PROVE  RestoresStayOnLift'
    OBVIOUS
  <1>a. ASSUME NEW c \in Clients, NEW r, command' = [command EXCEPT ![c] = r], OwnSensors(r)
        PROVE  RestoresStayOnLift'
    BY <1>a DEF RestoresStayOnLift, Typed, TypeOK
  <1>1. CASE UNCHANGED command
    BY <1>1 DEF RestoresStayOnLift
  <1>2. ASSUME NEW c \in Clients, EndCommand(c) PROVE RestoresStayOnLift'
    <2>1. OwnSensors(NoCommand)
      BY DEF OwnSensors, NoCommand
    <2> QED
      BY <1>a, <1>2, <2>1 DEF EndCommand
  <1>3. ASSUME NEW c \in Clients, BeginSome(c) PROVE RestoresStayOnLift'
    <2>1. ASSUME NEW l \in Lifts, NEW given \in SUBSET Columns, NEW body \in Bodies,
                 BeginPatchLift(c, l, given, body)
          PROVE  RestoresStayOnLift'
      <3> DEFINE row == Write(lift[l], body, given)
                 r == [op |-> "patch lift", lift |-> l, given |-> given, seen |-> lift[l],
                       cols |-> {}, row |-> row]
      <3>1. command' = [command EXCEPT ![c] = r] /\ OwnSensors(r)
        BY <2>1 DEF BeginPatchLift, Begin, Advance, OwnSensors
      <3> QED
        BY <1>a, <3>1
    <2>2. ASSUME NEW s \in Sensors, NEW given \in BOOLEAN, NEW v \in NewLevels,
                 BeginPatchSensor(c, s, given, v)
          PROVE  RestoresStayOnLift'
      <3> DEFINE r == [op |-> "patch sensor", sensor |-> s, given |-> given,
                       level |-> IF given THEN v ELSE level[s]]
      <3>1. command' = [command EXCEPT ![c] = r] /\ OwnSensors(r)
        BY <2>2 DEF BeginPatchSensor, Begin, Advance, OwnSensors
      <3> QED
        BY <1>a, <3>1
    <2>3. ASSUME NEW l \in Lifts, NEW status \in Targets, BeginRestore(c, l, status)
          PROVE  RestoresStayOnLift'
      <3> DEFINE row == [status |-> status, is_emergency |-> FALSE]
                 r == [op |-> "restore", lift |-> l, row |-> row,
                       cols |-> Changed(row, lift[l]), at |-> 0, wrote |-> {}]
      <3>1. command' = [command EXCEPT ![c] = r] /\ OwnSensors(r)
        BY <2>3 DEF BeginRestore, Begin, Advance, OwnSensors
      <3> QED
        BY <1>a, <3>1
    <2> QED
      BY <1>3, <2>1, <2>2, <2>3 DEF BeginSome
  <1>4. ASSUME NEW c \in Clients, ReadLiftAgain(c) PROVE RestoresStayOnLift'
    <2>1. command[c] \in PatchLiftCommand
      BY <1>4, CommandKinds DEF ReadLiftAgain
    <2>2. PICK cols : command' = [command EXCEPT ![c] =
                          [command[c] EXCEPT !.op = "write lift", !.cols = cols]]
      BY <1>4 DEF ReadLiftAgain, Advance
    <2>3. OwnSensors([command[c] EXCEPT !.op = "write lift", !.cols = cols])
      BY <2>1 DEF OwnSensors, PatchLiftCommand
    <2> QED
      BY <1>a, <2>2, <2>3
  <1>5. ASSUME NEW c \in Clients, RestoreLift(c) \/ RestoreSensor(c)
        PROVE  RestoresStayOnLift'
    <2>1. command[c] \in RestoreCommand /\ OwnSensors(command[c])
      BY <1>5, CommandKinds DEF RestoreLift, RestoreSensor, Restoring, RestoresStayOnLift
    <2> DEFINE q == command[c]
               n == q.at + 1
    <2>2. \A s \in q.wrote : LiftOf[s] = q.lift
      BY <2>1 DEF OwnSensors, RestoreCommand
    <2>3. CASE \/ command' = [command EXCEPT ![c] = [q EXCEPT !.at = 1]]
               \/ command' = [command EXCEPT ![c] = [q EXCEPT !.at = n]]
      <3>1. PICK m : command' = [command EXCEPT ![c] = [q EXCEPT !.at = m]]
        BY <2>3
      <3> HIDE DEF q
      <3>2. OwnSensors([q EXCEPT !.at = m])
        BY <2>1, <2>2 DEF OwnSensors, RestoreCommand, q
      <3> QED
        BY <1>a, <3>1, <3>2
    <2>4. CASE /\ LiftOf[q.at] = q.lift
               /\ command' = [command EXCEPT ![c] =
                                [q EXCEPT !.at = n, !.wrote = @ \union {q.at}]]
      <3> DEFINE r == [q EXCEPT !.at = n, !.wrote = @ \union {q.at}]
      <3>1. r.wrote = q.wrote \union {q.at} /\ r.lift = q.lift
        BY <2>1 DEF RestoreCommand
      <3>2. OwnSensors(r)
        BY <2>2, <2>4, <3>1 DEF OwnSensors
      <3> QED
        BY <1>a, <2>4, <3>2
    <2> QED
      BY <1>5, <2>3, <2>4 DEF RestoreLift, RestoreSensor, Advance
  <1> QED
    BY <1>1, <1>2, <1>3, <1>4, <1>5, CommandMoves

\* The commit of a tick is a round.
LEMMA CommitIsRound ==
    ASSUME Typed, OneAlarmPerLift, Justified, Known, AlarmsForCritical, [Next]_vars, CommitTick
    PROVE  Emergency!Round
  <1> DEFINE raised == {l \in Lifts : tick.raised[l] > 0}
  <1>1. tick # NoTick /\ tick' # tick /\ tick.wrote \subseteq Sensors
    BY TickFields DEF CommitTick, NoTick
  <1>2. /\ level' \in [Sensors -> Levels] /\ lift' \in [Lifts -> LiftRow]
        /\ lift \in [Lifts -> LiftRow]
    BY StepTyped DEF Typed, TypeOK
  <1>3. announced \subseteq announced'
    BY AnnouncedGrows
  <1>4. ASSUME NEW s \in Sensors, level'[s] \in {v \in Levels : Zone(v) # "normal"}
        PROVE  s \in announced'
    <2>1. level'[s] > Threshold
      BY <1>4, Zones, SimulationAssumption DEF Levels
    <2> QED
      BY <2>1, StepLevelsKnown DEF LevelsAreKnown
  <1>5. ASSUME NEW l \in Lifts
        PROVE  /\ l \in raised => tick.raised[l] = 1 /\ alarms[l] = 0
               /\ l \notin raised => tick.raised[l] = 0
               /\ alarms[l] \in Nat /\ requests[l] \in Nat
    <2>1. tick.raised[l] \in Nat /\ alarms[l] \in Nat /\ requests[l] \in Nat
      BY <1>1, TickFields DEF Typed, TypeOK
    <2>2. alarms[l] + tick.raised[l] <= 1
      BY <1>1 DEF OneAlarmPerLift
    <2> QED
      BY <2>1, <2>2
  <1>6. /\ alarms' = [l \in Lifts |-> alarms[l] + tick.raised[l]]
        /\ requests' = [l \in Lifts |-> requests[l] + tick.raised[l]]
    BY DEF CommitTick
  <1>7. ASSUME NEW l \in raised
        PROVE  \E s \in Sensors : LiftOf[s] = l /\ level'[s] \in {v \in Levels : Zone(v) = "critical"}
    <2>1. PICK s \in tick.wrote : LiftOf[s] = l /\ Zone(tick.seen[s]) = "critical"
      BY <1>1 DEF AlarmsForCritical
    <2>2. s \in Sensors /\ level'[s] = tick.seen[s]
      BY <1>1, <2>1 DEF CommitTick
    <2> QED
      BY <1>2, <2>1, <2>2
  <1>8. ASSUME NEW l \in Lifts, lift'[l] # lift[l]
        PROVE  \E s \in Sensors : LiftOf[s] = l /\ level'[s] \in {v \in Levels : Zone(v) = "critical"}
    BY <1>1, <1>2, <1>8, StopJustified
  <1>9. ASSUME NEW l \in Lifts, NEW k \in DOMAIN Stopped
        PROVE  lift'[l][k] \in {lift[l][k], Stopped[k]}
    <2>1. lift'[l] = Write(lift[l], Stopped, tick.stopped[l])
      BY DEF CommitTick, LiftInTick
    <2>2. k \in {"status", "is_emergency"}
      BY DEF Stopped
    <2> QED
      BY <2>1, <2>2 DEF Write
  <1> HIDE DEF raised
  <1>10. raised \in SUBSET {l \in Lifts : alarms[l] = 0}
    BY <1>5 DEF raised
  <1>11. alarms' = [l \in Lifts |-> IF l \in raised THEN 1 ELSE alarms[l]]
    BY <1>5, <1>6
  <1>12. requests' = [l \in Lifts |-> IF l \in raised THEN requests[l] + 1 ELSE requests[l]]
    BY <1>5, <1>6
  <1>13. ASSUME NEW l \in Lifts, l \in raised \/ lift'[l] # lift[l]
         PROVE  \E s \in Sensors : LiftOf[s] = l /\ level'[s] \in {v \in Levels : Zone(v) = "critical"}
    BY <1>7, <1>8, <1>13
  <1>14. \A l \in Lifts : l \in raised \/ lift'[l] # lift[l] =>
            \E s \in Sensors : LiftOf[s] = l /\ level'[s] \in {v \in Levels : Zone(v) = "critical"}
    BY <1>13
  <1>15. \A s \in Sensors : level'[s] \in {v \in Levels : Zone(v) # "normal"} => s \in announced'
    BY <1>4
  <1>16. \A l \in Lifts : \A k \in DOMAIN Stopped : lift'[l][k] \in {lift[l][k], Stopped[k]}
    BY <1>9
  <1> QED
    BY <1>2, <1>3, <1>10, <1>11, <1>12, <1>14, <1>15, <1>16, Zenon DEF Emergency!Round

\* The commit of a patch or a restore is a change of a lift or a sensor.
LEMMA CommandIsOneStep ==
    ASSUME Typed, Known, RestoresStayOnLift, NEW c \in Clients, Finish(c)
    PROVE  [Emergency!Next]_Emergency!emergencyVars
  <1>t. /\ lift \in [Lifts -> LiftRow] /\ level \in [Sensors -> Levels]
    BY DEF Typed, TypeOK
  <1>1. CASE PatchLift(c)
    <2> DEFINE r == command[c]
               row == Write(lift[r.lift], r.row, r.cols)
    <2>1. r \in PatchLiftCommand
      BY <1>1, CommandKinds DEF PatchLift
    <2>2. r.lift \in Lifts /\ r.row \in LiftRow
      BY <2>1 DEF PatchLiftCommand
    <2>3. row \in LiftRow
      BY <1>t, <2>2, WriteType
    <2>4. /\ lift' = [lift EXCEPT ![r.lift] = row]
          /\ UNCHANGED <<level, alarms, requests, announced>>
      BY <1>1 DEF PatchLift
    <2>5. level' = [s \in Sensors |-> IF s \in {} THEN SafeLevel ELSE level[s]]
      BY <1>t, <2>4
    <2> HIDE DEF r, row
    <2>6. {} \in SUBSET {s \in Sensors : LiftOf[s] = r.lift}
      OBVIOUS
    <2>7. Emergency!SetLift(r.lift)
      BY <2>3, <2>4, <2>5, <2>6, Zenon DEF Emergency!SetLift
    <2> QED
      BY <2>2, <2>7 DEF Emergency!Next
  <1>2. CASE PatchSensor(c)
    <2> DEFINE r == command[c]
    <2>1. r \in PatchSensorCommand
      BY <1>2, CommandKinds DEF PatchSensor
    <2>2. r.sensor \in Sensors /\ r.level \in Levels
      BY <2>1 DEF PatchSensorCommand
    <2>3. /\ level' = [level EXCEPT ![r.sensor] = r.level]
          /\ announced' = IF r.given THEN announced \union {r.sensor} ELSE announced
          /\ UNCHANGED <<lift, alarms, requests>>
      BY <1>2 DEF PatchSensor
    <2>4. r.level \in {v \in Levels : Zone(v) # "normal"} => r.sensor \in announced'
      <3>1. r.level > Threshold => r.given \/ r.sensor \in announced
        BY <1>2 DEF PatchSensor, Known, PatchesAreKnown, KnownPatch
      <3> QED
        BY <2>2, <2>3, <3>1, Zones, SimulationAssumption DEF Levels
    <2> HIDE DEF r
    <2>5. Emergency!SetLevel(r.sensor)
      BY <2>2, <2>3, <2>4 DEF Emergency!SetLevel
    <2> QED
      BY <2>2, <2>5 DEF Emergency!Next
  <1>3. CASE CommitRestore(c)
    <2> DEFINE r == command[c]
               row == Write(lift[r.lift], r.row, r.cols)
    <2>1. r \in RestoreCommand /\ r.op = "restore"
      BY <1>3, CommandKinds DEF CommitRestore, Restoring
    <2>2. r.lift \in Lifts /\ r.row \in LiftRow /\ r.wrote \subseteq Sensors
      BY <2>1 DEF RestoreCommand
    <2>3. row \in LiftRow
      BY <1>t, <2>2, WriteType
    <2>4. /\ lift' = [lift EXCEPT ![r.lift] = row]
          /\ level' = [s \in Sensors |-> IF s \in r.wrote THEN SafeLevel ELSE level[s]]
          /\ UNCHANGED <<alarms, requests, announced>>
      BY <1>3 DEF CommitRestore
    <2>5. r.wrote \in SUBSET {s \in Sensors : LiftOf[s] = r.lift}
      BY <2>1, <2>2 DEF RestoresStayOnLift, OwnSensors
    <2> HIDE DEF r, row
    <2>6. Emergency!SetLift(r.lift)
      BY <2>3, <2>4, <2>5 DEF Emergency!SetLift
    <2> QED
      BY <2>2, <2>6 DEF Emergency!Next
  <1>4. CASE ReadLiftAgain(c) \/ RestoreLift(c) \/ RestoreSensor(c)
    BY <1>4 DEF ReadLiftAgain, RestoreLift, RestoreSensor, Advance, Emergency!emergencyVars
  <1> QED
    BY <1>1, <1>2, <1>3, <1>4 DEF Finish

LEMMA EmergenciesNext ==
    ASSUME Typed, OneAlarmPerLift, Justified, Known, AlarmsForCritical, RestoresStayOnLift,
           [Next]_vars
    PROVE  [Emergency!Next]_Emergency!emergencyVars
  <1>1. CASE CommitTick
    BY <1>1, CommitIsRound DEF Emergency!Next
  <1>2. CASE (TickNext /\ ~CommitTick) \/ AbortTick
    BY <1>2 DEF TickNext, StartTick, LookAtLift, Drift, RaiseAlarm, ReadLift, StopLift,
                TickStep, AbortTick, Emergency!emergencyVars
  <1>3. ASSUME NEW c \in Clients, BeginSome(c)
        PROVE  UNCHANGED Emergency!emergencyVars
    BY <1>3 DEF BeginSome, BeginPatchLift, BeginPatchSensor, BeginRestore, Begin, Advance,
                Emergency!emergencyVars
  <1>4. ASSUME NEW c \in Clients, Finish(c)
        PROVE  [Emergency!Next]_Emergency!emergencyVars
    BY <1>4, CommandIsOneStep
  <1>5. ASSUME NEW c \in Clients, AbortCommand(c) \/ BreakDeadlock(c)
        PROVE  UNCHANGED Emergency!emergencyVars
    BY <1>5 DEF AbortCommand, BreakDeadlock, Emergency!emergencyVars
  <1>6. ASSUME NEW l \in Lifts, FileCritical(l)
        PROVE  UNCHANGED Emergency!emergencyVars
    BY <1>6 DEF FileCritical, Emergency!emergencyVars
  <1>7. ASSUME NEW l \in Lifts, ResolveCritical(l)
        PROVE  [Emergency!Next]_Emergency!emergencyVars
    <2>1. UNCHANGED <<lift, level, requests, announced>>
      BY <1>7 DEF ResolveCritical
    <2>2. CASE UNCHANGED alarms
      BY <2>1, <2>2 DEF Emergency!emergencyVars
    <2>3. CASE alarms[l] > 0 /\ alarms' = [alarms EXCEPT ![l] = @ - 1]
      <3>1. alarms[l] \in Nat /\ (tick # NoTick => tick.raised[l] \in Nat)
        BY TickFields DEF Typed, TypeOK
      <3>2. alarms[l] = 1
        BY <2>3, <3>1 DEF OneAlarmPerLift
      <3>3. alarms' = [alarms EXCEPT ![l] = 0]
        BY <2>3, <3>2
      <3>4. Emergency!Resolve(l)
        BY <2>1, <3>2, <3>3 DEF Emergency!Resolve
      <3> QED
        BY <3>4 DEF Emergency!Next
    <2> QED
      BY <1>7, <2>2, <2>3 DEF ResolveCritical
  <1>8. CASE UNCHANGED vars
    BY <1>8 DEF vars, Emergency!emergencyVars
  <1> QED
    BY <1>1, <1>2, <1>3, <1>4, <1>5, <1>6, <1>7, <1>8 DEF Next

LEMMA EmergenciesInit == Init => Emergency!Init
  <1> SUFFICES ASSUME Init PROVE Emergency!Init
    OBVIOUS
  <1>1. lift \in [Lifts -> LiftRow]
    BY InitTyped DEF Typed, TypeOK
  <1>2. \A v \in 0..Threshold : v \in Levels \ {w \in Levels : Zone(w) # "normal"}
    BY SimulationAssumption DEF Levels, Zone
  <1>3. level \in [Sensors -> Levels \ {w \in Levels : Zone(w) # "normal"}]
    BY <1>2 DEF Init
  <1> QED
    BY <1>1, <1>3 DEF Init, Emergency!Init

\* To who sees only what is committed a tick is one round, for any number of
\* sensors, lifts and commands.
THEOREM ImplementsRounds == SafeSpec => ImplementsEmergencies
  <1> DEFINE I == /\ Typed /\ Justified /\ Known
                  /\ AlarmsForCritical /\ RestoresStayOnLift
  <1>1. Init => I
    <2>1. Init => AlarmsForCritical
      BY DEF Init, AlarmsForCritical
    <2>2. Init => RestoresStayOnLift
      BY DEF Init, RestoresStayOnLift, OwnSensors, NoCommand
    <2> QED
      BY <2>1, <2>2, InitTyped, InitJustified, InitKnown
  <1>2. I /\ [Next]_vars => I'
    BY StepTyped, StepJustified, StepKnown, StepAlarmsForCritical, StepRestoresStay
  <1>3. I /\ OneAlarmPerLift /\ [Next]_vars => [Emergency!Next]_Emergency!emergencyVars
    BY EmergenciesNext
  <1> HIDE DEF I
  <1> QED
    BY <1>1, <1>2, <1>3, EmergenciesInit, AlarmsDoNotPileUp, PTL
       DEF SafeSpec, ImplementsEmergencies, Emergency!Spec
=============================================================================
