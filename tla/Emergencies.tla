------------------------------ MODULE Emergencies ------------------------------
(***************************************************************************)
(* What the sensor simulation and the commands next to it promise to who   *)
(* only sees what is committed: no transactions, locks, copies of rows or  *)
(* deadlocks.  A tick is one round that looks at its sensors and acts on   *)
(* them at once.  SensorSimulation implements this module.                 *)
(***************************************************************************)
EXTENDS Integers

CONSTANTS Lifts, Sensors,
          LiftOf,       \* LiftOf[s]: the lift of sensor s
          Levels,       \* of a sensor,
          Abnormal,     \* the ones above the threshold
          Dire,         \* and far above it
          Safe,         \* the level a restore sets
          LiftRow,      \* status and is_emergency of a lift
          Stopped       \* the row of a lift that is stopped

VARIABLES
    lift,       \* lift[l]: the lift's row
    level,      \* level[s]: the sensor's value
    alarms,     \* alarms[l]: unresolved CRITICAL events of the simulation
    requests,   \* requests[l]: service requests the simulation filed
    announced   \* sensors that had a WARNING event or a level set by hand

emergencyVars == <<lift, level, alarms, requests, announced>>

Init ==
    /\ lift \in [Lifts -> LiftRow]
    /\ level \in [Sensors -> Levels \ Abnormal]
    /\ alarms = [l \in Lifts |-> 0]
    /\ requests = [l \in Lifts |-> 0]
    /\ announced = {}

\* A round of the simulation.  A level that is not normal has been announced.
\* An alarm is raised where there is none, an event together with a request,
\* and a lift's columns turn to those of a stopped lift only: both for a
\* sensor of the lift whose level is dire when the round is over.
Round ==
    /\ level' \in [Sensors -> Levels]
    /\ announced \subseteq announced'
    /\ \A s \in Sensors : level'[s] \in Abnormal => s \in announced'
    /\ \E raised \in SUBSET {l \in Lifts : alarms[l] = 0} :
         /\ alarms' = [l \in Lifts |-> IF l \in raised THEN 1 ELSE alarms[l]]
         /\ requests' = [l \in Lifts |-> IF l \in raised THEN requests[l] + 1 ELSE requests[l]]
         /\ \A l \in Lifts :
              l \in raised \/ lift'[l] # lift[l] =>
                \E s \in Sensors : LiftOf[s] = l /\ level'[s] \in Dire
    /\ lift' \in [Lifts -> LiftRow]
    /\ \A l \in Lifts : \A k \in DOMAIN Stopped : lift'[l][k] \in {lift[l][k], Stopped[k]}

\* A sensor's level is set by hand, or written back by a patch of something
\* else, which does not make it abnormal unnoticed.
SetLevel(s) ==
    /\ \E v \in Levels :
         /\ level' = [level EXCEPT ![s] = v]
         /\ announced' \in {announced, announced \union {s}}
         /\ v \in Abnormal => s \in announced'
    /\ UNCHANGED <<lift, alarms, requests>>

\* A patch or a restore of a lift: the restore resets sensors of that lift.
SetLift(l) ==
    /\ \E row \in LiftRow : lift' = [lift EXCEPT ![l] = row]
    /\ \E S \in SUBSET {s \in Sensors : LiftOf[s] = l} :
         level' = [s \in Sensors |-> IF s \in S THEN Safe ELSE level[s]]
    /\ UNCHANGED <<alarms, requests, announced>>

Resolve(l) ==
    /\ alarms[l] = 1
    /\ alarms' = [alarms EXCEPT ![l] = 0]
    /\ UNCHANGED <<lift, level, requests, announced>>

Next ==
    \/ Round
    \/ \E s \in Sensors : SetLevel(s)
    \/ \E l \in Lifts : SetLift(l) \/ Resolve(l)

Spec == Init /\ [][Next]_emergencyVars
=============================================================================
