-------------------------- MODULE MCSensorSimulation --------------------------
(* Small instances of SensorSimulation for TLC.                            *)
EXTENDS SensorSimulation

CONSTANT l1

OnOneLift == [s \in Sensors |-> l1]

\* A patch begins a repair, closes it, or stops the lift.
SomeBodies == {[status |-> "active", is_emergency |-> FALSE],
               [status |-> "maintenance", is_emergency |-> FALSE],
               [status |-> "stopped", is_emergency |-> TRUE]}
=============================================================================
