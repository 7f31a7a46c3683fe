------------------------------- MODULE Cabins -------------------------------
(***************************************************************************)
(* What the cabins of the fleet promise, with no database, no requests and *)
(* no stored direction: each lift has a floor, a goal and doors.  Somebody *)
(* may give a lift a new goal, work its doors or halt it at any moment; a  *)
(* cabin changes floor only by travelling, one floor at a time, towards    *)
(* its goal, with its doors closed, and it does not stand still for ever   *)
(* while it could travel.  LiftPanel implements this module.               *)
(***************************************************************************)
EXTENDS Integers

CONSTANTS Lifts,        \* the lifts
          TotalFloors   \* lift_runtime.total_floors, the same for every lift

VARIABLES floor, goal, doorsOpen

cabinVars == <<floor, goal, doorsOpen>>

Floors == 1..TotalFloors

Init ==
    /\ floor = [l \in Lifts |-> 1]
    /\ goal = [l \in Lifts |-> 1]
    /\ doorsOpen = [l \in Lifts |-> FALSE]

NewGoal(l) ==
    /\ \E f \in Floors : goal' = [goal EXCEPT ![l] = f]
    /\ UNCHANGED <<floor, doorsOpen>>

WorkDoors(l) ==
    /\ doorsOpen' = [doorsOpen EXCEPT ![l] = ~@]
    /\ UNCHANGED <<floor, goal>>

Halt(l) ==
    /\ goal' = [goal EXCEPT ![l] = floor[l]]
    /\ doorsOpen' = [doorsOpen EXCEPT ![l] = FALSE]
    /\ UNCHANGED floor

CanTravel(l) == floor[l] # goal[l] /\ ~doorsOpen[l]

\* The floor after one step from one floor towards another.
OneFloorTowards(from, to) == IF from < to THEN from + 1 ELSE from - 1

Travel(S) ==
    /\ \A l \in S : CanTravel(l)
    /\ floor' = [l \in Lifts |->
                    IF l \in S THEN OneFloorTowards(floor[l], goal[l]) ELSE floor[l]]
    /\ UNCHANGED <<goal, doorsOpen>>

Next ==
    \/ \E l \in Lifts : NewGoal(l) \/ WorkDoors(l) \/ Halt(l)
    \/ \E S \in SUBSET Lifts : Travel(S)

SafeSpec == Init /\ [][Next]_cabinVars

\* A lift that can travel for ever eventually does.
Spec ==
    /\ SafeSpec
    /\ \A l \in Lifts :
         WF_cabinVars(\E S \in SUBSET Lifts : l \in S /\ Travel(S))
=============================================================================
