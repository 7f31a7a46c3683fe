----------------------------- MODULE RefreshedView -----------------------------
(***************************************************************************)
(* What the read model promises of lifts_read to who only sees what is     *)
(* committed: no transactions, locks, events, failures or worker.  A       *)
(* command changes a lift and refreshes its row in one step.  The row may  *)
(* be out of date, but it shows nothing that was not committed, and of the *)
(* command's own doing it hides nothing.  ReadModel implements this module.*)
(***************************************************************************)
EXTENDS Integers

CONSTANTS Lifts, Status, NoRow

VARIABLES
    lift,       \* lift[l]: the columns of the lift
    changes,    \* changes[l]: changes commands made to the rows counted
    ticks,      \* ticks[l]: changes the simulation made
    shown       \* shown[l]: the lift's row in lifts_read

viewVars == <<lift, changes, ticks, shown>>

Init ==
    /\ lift \in [Lifts -> Status]
    /\ changes = [l \in Lifts |-> 0]
    /\ ticks = [l \in Lifts |-> 0]
    /\ shown = [l \in Lifts |-> [status |-> lift[l], changes |-> 0, ticks |-> 0]]

\* The row shows the columns if the command wrote them, and all counted
\* changes if it made one; it is behind then only by a tick.
Shows(l, row, status, adds) ==
    /\ status # lift[l] => row.status = status
    /\ adds = 1 => row.changes = changes[l] + 1
    /\ adds = 1 /\ row.ticks = ticks[l] => row.status = status

Change(l) ==
    \E status \in Status, adds \in {0, 1} :
      \E row \in [status : Status, changes : 0..(changes[l] + adds), ticks : 0..ticks[l]] :
        /\ Shows(l, row, status, adds)
        /\ lift' = [lift EXCEPT ![l] = status]
        /\ changes' = [changes EXCEPT ![l] = @ + adds]
        /\ shown' = [shown EXCEPT ![l] = row]
        /\ UNCHANGED ticks

Remove(l) ==
    /\ shown' = [shown EXCEPT ![l] = NoRow]
    /\ UNCHANGED <<lift, changes, ticks>>

Tick(l) ==
    /\ \E status \in Status : lift' = [lift EXCEPT ![l] = status]
    /\ ticks' = [ticks EXCEPT ![l] = @ + 1]
    /\ UNCHANGED <<changes, shown>>

Next == \E l \in Lifts : Change(l) \/ Remove(l) \/ Tick(l)

Spec == Init /\ [][Next]_viewVars
=============================================================================
