---------------------------- MODULE TechnicianView ----------------------------
(***************************************************************************)
(* What commands on requests and technicians promise to who only sees what *)
(* is committed: no transactions, statements, locks or lists of events.  A *)
(* command changes the rows and refreshes those of technicians_read that   *)
(* follow from them in one step.  ServiceRequests implements this module.  *)
(***************************************************************************)
EXTENDS Integers

CONSTANTS Requests, Techs,
          LiftOf,       \* the lift of a request
          Row,          \* rows of requests: their status and technician
          Active,       \* the statuses that count
          TechStatus,   \* statuses of technicians
          Card,         \* rows of technicians_read: a status and the requests counted
          NoRow

VARIABLES
    request,    \* request[r]: the row, or NoRow
    tech,       \* tech[t]: the technician's status, or NoRow
    shown       \* shown[t]: the row of technicians_read, or NoRow

viewVars == <<request, tech, shown>>

\* The assigned requests of a technician.
Load(rows, t) ==
    {q \in Requests : rows[q] # NoRow /\ rows[q].tech = t /\ rows[q].status \in Active}

Init ==
    /\ request \in [Requests -> Row \union {NoRow}]
    /\ tech \in [Techs -> TechStatus \union {NoRow}]
    /\ shown = [t \in Techs |->
                  IF tech[t] = NoRow THEN NoRow
                  ELSE [status |-> tech[t], active |-> Load(request, t)]]

\* A command on a request writes that request and rebuilds the rows of some
\* technicians: of all whose status it changes, which their rows then show.
\* A row it rebuilds is exact as to the requests of the same lift.
WorkOn(r) ==
    /\ \E row \in Row : request' = [request EXCEPT ![r] = row]
    /\ \E cards \in SUBSET Techs :
         /\ shown' \in [Techs -> Card \union {NoRow}] /\ tech' \in [Techs -> TechStatus \union {NoRow}]
         /\ \A t \in Techs \ cards : shown'[t] = shown[t] /\ tech'[t] = tech[t]
         /\ \A t \in cards :
              /\ shown'[t] # NoRow
              /\ tech'[t] # tech[t] => shown'[t].status = tech'[t]
              /\ \A q \in Requests : LiftOf[q] = LiftOf[r] =>
                   (q \in shown'[t].active <=> q \in Load(request', t))

\* A command on a technician, who is created or changed.
Edit(t) ==
    /\ \E s \in TechStatus \union {NoRow}, card \in Card :
         /\ s # tech[t] => card.status = s
         /\ tech' = [tech EXCEPT ![t] = s]
         /\ shown' = [shown EXCEPT ![t] = card]
    /\ UNCHANGED request

\* A technician is deleted: only the row of technicians_read goes.
Remove(t) ==
    /\ shown' = [shown EXCEPT ![t] = NoRow]
    /\ UNCHANGED <<request, tech>>

Next ==
    \/ \E r \in Requests : WorkOn(r)
    \/ \E t \in Techs : Edit(t) \/ Remove(t)

Spec == Init /\ [][Next]_viewVars
=============================================================================
