------------------------------ MODULE LiftPanel ------------------------------
(***************************************************************************)
(* The remote control panel of the lifts: application/lift_panel.py over   *)
(* the table lift_runtime, driven by concurrent HTTP requests and by the   *)
(* one-second loop _runtime_tick_loop of main.py.                          *)
(*                                                                         *)
(* PostgreSQL runs READ COMMITTED, and an operation is an INSERT ... ON    *)
(* CONFLICT DO NOTHING, a SELECT, a check in Python and an UPDATE followed *)
(* by a commit.  Other transactions commit between the SELECT and the      *)
(* UPDATE, so an operation is two steps: Begin... (the row is ensured and  *)
(* read) and the step that writes and commits, or rolls back.  An UPDATE   *)
(* holds its row until the commit that follows it, so the two are one step.*)
(***************************************************************************)
EXTENDS Integers

CONSTANTS Lifts,          \* rows of the table lifts
          Clients,        \* requests that can be in flight at a time
          TotalFloors,    \* lift_runtime.total_floors; nothing ever updates it
          MaxRequested,   \* the largest floor the API accepts (200)
          Nobody          \* no transaction

ASSUME PanelAssumption ==
    /\ TotalFloors \in Nat \ {0}
    /\ MaxRequested \in Nat
    /\ Nobody \notin Clients

VARIABLES
    rows,      \* the lifts whose lift_runtime row is committed
    runtime,   \* runtime[l]: that row; the default one while there is none
    creator,   \* creator[l]: whose uncommitted INSERT of the row is pending
    request    \* request[c]: what the client is doing and what it has read

vars == <<rows, runtime, creator, request>>

Floors == 1..TotalFloors
Directions == {"idle", "up", "down"}

Row == [current_floor : Int, target_floor : Int, doors_open : BOOLEAN,
        lights_on : BOOLEAN, direction : Directions]

DefaultRow == [current_floor |-> 1, target_floor |-> 1, doors_open |-> FALSE,
               lights_on |-> TRUE, direction |-> "idle"]

\* A plausible bug: no direction for the floor the cabin is at.
DirectionToUnset(from, to) ==
    IF to > from THEN "up" ELSE IF to < from THEN "down" ELSE "none"

\* The direction set_target_floor stores for a cabin it has seen at a floor.
DirectionTo(from, to) ==
    IF to > from THEN "up" ELSE IF to < from THEN "down" ELSE "idle"

NoRequest == [op |-> "none"]
MoveRequest == [op : {"move"}, lift : Lifts, floor : 1..MaxRequested,
                at : Int, open : BOOLEAN]
DoorsRequest == [op : {"doors"}, lift : Lifts, open : BOOLEAN,
                 direction : Directions]
LightsRequest == [op : {"lights"}, lift : Lifts, on : BOOLEAN]
StopRequest == [op : {"stop"}, lift : Lifts]
PanelRequest == [op : {"panel"}, lift : Lifts]
PanelsRequest == [op : {"panels"}]

Request == {NoRequest} \union MoveRequest \union DoorsRequest \union LightsRequest
           \union StopRequest \union PanelRequest \union PanelsRequest

Touched(r) == IF r.op = "panels" THEN Lifts ELSE {r.lift}

Init ==
    /\ rows \in SUBSET Lifts
    /\ runtime = [l \in Lifts |-> DefaultRow]
    /\ creator = [l \in Lifts |-> Nobody]
    /\ request = [c \in Clients |-> NoRequest]

-----------------------------------------------------------------------------
(* Transactions.                                                           *)

\* A plausible bug: check for the row first and insert without waiting.
EnsureRuntimeRowsNoWait(c, L) ==
    creator' = [l \in Lifts |-> IF l \in L \ rows THEN c ELSE creator[l]]

\* INSERT ... ON CONFLICT DO NOTHING: it waits for another transaction that
\* has inserted the same row and neither committed nor rolled back.
EnsureRuntimeRows(c, L) ==
    /\ \A l \in L : creator[l] = Nobody
    /\ creator' = [l \in Lifts |-> IF l \in L \ rows THEN c ELSE creator[l]]

Begin(c, r) ==
    /\ request[c] = NoRequest
    /\ EnsureRuntimeRows(c, Touched(r))
    /\ request' = [request EXCEPT ![c] = r]
    /\ UNCHANGED <<rows, runtime>>

EndTransaction(c) ==
    /\ creator' = [l \in Lifts |-> IF creator[l] = c THEN Nobody ELSE creator[l]]
    /\ request' = [request EXCEPT ![c] = NoRequest]

Commit(c) ==
    /\ rows' = rows \union {l \in Lifts : creator[l] = c}
    /\ EndTransaction(c)

Rollback(c) ==
    /\ EndTransaction(c)
    /\ UNCHANGED <<rows, runtime>>

-----------------------------------------------------------------------------
(* The operations, each split at its SELECT.                               *)

BeginMove(c, l, f) ==
    Begin(c, [op |-> "move", lift |-> l, floor |-> f,
              at |-> runtime[l].current_floor, open |-> runtime[l].doors_open])

BeginDoors(c, l, open) ==
    Begin(c, [op |-> "doors", lift |-> l, open |-> open,
              direction |-> runtime[l].direction])

BeginLights(c, l, on) == Begin(c, [op |-> "lights", lift |-> l, on |-> on])

BeginStop(c, l) == Begin(c, [op |-> "stop", lift |-> l])

BeginPanel(c, l) == Begin(c, [op |-> "panel", lift |-> l])

BeginPanels(c) == Begin(c, [op |-> "panels"])

\* A plausible bug: leave the range to the API schema.
MoveAllowedAnyFloor(r) == r.open => r.floor = r.at

\* The checks of set_target_floor, on what it has read.
MoveAllowed(r) ==
    /\ r.floor \in Floors
    /\ r.open => r.floor = r.at

SetTargetFloor(c) ==
    LET r == request[c] IN
    /\ r.op = "move"
    /\ MoveAllowed(r)
    /\ runtime' = [runtime EXCEPT ![r.lift].target_floor = r.floor,
                                  ![r.lift].direction = DirectionTo(r.at, r.floor)]
    /\ Commit(c)

\* The check of set_doors, on what it has read.
DoorsAllowed(r) == r.open => r.direction = "idle"

SetDoors(c) ==
    LET r == request[c] IN
    /\ r.op = "doors"
    /\ DoorsAllowed(r)
    /\ runtime' = [runtime EXCEPT ![r.lift].doors_open = r.open]
    /\ Commit(c)

SetLights(c) ==
    LET r == request[c] IN
    /\ r.op = "lights"
    /\ runtime' = [runtime EXCEPT ![r.lift].lights_on = r.on]
    /\ Commit(c)

\* One UPDATE: the target becomes the floor the row has when it is locked.
EmergencyStop(c) ==
    LET r == request[c] IN
    /\ r.op = "stop"
    /\ runtime' = [runtime EXCEPT
                     ![r.lift].target_floor = runtime[r.lift].current_floor,
                     ![r.lift].direction = "idle",
                     ![r.lift].doors_open = FALSE]
    /\ Commit(c)

\* A read of one panel or of all: what it inserted is committed after it.
ShowPanel(c) ==
    /\ request[c].op \in {"panel", "panels"}
    /\ UNCHANGED runtime
    /\ Commit(c)

\* A plausible bug: a refused move returns without ending its transaction.
RefuseDoorsOnly(c) ==
    /\ request[c].op = "doors" /\ ~DoorsAllowed(request[c])
    /\ Rollback(c)

\* ConflictError: get_session rolls the transaction back.
Refuse(c) ==
    /\ \/ request[c].op = "move" /\ ~MoveAllowed(request[c])
       \/ request[c].op = "doors" /\ ~DoorsAllowed(request[c])
    /\ Rollback(c)

\* Any other exception before the commit: a lost connection, a shutdown.
Abort(c) ==
    /\ request[c] # NoRequest
    /\ Rollback(c)

-----------------------------------------------------------------------------
(* tick_runtime: one UPDATE over the table.                                *)

\* Plausible bugs: a tick that ignores the doors, one that only goes up, and
\* one that keeps the direction when the cabin arrives.
MayMoveOpen(row) == row.current_floor # row.target_floor

MayMoveUp(row) == row.current_floor < row.target_floor /\ ~row.doors_open

AdvanceInMotion(row) ==
    [row EXCEPT !.current_floor = IF @ < row.target_floor THEN @ + 1 ELSE @ - 1,
                !.direction = DirectionTo(row.current_floor, row.target_floor)]

MayMove(row) == row.current_floor # row.target_floor /\ ~row.doors_open

Advance(row) ==
    LET at == row.current_floor
        to == row.target_floor
    IN  [row EXCEPT !.current_floor = IF at < to THEN at + 1 ELSE at - 1,
                    !.direction = IF to \in {at - 1, at + 1} THEN "idle"
                                  ELSE DirectionTo(at, to)]

\* S is the set of rows that matched the WHERE when the statement began and
\* still match when it locks them: a row written in between may be missed
\* until the next second.
Tick(S) ==
    /\ S # {}
    /\ \A l \in S : l \in rows /\ MayMove(runtime[l])
    /\ runtime' = [l \in Lifts |-> IF l \in S THEN Advance(runtime[l]) ELSE runtime[l]]
    /\ UNCHANGED <<rows, creator, request>>

-----------------------------------------------------------------------------

BeginSome(c) ==
    \/ \E l \in Lifts :
         \/ \E f \in 1..MaxRequested : BeginMove(c, l, f)
         \/ \E b \in BOOLEAN : BeginDoors(c, l, b) \/ BeginLights(c, l, b)
         \/ BeginStop(c, l)
         \/ BeginPanel(c, l)
    \/ BeginPanels(c)

Finish(c) ==
    \/ SetTargetFloor(c) \/ SetDoors(c) \/ SetLights(c) \/ EmergencyStop(c)
    \/ ShowPanel(c) \/ Refuse(c)

Next ==
    \/ \E c \in Clients : BeginSome(c) \/ Finish(c) \/ Abort(c)
    \/ \E S \in SUBSET Lifts : Tick(S)

SafeSpec == Init /\ [][Next]_vars

\* The loop survives its exceptions and ticks again a second later, and every
\* row that still matches is in the next statement's snapshot; a coroutine
\* that has read goes on to write.  Nobody has to send a request.
Fairness ==
    /\ \A l \in Lifts : WF_vars(\E S \in SUBSET Lifts : l \in S /\ Tick(S))
    /\ \A c \in Clients : WF_vars(Finish(c))

Spec == SafeSpec /\ Fairness

-----------------------------------------------------------------------------
(* Properties.                                                             *)

\* The type invariant: the columns of lift_runtime and the requests in flight
\* hold what their types say.
TypeOK ==
    /\ rows \in SUBSET Lifts
    /\ runtime \in [Lifts -> Row]
    /\ creator \in [Lifts -> Clients \union {Nobody}]
    /\ request \in [Clients -> Request]

\* A cabin never leaves the shaft and is never sent out of it: the check of
\* set_target_floor and the steps of tick_runtime keep both floors within
\* 1..total_floors, although the API lets any floor up to 200 in.
FloorsInBuilding ==
    \A l \in Lifts : /\ runtime[l].current_floor \in Floors
                     /\ runtime[l].target_floor \in Floors

\* First use of a lift by several requests at once: a row that is being
\* inserted belongs to one live request that touches the lift, and nothing any
\* request does to a lift shows before its row is committed.
UncommittedRowsInvisible ==
    \A l \in Lifts :
        /\ l \notin rows => runtime[l] = DefaultRow
        /\ creator[l] # Nobody =>
              /\ l \notin rows
              /\ request[creator[l]] # NoRequest
              /\ l \in Touched(request[creator[l]])

\* A row a panel can show without contradiction: the direction is the way
\* from the current floor to the target, and open doors mean a cabin at rest.
Coherent(row) ==
    /\ row.direction = DirectionTo(row.current_floor, row.target_floor)
    /\ row.doors_open => row.direction = "idle"

\* What the request has read and checked is no longer what the row says.
StaleRead(r) ==
    \/ /\ r.op = "move"
       /\ \/ r.at # runtime[r.lift].current_floor
          \/ r.open # runtime[r.lift].doors_open
    \/ /\ r.op = "doors"
       /\ r.direction # runtime[r.lift].direction

\* Every contradiction on a panel is a lost race: a coherent row becomes
\* incoherent only when a move or doors request commits what it decided on a
\* row that somebody has changed since.  No tick, stop, or request that ran
\* undisturbed between its SELECT and its UPDATE ever does that.
OnlyStaleReadsBreakCoherence ==
    [][\A l \in Lifts :
         Coherent(runtime[l]) /\ ~Coherent(runtime'[l]) =>
            \E c \in Clients : /\ StaleRead(request[c])
                              /\ request[c].lift = l
                              /\ request'[c] = NoRequest]_vars

\* The abstract cabins, read off the rows.
Cabin == INSTANCE Cabins WITH
            floor <- [l \in Lifts |-> runtime[l].current_floor],
            goal <- [l \in Lifts |-> runtime[l].target_floor],
            doorsOpen <- [l \in Lifts |-> runtime[l].doors_open]

\* Whatever the requests race with, the cabins keep their promise: a cabin
\* moves only in a tick, one floor at a time, towards its target, with closed
\* doors, and a lift that can travel for ever travels.
ImplementsCabins == Cabin!Spec

\* The part of that promise that says what a step may never do.
ImplementsCabinsSafely == Cabin!SafeSpec

\* A request in flight that may still change where the lift goes.
Steering(r, l) == r.op \in {"move", "doors", "stop"} /\ r.lift = l

\* A cabin that is under way with closed doors reaches its target and shows
\* itself idle there, whatever wrong direction a race had stored, unless
\* somebody steers the lift meanwhile.
ArrivesUnlessSteered ==
    \A l \in Lifts :
        MayMove(runtime[l]) ~>
            \/ runtime[l].current_floor = runtime[l].target_floor
               /\ runtime[l].direction = "idle"
            \/ \E c \in Clients : Steering(request[c], l)

\* No request waits for ever for another one's INSERT of a row: every
\* transaction that inserts, refused or not, gives the row up.
InsertWaitsEnd ==
    \A l \in Lifts : creator[l] # Nobody ~> creator[l] = Nobody

\* set_doors (lift_panel.py:312) refuses to open the doors in motion, so open
\* doors should mean an idle direction.  The code does not ensure it.
DoorsClosedInMotion ==
    \A l \in Lifts : runtime[l].doors_open => runtime[l].direction = "idle"
=============================================================================
