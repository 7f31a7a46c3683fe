--------------------------- MODULE LiftPanelProofs ---------------------------
(***************************************************************************)
(* Proofs about LiftPanel, for any lifts, clients and numbers of floors.   *)
(***************************************************************************)
EXTENDS LiftPanel, TLAPS

USE PanelAssumption

-----------------------------------------------------------------------------
(* Types.                                                                  *)

\* A request of any kind that begins leaves the state well typed.
LEMMA BeginTyped ==
    ASSUME TypeOK, NEW c \in Clients, NEW r \in Request, Begin(c, r)
    PROVE  TypeOK'
  BY DEF TypeOK, Begin, EnsureRuntimeRows

\* What every beginning request records is a request.
LEMMA BeginSomeBegins ==
    ASSUME TypeOK, NEW c \in Clients, BeginSome(c)
    PROVE  \E r \in Request : Begin(c, r) /\ r # NoRequest
<1> USE DEF Request, NoRequest
<1>1. ASSUME NEW l \in Lifts, NEW f \in 1..MaxRequested, BeginMove(c, l, f)
      PROVE  \E r \in Request : Begin(c, r) /\ r # NoRequest
  <2> DEFINE r == [op |-> "move", lift |-> l, floor |-> f,
                   at |-> runtime[l].current_floor, open |-> runtime[l].doors_open]
  <2>1. r \in MoveRequest
    BY DEF TypeOK, Row, MoveRequest
  <2>2. Begin(c, r)
    BY <1>1 DEF BeginMove
  <2>3. QED
    BY <2>1, <2>2
<1>2. ASSUME NEW l \in Lifts, NEW open \in BOOLEAN, BeginDoors(c, l, open)
      PROVE  \E r \in Request : Begin(c, r) /\ r # NoRequest
  <2> DEFINE r == [op |-> "doors", lift |-> l, open |-> open,
                   direction |-> runtime[l].direction]
  <2>1. r \in DoorsRequest
    BY DEF TypeOK, Row, DoorsRequest
  <2>2. Begin(c, r)
    BY <1>2 DEF BeginDoors
  <2>3. QED
    BY <2>1, <2>2
<1>3. ASSUME NEW l \in Lifts, NEW on \in BOOLEAN, BeginLights(c, l, on)
      PROVE  \E r \in Request : Begin(c, r) /\ r # NoRequest
  <2>1. [op |-> "lights", lift |-> l, on |-> on] \in LightsRequest
    BY DEF LightsRequest
  <2>2. QED
    BY <1>3, <2>1 DEF BeginLights
<1>4. ASSUME NEW l \in Lifts, BeginStop(c, l) \/ BeginPanel(c, l)
      PROVE  \E r \in Request : Begin(c, r) /\ r # NoRequest
  <2>1. /\ [op |-> "stop", lift |-> l] \in StopRequest
        /\ [op |-> "panel", lift |-> l] \in PanelRequest
    BY DEF StopRequest, PanelRequest
  <2>2. QED
    BY <1>4, <2>1 DEF BeginStop, BeginPanel
<1>5. ASSUME BeginPanels(c)
      PROVE  \E r \in Request : Begin(c, r) /\ r # NoRequest
  <2>1. [op |-> "panels"] \in PanelsRequest
    BY DEF PanelsRequest
  <2>2. QED
    BY <1>5, <2>1 DEF BeginPanels
<1>6. QED
  BY <1>1, <1>2, <1>3, <1>4, <1>5 DEF BeginSome

\* The records of the requests that write, by the kind of request.
LEMMA RequestKinds ==
    ASSUME TypeOK, NEW c \in Clients
    PROVE  /\ request[c].op = "move" => request[c] \in MoveRequest
           /\ request[c].op = "doors" => request[c] \in DoorsRequest
           /\ request[c].op = "lights" => request[c] \in LightsRequest
           /\ request[c].op = "stop" => request[c] \in StopRequest
  BY DEF TypeOK, Request, NoRequest, MoveRequest, DoorsRequest, LightsRequest,
         StopRequest, PanelRequest, PanelsRequest

\* Ending a transaction, by commit or rollback, keeps everything typed but the
\* rows, which its caller writes.
LEMMA EndTyped ==
    ASSUME TypeOK, NEW c \in Clients, runtime' \in [Lifts -> Row],
           Commit(c) \/ Rollback(c)
    PROVE  TypeOK'
  BY DEF TypeOK, Commit, Rollback, EndTransaction, Request

\* A tick keeps a row a row.
LEMMA AdvanceTyped ==
    ASSUME NEW row \in Row, MayMove(row)
    PROVE  Advance(row) \in Row
<1> DEFINE at == row.current_floor
           to == row.target_floor
<1>1. at \in Int /\ to \in Int
  BY DEF Row
<1>2. (IF at < to THEN at + 1 ELSE at - 1) \in Int
  BY <1>1
<1>3. (IF to \in {at - 1, at + 1} THEN "idle" ELSE DirectionTo(at, to)) \in Directions
  BY DEF DirectionTo, Directions
<1>4. QED
  BY <1>2, <1>3 DEF Row, Advance

LEMMA TypeStep == TypeOK /\ [Next]_vars => TypeOK'
<1> SUFFICES ASSUME TypeOK, [Next]_vars PROVE TypeOK'
  OBVIOUS
<1>1. ASSUME NEW c \in Clients, BeginSome(c) PROVE TypeOK'
  BY <1>1, BeginSomeBegins, BeginTyped
<1>2. ASSUME NEW c \in Clients, SetTargetFloor(c) PROVE TypeOK'
  <2>1. request[c] \in MoveRequest
    BY <1>2, RequestKinds DEF SetTargetFloor
  <2>2. runtime' \in [Lifts -> Row]
    BY <1>2, <2>1 DEF SetTargetFloor, MoveRequest, TypeOK, Row, Directions, DirectionTo
  <2>3. QED
    BY <1>2, <2>2, EndTyped DEF SetTargetFloor
<1>3. ASSUME NEW c \in Clients, SetDoors(c) PROVE TypeOK'
  <2>1. request[c] \in DoorsRequest
    BY <1>3, RequestKinds DEF SetDoors
  <2>2. runtime' \in [Lifts -> Row]
    BY <1>3, <2>1 DEF SetDoors, DoorsRequest, TypeOK, Row
  <2>3. QED
    BY <1>3, <2>2, EndTyped DEF SetDoors
<1>4. ASSUME NEW c \in Clients, SetLights(c) PROVE TypeOK'
  <2>1. request[c] \in LightsRequest
    BY <1>4, RequestKinds DEF SetLights
  <2>2. runtime' \in [Lifts -> Row]
    BY <1>4, <2>1 DEF SetLights, LightsRequest, TypeOK, Row
  <2>3. QED
    BY <1>4, <2>2, EndTyped DEF SetLights
<1>5. ASSUME NEW c \in Clients, EmergencyStop(c) PROVE TypeOK'
  <2>1. request[c] \in StopRequest
    BY <1>5, RequestKinds DEF EmergencyStop
  <2>2. runtime' \in [Lifts -> Row]
    BY <1>5, <2>1 DEF EmergencyStop, StopRequest, TypeOK, Row, Directions
  <2>3. QED
    BY <1>5, <2>2, EndTyped DEF EmergencyStop
<1>6. ASSUME NEW c \in Clients, ShowPanel(c) \/ Refuse(c) \/ Abort(c) PROVE TypeOK'
  BY <1>6, EndTyped DEF ShowPanel, Refuse, Abort, Rollback, TypeOK
<1>7. ASSUME NEW S \in SUBSET Lifts, Tick(S) PROVE TypeOK'
  BY <1>7, AdvanceTyped DEF Tick, TypeOK
<1>8. CASE UNCHANGED vars
  BY <1>8 DEF vars, TypeOK
<1>9. QED
  BY <1>1, <1>2, <1>3, <1>4, <1>5, <1>6, <1>7, <1>8 DEF Next, Finish

\* The columns of lift_runtime and the requests in flight stay well typed.
THEOREM TypeCorrect == SafeSpec => []TypeOK
<1>1. Init => TypeOK
  BY DEF Init, TypeOK, Row, DefaultRow, Directions, Request
<1>2. QED
  BY <1>1, TypeStep, PTL DEF SafeSpec

-----------------------------------------------------------------------------
(* The shaft.                                                              *)

\* A request that begins, a panel that is shown, and a request that is refused
\* or aborted write no row.
LEMMA QuietSteps ==
    ASSUME TypeOK, NEW c \in Clients,
           BeginSome(c) \/ ShowPanel(c) \/ Refuse(c) \/ Abort(c)
    PROVE  runtime' = runtime
<1>1. CASE BeginSome(c)
  BY <1>1, BeginSomeBegins DEF Begin
<1>2. CASE ShowPanel(c) \/ Refuse(c) \/ Abort(c)
  BY <1>2 DEF ShowPanel, Refuse, Abort, Rollback
<1>3. QED
  BY <1>1, <1>2

\* A tick brings the cabin one floor nearer to its target and no further.
LEMMA AdvanceStays ==
    ASSUME NEW row \in Row, MayMove(row),
           row.current_floor \in Floors, row.target_floor \in Floors
    PROVE  /\ Advance(row).current_floor \in Floors
           /\ Advance(row).target_floor \in Floors
<1> DEFINE at == row.current_floor
           to == row.target_floor
<1>1. /\ Advance(row).current_floor = IF at < to THEN at + 1 ELSE at - 1
      /\ Advance(row).target_floor = to
  BY DEF Advance, Row
<1>2. at # to
  BY DEF MayMove
<1>3. (IF at < to THEN at + 1 ELSE at - 1) \in Floors
  BY <1>2 DEF Floors
<1>4. QED
  BY <1>1, <1>3

LEMMA FloorsStep ==
    TypeOK /\ FloorsInBuilding /\ [Next]_vars => FloorsInBuilding'
<1> SUFFICES ASSUME TypeOK, FloorsInBuilding, [Next]_vars PROVE FloorsInBuilding'
  OBVIOUS
<1>1. ASSUME NEW c \in Clients,
             BeginSome(c) \/ ShowPanel(c) \/ Refuse(c) \/ Abort(c)
      PROVE  FloorsInBuilding'
  BY <1>1, QuietSteps DEF FloorsInBuilding
<1>2. ASSUME NEW c \in Clients, SetTargetFloor(c) PROVE FloorsInBuilding'
  <2>1. request[c] \in MoveRequest /\ request[c].floor \in Floors
    BY <1>2, RequestKinds DEF SetTargetFloor, MoveAllowed
  <2>2. QED
    BY <1>2, <2>1 DEF SetTargetFloor, FloorsInBuilding, TypeOK, Row, MoveRequest
<1>3. ASSUME NEW c \in Clients, SetDoors(c) PROVE FloorsInBuilding'
  BY <1>3 DEF SetDoors, FloorsInBuilding, TypeOK, Row
<1>4. ASSUME NEW c \in Clients, SetLights(c) PROVE FloorsInBuilding'
  BY <1>4 DEF SetLights, FloorsInBuilding, TypeOK, Row
<1>5. ASSUME NEW c \in Clients, EmergencyStop(c) PROVE FloorsInBuilding'
  <2>1. request[c] \in StopRequest
    BY <1>5, RequestKinds DEF EmergencyStop
  <2>2. QED
    BY <1>5, <2>1 DEF EmergencyStop, StopRequest, FloorsInBuilding, TypeOK, Row
<1>6. ASSUME NEW S \in SUBSET Lifts, Tick(S) PROVE FloorsInBuilding'
  BY <1>6, AdvanceStays DEF Tick, FloorsInBuilding, TypeOK
<1>7. CASE UNCHANGED vars
  BY <1>7 DEF vars, FloorsInBuilding
<1>8. QED
  BY <1>1, <1>2, <1>3, <1>4, <1>5, <1>6, <1>7 DEF Next, Finish

\* No sequence of requests, however they interleave, takes a cabin or its
\* target out of the shaft.
THEOREM CabinsStayInBuilding == SafeSpec => []FloorsInBuilding
<1>1. 1 \in Floors
  BY DEF Floors
<1>2. Init => FloorsInBuilding
  <2> SUFFICES ASSUME Init, NEW l \in Lifts
               PROVE  /\ runtime[l].current_floor \in Floors
                      /\ runtime[l].target_floor \in Floors
    BY DEF FloorsInBuilding
  <2>1. runtime[l].current_floor = 1 /\ runtime[l].target_floor = 1
    BY DEF Init, DefaultRow
  <2>2. QED
    BY <1>1, <2>1
<1>3. QED
  BY <1>2, FloorsStep, TypeCorrect, PTL DEF SafeSpec

-----------------------------------------------------------------------------
(* First use of a lift.                                                    *)

\* The strengthening: a live request on a lift whose row is not committed is
\* the one that is inserting it.
FirstUse ==
    /\ UncommittedRowsInvisible
    /\ \A c \in Clients : \A l \in Lifts :
         request[c] # NoRequest /\ l \in Touched(request[c]) /\ l \notin rows =>
            creator[l] = c

LEMMA FirstUseStep == TypeOK /\ FirstUse /\ [Next]_vars => FirstUse'
<1> SUFFICES ASSUME TypeOK, FirstUse, [Next]_vars PROVE FirstUse'
  OBVIOUS
<1> USE DEF FirstUse, UncommittedRowsInvisible
<1>1. ASSUME NEW c \in Clients, BeginSome(c) PROVE FirstUse'
  <2> PICK r \in Request : Begin(c, r) /\ r # NoRequest
    BY <1>1, BeginSomeBegins
  <2> USE DEF Begin, EnsureRuntimeRows, TypeOK
  <2>1. request' = [request EXCEPT ![c] = r] /\ rows' = rows /\ runtime' = runtime
    OBVIOUS
  <2>2. \A d \in Clients : \A l \in Lifts :
          request'[d] # NoRequest /\ l \in Touched(request'[d]) /\ l \notin rows =>
             creator'[l] = d
    <3> SUFFICES ASSUME NEW d \in Clients, NEW l \in Lifts, request'[d] # NoRequest,
                        l \in Touched(request'[d]), l \notin rows
                 PROVE  creator'[l] = d
      OBVIOUS
    <3>1. CASE d = c
      BY <3>1, <2>1
    <3>2. CASE d # c
      <4>1. request'[d] = request[d] /\ creator[l] = d
        BY <3>2, <2>1
      <4>2. l \notin Touched(r)
        BY <4>1
      <4>3. QED
        BY <4>1, <4>2
    <3>3. QED
      BY <3>1, <3>2
  <2>3. ASSUME NEW l \in Lifts, creator'[l] # Nobody
        PROVE  /\ l \notin rows
               /\ request'[creator'[l]] # NoRequest
               /\ l \in Touched(request'[creator'[l]])
    <3>1. CASE l \in Touched(r) \ rows
      BY <3>1, <2>1
    <3>2. CASE l \notin Touched(r) \ rows
      <4>1. creator'[l] = creator[l] /\ creator[l] \in Clients
        BY <3>2, <2>3
      <4>2. creator[l] # c
        BY <4>1
      <4>3. QED
        BY <4>1, <4>2, <2>1
    <3>3. QED
      BY <3>1, <3>2
  <2>4. QED
    BY <2>1, <2>2, <2>3
<1>2. ASSUME NEW c \in Clients, Commit(c), NEW l0 \in Lifts,
             request[c] # NoRequest, l0 \in Touched(request[c]),
             \A l \in Lifts : l # l0 => runtime'[l] = runtime[l]
      PROVE  FirstUse'
  <2>1. l0 \in rows'
    BY <1>2 DEF Commit
  <2>2. QED
    BY <1>2, <2>1 DEF Commit, EndTransaction, TypeOK
<1>3. ASSUME NEW c \in Clients, Commit(c), runtime' = runtime PROVE FirstUse'
  BY <1>3 DEF Commit, EndTransaction, TypeOK
<1>4. ASSUME NEW c \in Clients, Rollback(c) PROVE FirstUse'
  BY <1>4 DEF Rollback, EndTransaction, TypeOK
<1>5. ASSUME NEW c \in Clients,
             SetTargetFloor(c) \/ SetDoors(c) \/ SetLights(c) \/ EmergencyStop(c)
      PROVE  FirstUse'
  <2>1. /\ request[c].lift \in Lifts
        /\ request[c] # NoRequest
        /\ request[c].lift \in Touched(request[c])
    BY <1>5, RequestKinds
    DEF SetTargetFloor, SetDoors, SetLights, EmergencyStop, NoRequest, Touched,
        MoveRequest, DoorsRequest, LightsRequest, StopRequest
  <2>2. \A l \in Lifts : l # request[c].lift => runtime'[l] = runtime[l]
    BY <1>5, <2>1 DEF SetTargetFloor, SetDoors, SetLights, EmergencyStop, TypeOK
  <2>3. Commit(c)
    BY <1>5 DEF SetTargetFloor, SetDoors, SetLights, EmergencyStop
  <2>4. QED
    BY <1>2, <2>1, <2>2, <2>3
<1>6. ASSUME NEW c \in Clients, ShowPanel(c) \/ Refuse(c) \/ Abort(c) PROVE FirstUse'
  BY <1>6, <1>3, <1>4 DEF ShowPanel, Refuse, Abort
<1>7. ASSUME NEW S \in SUBSET Lifts, Tick(S) PROVE FirstUse'
  BY <1>7 DEF Tick, TypeOK
<1>8. CASE UNCHANGED vars
  BY <1>8 DEF vars
<1>9. QED
  BY <1>1, <1>5, <1>6, <1>7, <1>8 DEF Next, Finish

\* A row that is being inserted belongs to one live request, and shows nothing.
THEOREM FirstUseIsPrivate == SafeSpec => []UncommittedRowsInvisible
<1>1. Init => FirstUse
  BY DEF Init, FirstUse, UncommittedRowsInvisible
<1>2. FirstUse => UncommittedRowsInvisible
  BY DEF FirstUse
<1>3. QED
  BY <1>1, <1>2, FirstUseStep, TypeCorrect, PTL DEF SafeSpec

-----------------------------------------------------------------------------
(* Contradictions come from lost races only.                               *)

\* A tick leaves a coherent row coherent: it steps towards the target, goes on
\* in the same direction or arrives idle.
LEMMA AdvanceCoherent ==
    ASSUME NEW row \in Row, MayMove(row), Coherent(row)
    PROVE  Coherent(Advance(row))
<1> DEFINE at == row.current_floor
           to == row.target_floor
           next == IF at < to THEN at + 1 ELSE at - 1
<1>1. /\ Advance(row).current_floor = next
      /\ Advance(row).target_floor = to
      /\ Advance(row).direction = IF to \in {at - 1, at + 1} THEN "idle"
                                  ELSE DirectionTo(at, to)
      /\ Advance(row).doors_open = row.doors_open
  BY DEF Advance, Row
<1>2. at \in Int /\ to \in Int /\ at # to /\ ~row.doors_open
  BY DEF Row, MayMove
<1>3. DirectionTo(next, to) =
        IF to \in {at - 1, at + 1} THEN "idle" ELSE DirectionTo(at, to)
  BY <1>2 DEF DirectionTo
<1>4. QED
  BY <1>1, <1>2, <1>3 DEF Coherent

\* The step form of the property.
LEMMA CoherenceStep ==
    ASSUME TypeOK, [Next]_vars, NEW l \in Lifts,
           Coherent(runtime[l]), ~Coherent(runtime'[l])
    PROVE  \E c \in Clients : /\ StaleRead(request[c])
                             /\ request[c].lift = l
                             /\ request'[c] = NoRequest
<1>1. ASSUME NEW c \in Clients,
             BeginSome(c) \/ ShowPanel(c) \/ Refuse(c) \/ Abort(c)
      PROVE  FALSE
  BY <1>1, QuietSteps
<1>2. ASSUME NEW c \in Clients, SetTargetFloor(c)
      PROVE  /\ StaleRead(request[c])
             /\ request[c].lift = l
             /\ request'[c] = NoRequest
  <2> DEFINE r == request[c]
             row == runtime[l]
  <2>1. r \in MoveRequest /\ request'[c] = NoRequest /\ MoveAllowed(r)
    BY <1>2, RequestKinds DEF SetTargetFloor, Commit, EndTransaction, TypeOK
  <2>2. r.lift = l
    BY <1>2, <2>1 DEF SetTargetFloor, MoveRequest, TypeOK
  <2>3. /\ runtime'[l].target_floor = r.floor
        /\ runtime'[l].direction = DirectionTo(r.at, r.floor)
        /\ runtime'[l].current_floor = row.current_floor
        /\ runtime'[l].doors_open = row.doors_open
    BY <1>2, <2>1, <2>2 DEF SetTargetFloor, TypeOK, Row
  <2>4. r.at # row.current_floor \/ r.open # row.doors_open
    <3> SUFFICES ASSUME r.at = row.current_floor, r.open = row.doors_open PROVE FALSE
      OBVIOUS
    <3>1. row.doors_open => r.floor = r.at
      BY <2>1 DEF MoveAllowed
    <3>2. r.floor = r.at => DirectionTo(r.at, r.floor) = "idle"
      BY <2>1 DEF DirectionTo, MoveRequest
    <3>3. QED
      BY <2>3, <3>1, <3>2 DEF Coherent
  <2>5. QED
    BY <2>1, <2>2, <2>4, <1>2 DEF StaleRead, SetTargetFloor
<1>3. ASSUME NEW c \in Clients, SetDoors(c)
      PROVE  /\ StaleRead(request[c])
             /\ request[c].lift = l
             /\ request'[c] = NoRequest
  <2> DEFINE r == request[c]
             row == runtime[l]
  <2>1. r \in DoorsRequest /\ request'[c] = NoRequest /\ DoorsAllowed(r)
    BY <1>3, RequestKinds DEF SetDoors, Commit, EndTransaction, TypeOK
  <2>2. r.lift = l
    BY <1>3, <2>1 DEF SetDoors, DoorsRequest, TypeOK
  <2>3. /\ runtime'[l].target_floor = row.target_floor
        /\ runtime'[l].direction = row.direction
        /\ runtime'[l].current_floor = row.current_floor
        /\ runtime'[l].doors_open = r.open
    BY <1>3, <2>1, <2>2 DEF SetDoors, TypeOK, Row
  <2>4. r.direction # row.direction
    BY <2>1, <2>3 DEF DoorsAllowed, Coherent
  <2>5. QED
    BY <2>1, <2>2, <2>4, <1>3 DEF StaleRead, SetDoors
<1>4. ASSUME NEW c \in Clients, SetLights(c) PROVE FALSE
  <2>1. /\ runtime'[l].target_floor = runtime[l].target_floor
        /\ runtime'[l].direction = runtime[l].direction
        /\ runtime'[l].current_floor = runtime[l].current_floor
        /\ runtime'[l].doors_open = runtime[l].doors_open
    BY <1>4 DEF SetLights, TypeOK, Row
  <2>2. QED
    BY <2>1 DEF Coherent
<1>5. ASSUME NEW c \in Clients, EmergencyStop(c) PROVE FALSE
  <2>1. CASE request[c].lift = l
    <3>1. /\ runtime'[l].target_floor = runtime'[l].current_floor
          /\ runtime'[l].current_floor \in Int
          /\ runtime'[l].direction = "idle"
          /\ runtime'[l].doors_open = FALSE
      BY <1>5, <2>1 DEF EmergencyStop, TypeOK, Row
    <3>2. QED
      BY <3>1 DEF Coherent, DirectionTo
  <2>2. CASE request[c].lift # l
    BY <1>5, <2>2 DEF EmergencyStop, TypeOK
  <2>3. QED
    BY <2>1, <2>2
<1>6. ASSUME NEW S \in SUBSET Lifts, Tick(S) PROVE FALSE
  BY <1>6, AdvanceCoherent DEF Tick, TypeOK
<1>7. CASE UNCHANGED vars
  BY <1>7 DEF vars
<1>8. QED
  BY <1>1, <1>2, <1>3, <1>4, <1>5, <1>6, <1>7 DEF Next, Finish

\* A panel contradicts itself only after a request has decided on a row that
\* somebody changed before it wrote.
THEOREM ContradictionsAreLostRaces == SafeSpec => OnlyStaleReadsBreakCoherence
<1> DEFINE Step == \A l \in Lifts :
             Coherent(runtime[l]) /\ ~Coherent(runtime'[l]) =>
                \E c \in Clients : /\ StaleRead(request[c])
                                  /\ request[c].lift = l
                                  /\ request'[c] = NoRequest
<1>1. TypeOK /\ [Next]_vars => [Step]_vars
  BY CoherenceStep
<1>2. OnlyStaleReadsBreakCoherence <=> [][Step]_vars
  BY DEF OnlyStaleReadsBreakCoherence
<1> HIDE DEF Step
<1>3. QED
  BY <1>1, <1>2, TypeCorrect, PTL DEF SafeSpec

-----------------------------------------------------------------------------
(* The panel implements the abstract cabins.                               *)

\* Each step of the panel is a step of the cabins or leaves them alone.
LEMMA CabinsStep ==
    TypeOK /\ FloorsInBuilding /\ [Next]_vars => [Cabin!Next]_(Cabin!cabinVars)
<1> SUFFICES ASSUME TypeOK, FloorsInBuilding, [Next]_vars
             PROVE  [Cabin!Next]_(Cabin!cabinVars)
  OBVIOUS
<1> USE DEF Cabin!cabinVars, Cabin!Next, Cabin!Floors, Floors
<1>1. ASSUME NEW c \in Clients,
             BeginSome(c) \/ ShowPanel(c) \/ Refuse(c) \/ Abort(c)
      PROVE  UNCHANGED Cabin!cabinVars
  BY <1>1, QuietSteps
<1>2. ASSUME NEW c \in Clients, SetTargetFloor(c)
      PROVE  \E l \in Lifts : Cabin!NewGoal(l)
  <2> DEFINE r == request[c]
  <2>1. r \in MoveRequest /\ r.floor \in Floors
    BY <1>2, RequestKinds DEF SetTargetFloor, MoveAllowed
  <2>2. PICK at \in Lifts : at = r.lift
    BY <2>1 DEF MoveRequest
  <2>3. \A l \in Lifts :
          /\ runtime'[l].current_floor = runtime[l].current_floor
          /\ runtime'[l].doors_open = runtime[l].doors_open
          /\ runtime'[l].target_floor =
               IF l = at THEN r.floor ELSE runtime[l].target_floor
    BY <1>2, <2>2 DEF SetTargetFloor, TypeOK, Row
  <2>4. Cabin!NewGoal(at)
    BY <2>1, <2>3 DEF Cabin!NewGoal
  <2>5. QED
    BY <2>4
<1>3. ASSUME NEW c \in Clients, SetDoors(c)
      PROVE  UNCHANGED Cabin!cabinVars \/ \E l \in Lifts : Cabin!WorkDoors(l)
  <2> DEFINE r == request[c]
  <2>1. r \in DoorsRequest
    BY <1>3, RequestKinds DEF SetDoors
  <2>2. PICK at \in Lifts : at = r.lift /\ r.open \in BOOLEAN
    BY <2>1 DEF DoorsRequest
  <2>3. \A l \in Lifts :
          /\ runtime'[l].current_floor = runtime[l].current_floor
          /\ runtime'[l].target_floor = runtime[l].target_floor
          /\ runtime'[l].doors_open =
               IF l = at THEN r.open ELSE runtime[l].doors_open
    BY <1>3, <2>2 DEF SetDoors, TypeOK, Row
  <2>4. CASE r.open = runtime[at].doors_open
    BY <2>2, <2>3, <2>4
  <2>5. CASE r.open = ~runtime[at].doors_open
    <3>1. Cabin!WorkDoors(at)
      BY <2>2, <2>3, <2>5 DEF Cabin!WorkDoors
    <3>2. QED
      BY <3>1
  <2>6. QED
    BY <2>2, <2>4, <2>5 DEF TypeOK, Row
<1>4. ASSUME NEW c \in Clients, SetLights(c)
      PROVE  UNCHANGED Cabin!cabinVars
  <2>1. \A l \in Lifts :
          /\ runtime'[l].current_floor = runtime[l].current_floor
          /\ runtime'[l].target_floor = runtime[l].target_floor
          /\ runtime'[l].doors_open = runtime[l].doors_open
    BY <1>4 DEF SetLights, TypeOK, Row
  <2>2. QED
    BY <2>1
<1>5. ASSUME NEW c \in Clients, EmergencyStop(c)
      PROVE  \E l \in Lifts : Cabin!Halt(l)
  <2>1. PICK at \in Lifts : at = request[c].lift
    BY <1>5, RequestKinds DEF EmergencyStop, StopRequest
  <2>2. /\ runtime'[at].current_floor = runtime[at].current_floor
        /\ runtime'[at].target_floor = runtime[at].current_floor
        /\ runtime'[at].doors_open = FALSE
        /\ \A l \in Lifts : l # at => runtime'[l] = runtime[l]
    BY <1>5, <2>1 DEF EmergencyStop, TypeOK, Row
  <2>3. Cabin!Halt(at)
    BY <2>2 DEF Cabin!Halt
  <2>4. QED
    BY <2>3
<1>6. ASSUME NEW S \in SUBSET Lifts, Tick(S)
      PROVE  Cabin!Travel(S)
  <2>1. \A l \in S : MayMove(runtime[l])
    BY <1>6 DEF Tick
  <2>2. \A l \in Lifts :
          /\ runtime'[l].current_floor =
               IF l \in S
               THEN IF runtime[l].current_floor < runtime[l].target_floor
                    THEN runtime[l].current_floor + 1
                    ELSE runtime[l].current_floor - 1
               ELSE runtime[l].current_floor
          /\ runtime'[l].target_floor = runtime[l].target_floor
          /\ runtime'[l].doors_open = runtime[l].doors_open
    <3> SUFFICES ASSUME NEW l \in Lifts
                 PROVE  /\ runtime'[l].current_floor =
                             IF l \in S
                             THEN IF runtime[l].current_floor < runtime[l].target_floor
                                  THEN runtime[l].current_floor + 1
                                  ELSE runtime[l].current_floor - 1
                             ELSE runtime[l].current_floor
                        /\ runtime'[l].target_floor = runtime[l].target_floor
                        /\ runtime'[l].doors_open = runtime[l].doors_open
      OBVIOUS
    <3>1. runtime'[l] = IF l \in S THEN Advance(runtime[l]) ELSE runtime[l]
      BY <1>6 DEF Tick
    <3>2. runtime[l] \in Row
      BY DEF TypeOK
    <3>3. QED
      BY <3>1, <3>2 DEF Advance, Row
  <2>3. QED
    BY <2>1, <2>2 DEF Cabin!Travel, Cabin!CanTravel, Cabin!OneFloorTowards, MayMove
<1>7. CASE UNCHANGED vars
  BY <1>7 DEF vars
<1>8. QED
  BY <1>1, <1>2, <1>3, <1>4, <1>5, <1>6, <1>7 DEF Next, Finish

\* Cabins move only towards their targets, a floor at a time, doors closed.
THEOREM PanelImplementsCabins == SafeSpec => ImplementsCabinsSafely
<1>1. Init => Cabin!Init
  BY DEF Init, Cabin!Init, DefaultRow
<1>2. QED
  BY <1>1, CabinsStep, TypeCorrect, CabinsStayInBuilding, PTL
  DEF SafeSpec, ImplementsCabinsSafely, Cabin!SafeSpec
=============================================================================
