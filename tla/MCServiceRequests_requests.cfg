\* Two commands on two requests of one lift and two technicians.
SPECIFICATION Spec
CONSTANTS
    l1 = l1
    Requests = {r1, r2}
    Lifts = {l1}
    Techs = {t1, t2}
    LiftOf <- OnOneLift
    Clients = {c1, c2}
    Statuses = {"pending", "assigned", "completed"}
    Bodies <- SomeBodies
    NoTech = NoTech
    NoReq = NoReq
    NoRow = NoRow
    Unset = Unset
    MaxCommands = 2
SYMMETRY Interchangeable
INVARIANTS
    TypeOK
    LocksAreOrdered
PROPERTIES
    OwnLiftCounted
    ImplementsTechnicianView
    ReopenedOnPurposeOrByRace
    IdledOnlyByAnotherRequest
\* The bounded commands may all have ended.
CHECK_DEADLOCK FALSE
