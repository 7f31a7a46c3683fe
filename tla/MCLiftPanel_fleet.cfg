\* Two lifts of two floors, two requests in flight: the multi-row statements.
CONSTANTS
    Lifts = {l1, l2}
    Clients = {c1, c2}
    TotalFloors = 2
    MaxRequested = 2
    Nobody = Nobody
SPECIFICATION SafeSpec
SYMMETRY FleetSymmetry
INVARIANTS
    UncommittedRowsInvisible
PROPERTIES
    ImplementsCabinsSafely
