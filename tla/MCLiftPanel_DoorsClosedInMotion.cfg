\* One lift of three floors, two requests in flight; floor 4 is asked for too.
CONSTANTS
    Lifts = {l1}
    Clients = {c1, c2}
    TotalFloors = 3
    MaxRequested = 4
    Nobody = Nobody
SPECIFICATION SafeSpec
INVARIANTS
    DoorsClosedInMotion
