\* One lift, two commands and two ticks.
CONSTANTS
    Lifts = {l1}
    Clients = {c1, c2}
    Status = {active, stopped}
    NoRow = NoRow
    MaxCommands = 2
    MaxTicks = 2
SPECIFICATION Spec
INVARIANTS
    TypeOK
    NoPhantoms
    NothingLeftPending
PROPERTIES
    CountedChangesAreShown
    ImplementsView
    CommandsEnd
\* The bounded commands may all have ended.
CHECK_DEADLOCK FALSE
