\* One lift, two commands.
CONSTANTS
    Lifts = {l1}
    Clients = {c1, c2}
    Status = {active, stopped}
    NoRow = NoRow
    MaxCommands = 2
    MaxTicks = 0
SPECIFICATION SafeSpec
PROPERTIES
    FailedEventsAreQueued
