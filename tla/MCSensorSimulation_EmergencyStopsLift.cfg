SPECIFICATION SafeSpec
CONSTANTS
    l1 = l1
    Lifts = {l1}
    NumSensors = 1
    LiftOf <- OnOneLift
    Clients = {c1}
    Threshold = 0
    Critical = 1
    MaxLevel = 2
    MaxAlarms = 2
    MaxManual = 0
    Bodies <- SomeBodies
    Targets = {"active"}
    NewLevels = {0, 2}
PROPERTIES
    EmergencyStopsLift
