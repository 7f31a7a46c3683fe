\* One host, two pages, two list requests and a command; windows of three ticks and of one.
SPECIFICATION Spec
CONSTANTS
    Keys = {k1, k2}
    Readers = {q1, q2}
    Writers = {w1}
    Publications <- SomePublications
    TTL = 1
    Timeout = 1
    NoEntry = NoEntry
    Expired = Expired
    Hosts = {h1}
    Minute = 3
    Burst = 1
    PerMinute = 3
    PerBurst = 2
INVARIANTS
    TypeOK
    RowsAreRecent
    StaleByRaceOnly
    StoredIsIndexed
    WithinLimits
PROPERTIES
    NobodyIsShutOut
