\* The demo administrator's email and another one, two requests, refresh tokens, three pairs of tokens.
SPECIFICATION Spec
CONSTANTS
    d = d
    Emails = {d, e1}
    Demo <- DemoAdmin
    Clients = {c1, c2}
    Roles = {"administrator", "dispatcher"}
    NoUser = NoUser
    Kinds = {"refresh"}
    MaxPairs = 3
SYMMETRY Interchangeable
INVARIANTS
    TypeOK
    SomeAdmin
    SpentTokensAreReplaced
PROPERTIES
    FirstAdminsOverlap
    TwinsOverlap
