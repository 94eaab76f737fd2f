SPECIFICATION TxSpec
CONSTANTS
    Users = {u1}
    Tokens = {k1, k2}
    Legacy = {k1}
    None = None
    TTL = 1
    Retention = 1
    MaxTime = 2
    MaxVersion = 2
    Requests = {p1, p2}
    Janitor = janitor
    Ops = {"login", "refresh", "logout", "delete"}
SYMMETRY Symmetry
INVARIANTS RefusalEndsFamily UnusableIsExplained
PROPERTIES ImplementsSessions
CHECK_DEADLOCK FALSE
