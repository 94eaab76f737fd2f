SPECIFICATION TxSpec
CONSTANTS
    Users = {u1, u2}
    Tokens = {k1, k2, k3}
    Legacy = {}
    None = None
    TTL = 1
    Retention = 0
    MaxTime = 0
    MaxVersion = 2
    Requests = {p1, p2}
    Janitor = janitor
    Ops = {"login", "refresh", "password"}
SYMMETRY Symmetry
INVARIANTS TxTypeOK RequestsDeadlockOverNames
PROPERTIES ImplementsSessions
CHECK_DEADLOCK FALSE
