SPECIFICATION FairTxSpec
CONSTANTS
    Users = {u1}
    Tokens = {k1, k2}
    Legacy = {k1, k2}
    None = None
    TTL = 1
    Retention = 0
    MaxTime = 2
    MaxVersion = 2
    Requests = {p1}
    Janitor = janitor
    Ops = {"refresh", "logout", "password", "delete"}
PROPERTIES EveryRequestAnswered
CHECK_DEADLOCK FALSE
