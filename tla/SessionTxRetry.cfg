SPECIFICATION TxSpec
CONSTANTS
    Users = {u1}
    Tokens = {k1, k2}
    Legacy = {k1}
    None = None
    TTL = 1
    Retention = 0
    MaxTime = 0
    MaxVersion = 2
    Requests = {p1}
    Janitor = janitor
    Ops = {"refresh"}
PROPERTIES RetryAfter503IsSafe
CHECK_DEADLOCK FALSE
