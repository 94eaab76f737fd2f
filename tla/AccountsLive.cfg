SPECIFICATION FairSpec
CONSTANTS
    u1 = u1
    u2 = u2
    Users = {u1, u2, u3}
    Admin = admin
    Requests = {p1, p2}
    Keys = {"ann", "bob", "x", "y", "admin"}
    Seed <- TwoAccounts
    NewAccounts <- OneAccount
    EditInputs <- Exchanges
    MaxVersion = 2
    None = None
PROPERTIES EveryRequestAnswered
CHECK_DEADLOCK FALSE
