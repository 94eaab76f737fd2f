SPECIFICATION Spec
CONSTANTS
    u1 = u1
    u2 = u2
    Users = {u1, u2, u3}
    Admin = admin
    Requests = {p1, p2}
    Keys = {"ann", "bob", "x", "y", "admin"}
    Seed <- TwoAccounts
    NewAccounts <- SomeAccounts
    EditInputs <- SomeEdits
    MaxVersion = 2
    None = None
SYMMETRY Symmetry
INVARIANTS TypeOK KeysUnique EveryAccountCanLogIn NoLostEdit
PROPERTIES OnlySelfOrAdmin
CHECK_DEADLOCK FALSE
