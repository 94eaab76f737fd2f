SPECIFICATION Spec
CONSTANTS
    Users = {u1, u2}
    Admin = admin
    TaskIds = {i1, i2}
    Requests = {p1, p2}
    MaxAttempts = 2
    EditInputs <- SomeEdits
    QueryInputs <- SomeQueries
    DefaultPageSize = 1
    MaxPageSize = 1
    None = None
SYMMETRY Symmetry
INVARIANTS TypeOK GiveUpOnlyUnderContention TasksHaveOwners PageAddsUp
PROPERTIES ImplementsBoard
CHECK_DEADLOCK FALSE
