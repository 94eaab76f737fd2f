SPECIFICATION Spec
CONSTANTS
    Users = {u1, u2}
    Tokens = {k1, k2, k3}
    Legacy = {k1}
    None = None
    TTL = 1
    Retention = 1
    MaxTime = 3
    MaxVersion = 2
INVARIANTS OneLivePerFamily LiveSessionIsCurrent
PROPERTIES EndedFamilyStaysEnded RevocationReasonIsFinal RowsKeptForRetention
CHECK_DEADLOCK FALSE
