SPECIFICATION FairSpec
CONSTANTS
    Requests = {r1, r2}
    SourceInputs <- AllInputs
    ConnBits = 4
INVARIANTS TypeOK ToolsAgree PoolOutlivesRequests NoEarlyCancel CleanExitIsTrue
PROPERTIES ProcessExits
CHECK_DEADLOCK FALSE
