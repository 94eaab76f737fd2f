SPECIFICATION Spec
CONSTANTS
    Users = {1, 2}
    TTL = 1
    Foreign <- Others
    MaxTime = 2
INVARIANTS TypeOK StatusTellsWhoseFault CodeMatchesStatus FailuresTellNothing MetricsAgree ClaimsAreGenuine
