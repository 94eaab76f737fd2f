SPECIFICATION FairSpec
CONSTANTS
    Callers = {c1, c2, c3}
    Slots = 2
INVARIANTS TypeOK NoSlotLeaks
PROPERTIES EveryCallReturns
CHECK_DEADLOCK FALSE
