SPECIFICATION Spec
CONSTANTS
    Faults = {"lookup", "pipe", "start", "upstream", "die", "remove"}
INVARIANTS DispatchesExact NoFalseAlarm RevertClean
PROPERTIES StartReturns RevertReturns FailedStartStops
CHECK_DEADLOCK FALSE
