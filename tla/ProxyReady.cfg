SPECIFICATION Spec
CONSTANTS
    Faults = {"die"}
INVARIANT StartedReady
CHECK_DEADLOCK FALSE
