SPECIFICATION FairSpec
CONSTANTS
    a = a
    b = b
    c = c
    None = None
    Inst = {a, b}
    Plan <- ScopedPlan
    Enabl <- ScopedEnabl
    Faults = {"lock", "save", "op", "partial", "readdir", "load", "interrupt", "kill"}
INVARIANTS  FailureReported
PROPERTIES CancelTerminates
