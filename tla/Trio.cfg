SPECIFICATION Spec
CONSTANTS
    a = a
    b = b
    c = c
    None = None
    Inst = {a, b, c}
    Plan <- TrioPlan
    Enabl <- TrioEnabl
    Faults = {"start", "serve", "interrupt"}
INVARIANTS LiveResources RevertedAtFinalExit
