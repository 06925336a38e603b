SPECIFICATION Spec
CONSTANTS
    a = a
    b = b
    ps = ps
    None = None
    Apps = {a, b}
    Listers = {ps}
    Procs = {a, b}
    ProcOf <- SharedStore
    Ids = {1, 2}
    IdOf <- TwoIdentities
    Faults = {"base", "biglock", "mkdir", "readdir", "stray", "lock", "save", "kill"}
INVARIANTS ListingComplete YieldedExists
PROPERTIES CallsEnd
CHECK_DEADLOCK FALSE
