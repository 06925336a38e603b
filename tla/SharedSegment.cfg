SPECIFICATION Spec
CONSTANTS
    a = a
    b = b
    c = c
    None = None
    Inst = {a, b}
    Plan <- SharedX11Plan
    Enabl <- SharedX11Enabl
    Faults = {"start", "save", "ident", "serve", "destroy", "readdir", "revert", "kill"}
INVARIANTS TypeOK SegmentInv
PROPERTIES RegisteredBeforeCommit LeaseSpec
