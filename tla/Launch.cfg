SPECIFICATION Spec
CONSTANTS
    self = self
    b = b
    Configs <- AllConfigs
    Displays = {":0", ":1"}
    Edits <- SomeEdits
    Radix = 3
    MaxLen = 4
    Word = 32
    RangeSize = 3
    Spread = 2
INVARIANTS DirsFirst RegisteredOnce PlansCompatible SourcesProvided HsuConfined UidAgrees NoSilentFailure
CHECK_DEADLOCK FALSE
