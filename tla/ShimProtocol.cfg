SPECIFICATION FairSpec
CONSTANTS
    Faults = {"commit", "serve", "interrupt", "kill", "shim", "lockup", "sigint"}
    MaxStrangers = 2
INVARIANTS TypeOK RequestsGenuine AbortPrompt
PROPERTIES CancelStops OrphanStops
