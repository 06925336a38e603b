SPECIFICATION Spec
CONSTANTS
    NamePrefix = {}
    Denied <- DeniedSources
    MaxLinks = 3
    HostNodes <- Host
    HostLinks <- Links
    HostMounts <- Table
    RetainSession = TRUE
    Missing = Missing
    SharePath <- Shared
    RuntimePath <- Runtime1000
    SystemBusDirs <- BusDirs
    MapUid = "65534"
    RealUid = "1000"
    Instance = "inst"
    Identity = "7"
    Configs <- CoveredConfigs
    Orphans = {"adopted"}
    LandlockABI = 6
    Statuses <- AllStatuses
    Faults = {}
INVARIANTS SocketsReachable
CHECK_DEADLOCK FALSE
