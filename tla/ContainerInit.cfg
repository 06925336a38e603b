SPECIFICATION Spec
CONSTANTS
    NamePrefix = {}
    Denied <- DeniedSources
    MaxLinks = 3
    HostNodes <- Host
    HostLinks <- Links
    HostMounts <- Table
    RetainSession = TRUE
    Missing = Missing
    SharePath <- Shared
    RuntimePath <- Runtime1000
    SystemBusDirs <- BusDirs
    MapUid = "65534"
    RealUid = "1000"
    Instance = "inst"
    Identity = "7"
    Configs <- AllConfigs
    Orphans = {"adopted"}
    LandlockABI = 6
    Statuses <- AllStatuses
    Faults = {"start", "serve", "setup", "cancel", "signal"}
INVARIANTS Confined StatusPropagated Arranged SocketsReachable HostPathsHidden
PROPERTIES BindSealed LingerBounded CancelEnds
CHECK_DEADLOCK FALSE
