CONSTANTS
    Parts = {"pico-node", "system_test", "dock_detector", "geo_fusion", "fusion",
             "tiles", "control"}
    SbusTimeout = 2
    SerialTimeout = 2
    HeartbeatTimeout = 3
    ArmDelay = 4
    MaxLate = 1
    AgeCap = 6
    Wrap = 64
    None = None
    NaN = NaN
    NoReturn = NoReturn
    Docking = Docking
    Navigation = Navigation
    Neutral = Neutral
    Astern = Astern
    Middle = 2
    NoMask = NoMask
    CameraFrames <- Found
    Unknown = Unknown
    ClusterTol = 1
    MinCluster = 2
    BearingTol = 2
    Gate = 2
    ConfirmHits = 2
    MaxMisses = 1
    MaxDrift = 1
    MaxReturns = 2
    MaxPoints = 4
    MaxFrames = 5
    Places <- Apart
    Threads = {t1, t2}
    Tiles = {a, c}
    Fonts = {f}
    TooDeep = {c}
    Nothing = Nothing
    MaxBytes = 1
    Online = TRUE
    MaxVersion = 1
    MuxTimeout = 5
    CmdTimeout = 3
    PicoTimeout = 5
    Horizon = 16
    Topics <- CriticalTopics
    Messages <- Mixed
    Disk <- Disks
    Diagnostics <- Mountings
    Expected <- Nodes
    Asked <- TheAsked
    MAX_RUNS = 1
    Runs = 2
SPECIFICATION StandaloneSpec
SYMMETRY Symmetry
CHECK_DEADLOCK FALSE
INVARIANTS
    AutonomyIsPermitted
    NoStaleCommand
    GoMeansHeard
    FreeIsFree
    NeverBlank
    BoundedAtRest
    LiveEffort
    DockingDrives
PROPERTIES
    KeepsIdentity
    EveryDetectionIsShown
