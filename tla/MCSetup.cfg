CONSTANTS
    Placed <- PlacedFields
    Live <- LiveFields
    Numbers <- TwoNumbers
    Base <- Shipped
    BaseMeasured = FALSE
    Default <- Fallback
    Requests <- Saves
    Applies = {a1}
    Patience = 1
    MaxSaves = 2
    MaxFaults = 2
    Transports = {"udp", "tcp"}
    Settings = {"near", "far"}
    Configured = "near"
    QueueSize = 1
    FirstNumbers = {0, 5}
    MaxLength = 3
    MaxBuffer = 12
    Window = 3
    Never = Never
    MaxPings = 3
    MaxEvents = 2
SPECIFICATION NodeSpec
CHECK_DEADLOCK FALSE
INVARIANTS
    ConfirmedIsLoaded
    PredictionComesTrue
    MeasuredIsEarned
    IntactFramesGetThrough
    LossIsMeasured
