CONSTANTS
    SteerHold = 1
    TargetTimeout = 2
    Reacquire = 1
    Entry = 1
    Hold = 2
    Reverse = 1
    MaxLate = 2
    Horizon = 3
    Docking = docking
    Tasks = {docking, other, NoTask}
    TaskStates = {"IDLE", "READY", "RUNNING", "SUCCEEDED", "FAILED", "ABORTED"}
    NoTask = NoTask
    MaxCalls = 2
    Readings <- SeenOrLost
    Prompt = TRUE
SPECIFICATION FairSpec
INVARIANTS
    SteersByFreshReading
    CompleteIsEarned
PROPERTIES
    HoldsBeforeReverse
    DockingRunEnds
