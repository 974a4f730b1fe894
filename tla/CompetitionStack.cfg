CONSTANTS
    JobIds = {j1, j2}
    None = None
    Tasks = {maneuvering, docking}
    WaypointTasks = {maneuvering}
    NoTask = NoTask
    MaxRoute = 2
SPECIFICATION Spec
SYMMETRY Symmetry
INVARIANTS
    NeverRefused
    SuccessIsEarned
PROPERTIES
    KeepsLifecycle
CHECK_DEADLOCK FALSE
