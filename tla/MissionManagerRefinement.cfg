CONSTANTS
    JobIds = {j1, j2}
    MaxWaypoints = 2
    None = None
SPECIFICATION Spec
INVARIANTS
    EndLeavesNothingBehind
PROPERTIES
    BypassLostOnlyToAnother
    MissionEnds
    KeepsContract
