CONSTANTS
    JobIds = {j1, j2}
    MaxWaypoints = 1
    None = None
SPECIFICATION Spec
PROPERTY
    NoGoalAfterAbort
