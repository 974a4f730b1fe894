SPECIFICATION Spec
CONSTANTS
    Missions = {m1, m2}
    None = None
    Disk = 7
    Reserve = 4
    PerTick = 1
    Buffer = 1
    MaxData = 2
    MaxFaults = 2
INVARIANTS
    CompleteIsDurable
    VerifiedIsWhole
PROPERTIES
    KeepsDirectories
    StopEnds
