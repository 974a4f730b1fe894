CONSTANTS
    Absent = Absent
    Points = 3
    Kept = 3
    Steps = {1, 2}
    QueueLimit = 2
    WireLimit = 1
    Requests = 1
    Events = 2
    Readings <- TheReadings
SPECIFICATION DeliverySpec
CHECK_DEADLOCK FALSE
INVARIANTS
    NoHole
    AlarmsAgree
PROPERTIES
    CatchesUp
