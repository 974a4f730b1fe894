CONSTANTS
    Ids = {1, 2}
    Names = {"AUTONOMOUS", "MANUAL", "set_ping_parameters", "run_system_test"}
    Positions <- Switch
    Timeout = 1
    LinkLimit = 1
    MaxWords = 1
    MaxEvents = 2
SPECIFICATION Spec
INVARIANT ObeyedIsConfirmed
PROPERTIES
    ConfirmedWasTrue
    EveryCommandEnds
