SPECIFICATION Spec
CONSTANTS
    MaxClicks = 2
    MaxPolls = 2
    MaxTimers = 2
    StatusFields = {"sync_status"}
    Allowed = {}
INVARIANTS
    StopsOnTerminal
CHECK_DEADLOCK FALSE
