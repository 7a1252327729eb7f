SPECIFICATION Spec
CONSTANTS
    MaxClicks = 2
    MaxPolls = 2
    MaxTimers = 2
    StatusFields = {"sync_status"}
    Allowed = {"timeout"}
INVARIANTS
    LoadingIsAlive
CHECK_DEADLOCK FALSE
