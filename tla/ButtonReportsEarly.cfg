SPECIFICATION Spec
CONSTANTS
    MaxClicks = 2
    MaxPolls = 2
    MaxTimers = 2
    StatusFields = {"status"}
    Allowed = {}
INVARIANTS
    SuccessIsEarned
CHECK_DEADLOCK FALSE
