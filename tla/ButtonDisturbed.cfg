SPECIFICATION Spec
CONSTANTS
    MaxClicks = 2
    MaxPolls = 2
    MaxTimers = 2
    StatusFields = {"status", "sync_status"}
    Allowed = {"impatient", "slow", "rerender", "timeout", "direct", "offline", "degraded"}
INVARIANTS
    NoLeakedInterval
    ResultGoesAway
CHECK_DEADLOCK FALSE
