SPECIFICATION FairSpec
CONSTANTS
    MaxClicks = 3
    MaxPolls = 2
    MaxTimers = 2
    StatusFields = {"status", "sync_status"}
    Allowed = {"direct", "offline", "degraded"}
INVARIANTS
    LoadingIsAlive
PROPERTIES
    EveryClickLeadsOn
CHECK_DEADLOCK FALSE
