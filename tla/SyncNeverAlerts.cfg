SPECIFICATION AlertSpec
CONSTANTS
    Syncs = {cron}
    Keys = {}
    Catalogues = {}
    MaxAttempts = 3
    Faults = {"cyperf"}
INVARIANTS
    CircuitBreakerAlerts
