SPECIFICATION Spec
CONSTANTS
    k1 = k1 k2 = k2 k3 = k3 a1 = a1 a2 = a2
    Keys <- MCKeys
    Syncs = {cron}
    Catalogues <- Overlapping
    MaxAttempts = 3
    Faults = {"cyperf", "metadata"}
INVARIANTS
    FailedSyncRetainsRows
