SPECIFICATION Spec
CONSTANTS
    Requests = {r1, r2}
    MaxVersion = 1
    MaxSyncs = 0
    MaxTries = 3
    Faults = {}
INVARIANTS
    NeverRaises
