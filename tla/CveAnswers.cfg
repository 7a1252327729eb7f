SPECIFICATION FairSpec
CONSTANTS
    Requests = {r1, r2}
    MaxVersion = 2
    MaxSyncs = 1
    MaxTries = 3
    Faults = {"absent", "redis", "ratelimit", "nvd", "db", "withdrawn"}
PROPERTIES
    CachedCopyIsFound
    EntryCatchesUp
    EverySearchEnds
