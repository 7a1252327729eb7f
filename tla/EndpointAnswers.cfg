SPECIFICATION FairSpec
CONSTANTS
    Gets = {g1, g2}
    Posts = {p1, p2}
    Endpoints = {a, b}
    Env = env
    None = none
    Faults = {"redis", "db"}
PROPERTIES
    SavedBeatsEnv
    StaleCacheHeals
