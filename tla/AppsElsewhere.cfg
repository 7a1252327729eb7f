SPECIFICATION FairSpec
CONSTANTS
    Requests = {r1}
    Ids = {a}
    Listings = {{a}}
    Endpoints = {e1}
    Env = env
    Environ = env
    None = None
    Faults = {}
INVARIANTS
    TypeOK
    AppsFromEndpoint
