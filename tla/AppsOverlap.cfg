SPECIFICATION FairSpec
CONSTANTS
    Requests = {r1, r2}
    Ids = {a, b, c}
    Listings = {{a, b}, {a, c}}
    Endpoints = {e1}
    Env = env
    Environ = None
    None = None
    Faults = {"cyperf", "disk", "db", "crash"}
INVARIANTS
    CountsAreHeld
PROPERTIES
    TablesReplacedWhole
    EveryRequestAnswered
