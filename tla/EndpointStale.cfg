SPECIFICATION Spec
CONSTANTS
    Gets = {g1}
    Posts = {p1}
    Endpoints = {a, b}
    Env = env
    None = none
    Faults = {}
INVARIANTS
    FreshWhenQuiet
