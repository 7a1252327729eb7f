SPECIFICATION SearchSpec
CONSTANTS
    Cves = {c1, c2}
    NoCve = none
    ShortIds = {c1}
    Examples = {c2}
    Retries = 0
    FormTroubles = {}
    Network = {}
INVARIANTS
    OneSubmission
CHECK_DEADLOCK FALSE
