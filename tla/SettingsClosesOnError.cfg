SPECIFICATION Spec
CONSTANTS
    Texts <- MCTexts
    Clean <- MCClean
    A = A
    PrefixedA = PrefixedA
    B = B
    None = None
    MaxGets = 2
    MaxTimers = 1
    Allowed = {}
PROPERTIES
    ErrorStaysOpen
CHECK_DEADLOCK FALSE
