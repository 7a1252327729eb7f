SPECIFICATION FairSpec
CONSTANTS
    Texts <- MCTexts
    Clean <- MCClean
    A = A
    PrefixedA = PrefixedA
    B = B
    None = None
    MaxGets = 2
    MaxTimers = 1
    Allowed = {"elsewhere", "lost"}
INVARIANTS
    OneSave
    ShownWasHeld
PROPERTIES
    SavingEnds
    WidgetCatchesUp
CHECK_DEADLOCK FALSE
