SPECIFICATION FairSearchSpec
CONSTANTS
    Cves = {c1, c2}
    NoCve = none
    ShortIds = {c1}
    Examples = {c2}
    Retries = 0
    FormTroubles = {"lost", "server"}
    Network = {"errors", "offline"}
INVARIANTS
    SendIsOff
    OpenIsVisible
    SheetFollowsConfirmation
    PreviewIsEarned
    PreviewIsAboutPage
PROPERTIES
    SendingEnds
CHECK_DEADLOCK FALSE
