SPECIFICATION FairAppSpec
CONSTANTS
    MaxVersion = 1
    Retries = 0
    Network = {"errors", "offline"}
INVARIANTS
    EmptyMeansEmpty
    FreshOnArrival
    AgentTakesForm
PROPERTIES
    FooterCatchesUp
    AdviceComes
CHECK_DEADLOCK FALSE
