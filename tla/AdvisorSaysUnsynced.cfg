SPECIFICATION AppSpec
CONSTANTS
    MaxVersion = 1
    Retries = 0
    Network = {}
INVARIANT
    NoProfilesMeansUnsynced
CHECK_DEADLOCK FALSE
