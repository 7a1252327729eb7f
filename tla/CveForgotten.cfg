SPECIFICATION Spec
CONSTANTS
    Requests = {r1}
    MaxVersion = 1
    MaxSyncs = 0
    MaxTries = 3
    Faults = {"withdrawn"}
PROPERTIES
    NotFoundMeansNowhere
