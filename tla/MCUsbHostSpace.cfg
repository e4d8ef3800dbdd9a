SPECIFICATION OneSpec
CONSTANTS
    Reports <- SpaceKey
    Faults = FALSE
    Prompt = TRUE
    SlowHands = TRUE
    PortMessages = FALSE
PROPERTIES RemovedIsRemoved
