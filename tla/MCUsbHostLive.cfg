SPECIFICATION OneSpec
CONSTANTS
    Reports <- TwoKeys
    Faults = FALSE
    Prompt = TRUE
    SlowHands = TRUE
    PortMessages = FALSE
PROPERTIES KeysFollow
