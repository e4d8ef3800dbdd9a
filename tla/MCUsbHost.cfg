SPECIFICATION BothSpec
CONSTANTS
    Reports <- TwoKeys
    Faults = TRUE
    Prompt = FALSE
    SlowHands = FALSE
    PortMessages = FALSE
INVARIANT PromptPollsConfigured
PROPERTIES ShowsReported
