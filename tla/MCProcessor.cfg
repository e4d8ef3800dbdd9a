SPECIFICATION PartsFairSpec
CONSTANTS
    Irqs = {0, 1, 2}
    Isrs = {"a"}
    NoIsr = "none"
    Careless = FALSE
    Deepest = 4
    Program <- EveryKind
    Lines = {0, 1}
    MaxRaises = 4
    Steady = TRUE
    Emulation = TRUE
INVARIANTS Undisturbed EnablesExact
PROPERTIES NoneForgotten Delivers WriteEnds
CHECK_DEADLOCK FALSE
