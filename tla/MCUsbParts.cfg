SPECIFICATION Spec
CONSTANTS
    None = None
    Ports = {0, 2}
    Values = {0, 1}
    Owned = {}
    Gap = 4
    Resets = TRUE
    Sizes = {16, 80}
    Faults = TRUE
    Keys = {"A", "D", "G", "H", "COMMA", "TWO", "SPACE"}
    MaxDown = 7
INVARIANTS MemoryRight KeysArrive
PROPERTIES ImplementsPorts OnlyItsPort
