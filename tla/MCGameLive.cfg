CONSTANTS
    SpawnShift = 3
    Pieces <- BarAndSquare
    XSize = 4
    YSize = 4
    ClearFrames = 1
    LevelRows <- AfterOneRow
    LevelSpeeds <- TwoSpeeds
    TotalWrap = 2
    Garbage <- NoGarbage
    KeySets <- FewKeys
SPECIFICATION LiveSpec
PROPERTIES KeepsLocking KeepsPlaying
