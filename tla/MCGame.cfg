CONSTANTS
    SpawnShift = 3
    Pieces <- AllThree
    XSize = 4
    YSize = 4
    ClearFrames = 0
    LevelRows <- AfterOneRow
    LevelSpeeds <- Fastest
    TotalWrap = 1
    Garbage <- TopGarbage
    KeySets <- AllKeys
SPECIFICATION ThemeSpec
INVARIANTS TypeOK FreshAtFrame PieceShape NoOverlap HeldConsistent NoFullRowSettled
PROPERTIES LockSettles OnlySpawnErases
