CONSTANTS
    SpawnShift = 0
    Pieces <- AllPieces
    Shifts <- NinePlaces
    XSize = 4
    YSize = 7
    ClearFrames = 3
    LevelRows <- CodeRows
    LevelSpeeds <- CodeSpeeds
    TotalWrap = 2048
    Garbage <- ThreeTops
    RowPatterns <- RowsAndFull
SPECIFICATION PartsSpec
INVARIANTS TurnsAboutCentre ClearsAllFullRows CompactsContiguous ScoresTheLock
PROPERTIES ImplementsSource AwardExact
