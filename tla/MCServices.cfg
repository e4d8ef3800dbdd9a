SPECIFICATION Spec
CONSTANTS
    Alarm = {a1, a2, a3}
    alt_alarm_list = alt_alarm_list
    None = None
    HeapStart = 4
    HeapLimit = 24
    STACK_CHECK = TRUE
    EXCEPTION_STACK = FALSE
    Incrs = {4, 8, 12}
    Frames = {4, 8}
    ALT_US = 10
    Rate = 5
    M = 64
    LastTick = 31
    Times = {0, 1, 3}
    LINE_SIZE = 2
    DCACHE_SIZE = 4
    ICACHE_SIZE = 4
    Lines = 3
    Lengths = {1, 2, 3, 5}
    Sizes = {}
    Sections <- Loaded
    Code = {2}
    BssStart = 5
    BssEnd = 9
    Handler = 5
    Words = 9
    DCACHE_WORDS = 4
    ICACHE_WORDS = 2
    LastReset = 2
    Constructors = 1
    Destructors = 1
    W = 4
    Pow <- PowersOfTwo
    Ops = {"div", "divu", "mul", "muli", "mulxuu", "mulxsu", "mulxss", "other"}
    Sources = {0, 17, 27}
    Destinations = {0, 6, 17, 26, 31}
INVARIANTS ClockRight NothingStays StartsFresh StackApart CountsKept  Prints Emulates
PROPERTIES RunsOnTime
CHECK_DEADLOCK FALSE
