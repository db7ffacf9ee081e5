CONSTANTS
    Size = 4
    HwMod = 8
    SwMod = 16
    Budget = 2
    Threshold = 2
    PagesFail = TRUE
    SkbsFail = TRUE
SPECIFICATION Spec
CHECK_DEADLOCK FALSE
INVARIANTS TypeOK RingOrdered PagesMatchRing
PROPERTIES OnlyRefillsStarve
