CONSTANTS
    Size = 4
    HwMod = 8
    SwMod = 16
    Budget = 2
    MayDrop = TRUE
SPECIFICATION Spec
INVARIANTS TypeOK RingOrdered SlotsMatchRing
PROPERTIES Woken RungIsFreed
