CONSTANTS
    Size = 4
    HwMod = 8
    SwMod = 16
    Budget = 2
    MayDrop = TRUE
SPECIFICATION Spec
PROPERTY PostedIsRung
