CONSTANTS
    Devices = {d1, d2}
    IfCount = 1
SPECIFICATION Spec
SYMMETRY Interchangeable
CHECK_DEADLOCK FALSE
INVARIANTS
    TypeOK
    NothingLeft
    ListSound
    HandlerSafe
