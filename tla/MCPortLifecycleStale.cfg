CONSTANTS
    Tx = {t}
    Rx = {r}
    TxSize = 2
    RxSize = 2
    Budget = 1
    Threshold = 1
    Lives = 2
    None = None
SPECIFICATION Spec
CHECK_DEADLOCK FALSE
INVARIANT CompletedHasBuffer
