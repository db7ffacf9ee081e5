CONSTANTS
    TxCq = {t1, t2}
    RxCq = {r1}
    CplSize = 2
    EqSize = 7
    FifoDepth = 3
    Budget = 1
SPECIFICATION Spec
INVARIANTS TypeOK OneNotification NoEventDiscarded
PROPERTY DeliverySpec
