CONSTANTS
    Np = 8
    SendNp = 2
    WrMod = 16
    None = None
    MayCross = FALSE
SPECIFICATION Safety
INVARIANTS TypeOK HeaderIntact ModeFitsFault
PROPERTY HeadersArrive
