CONSTANTS
    Np = 8
    SendNp = 2
    WrMod = 16
    None = None
    MayCross = TRUE
SPECIFICATION Safety
PROPERTY HeadersArrive
