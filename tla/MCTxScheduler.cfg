CONSTANTS
    a = a
    b = b
    Queues = {a, b}
    Pipeline = 2
    OpTableSize = 2
    None = None
    MaxBacklog = 1
    Doorbells = 1
SPECIFICATION Spec
INVARIANTS TypeOK ScheduledOnce OpsAccounted DoorbellsKept
PROPERTIES Served Quiesces
