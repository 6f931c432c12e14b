SPECIFICATION Spec
CONSTANTS
    a1 = a1  a2 = a2  a3 = a3  t1 = t1  t2 = t2
    None = None
    Client <- ThreeClients
    Worker <- TwoWorkers
    MaxInFlight = 2
    Interval = 1
    MaxTime = 1
INVARIANTS
    TypeOK
    WorkWithinSlots
    CleanupsApart
PROPERTIES
    CleanupNotMissed
    RequestsEnd
    ShutdownEnds
