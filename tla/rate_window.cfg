SPECIFICATION Spec
CONSTANTS
    m1 = m1
    m2 = m2
    e1 = e1
    e2 = e2
    e3 = e3
    e4 = e4
    None = None
    Window = 3
    MaxTime = 8
    Meter <- MCMeter
    Event <- MCEvent
    Limit <- MCLimit
SYMMETRY Symmetry
INVARIANTS
    TypeOK
    WindowRespected
    RetryExact
CHECK_DEADLOCK FALSE
