CONSTANTS
    Orders = {o1}
    Requests = {q1}
    Callbacks = {c1, c2}
    NoOrder = NoOrder
    Nobody = Nobody
    LeaseTicks = 2
    WaitBound = 1
    FaultBound = 1
    CrashBound = 1
    ErrorBound = 1
    SlowBound = 1
SPECIFICATION FairSpec
PROPERTIES
    PaymentsGetRecorded
