CONSTANTS
    Orders = {o1, o2}
    Requests = {q1, q2}
    Callbacks = {c1, c2}
    NoOrder = NoOrder
    Nobody = Nobody
    LeaseTicks = 2
    WaitBound = 1
    FaultBound = 1
    CrashBound = 1
    ErrorBound = 1
    SlowBound = 1
SYMMETRY Symmetric
SPECIFICATION Spec
INVARIANTS
    FailedNeverCharged
    OneLiveSession
    PaidMeansSettled
PROPERTIES
    QuarantineKept
    ImplementsSinglePurchase
