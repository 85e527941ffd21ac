CONSTANTS
    Jobs = {j1, j2}
    FirstJobs = {j1}
    Runs = {r1}
    RunOf <- OneRun
    Procs = {p1, p2}
    Concurrency = 1
    Workers <- MCWorkers
    NoWorker = NoWorker
    Admins = {a1}
    MaxAttempts = 2
    LeaseTicks <- MCLeaseTicks
    BeatTicks <- MCBeatTicks
    RecycleTicks = 0
    Backoff <- MCBackoff
    AttemptBound = 4
    WaitBound = 0
    CrashBound = 1
    StallBound = 1
    FaultBound = 0
    RouteFaultBound = 0
    ShutdownBound = 0
SYMMETRY AnyProc
SPECIFICATION Spec
INVARIANTS
    NoOverlapUnlessStalled
    AttemptsExplained
PROPERTY
    ImplementsExclusiveWork
