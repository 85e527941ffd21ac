CONSTANTS
    Jobs = {j1, j2}
    FirstJobs = {j1}
    Runs = {r1}
    RunOf <- OneRun
    Procs = {p1}
    Concurrency = 2
    Workers <- MCWorkers
    NoWorker = NoWorker
    Admins = {a1}
    MaxAttempts = 2
    LeaseTicks <- MCLeaseTicks
    BeatTicks <- MCBeatTicks
    RecycleTicks = 0
    Backoff <- MCBackoff
    AttemptBound = 5
    WaitBound = 0
    CrashBound = 1
    StallBound = 1
    FaultBound = 1
    RouteFaultBound = 1
    ShutdownBound = 1
SPECIFICATION FairSpec
INVARIANTS
    SuccessHasResults
    SuccessSticksUnlessStalled
PROPERTIES
    NoStartAfterSignal
    SettledRunsRest
    JobsFinishUnlessHung
    RunsSettleUnlessDisturbed
