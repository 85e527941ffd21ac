CONSTANTS
    Jobs = {j1, j2}
    Workers = {w1, w2}
    NoWorker = NoWorker
    MaxAttempts = 2
    LeaseTicks <- MCLeaseTicks
    BeatTicks <- MCBeatTicks
    RecycleTicks = 1
    Backoff <- MCBackoff
    AttemptBound = 3
    WaitBound = 1
SPECIFICATION QueueSpec
INVARIANTS
    AttemptsWithinMax
