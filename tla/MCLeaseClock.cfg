CONSTANTS
    Timeouts <- MCTimeouts
    SkipBound = 1
SPECIFICATION ClockSpec
INVARIANTS
    LeaseOutlivesBeats
