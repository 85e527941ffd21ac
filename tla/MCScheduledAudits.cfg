CONSTANTS
    MonthStart <- MCMonthStart
    Days = {31, 59}
    FirstDay = 31
    Plans = {"free", "starter", "pro"}
    FreePlan = "free"
    LimitOf <- MCLimitOf
    Scheduling = {"pro"}
    FirstSubs <- MCFirstSubs
    OnSale = {"pro"}
    SubBound = 3
    project = project
    monthly = monthly
    weekly = weekly
    Submissions <- MCSubmissions
    NoProject = NoProject
    Clients = {q1}
    StuckBound = 1
    RetryBound = 1
    Schedules = {monthly, weekly}
    ScheduleFor <- MCScheduleFor
    FirstOnes = {monthly}
    Passes = {p1, p2}
    MaxSchedules = 2
    NoSchedule = NoSchedule
    FailBound = 1
SPECIFICATION FairSpec
INVARIANTS
    KeysRemembered
    WithinQuota
    OccurrencesOnce
    NoOverlapUnlessRetried
PROPERTIES
    DueServed
    ImplementsRecurringAudits
