SPECIFICATION Spec
CONSTANTS
    None = None
    odd = odd
    MaxTime = 4
    CronExprs = {odd}
    Occurrence <- MCOccurrence
    Jobs = {j1, j2}
    Schedules <- MCSchedules
    Times = {None, 1}
    Ticks = {t1, t2}
    MaxParallel = 0
    Statuses = {"failed"}
    MaxFaults = 1
INVARIANTS
    TypeOK
    OnePassAtATime
    FreshCopy
    AtMostOnce
    SingleCatchUp
    NoDrift
    RepeatBound
    DurableBeforeDelivery
    FailureCostsOneOutput
PROPERTIES
    KeepsPromise
    DueJobsAreServed
    PassesEnd
