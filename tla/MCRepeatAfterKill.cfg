SPECIFICATION Spec
CONSTANTS
    None = None
    odd = odd
    MaxTime = 4
    CronExprs = {odd}
    Occurrence <- MCOccurrence
    Jobs = {j1}
    Schedules <- MCSchedules
    Times = {1}
    Ticks = {t1, t2}
    MaxParallel = 1
    Statuses = {"success"}
    MaxFaults = 1
INVARIANT
    StopsAtLimit
