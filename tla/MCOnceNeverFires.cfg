SPECIFICATION WSpec
CONSTANTS
    None = None
    MaxTime = 2
    CronExprs = {}
    Occurrence <- MCOccurrence
    Jobs = {j1}
    Schedules <- MCEveryOrOnce
    Times = {None}
    Ticks = {d, c1}
    Cmds = {c1}
    Ops = {"edit_schedule"}
    MaxCommands = 1
    MaxParallel = 1
    Statuses = {"success"}
    MaxFaults = 0
INVARIANT
    OnceWillFire
