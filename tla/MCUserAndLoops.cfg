SPECIFICATION USpec
CONSTANTS
    None = None
    MaxTime = 1
    CronExprs = {}
    Occurrence <- MCOccurrence
    Jobs = {j1}
    Schedules <- MCEveryInstant
    Times = {None, 1}
    Ticks = {c1, u}
    Loopers = {c1}
    Cmds = {u}
    EventJobs = {j1}
    Policies <- MCPrinted
    MaxChainRuns = 2
    Decisions <- MCOnGoal
    MaxChains = 1
    Ops = {"add", "edit", "edit_schedule", "remove", "pause", "resume", "run"}
    MaxCommands = 1
    MaxParallel = 1
    Statuses = {"success"}
    MaxFaults = 1
PROPERTIES
    UndoneByItsChainOnly
    NoSlotTwiceUnlessLost
VIEW Seen
