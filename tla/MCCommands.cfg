SPECIFICATION WSpec
CONSTANTS
    None = None
    MaxTime = 0
    CronExprs = {}
    Occurrence <- MCOccurrence
    Jobs = {j1, j2}
    Schedules <- MCEveryInstant
    Times = {None, 1}
    Ticks = {d, c1, c2}
    Cmds = {c1, c2}
    Ops = {"add", "edit", "edit_schedule", "remove", "pause", "resume", "run"}
    MaxCommands = 2
    MaxParallel = 2
    Statuses = {"silent"}
    MaxFaults = 1
INVARIANTS
    WTypeOK
    LastWordStands
    PausedIffDisabled
PROPERTIES
    NoRefireUnlessLost
    RunIsHonoured
VIEW Seen
