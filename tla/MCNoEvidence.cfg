SPECIFICATION LSpec
CONSTANTS
    None = None
    MaxTime = 1
    CronExprs = {}
    Occurrence <- MCOccurrence
    Jobs = {j1}
    Schedules <- MCEveryInstant
    Times = {None}
    Ticks = {d, c1}
    Loopers = {c1}
    EventJobs = {j1}
    Policies <- MCPolicies
    MaxChainRuns = 2
    Decisions <- MCDecisions
    MaxChains = 1
    MaxParallel = 1
    Statuses = {"success", "failed"}
    MaxFaults = 0
PROPERTY EvidenceAfterEachChain
