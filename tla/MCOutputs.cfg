SPECIFICATION Spec
CONSTANTS
    None = None
    watch = watch
    report = report
    here = here
    there = there
    Jobs = {watch, report}
    Hosts = {here, there}
    Vector <- MCVector
    Defs <- MCDefs
    Specs <- MCSpecs
    Defaults <- MCDefaults
    Allowlists <- MCAllowlists
    Children <- MCChildren
    MaxStamp = 2
    MaxPasses = 2
    MaxFaults = 1
INVARIANTS
    LogAgreesWithFiles
    ContextIsFirstOfLatestStamp
    AgentPromptsAreClean
    EveryTargetIsTried
    HookReportIsTrue
    DecisionStands
PROPERTIES
    NeverOverwritten
    DeliveryEnds
CHECK_DEADLOCK FALSE
