\* Every text, and every interval arithmetic with a period of at most 6, with
\* every anchor and wall clock up to 14.
SPECIFICATION GSpec
CONSTANTS
    None = None
    odd = odd
    MaxTime = 14
    MaxPeriod = 6
    CronExprs = {odd}
    Occurrence <- MCOccurrence
    Width = 12
    MaxDelta = 2000
    MaxDate = 200
    Digits <- MCDigits
    IsoTimes = {0, 7, 14}
INVARIANTS
    LandsOnNextSlot
    ComputesNextInterval
    ReadsTheGrammar
PROPERTY
    Answers
CHECK_DEADLOCK FALSE
