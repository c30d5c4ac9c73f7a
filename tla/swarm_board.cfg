SPECIFICATION FairSpec
CONSTANTS
    nofile = nofile
    torn = torn
    NWorkers = 2
    Skew <- Clocks
    StaleMin = 0
    TimeoutMin = 2
    Every = 0
    LastReport = 1
    LastWait = 0
    MaxTime = 2
    MaxReports <- FirstOnce
    Usage <- SomeUse
    Assignees <- SecondOnly
    Merges <- FirstMerges
    NoFile <- nofile
    Torn <- torn
CHECK_DEADLOCK FALSE
INVARIANT
    IInv
PROPERTIES
    NeverBack
    WaitSound
    ReportsArrive
    SilenceShows
    WaitEnds
