SPECIFICATION FairSpec
CONSTANTS
    nofile = nofile
    torn = torn
    Tops <- OneTop
    Duts = 2
    Groups = 2
    Tasks <- TwoProofs
    Template <- TwoFiles
    Verdicts <- Verdicts2
    Machines <- SomeMachines
    MinLine = 95
    MinToggle = 55
    NoFile <- nofile
    Torn <- torn
INVARIANTS
    GateRight
    EnvsKept
    TalliesAgree
PROPERTY
    ReportMade
