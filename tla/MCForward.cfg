CONSTANTS
    r1 = r1
    Ids = {r1}
    Costs = {0, 3, 5}
    Estimate = 4
    DbMayFail = TRUE
    MaxLines = 3
    MaxCrashes = 1
SPECIFICATION FairSpec
INVARIANTS
    TypeOK
    OneAccount
    ChargeWasReported
    SettledAsEnded
    StuckOnlyIfClientGone
PROPERTIES
    SettledIsFinal
    ImplementsLedger
    HoldsEnd
    RequestEnds
CHECK_DEADLOCK FALSE
