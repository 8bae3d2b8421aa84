CONSTANTS
    r1 = r1
    Ids = {r1}
    Costs = {3}
    Estimate = 4
    DbMayFail = FALSE
    MaxLines = 2
    MaxCrashes = 0
SPECIFICATION FairSpec
PROPERTY
    DisconnectReleases
CHECK_DEADLOCK FALSE
