SPECIFICATION FairSpec
CONSTANTS
    k1 = k1
    k2 = k2
    t1 = t1
    t2 = t2
    v1 = v1
    k3 = k3
    Keys = {k1, k2, k3}
    Tokens = {t1, t2}
    Invites = {v1}
    AdminInvites = {v1}
    MaxBoots = 3
INVARIANTS TypeOK IssuedOnce InviteUsedMeansIssued GivenKeyIsStored
PROPERTIES BootLeavesAWayIn RevocationTakesEffect
CHECK_DEADLOCK FALSE
