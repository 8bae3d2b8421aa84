SPECIFICATION Spec
CONSTANTS
    Body <- MCBody
    Unreadable = Unreadable
    Nil = Nil
    Teams = {}
    Configs <- MCConfigs
    Publishers = {p1, p2}
    Requests <- MCRequests
    Who = {"dev", "ops"}
    Usages <- MCUsages
    Draws <- MCDraws
    Adapters = {"anthropic", "anthropic_compat", "openai", "openai_compat"}
    Absent = Absent
    MaxReloads = 2
INVARIANTS
    TypeOK
    ChainIsComplete
    RequirementsMet
    CalledAsRecorded
    FailuresExplained
    DegradedAsDetected
    CacheIsPriced
SYMMETRY
    MCSymmetry
CHECK_DEADLOCK FALSE
