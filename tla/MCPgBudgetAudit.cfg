CONSTANTS
    i1 = i1
    i2 = i2
    i3 = i3
    t1 = t1
    Ids = {i1, i2}
    Teams = {t1}
    TeamOf <- MCTeamOf
    Estimate = 4
    Actuals = {6}
    Caps = {10}
    DbMayFail = FALSE
SPECIFICATION Spec
INVARIANT
    AlertIsAudited
