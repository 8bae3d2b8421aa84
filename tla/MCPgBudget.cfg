CONSTANTS
    i1 = i1
    i2 = i2
    i3 = i3
    t1 = t1
    Ids = {i1, i2, i3}
    Teams = {t1}
    TeamOf <- MCTeamOf
    Estimate = 4
    Actuals = {1, 6}
    Caps = {0, 10}
    DbMayFail = TRUE
SYMMETRY ReservationSymmetry
SPECIFICATION Spec
INVARIANTS
    TypeOK
    NoSilentOverspend
PROPERTY
    RefundIsFinal
