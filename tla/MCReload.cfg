SPECIFICATION FairSpec
CONSTANTS
    Body <- MCBody
    Contents <- MCContents
    Initial <- MCInitial
    Unreadable = Unreadable
    Unread = Unread
    Nil = Nil
    Paths = {"f"}
    Keys = {"", "k1"}
    Endpoints = {"a"}
    Teams = {"s", "t"}
    Goroutines = {g1, g2}
    MaxEdits = 2
INVARIANTS
    TypeOK
    NoLostEdit
    LastKnownGood
    OneConfiguration
PROPERTIES
    EditTakesEffect
    SighupRereadsSecrets
CHECK_DEADLOCK FALSE
