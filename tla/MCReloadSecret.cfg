SPECIFICATION Spec
CONSTANTS
    Body <- MCBody
    Contents <- MCContents
    Initial <- MCInitial
    Unreadable = Unreadable
    Unread = Unread
    Nil = Nil
    Paths = {"f"}
    Keys = {"", "k1"}
    Endpoints = {"a"}
    Teams = {"s", "t"}
    Goroutines = {g1, g2}
    MaxEdits = 2
INVARIANT
    SecretsReResolved
CHECK_DEADLOCK FALSE
