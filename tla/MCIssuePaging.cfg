SPECIFICATION Spec
CONSTANTS
    Issues = {1, 2, 3, 4, 5, 6}
    Readers = {r}
    Absent = absent
    FirstPages <- MCFirstPages
    AskedSizes <- MCSizes
    DefaultSize = 2
    MaxSize = 3
    Ints = 64
INVARIANTS
    TypeOK
    NothingMissed
    RepeatsAreInsertions
CHECK_DEADLOCK FALSE
