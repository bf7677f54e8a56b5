SPECIFICATION Spec
CONSTANTS
    p1 = p1
    p2 = p2
    NumAudits = 3
    RunIds = {1, 2, 3}
    Positions = {1}
    Pollers = {p1, p2}
    Faults = {"job", "db", "cancel", "crash"}
SYMMETRY PollerSymmetry
INVARIANTS
    TypeOK
    VerdictIsAggregate
    ChildrenAreListed
CHECK_DEADLOCK FALSE
