SPECIFICATION FairSpec
CONSTANTS
    p1 = p1
    p2 = p2
    NumAudits = 3
    RunIds = {1, 2, 3}
    Positions = {1}
    Pollers = {p1, p2}
    Faults = {"rpc", "job", "crash"}
INVARIANTS
    NoPrematureVerdict
    OneChildPerAudit
PROPERTIES
    PolicySettles
CHECK_DEADLOCK FALSE
