SPECIFICATION Spec
CONSTANTS
    c1 = c1
    c2 = c2
    Requests = {c1, c2}
    Audits = {1}
    AuditIds = {1}
    NumQueries <- MCNumQueries
    RunIds = {1, 2}
    IdModulus = 8
    Outcomes = {"match", "deviate", "blank", "fail"}
    Faults = {"db", "cancel", "deadline", "apiCrash"}
SYMMETRY RequestSymmetry
PROPERTIES
    TerminalIsFinal
CHECK_DEADLOCK FALSE
