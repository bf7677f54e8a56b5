SPECIFICATION FairSpec
CONSTANTS
    c1 = c1
    c2 = c2
    Requests = {c1}
    Audits = {1, 2}
    AuditIds = {1, 2}
    NumQueries <- MCNumQueries
    RunIds = {1, 2}
    IdModulus = 8
    Outcomes = {"match", "deviate"}
    Faults = {"rpc"}
PROPERTIES
    TerminalIsFinal
CHECK_DEADLOCK FALSE
