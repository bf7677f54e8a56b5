SPECIFICATION FairSpec
CONSTANTS
    c1 = c1
    c2 = c2
    Requests = {c1, c2}
    Audits = {1, 2}
    AuditIds = {1, 2, 3}
    NumQueries <- MCNumQueries
    RunIds = {1, 2, 5}
    IdModulus = 8
    Outcomes = {"match", "deviate", "fail"}
    Faults = {"rpc"}
PROPERTIES
    RunSettles
    RequestIsAnswered
CHECK_DEADLOCK FALSE
