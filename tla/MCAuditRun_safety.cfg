SPECIFICATION Spec
CONSTANTS
    c1 = c1
    c2 = c2
    Requests = {c1, c2}
    Audits = {1, 2}
    AuditIds = {1, 2}
    NumQueries <- MCNumQueries
    RunIds = {1, 2, 5}
    IdModulus = 8
    Outcomes = {"match", "deviate", "blank", "fail"}
    Faults = {"rpc", "db", "workerCrash"}
SYMMETRY RequestSymmetry
INVARIANTS
    TypeOK
    VerdictMatchesIssues
    OneIssuePerDeviation
    RowTellsItsStory
    AnswersAreHonest
PROPERTIES ImplementsRecord
CHECK_DEADLOCK FALSE
