SPECIFICATION ApiSpec
CONSTANTS
    Apis = {a1, a2}
    Workers = {w}
    MaxFailures = 1
    MaxAudits = 2
    MaxOthers = 1
INVARIANTS
    TypeOK
    ServingMeansSeeded
    ApiTypeOK
    PoliciesListAudits
PROPERTIES
    EveryoneServes
    DefaultUsersCanLogIn
    TokensWorkEverywhere
    OnlyAdminsWrite
    CreationsAreAnswered
    RefusalsAreDeserved
CHECK_DEADLOCK FALSE
