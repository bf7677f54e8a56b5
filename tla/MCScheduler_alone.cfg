SPECIFICATION FairSpec
CONSTANTS
    Schedules = {1, 2}
    Replicas = {1}
    Period = 2
    Asked <- MCAsked
    Default = 3
    Longest = 4
    Second = 2
    Durations = 16
    MaxFailures = 2
INVARIANTS
    TypeOK
PROPERTIES
    StartsAreSpaced
    ScheduleRecurs
