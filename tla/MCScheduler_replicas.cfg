SPECIFICATION Spec
CONSTANTS
    Schedules = {1}
    Replicas = {1, 2}
    Period = 2
    Asked <- MCAsked
    Default = 3
    Longest = 4
    Second = 2
    Durations = 16
    MaxFailures = 0
PROPERTIES
    StartsAreSpaced
