CONSTANTS
    c1 = c1
    c2 = c2
    r1 = r1
    r2 = r2
    Keys = {"user"}
    Callers = {c1, c2}
    Runs = {r1}
    StepCount = 3
    Sequential = TRUE
    MaxVersion = 4
    MaxFaults = 1
SPECIFICATION FairSpec
INVARIANTS
    SucceededRanEverything
    CursorIsResumePoint
PROPERTIES
    RunningEnds
