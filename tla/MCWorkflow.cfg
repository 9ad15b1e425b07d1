CONSTANTS
    c1 = c1
    c2 = c2
    r1 = r1
    r2 = r2
    Keys = {"user"}
    Callers = {c1, c2}
    Runs = {r1, r2}
    StepCount = 2
    Sequential = TRUE
    MaxVersion = 3
    MaxFaults = 0
SYMMETRY CallerAndRunSymmetry
SPECIFICATION Spec
INVARIANTS
    EndReportedIsTrue
PROPERTIES
    ImplementsRunBook
