SPECIFICATION FairSpec
CONSTANTS
    a = a
    b = b
    c = c
    d = d
    p1 = p1
    p2 = p2
    p3 = p3
    p4 = p4
    Component = {a, b, c, d}
    Packet = {p1, p2, p3, p4}
    OldUsage <- MCOldUsage
    NewUsage <- MCNewUsage
    Violates <- MCViolates
    Headroom = 12
    Word = 256
    Byte = 16
    DiffInit = 100
    MaxLen = 3
    MaxRounds = 4
    Objective = "maximize"
    Unlimited = FALSE
    Undecided = {}
    SolverFails = {2, 3}
INVARIANTS
    TypeOK
    OutputStaysWithinHeadroom
    CompleteScanIsSafe
PROPERTIES
    DeadIsSound
    LengthIsDecided
    RoundsMakeProgress
    LongerPlansAreNoWorse
    Termination
