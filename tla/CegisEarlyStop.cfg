SPECIFICATION Spec
CONSTANTS
    a = a
    b = b
    c = c
    d = d
    p1 = p1
    p2 = p2
    p3 = p3
    p4 = p4
    Component = {a, b, c}
    Packet = {p1, p2, p3}
    OldUsage <- MCOldThree
    NewUsage <- MCNewThree
    Violates <- MCThree
    Headroom = 6
    Word = 256
    Byte = 16
    DiffInit = 100
    MaxLen = 2
    MaxRounds = 4
    Objective = "off"
    Unlimited = FALSE
    Undecided = {}
    SolverFails = {}
INVARIANTS
    OutputIsSafe
