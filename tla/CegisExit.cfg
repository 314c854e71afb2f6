SPECIFICATION Spec
CONSTANTS
    a = a
    b = b
    c = c
    d = d
    p1 = p1
    p2 = p2
    p3 = p3
    p4 = p4
    Component = {a, b, c, d}
    Packet = {p1, p2, p3}
    OldUsage <- MCOldPlateau
    NewUsage <- MCNewPlateau
    Violates <- MCPlateau
    Headroom = 50
    Word = 256
    Byte = 16
    DiffInit = 100
    MaxLen = 3
    MaxRounds = 4
    Objective = "maximize"
    Unlimited = TRUE
    Undecided = {}
    SolverFails = {}
INVARIANTS
    ExitIsOptimal
