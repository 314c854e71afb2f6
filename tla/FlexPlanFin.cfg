SPECIFICATION SysSpec
CONSTANTS
    a = a
    b = b
    c = c
    p1 = p1
    p2 = p2
    Component = {a, b}
    Packet = {p1, p2}
    OldUsage <- MCOldUsage
    NewUsage <- MCNewUsage
    Violates <- MCPair
    Headroom = 6
    Word = 256
    Byte = 16
    DiffInit = 100
    MaxLen = 1
    MaxRounds = 3
    Objective = "off"
    Unlimited = FALSE
    Undecided = {}
    SolverFails = {}
    MaxFlag = 3
    BigCore = 3
PROPERTIES
    SkippedVerificationIsSafe
