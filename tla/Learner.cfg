SPECIFICATION LearnerSpec
CONSTANTS
    a = a
    b = b
    c = c
    p1 = p1
    p2 = p2
    Component = {a, b, c}
    Packet = {p1, p2}
    OldUsage <- MCUsage
    NewUsage <- MCUsage
    Violates <- MCViolates
    Headroom = 6
    Word = 256
    Byte = 16
    DiffInit = 100
    MaxFlag = 4
    BigCore = 2
INVARIANTS
    LearnerTypeOK
    FinIsComplete
PROPERTIES
    LearnerTermination
