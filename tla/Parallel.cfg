SPECIFICATION PSpec
CONSTANTS
    a = a
    b = b
    c = c
    d = d
    p1 = p1
    p2 = p2
    Component = {a, b, c, d}
    Packet = {p1, p2}
    OldUsage <- MCOldUsage
    NewUsage <- MCNewUsage
    Violates <- MCViolates
    Headroom = 7
    Word = 256
    Byte = 16
    DiffInit = 100
    Undecided = {{a, b}}
    Leftover <- MCLeftover
    QueueSize = 2
    Mortal <- MCMortal
INVARIANTS
    PTypeOK
    LogsAreOfThisRound
PROPERTIES
    ImplementsVerifyPhase
    VerificationEnds
