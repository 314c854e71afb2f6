SPECIFICATION Spec
CONSTANTS
    a = a
    b = b
    c = c
    p = p
    same = same
    color = color
    bare = bare
    x = x
    y = y
    z = z
    Component = {a, b, c}
    Packet = {p}
    Usages <- MCUsages
    Headrooms = {1, 2, 3, 4, 7}
    MaxLen = 3
    Word = 256
    Byte = 16
    DiffInit = 100
    Atom = {same, color, bare, x, y, z}
    Skipped = {same, color}
    SamePacket = {same}
    Unplaced = {bare}
    SpecFiles <- MCSpecFiles
INVARIANTS
    WellFormedIsFeasible
    DiagnosisKeepsOptimum
    ReportReplaysPlan
    TranslationIsExact
    NoViolationIsMissed
