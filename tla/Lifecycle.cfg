SPECIFICATION FairSpec
CONSTANTS
    MaxRuns = 2
    MaxLen = 2
INVARIANTS
    LTypeOK
    FormulaIsFresh
    CoresAreFresh
    RegenerationComesTooLate
PROPERTIES
    WaitEnds
CHECK_DEADLOCK FALSE
