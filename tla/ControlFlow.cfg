SPECIFICATION Spec
CONSTANTS
    Programs <- MCPrograms
    Codes <- MCCodes
INVARIANTS
    BTypeOK
    PruningIsExact
    NoNodeTwice
    BlocksKeepTheEdges
    SortIsTopological
    DominatorsAreExact
    FrontierIsExact
    ReadsKeepTheirValues
    VersionsAreWrittenOnce
PROPERTIES
    AnalysisEnds
CHECK_DEADLOCK FALSE
