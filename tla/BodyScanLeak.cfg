\* A body chunk arriving after the scan has matched.
CONSTANTS
    Rulesets <- MCSameTwice
    Alphabet = {"a", "b"}
    MaxChunk = 2
    MaxBody = 6
    NoFilter = NoFilter
    Statuses = {429}
    NoValue = NoValue
    Requests <- MCRequests
    Upper <- MCUpper
    Compiles = {1, 2}
    MaxMtime = 1
    CoarseMtime = FALSE
    NoMtime = NoMtime
SPECIFICATION Spec
INVARIANT NothingPassedAfterBlock
CHECK_DEADLOCK FALSE
