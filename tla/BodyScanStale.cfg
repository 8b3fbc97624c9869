\* The rules file is rewritten with a rule inserted at the top while
\* the request is in flight.
CONSTANTS
    Rulesets <- MCShifted
    Alphabet = {"a", "b"}
    MaxChunk = 2
    MaxBody = 6
    NoFilter = NoFilter
    Statuses = {429}
    NoValue = NoValue
    Requests <- MCRequests
    Upper <- MCUpper
    Compiles = {1, 2}
    MaxMtime = 1
    CoarseMtime = FALSE
    NoMtime = NoMtime
SPECIFICATION Spec
INVARIANT ScanMatchesReference
CHECK_DEADLOCK FALSE
