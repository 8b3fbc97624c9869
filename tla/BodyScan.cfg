\* Chunks of 1 or 2 bytes, up to 4 bytes per body; the rules file is
\* rewritten twice with the same rules while the request is in flight, the
\* first time half-written; each write has a newer mtime.
CONSTANTS
    Rulesets <- MCSameThrice
    Alphabet = {"a", "b"}
    MaxChunk = 2
    MaxBody = 4
    NoFilter = NoFilter
    Statuses = {429}
    NoValue = NoValue
    Requests <- MCRequests
    Upper <- MCUpper
    Compiles = {1, 3}
    MaxMtime = 2
    CoarseMtime = FALSE
    NoMtime = NoMtime
SPECIFICATION Spec
INVARIANT TypeOK
INVARIANT ScanMatchesReference
INVARIANT HeaderPhaseMatchesReference
INVARIANT AccessLogRecordsOutcome
PROPERTY RulesSettle
CHECK_DEADLOCK FALSE
