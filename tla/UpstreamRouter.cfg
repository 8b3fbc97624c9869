\* Scenario 5 in static mode, then DNS mode with a 1 s cache and a two-hop
\* chain, then a broken file; two request tasks, three requests, clock to 2 s.
CONSTANTS
    Configs <- MCConfigsV
    BadConfig = BadConfig
    Dns <- MCDns
    Flaky = {"edge.cdn.net"}
    HostHeaders <- MCHostHeaders
    Digits <- MCDigits
    Lower <- MCLower
    Captures <- MCCaptures
    Tasks = {t1, t2}
    MaxReqs = 3
    MaxTime = 2
    MaxVersion = 2
    NoValue = NoValue
    NoEntry = NoEntry
    ResolveErr = ResolveErr
SPECIFICATION Spec
INVARIANT PickMatchesReference
PROPERTY UpdaterSettles LookupsComplete
