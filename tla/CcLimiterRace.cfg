\* Two request tasks on the same key: their check calls may overlap.
CONSTANTS
    t1 = t1
    t2 = t2
    k1 = k1
    k2 = k2
    Threads <- MCThreadsRace
    Keys <- MCKeysRace
    Affinity <- MCAffinityRace
    NoBlock = NoBlock
    NoEntry = NoEntry
    WindowSecs <- MCWindowSecs
    MaxRequests <- MCMaxRequests
    BlockSecs <- MCBlockSecs
    MaxTime <- MCMaxTime
    MaxCalls <- MCMaxCalls
SPECIFICATION Spec
INVARIANT CallsDuringBlockAreHit
CHECK_DEADLOCK FALSE
