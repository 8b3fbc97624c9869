\* Two request tasks, each on its own key: calls on different keys overlap,
\* calls on one key never do.
CONSTANTS
    t1 = t1
    t2 = t2
    k1 = k1
    k2 = k2
    Threads <- MCThreadsSeq
    Keys <- MCKeysSeq
    Affinity <- MCAffinitySeq
    NoBlock = NoBlock
    NoEntry = NoEntry
    WindowSecs <- MCWindowSecs
    MaxRequests <- MCMaxRequests
    BlockSecs <- MCBlockSecs
    MaxTime <- MCMaxTime
    MaxCalls <- MCMaxCalls
SPECIFICATION Spec
INVARIANT TypeOK
INVARIANT CallsDuringBlockAreHit
INVARIANT WindowAdmission
PROPERTY ImplementsAtomic
CHECK_DEADLOCK FALSE
