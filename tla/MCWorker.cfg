SPECIFICATION WorkerSpec
CONSTANTS
    t1 = t1
    t2 = t2
    s1 = s1
    s2 = s2
    s3 = s3
    g1 = g1
    g2 = g2
    g3 = g3
    Threads <- MCThreads
    MaxTimeouts = 1
    Submits <- MCSubmits
    Timed <- MCTimed
    Gates <- MCGates
    Warm <- MCWarm
    PoolCap = 1
    NoGate = NoGate
    NoSubmit = NoSubmit
INVARIANTS OwnCompletion NoOrphan LoopPerWait
PROPERTIES WaiterLeaves EveryoneStarts
CHECK_DEADLOCK FALSE
