SPECIFICATION FairSpec
CONSTANTS
    a = a
    b = b
    Streams <- MCStreams
    Kinds <- AllKinds
    Cap = 1
    FairBurst = 1
    MaxChunks <- MCMaxChunks
    Trampoline = TRUE
    LoopMayRefuse = TRUE
    NoStream = NoStream
INVARIANTS LoopBurstBounded
PROPERTIES KeepsPromise StreamSettles
CHECK_DEADLOCK FALSE
