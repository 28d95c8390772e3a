SPECIFICATION FairSpec
CONSTANTS
    a = a
    b = b
    Streams <- MCStreams
    Kinds <- AllKinds
    Cap = 1
    FairBurst = 1
    MaxChunks <- MCMaxChunks
    Trampoline = TRUE
    LoopMayRefuse = TRUE
    NoStream = NoStream
PROPERTY TrampolineFinishes
CHECK_DEADLOCK FALSE
