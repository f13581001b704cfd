SPECIFICATION SagaSpec
CONSTANTS
    Kinds <- MCKinds
    Size <- MCSize
    Chunks = 2
    MaxAttempts <- MCAttempts
    BatchSize = 2
    StallLimit = 2
    QueueCap = 2
    MaxSagas = 1
    MaxTx = 2
INVARIANTS
    PathPromised
