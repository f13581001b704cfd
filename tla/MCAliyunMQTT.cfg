SPECIFICATION FairSpec
CONSTANTS
    MaxCycles = 3
    MaxRejected = 5
INVARIANT TypeOK
PROPERTIES ContractSpec KeepsDialling
CHECK_DEADLOCK FALSE
