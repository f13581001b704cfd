SPECIFICATION FairSpec
CONSTANTS
    s1 = s1
    s2 = s2
    Senders <- MCSenders
INVARIANT TypeOK
PROPERTIES ContractSpec KeepsDialling
CHECK_DEADLOCK FALSE
