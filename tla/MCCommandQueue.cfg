SPECIFICATION FairSpec
CONSTANTS
    Keys = {k1}
    NoKey = NoKey
    MaxItems = 3
    TTL = 0
    MaxTime = 1
    MaxAttempts = 2
INVARIANTS TypeOK DedupExact NothingLost
PROPERTIES LifecycleKept CommandsSettle
