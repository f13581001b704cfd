SPECIFICATION FairSpec
CONSTANTS
    i1 = i1
    i2 = i2
    r1 = r1
    p1 = p1
    Invokers = {i1, i2}
    Renewers = {r1}
    Plain = {p1}
    scheduler = scheduler
    MaxTries = 2
    MaxTokens = 2
INVARIANTS TypeOK LoginIntact
PROPERTIES OneRefreshPerStaleToken CallsEnd
