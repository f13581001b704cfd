SPECIFICATION FairSpec
CONSTANTS
    w1 = w1
    w2 = w2
    k1 = k1
    Writers = {w1, w2}
    Connectors = {k1}
    Threshold = 2
    MaxLinks = 2
INVARIANTS TypeOK NoGhost DialsAreDue
PROPERTIES CallsEnd DropNoticed
