SPECIFICATION SendSpec
CONSTANTS
    SendLimit = 2
    Window = 2
    BanTime = 1
    SyncInterval = 0
    Others = 1
    MaxLog = 4
INVARIANTS
    SendTypeOK
    
    BackoffExact
    OfflineIsQuiet
PROPERTY CommandEnds
