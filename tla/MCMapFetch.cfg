SPECIFICATION MapSpec
CONSTANTS
  Hashes <- MCHashes
  Size <- MCSize
  Manifest <- MCManifest
  MaxAttempts = 2
  StallLimit = 2
  QueueCap = 1
  MaxSyncs = 1
CHECK_DEADLOCK FALSE
INVARIANTS MapTypeOK TakenIsApplied
PROPERTIES CopySpec
