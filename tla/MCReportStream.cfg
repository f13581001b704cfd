SPECIFICATION Spec
CONSTANT QueueCap = 2
INVARIANT TypeOK
PROPERTIES LinkIsPolled StreamStarts
CHECK_DEADLOCK FALSE
