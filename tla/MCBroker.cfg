SPECIFICATION FairSpec
CONSTANTS
    c1 = c1
    c2 = c2
    c3 = c3
    f1 = f1
    f2 = f2
    Callers <- MCCallers
    Fields <- MCFields
    FieldOf <- MCFieldOf
    Nobody = Nobody
    Retries = 2
    MaxMessages = 3
INVARIANTS TypeOK Registered
PROPERTY RequestsEnd
CHECK_DEADLOCK FALSE
