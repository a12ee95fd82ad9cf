SPECIFICATION FairSpec
CONSTANTS
    i1 = i1
    i2 = i2
    Intents = {i1, i2}
    MaxRetries = 2
    HttpAttempts = 5
INVARIANTS
    SecondOrderNeedsLoss
PROPERTIES
    QuietAfterAck
    Ends
CHECK_DEADLOCK FALSE
