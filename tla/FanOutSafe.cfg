SPECIFICATION FairSpec
CONSTANTS
    Streams = {s1, s2, s3}
    Calls = {k1}
    MaxTries = 2
CHECK_DEADLOCK FALSE
INVARIANTS TypeOK DeliveredOnce PanicNeedsFirstClient
PROPERTIES EveryStreamIsTried
