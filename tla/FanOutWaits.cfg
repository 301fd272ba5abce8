SPECIFICATION FairSpec
CONSTANTS
    Streams = {s1, s2}
    Calls = {k1}
    MaxTries = 2
CHECK_DEADLOCK FALSE
PROPERTIES CallsEnd
