SPECIFICATION FairSpec
CONSTANTS
    Commands = {"control-plane", "sidecar", "standalone", "webhook", "injector"}
    MaxRequests = 2
CHECK_DEADLOCK FALSE
INVARIANTS TypeOK StopsForACause AnsweredBeforeExit
PROPERTIES ExitsOnceCancelled KeepsDialling
