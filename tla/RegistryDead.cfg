SPECIFICATION Spec
CONSTANTS
    Clients = {c1, c2}
    Addresses = {none}
    Unaddressed = none
    None = None
    Interval = 1
    FlushInterval = 2
    MaxInactive = 4
    MaxDelay = 1
    Skews <- MCSkews
    Trouble <- MCTrouble
    c1 = c1
    c2 = c2
    Horizon = 9
    MaxStreams = 2
CHECK_DEADLOCK FALSE
INVARIANT DeadAreFlushed
