SPECIFICATION FairSpec
CONSTANTS
    Names = {1}
    Versions = {v1, v2, bad, other}
    Absent = Absent
    Refused = {bad}
    Ignored = {other}
    Clients = {c1}
    MaxEdits = 2
    MaxFaults = 2
INVARIANTS TypeOK SenderInStep QuietConverged
PROPERTY ResyncConverges
