SPECIFICATION Spec
CONSTANTS
    Names = {1}
    Versions = {v1}
    Absent = Absent
    Refused = {}
    Ignored = {}
    Clients = {c1}
    MaxEdits = 2
    MaxFaults = 1
INVARIANT Distributes
