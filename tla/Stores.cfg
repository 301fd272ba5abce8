SPECIFICATION FairSpec
CONSTANTS
    Names = {1}
    Versions = {v1, bad}
    Absent = Absent
    Refused = {bad}
    Writers = {w1, w2}
    Readers = {r1, r2}
    None = None
    Variants = {"reconciler", "sender", "listener"}
    MaxUpdates = 2
INVARIANTS TypeOK NoMapRace Coherent ReadSeesPublished NilWindow NoCircularWait
PROPERTIES SettledOnce AtomicStore EveryCallReturns
