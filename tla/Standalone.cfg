SPECIFICATION FairSpec
CONSTANTS
    NestedRequest = TRUE
    MaxPolicies = 13
    MaxConditions = 2
    MaxRules = 2
    KubePolicySource = TRUE
    NumSources = 2
    NumFiles = 2
    Names = {1}
    Versions <- MCVersions
    Contents <- MCContents
    Absent = Absent
    Refused <- MCRefused
    Foreign = Foreign
    Odd = Odd
    Gone = Gone
    MaxEdits = 2
CHECK_DEADLOCK FALSE
INVARIANTS TypeOK StandaloneTypeOK AnswerIsFirstVerdict ListingIsRegular RefusedForACause
PROPERTIES RequestIsBounded RequestEnds
