SPECIFICATION Spec
CONSTANTS
    NestedRequest = FALSE
    MaxPolicies = 1
    MaxConditions = 1
    MaxRules = 1
CHECK_DEADLOCK FALSE
INVARIANT DenyByDefault
