SPECIFICATION Spec
CONSTANTS
    VarNames = {x, y}
    None = None
    MaxConditions = 1
    MaxVariables = 2
    MaxValidations = 1
CHECK_DEADLOCK FALSE
INVARIANTS TypeOK RefusedIffIllScoped AdmittedIsServed
