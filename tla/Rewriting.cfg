CONSTANTS
    Libm <- MCLibm
    Instances <- MCInstances
    foldOpElementLimit = 64
    optimizeFloat = TRUE
    assumeNoUndeclaredSideEffects = TRUE
SPECIFICATION Spec
INVARIANTS
    StaysValid
    Specialized
    DiagnosedIffBroken
PROPERTIES
    MeaningPreserved
    Terminates
