CONSTANTS
    Libm <- MCLibm
    Instances <- BooleanInstances
    foldOpElementLimit = 64
    optimizeFloat = TRUE
    assumeNoUndeclaredSideEffects = TRUE
SPECIFICATION Spec
PROPERTY
    MeaningPreserved
