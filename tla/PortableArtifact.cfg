\* Every kind of op, every version of the opset, any sequence of calls.
SPECIFICATION Spec
CONSTANTS
    Programs <- MCPrograms
    OldArtifacts <- MCOldArtifacts
    Targets <- MCTargets
INVARIANTS
    TypeOK
    MeaningPreserved
    ArtifactIsExpressible
    RefusedOnlyWhenNew
    AlwaysReadable
