\* A dynamic_conv with operands of two different f8 types.
SPECIFICATION Spec
CONSTANTS
    Programs <- MixedConv
    OldArtifacts <- NoOldArtifacts
    Targets <- MCTargets
INVARIANT
    ArtifactIsExpressible
