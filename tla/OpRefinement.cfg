SPECIFICATION Spec
CONSTANTS
  RuntimeOps <- MCRuntimeOps
  Slack <- MCSlack
INVARIANTS InferenceIsSound SpeculatableIsSafe ReifiedShapeIsActual
PROPERTIES RejectionIsFinal InferenceIsMonotone
CHECK_DEADLOCK FALSE
