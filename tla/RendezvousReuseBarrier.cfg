CONSTANTS
  p1 = p1
  p2 = p2
  p3 = p3
  kAll = kAll
  kPair = kPair
  kOne = kOne
  NoValue = NoValue
  NoKey = NoKey
  Process <- PairProcess
  Key <- PairKey
  Group <- PairGroup
  Operands <- SameCountOperands
  MaxCalls = 2
SPECIFICATION Spec
INVARIANTS
  Barrier
CHECK_DEADLOCK FALSE
