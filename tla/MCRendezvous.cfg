CONSTANTS
  p1 = p1
  p2 = p2
  p3 = p3
  kAll = kAll
  kPair = kPair
  kOne = kOne
  NoValue = NoValue
  NoKey = NoKey
  Process <- MCProcess
  Key <- MCKey
  Group <- MCGroup
  Operands <- MCOperands
  MaxCalls = 1
SPECIFICATION FairSpec
INVARIANTS
  TypeOK
  Barrier
  SameRound
  NoLostWakeup
  MonitorInv
  TimeOutOnlyWhenIncomplete
PROPERTIES
  ImplementsBarrier
  EveryoneReturns
CHECK_DEADLOCK FALSE
