CONSTANTS
  NumReplicas = 3
  NumPartitions = 1
  NoValue = NoValue
  NoKey = NoKey
  Process <- MCProcess
  Key <- MCKey
  Group <- MCGroup
  Operands <- MCOperands
  MaxCalls = 1
  Programs <- LinePrograms
  Infeed <- SixItems
  Workers = 3
SPECIFICATION SpecRunParallel
INVARIANTS
  NoFailure
  QuietAtReturn
  NeverStuck
  FedOnce
  RunInv
  BarrierInRun
PROPERTIES
  ResultsAreSpecified
  RunEnds
