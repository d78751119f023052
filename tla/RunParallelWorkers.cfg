CONSTANTS
  NumReplicas = 2
  NumPartitions = 1
  NoValue = NoValue
  NoKey = NoKey
  Process <- MCProcess
  Key <- MCKey
  Group <- MCGroup
  Operands <- MCOperands
  MaxCalls = 1
  Programs <- OnePrograms
  Infeed <- NoItems
  Workers = 1
SPECIFICATION SpecRunParallel
INVARIANT NoFailure
