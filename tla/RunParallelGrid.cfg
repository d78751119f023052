CONSTANTS
  NumReplicas = 2
  NumPartitions = 2
  NoValue = NoValue
  NoKey = NoKey
  Process <- MCProcess
  Key <- MCKey
  Group <- MCGroup
  Operands <- MCOperands
  MaxCalls = 1
  Programs <- GridPrograms
  Infeed <- NoItems
  Workers = 4
SPECIFICATION SpecRunParallel
INVARIANT NoFailure
PROPERTY ResultsAreSpecified
