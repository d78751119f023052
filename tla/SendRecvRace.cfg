CONSTANTS
  p1 = p1
  p2 = p2
  p3 = p3
  p4 = p4
  c1 = c1
  c2 = c2
  NoOp = NoOp
  Process <- PairsProcess
  Channel <- MCChannel
  Sender <- PairsSender
  Receiver <- PairsReceiver
  Payload <- OnePayload
  MaxMessages = 1
SPECIFICATION Spec
INVARIANT NoDataRace
CHECK_DEADLOCK FALSE
