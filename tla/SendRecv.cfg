CONSTANTS
  p1 = p1
  p2 = p2
  p3 = p3
  p4 = p4
  c1 = c1
  c2 = c2
  NoOp = NoOp
  Process <- DuplexProcess
  Channel <- MCChannel
  Sender <- DuplexSender
  Receiver <- DuplexReceiver
  Payload <- MCPayload
  MaxMessages = 2
SPECIFICATION FairSpec
INVARIANTS
  TypeOK
  InOrder
  SentDataIsVisible
  NoLostWakeup
  DeliveryInv
PROPERTIES
  SendNeedsReceiver
  Delivered
CHECK_DEADLOCK FALSE
