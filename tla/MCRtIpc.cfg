CONSTANTS
  MsgLen = 2
  Room = 2
  Messages = 3
SPECIFICATION IpcSpec
INVARIANTS
  InOrder
  LookupWaits
PROPERTIES
  MessagesArrive
  SignalEnds
CHECK_DEADLOCK FALSE
