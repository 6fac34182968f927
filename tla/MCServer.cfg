CONSTANTS
  NoAddress = NoAddress
  Address = {a, b, NoAddress}
  NoOne = NoOne
  NoMessage = NoMessage
  OutOfRange = OutOfRange
  TIMEOUT = 1
  MaxTime = 2
  buffer_size = 2
  MaxMessages = 3
SYMMETRY Symmetry
SPECIFICATION Spec
CHECK_DEADLOCK FALSE
INVARIANTS
  TypeOK
  WorkKeepsPollout
  BufferHoldsNewest
  SendsInOrder
PROPERTIES
  KeepsRegisterProtocol
  ImplementsRelay
