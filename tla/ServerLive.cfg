CONSTANTS
  NoAddress = NoAddress
  Address = {a, b, NoAddress}
  NoOne = NoOne
  NoMessage = NoMessage
  OutOfRange = OutOfRange
  TIMEOUT = 0
  MaxTime = 1
  buffer_size = 1
  MaxMessages = 2
SPECIFICATION FairSpec
CHECK_DEADLOCK FALSE
PROPERTIES
  MessagesLeaveTheBuffer
  GoesQuiet
