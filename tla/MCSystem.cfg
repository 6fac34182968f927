CONSTANTS
  Client = {a, b}
  Other = {o}
  server = server
  letter = letter
  File <- MCFile
  Datagram <- MCDatagram
  MAX_TIMESTAMP = 1
  Arguments <- MCArguments
  TimestampSize = 4
  Base = 2
  Minus = Minus
  Plus = Plus
  Bad = Bad
  PortSize = 4
  DEFAULT_PORT = 2
  server_port = 2
  NUL = NUL
  Short = Short
  MaxDatagram <- MCMaxDatagram
  TIMEOUT = 0
  MaxTime = 1
  Capacity = 1
  NoId = NoId
  NoMessage = NoMessage
  OutOfRange = OutOfRange
  MaxPackets = 2
SYMMETRY Symmetry
SPECIFICATION Spec
INVARIANTS
  TypeOK
  NothingInvalidIsSent
  SendsWhatItWasTold
  PrintsMessagesOfOthers
  PrintsWhatItWasInContactFor
