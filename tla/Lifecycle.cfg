CONSTANTS
  Base = 2
  Minus = Minus
  Plus = Plus
  Bad = Bad
  PortSize = 6
  letter = letter
  Arguments <- MCArguments
  Disk <- MCDisk
  Byte <- MCByte
  NUL = NUL
  buffer_length = 3
  Socket = Socket
  NoDescriptor = NoDescriptor
  MaxSignals = 3
SPECIFICATION FairSpec
CHECK_DEADLOCK FALSE
INVARIANTS
  TypeOK
  EndsOnlyWhenAsked
  ParsesPorts
  ServesTheWholeFile
  NeverDeaf
  StopsAfterThePass
PROPERTY StopIsHeard
