CONSTANTS
  Item = {a, b, c}
  NoItem = NoItem
  OutOfRange = OutOfRange
  buffer_size = 4
SPECIFICATION Spec
INVARIANTS
  TypeOK
  LiveSlotsHoldItems
PROPERTY ImplementsFifo
