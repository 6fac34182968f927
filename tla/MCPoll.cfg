CONSTANTS
  Descriptor = {f, g, h, k}
  NoDescriptor = NoDescriptor
  max_clients = 3
SYMMETRY Symmetry
SPECIFICATION Spec
CHECK_DEADLOCK FALSE
INVARIANTS
  TypeOK
  HoldsAdded
  LengthCounts
  PolledUntilRemoved
