CONSTANTS
  Address = {a, b, c}
  NoOne = NoOne
  TIMEOUT = 1
  MaxTime = 4
SYMMETRY Symmetry
SPECIFICATION Spec
CHECK_DEADLOCK FALSE
INVARIANTS
  TypeOK
  AddressesDistinct
  EveryClientHasIntervals
  IntervalsInOrder
  IntervalsMatchContacts
  RecipientsAreEligible
  OnlySkippedAreMissed
  OnlyPassedKeepOldIntervals
