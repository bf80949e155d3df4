SPECIFICATION Spec
CONSTANTS
  Descriptors <- Messages
  MaxMembers = 3
  MaxBytes = 3
  MaxVarint = 2
  WordBits = 2
  BitmapSize = 1
  FirstSlabLog2 = 0
  MaxSlab = 1
INVARIANTS MemorySound ArraysInBounds ResultExact NoFalseAlarm
