SPECIFICATION Spec
CONSTANTS
  Descriptors <- AllRequired
  MaxMembers = 3
  MaxBytes = 3
  MaxVarint = 2
  WordBits = 8
  BitmapSize = 16
  FirstSlabLog2 = 0
  MaxSlab = 1
INVARIANTS RequiredPresent
