SPECIFICATION Spec
CONSTANTS
  Bytes = {0, 10, 200}
  Nul = 0
  Newline = 10
  UCHAR_MAX = 255
  CHAR_MAX = 127
  Buffers = {b1, b2}
  FRAGMENT_DATA_SIZE = 2
  MAX_FRAGMENTS_TO_WRITE = 2
  MaxLength = 3
  MaxSize = 4
INVARIANTS BuffersSound StringFound
PROPERTIES IsByteQueue
SYMMETRY BufferSymmetry
VIEW BufferView
CONSTRAINT FewNegative
