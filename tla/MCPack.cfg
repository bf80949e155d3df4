SPECIFICATION Spec
CHECK_DEADLOCK FALSE
CONSTANTS
  W = 4
  H = 13
  Messages <- MCMessages
  Scratch = 4
  InnerScratch = 8
  MaxDepth = 4
INVARIANTS SizeExact AssertionsHold BufferAgrees BufferSound RoundTrip
