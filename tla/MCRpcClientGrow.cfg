SPECIFICATION Spec
CONSTANTS
  Calls = {c1, c2, c3}
  MaxTable = 4
  FaultyServer = FALSE
  EarlyInvoke = FALSE
  GrowInClosure = TRUE
PROPERTIES CalledOnce
