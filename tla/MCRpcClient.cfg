SPECIFICATION FairSpec
CONSTANTS
  Calls = {c1, c2, c3}
  MaxTable = 4
  FaultyServer = TRUE
  EarlyInvoke = FALSE
  GrowInClosure = FALSE
INVARIANTS TypeOK CallsHaveSlots FreeListExact RightAnswer WatchesWhatItNeeds HandlersFitState
PROPERTIES KeepsContract
