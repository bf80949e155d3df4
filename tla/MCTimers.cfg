SPECIFICATION FairSpec
CONSTANTS
  MaxTimers = 4
  MaxIdles = 1
  MSec = 2
  USecPerMSec = 2
  INT_MAX = 3
  Timeouts = {1, 8}
  Delays = {1}
  MaxTime = 9
  Instants = {0, 1, 6, 7, 9}
  MaxOps = 1
INVARIANTS TimersSound EveryTreeSound PublicMembersRight WaitsRight
PROPERTIES FiresInTurn EveryTimerFires
