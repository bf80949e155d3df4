SPECIFICATION Spec
CONSTANTS
  MaxTimers = 3
  MaxIdles = 1
  MSec = 2
  USecPerMSec = 2
  INT_MAX = 3
  Timeouts = {1, 5, 8}
  Delays = {1}
  MaxTime = 9
  Instants = {0, 9}
  MaxOps = 1
INVARIANTS PublishedIsFirst
