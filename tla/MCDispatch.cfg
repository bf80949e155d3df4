SPECIFICATION Spec
CONSTANTS
  Fds = {f1, f2}
  MaxIncarnation = 2
  MaxOps = 3
  Interests = {{"READABLE"}}
  MaxNotifies = 2
SYMMETRY FdSymmetry
INVARIANTS TypeOK DesiredConsistent
PROPERTIES NoStaleDelivery
