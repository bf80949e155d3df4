SPECIFICATION ESpec
CONSTANTS
  Fds = {f1, f2}
  Interests = {{"READABLE"}, {"READABLE", "WRITABLE"}}
  MaxIncarnation = 2
  MaxOps = 2
  MaxNotifies = 1
  CloseInOrder = TRUE
  CallbacksWatch = FALSE
SYMMETRY FdSymmetry
INVARIANTS ChangesIndexed EmbedderInSync OldEventsExact
