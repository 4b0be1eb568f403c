\* Two threads that write: a wait that never ends.
CONSTANTS
  Readers = {}
  Writers = {w1, w2}
SPECIFICATION LiveLockSpec
PROPERTIES WriterProgress
CHECK_DEADLOCK FALSE
