\* Two threads race for the last free frame.
CONSTANTS
  Threads = {t1, t2}
  Pages = {p1, p2}
  NumPages = 1
  MaxPins = 1
  NoThread = noThread
  NoPage = noPage
SPECIFICATION Spec
INVARIANT NoSelfDeadlock
CHECK_DEADLOCK FALSE
