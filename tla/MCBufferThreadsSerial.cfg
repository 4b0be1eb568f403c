\* One thread, three frames, four pages: the links implement the lists.
CONSTANTS
  Threads = {t1}
  Pages = {p1, p2, p3, p4}
  NumPages = 3
  MaxPins = 2
  NoThread = noThread
  NoPage = noPage
SPECIFICATION SerialSpec
INVARIANT ListsSound
PROPERTIES FlushTerminates Implements
