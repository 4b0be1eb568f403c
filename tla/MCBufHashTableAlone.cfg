\* Two threads that find and insert concurrently and remove one at a time.
CONSTANTS
  Threads = {t1, t2}
  Keys <- Colliding
  Slots = {s1, s2}
  NumBuckets = 2
  Entries = {e1, e2, e3}
  Null = null
  Absent = absent
SPECIFICATION RemoveAloneSpec
INVARIANT ChainsSound
PROPERTIES FindAnswersRight ImplementsMap
