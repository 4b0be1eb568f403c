\* Three threads, each reading and writing.
CONSTANTS
  Readers = {t1, t2, t3}
  Writers = {t1, t2, t3}
SPECIFICATION LiveLockSpec
INVARIANTS MutualExclusion NoForgottenReader NoForgottenWriter
PROPERTIES WriterPreference ImplementsLock LoneWriterProgress ReaderProgress
