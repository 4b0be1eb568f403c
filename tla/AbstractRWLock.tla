--------------------------- MODULE AbstractRWLock ---------------------------
(***************************************************************************)
(* What a reader-writer lock promises, and nothing about how: a thread is  *)
(* either out, reading or writing; any number may read together, a writer  *)
(* is alone.  RWLock implements it (RWLock!ImplementsLock), and the modules    *)
(* that use a lock (BufHashTable) are written against this specification.  *)
(***************************************************************************)
CONSTANT Threads

VARIABLES readers,   \* the threads inside a read section
          writers    \* the threads inside a write section

lockVars == <<readers, writers>>

Init == readers = {} /\ writers = {}

AcquireRead(t) ==
  /\ t \notin readers \cup writers
  /\ writers = {}
  /\ readers' = readers \cup {t}
  /\ UNCHANGED writers

ReleaseRead(t) ==
  /\ t \in readers
  /\ readers' = readers \ {t}
  /\ UNCHANGED writers

AcquireWrite(t) ==
  /\ t \notin readers \cup writers
  /\ readers = {} /\ writers = {}
  /\ writers' = {t}
  /\ UNCHANGED readers

ReleaseWrite(t) ==
  /\ t \in writers
  /\ writers' = writers \ {t}
  /\ UNCHANGED readers

Next ==
  \E t \in Threads :
    AcquireRead(t) \/ ReleaseRead(t) \/ AcquireWrite(t) \/ ReleaseWrite(t)

Spec == Init /\ [][Next]_lockVars
=============================================================================
