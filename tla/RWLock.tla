------------------------------- MODULE RWLock -------------------------------
(***************************************************************************)
(* The reader-writer lock of atomic/RWLock.cpp: two counters guarded by    *)
(* rwMutex, and two condition variables, rq for readers and wq for writers.*)
(*                                                                         *)
(* Every method body runs under rwMutex, so a method up to the point where *)
(* it returns or goes to sleep is one action.  A thread inside             *)
(* cv.wait(lck, pred) evaluates pred on entry and after every wakeup; it   *)
(* sleeps again when pred is false.  A wakeup is a notify or spurious, as  *)
(* std::condition_variable allows.  Between the wakeup and the moment the  *)
(* thread has rwMutex again any other thread may run.                      *)
(***************************************************************************)
EXTENDS Integers, FiniteSets

CONSTANTS Readers,   \* the threads that call readLock
          Writers    \* the threads that call writeLock (may overlap Readers)

Threads == Readers \cup Writers

ASSUME ThreadsAssumption == IsFiniteSet(Readers) /\ IsFiniteSet(Writers)

VARIABLES readCount,   \* threads holding the lock for reading
          writeCount,  \* threads holding it for writing or waiting to
          pc           \* where each thread stands with respect to the lock

rwVars == <<readCount, writeCount, pc>>

(***************************************************************************)
(* "rq" and "wq" are threads asleep on that condition variable; "rqWoken"  *)
(* and "wqWoken" have been woken and have not re-evaluated the predicate.  *)
(***************************************************************************)
Locations == {"idle", "rq", "rqWoken", "reading", "wq", "wqWoken", "writing"}

At(loc) == {t \in Threads : pc[t] = loc}

(* Everyone writeCount counts: the writer inside and those still waiting. *)
WriterSet == At("writing") \cup At("wq") \cup At("wqWoken")

Goto(t, loc) == pc' = [pc EXCEPT ![t] = loc]

LockInit ==
  /\ readCount = 0
  /\ writeCount = 0
  /\ pc = [t \in Threads |-> "idle"]

-----------------------------------------------------------------------------
(* Wrong on purpose, as the other ..Wrong definitions of this project:     *)
(* each is a bug its properties reject when it stands for the real one.    *)
(* Here a reader does not mind one writer, a writer minds no other writer. *)
CanReadWrong(wc) == wc <= 1
CanWriteWrong(wc, rc) == wc >= 1 /\ rc = 0

(* The two predicates of the waits. *)
CanRead(wc) == wc = 0
CanWrite(wc, rc) == wc = 1 /\ rc = 0

(* One evaluation of the predicate in rq.wait: enter, or (re)join rq. *)
TryRead(t) ==
  \/ /\ CanRead(writeCount)
     /\ readCount' = readCount + 1
     /\ Goto(t, "reading")
  \/ /\ ~CanRead(writeCount)
     /\ Goto(t, "rq")
     /\ UNCHANGED readCount

ReadLock(t) ==
  /\ t \in Readers
  /\ pc[t] = "idle"
  /\ TryRead(t)
  /\ UNCHANGED writeCount

ReadWake(t) ==
  /\ pc[t] = "rqWoken"
  /\ TryRead(t)
  /\ UNCHANGED writeCount

(* No notification at all; notify_one where notify_all is needed.          *)
LeaveNotifyOneWrong(t, loc) == Goto(t, loc)
LeaveNotifyReadersWrong(t, loc) ==
  \/ \E r \in At("rq") : pc' = [pc EXCEPT ![t] = loc, ![r] = "rqWoken"]
  \/ At("rq") = {} /\ Goto(t, loc)

(***************************************************************************)
(* t leaves for loc and notify_one is called on wq: one sleeper, any, is   *)
(* woken; with no sleeper the notification is lost.                        *)
(***************************************************************************)
LeaveNotifyOne(t, loc) ==
  \/ \E w \in At("wq") : pc' = [pc EXCEPT ![t] = loc, ![w] = "wqWoken"]
  \/ At("wq") = {} /\ Goto(t, loc)

LeaveNotifyReaders(t, loc) ==
  pc' = [u \in Threads |-> IF u = t THEN loc
                           ELSE IF pc[u] = "rq" THEN "rqWoken" ELSE pc[u]]

ReadUnlock(t) ==
  /\ pc[t] = "reading"
  /\ readCount' = readCount - 1
  /\ IF readCount' = 0 THEN LeaveNotifyOne(t, "idle") ELSE Goto(t, "idle")
  /\ UNCHANGED writeCount

(* The writer is counted BEFORE it waits, which keeps new readers out. *)
WriteLock(t) ==
  /\ t \in Writers
  /\ pc[t] = "idle"
  /\ writeCount' = writeCount + 1
  /\ Goto(t, IF CanWrite(writeCount', readCount) THEN "writing" ELSE "wq")
  /\ UNCHANGED readCount

WriteWake(t) ==
  /\ pc[t] = "wqWoken"
  /\ Goto(t, IF CanWrite(writeCount, readCount) THEN "writing" ELSE "wq")
  /\ UNCHANGED <<readCount, writeCount>>

WriteUnlock(t) ==
  /\ pc[t] = "writing"
  /\ writeCount' = writeCount - 1
  /\ IF writeCount' # 0 THEN LeaveNotifyOne(t, "idle")
                        ELSE LeaveNotifyReaders(t, "idle")
  /\ UNCHANGED readCount

Spurious(t) ==
  /\ \/ pc[t] = "rq" /\ Goto(t, "rqWoken")
     \/ pc[t] = "wq" /\ Goto(t, "wqWoken")
  /\ UNCHANGED <<readCount, writeCount>>

LockNext ==
  \E t \in Threads :
    \/ ReadLock(t) \/ ReadWake(t) \/ ReadUnlock(t)
    \/ WriteLock(t) \/ WriteWake(t) \/ WriteUnlock(t)
    \/ Spurious(t)

LockSpec == LockInit /\ [][LockNext]_rwVars

(***************************************************************************)
(* Scheduling: a thread that holds the lock releases it (the guards do it  *)
(* in their destructors) and a woken thread gets to run.  Nothing obliges  *)
(* an idle thread to ask for the lock and nothing obliges a spurious       *)
(* wakeup to happen.                                                       *)
(***************************************************************************)
LockFairness ==
  \A t \in Threads :
    /\ WF_rwVars(ReadUnlock(t)) /\ WF_rwVars(WriteUnlock(t))
    /\ WF_rwVars(ReadWake(t)) /\ WF_rwVars(WriteWake(t))

LiveLockSpec == LockSpec /\ LockFairness
-----------------------------------------------------------------------------
LockTypeOK ==
  /\ readCount \in Int
  /\ writeCount \in Int
  /\ pc \in [Threads -> Locations]

(* A writer excludes every other holder: two writers, or a writer and a    *)
(* reader, are never inside together (what readLock and writeLock are for).*)
MutualExclusion ==
  \A t, u \in Threads :
    t # u /\ pc[t] = "writing" => pc[u] \notin {"reading", "writing"}

(* The counters say exactly who holds and who waits: readCount the         *)
(* readers inside, writeCount the writers inside, asleep or woken.  Both   *)
(* predicates rely on it; a path that skips one update breaks it for good. *)
CountsExact ==
  /\ readCount = Cardinality(At("reading"))
  /\ writeCount = Cardinality(WriterSet)

(* A reader asleep in rq always has a writer to wait for: the last         *)
(* writeUnlock wakes every reader, so none sleeps on a lock without one.   *)
NoForgottenReader == At("rq") # {} => writeCount > 0

(* A lone writer is never asleep on a lock nobody holds: the last          *)
(* readUnlock notifies wq.  (With two waiting writers this fails: see      *)
(* WriterProgress.)                                                        *)
NoForgottenWriter ==
  \A t \in At("wq") : writeCount = 1 => readCount > 0

(* Once a writer waits no new reader gets in before it: readers enter only *)
(* in a step from a state without waiting writers.                         *)
WriterPreference ==
  [][\A t \in Threads :
       pc[t] # "reading" /\ pc'[t] = "reading"
         => At("wq") \cup At("wqWoken") = {}]_rwVars

(* A thread waiting to write gets the lock. *)
WriterProgress == \A t \in Writers : pc[t] = "wq" ~> pc[t] = "writing"

(* A writer nobody competes with any more gets the lock. *)
LoneWriterProgress ==
  <>[](writeCount <= 1) =>
    \A t \in Writers : pc[t] \in {"wq", "wqWoken"} ~> pc[t] = "writing"

(* A thread waiting to read gets the lock once writers stop asking for it. *)
ReaderProgress ==
  <>[](writeCount = 0) =>
    \A t \in Readers : pc[t] \in {"rq", "rqWoken"} ~> pc[t] = "reading"

(* The counters and the wait queues implement the abstract lock. *)
Lock == INSTANCE AbstractRWLock
         WITH readers <- At("reading"), writers <- At("writing")
ImplementsLock == Lock!Spec
=============================================================================
