---------------------------- MODULE BufferThreads ----------------------------
(***************************************************************************)
(* storage/bufmgr.cpp as several threads run it: the next/prev links that  *)
(* thread the used and free lists through bufTable, and every point where  *)
(* a thread lets go of listLock.                                           *)
(*                                                                         *)
(* The helpers unlink, linkHead and insertFree lock listLock each for      *)
(* itself, and hashTable locks itself, so each is a step and other threads *)
(* run between two steps of one call.  flushPages keeps listLock over its  *)
(* whole walk.  Page contents and dirty bits are BufferMgr's matter.       *)
(***************************************************************************)
EXTENDS Integers, SequencesExt, FiniteSets, Chains

CONSTANTS Threads, Pages, NumPages, NoThread, NoPage,
          MaxPins   \* bound on the pins a thread holds

ASSUME ThreadsAssumption ==
  /\ NumPages \in Nat \ {0} /\ MaxPins \in Nat \ {0}
  /\ Threads # {} /\ NoThread \notin Threads /\ NoPage \notin Pages

Slots == 0 .. NumPages - 1
INVALID_SLOT == -1
SlotOrNone == Slots \cup {INVALID_SLOT}

VARIABLES next, prev,                    \* the links of every frame
          usedHead, usedTail, freeHead,  \* the ends of the lists
          pageOf, pinCount,              \* the rest of the descriptors
          hash,                          \* the hash table: page -> slot
          pc, slot, want,                \* each thread's step, frame and page
          holder,                        \* who keeps listLock across steps
          holds                          \* the <<page, slot>> pins of a thread

links == <<next, prev, usedHead, usedTail, freeHead>>
descs == <<pageOf, pinCount>>
locals == <<pc, slot, want>>
vars == <<links, descs, hash, locals, holder, holds>>

Init ==
  /\ next = [s \in Slots |-> IF s = NumPages - 1 THEN INVALID_SLOT ELSE s + 1]
  /\ prev = [s \in Slots |-> s - 1]
  /\ usedHead = INVALID_SLOT /\ usedTail = INVALID_SLOT
  /\ freeHead = 0
  /\ pageOf = [s \in Slots |-> NoPage]
  /\ pinCount = [s \in Slots |-> 0]
  /\ hash = [p \in Pages |-> INVALID_SLOT]
  /\ pc = [t \in Threads |-> "idle"]
  /\ slot = [t \in Threads |-> INVALID_SLOT]
  /\ want = [t \in Threads |-> NoPage]
  /\ holder = NoThread
  /\ holds = [t \in Threads |-> << >>]

Locked(t) == holder \in {NoThread, t}
Goto(t, from, to) == pc[t] = from /\ pc' = [pc EXCEPT ![t] = to]
-----------------------------------------------------------------------------
(* Bugs the properties must reject, each named after the definition it     *)
(* stands for: unlink forgets usedTail, or the link of its predecessor;    *)
(* insertFree forgets the rest of the free list.                           *)
unlinkTailWrong(s) ==
  /\ usedHead' = IF usedHead = s THEN next[s] ELSE usedHead
  /\ prev' = [i \in Slots |-> IF i = s THEN INVALID_SLOT
                              ELSE IF i = next[s] THEN prev[s] ELSE prev[i]]
  /\ next' = [i \in Slots |-> IF i = s THEN INVALID_SLOT
                              ELSE IF i = prev[s] THEN next[s] ELSE next[i]]
  /\ UNCHANGED <<usedTail, freeHead>>
unlinkNextWrong(s) ==
  /\ usedHead' = IF usedHead = s THEN next[s] ELSE usedHead
  /\ usedTail' = IF usedTail = s THEN prev[s] ELSE usedTail
  /\ prev' = [i \in Slots |-> IF i = s THEN INVALID_SLOT
                              ELSE IF i = next[s] THEN prev[s] ELSE prev[i]]
  /\ next' = [next EXCEPT ![s] = INVALID_SLOT]
  /\ UNCHANGED freeHead
insertFreeWrong(s) ==
  /\ next' = [next EXCEPT ![s] = INVALID_SLOT]
  /\ prev' = [prev EXCEPT ![s] = INVALID_SLOT]
  /\ freeHead' = s
  /\ UNCHANGED <<usedHead, usedTail>>

(* The three helpers. *)
unlink(s) ==
  /\ usedHead' = IF usedHead = s THEN next[s] ELSE usedHead
  /\ usedTail' = IF usedTail = s THEN prev[s] ELSE usedTail
  /\ prev' = [i \in Slots |-> IF i = s THEN INVALID_SLOT
                              ELSE IF i = next[s] THEN prev[s] ELSE prev[i]]
  /\ next' = [i \in Slots |-> IF i = s THEN INVALID_SLOT
                              ELSE IF i = prev[s] THEN next[s] ELSE next[i]]
  /\ UNCHANGED freeHead

linkHead(s) ==
  /\ next' = [next EXCEPT ![s] = usedHead]
  /\ prev' = [i \in Slots |-> IF i = usedHead THEN s
                              ELSE IF i = s THEN INVALID_SLOT ELSE prev[i]]
  /\ usedHead' = s
  /\ usedTail' = IF usedTail = INVALID_SLOT THEN s ELSE usedTail
  /\ UNCHANGED freeHead

insertFree(s) ==
  /\ next' = [next EXCEPT ![s] = freeHead]
  /\ prev' = [prev EXCEPT ![s] = INVALID_SLOT]
  /\ freeHead' = s
  /\ UNCHANGED <<usedHead, usedTail>>

(* The frame the eviction loop stops at, walking prev from usedTail.       *)
Victims ==
  LET path == Chain(prev, usedTail)
  IN {path[i] : i \in {j \in DOMAIN path : /\ pinCount[path[j]] = 0
                                          /\ \A k \in 1 .. j - 1 : pinCount[path[k]] # 0}}
-----------------------------------------------------------------------------
(* getPage: hashTable.find decides between a hit and a miss. *)
GetHit(t, p) ==
  /\ Len(holds[t]) < MaxPins
  /\ hash[p] # INVALID_SLOT
  /\ Goto(t, "idle", "pin")
  /\ slot' = [slot EXCEPT ![t] = hash[p]]
  /\ want' = [want EXCEPT ![t] = p]
  /\ UNCHANGED <<links, descs, hash, holder, holds>>

GetMiss(t, p) ==
  /\ Len(holds[t]) < MaxPins
  /\ hash[p] = INVALID_SLOT
  /\ Goto(t, "idle", "alloc")
  /\ want' = [want EXCEPT ![t] = p]
  /\ UNCHANGED <<links, descs, hash, slot, holder, holds>>

(* The hit: ++pinCount, then unlink and linkHead. *)
Pin(t) ==
  /\ Goto(t, "pin", "unlink")
  /\ pinCount' = [pinCount EXCEPT ![slot[t]] = @ + 1]
  /\ holds' = [holds EXCEPT ![t] = Append(@, <<want[t], slot[t]>>)]
  /\ UNCHANGED <<links, pageOf, hash, slot, want, holder>>

TouchUnlink(t) ==
  /\ Locked(t)
  /\ Goto(t, "unlink", "linkHead")
  /\ unlink(slot[t])
  /\ UNCHANGED <<descs, hash, slot, want, holder, holds>>

TouchLink(t) ==
  /\ Locked(t)
  /\ Goto(t, "linkHead", "idle")
  /\ linkHead(slot[t])
  /\ UNCHANGED <<descs, hash, slot, want, holder, holds>>

(* bufferAlloc, free branch: freeHead is tested under the read lock, and   *)
(* again after the lock was dropped and taken for writing.                 *)
SeeFree(t) ==
  /\ Locked(t) /\ freeHead # INVALID_SLOT
  /\ Goto(t, "alloc", "takeFree")
  /\ UNCHANGED <<links, descs, hash, slot, want, holder, holds>>

TakeFree(t) ==
  /\ Locked(t) /\ freeHead # INVALID_SLOT
  /\ Goto(t, "takeFree", "linkNew")
  /\ slot' = [slot EXCEPT ![t] = freeHead]
  /\ freeHead' = next[freeHead]
  /\ UNCHANGED <<next, prev, usedHead, usedTail, descs, hash, want, holder, holds>>

(* The free list has emptied in between: bufferAlloc calls itself while it *)
(* holds the write lock, and waits for the read lock for good.             *)
TakeFreeAgain(t) ==
  /\ Locked(t) /\ freeHead = INVALID_SLOT
  /\ Goto(t, "takeFree", "selfWait")
  /\ holder' = t
  /\ UNCHANGED <<links, descs, hash, slot, want, holds>>

(* bufferAlloc, LRU branch: the victim is chosen under the read lock, and  *)
(* removed from the hash table and unlinked after the lock was dropped.    *)
(* The removal goes by the page its descriptor names at that moment.       *)
ChooseVictim(t) ==
  /\ Locked(t) /\ freeHead = INVALID_SLOT
  /\ \/ \E s \in Victims :
          slot' = [slot EXCEPT ![t] = s] /\ Goto(t, "alloc", "hashRemove")
     \/ Victims = {} /\ Goto(t, "alloc", "idle") /\ UNCHANGED slot  \* PF_NOBUF
  /\ UNCHANGED <<links, descs, hash, want, holder, holds>>

InHash(p) == p # NoPage /\ hash[p] # INVALID_SLOT

HashRemove(t) ==
  LET p == pageOf[slot[t]]
  IN /\ Goto(t, "hashRemove", "unlinkVictim")
     /\ InHash(p)
     /\ hash' = [hash EXCEPT ![p] = INVALID_SLOT]
     /\ UNCHANGED <<links, descs, slot, want, holder, holds>>

VictimNotInHash(t) ==  \* PF_HASHNOTFOUND
  /\ Goto(t, "hashRemove", "idle")
  /\ ~InHash(pageOf[slot[t]])
  /\ UNCHANGED <<links, descs, hash, slot, want, holder, holds>>

UnlinkVictim(t) ==
  /\ Locked(t)
  /\ Goto(t, "unlinkVictim", "linkNew")
  /\ unlink(slot[t])
  /\ UNCHANGED <<descs, hash, slot, want, holder, holds>>

LinkNew(t) ==
  /\ Locked(t)
  /\ Goto(t, "linkNew", "load")
  /\ linkHead(slot[t])
  /\ UNCHANGED <<descs, hash, slot, want, holder, holds>>

(* readPage, hashTable.insert (PF_HASHPAGEEXIST when another thread has    *)
(* loaded the page meanwhile), and the error path that frees the frame.    *)
InsertHash(t) ==
  /\ Goto(t, "load", "init")
  /\ hash[want[t]] = INVALID_SLOT
  /\ hash' = [hash EXCEPT ![want[t]] = slot[t]]
  /\ UNCHANGED <<links, descs, slot, want, holder, holds>>

PageExists(t) ==
  /\ Goto(t, "load", "drop")
  /\ hash[want[t]] # INVALID_SLOT
  /\ UNCHANGED <<links, descs, hash, slot, want, holder, holds>>

ReadFails(t) ==
  /\ Goto(t, "load", "drop")
  /\ UNCHANGED <<links, descs, hash, slot, want, holder, holds>>

InitPageDesc(t) ==
  /\ Goto(t, "init", "idle")
  /\ pageOf' = [pageOf EXCEPT ![slot[t]] = want[t]]
  /\ pinCount' = [pinCount EXCEPT ![slot[t]] = 1]
  /\ holds' = [holds EXCEPT ![t] = Append(@, <<want[t], slot[t]>>)]
  /\ UNCHANGED <<links, hash, slot, want, holder>>

Drop(t) ==
  /\ Locked(t)
  /\ Goto(t, "drop", "free")
  /\ unlink(slot[t])
  /\ UNCHANGED <<descs, hash, slot, want, holder, holds>>

Free(t) ==
  /\ Locked(t)
  /\ Goto(t, "free", "idle")
  /\ insertFree(slot[t])
  /\ UNCHANGED <<descs, hash, slot, want, holder, holds>>
-----------------------------------------------------------------------------
(* unpinPage by a thread that holds the page: find, decrement, and at zero *)
(* unlink and linkHead.  PF_PAGENOTINBUF and PF_PAGEUNPINNED return early. *)
Unpin(t) ==
  /\ pc[t] = "idle"
  /\ \E i \in DOMAIN holds[t] :
       LET s == hash[holds[t][i][1]]
       IN /\ holds' = [holds EXCEPT ![t] = RemoveAt(@, i)]
          /\ IF s # INVALID_SLOT /\ pinCount[s] > 0
             THEN /\ pinCount' = [pinCount EXCEPT ![s] = @ - 1]
                  /\ slot' = [slot EXCEPT ![t] = s]
                  /\ pc' = [pc EXCEPT ![t] = IF pinCount[s] = 1 THEN "unlink" ELSE "idle"]
             ELSE UNCHANGED <<pinCount, slot, pc>>
  /\ UNCHANGED <<links, pageOf, hash, want, holder>>

(* flushPages: slot[t] is the loop's cursor; a frame belongs to the file   *)
(* being flushed or not.                                                   *)
StartFlush(t) ==
  /\ holder = NoThread
  /\ Goto(t, "idle", "flush")
  /\ slot' = [slot EXCEPT ![t] = usedHead]
  /\ holder' = t
  /\ UNCHANGED <<links, descs, hash, want, holds>>

FlushSkip(t) ==
  /\ pc[t] = "flush" /\ slot[t] # INVALID_SLOT
  /\ slot' = [slot EXCEPT ![t] = next[slot[t]]]
  /\ UNCHANGED <<links, descs, hash, pc, want, holder, holds>>

(* hashTable.remove, unlink and insertFree on the frame under the cursor,  *)
(* whose successor was saved before.                                       *)
FlushRelease(t) ==
  LET s == slot[t]
  IN /\ pc[t] = "flush" /\ s # INVALID_SLOT
     /\ pinCount[s] = 0 /\ InHash(pageOf[s])
     /\ hash' = [hash EXCEPT ![pageOf[s]] = INVALID_SLOT]
     /\ slot' = [slot EXCEPT ![t] = next[s]]
     /\ usedHead' = IF usedHead = s THEN next[s] ELSE usedHead
     /\ usedTail' = IF usedTail = s THEN prev[s] ELSE usedTail
     /\ prev' = [i \in Slots |-> IF i = s THEN INVALID_SLOT
                                 ELSE IF i = next[s] THEN prev[s] ELSE prev[i]]
     /\ next' = [i \in Slots |-> IF i = s THEN freeHead
                                 ELSE IF i = prev[s] THEN next[s] ELSE next[i]]
     /\ freeHead' = s
     /\ UNCHANGED <<descs, pc, want, holder, holds>>

FlushEnd(t) ==
  /\ Goto(t, "flush", "idle")
  /\ slot[t] = INVALID_SLOT
  /\ holder' = NoThread
  /\ UNCHANGED <<links, descs, hash, slot, want, holds>>

FlushNotInHash(t) ==  \* PF_HASHNOTFOUND
  /\ Goto(t, "flush", "idle")
  /\ slot[t] # INVALID_SLOT
  /\ pinCount[slot[t]] = 0 /\ ~InHash(pageOf[slot[t]])
  /\ holder' = NoThread
  /\ UNCHANGED <<links, descs, hash, slot, want, holds>>

(* The steps of a call that has begun. *)
Continue(t) ==
  \/ SeeFree(t) \/ TakeFree(t) \/ ChooseVictim(t) \/ HashRemove(t)
  \/ UnlinkVictim(t) \/ LinkNew(t) \/ InsertHash(t) \/ InitPageDesc(t)
  \/ ReadFails(t) \/ Drop(t) \/ Free(t)
  \/ Pin(t) \/ TouchUnlink(t) \/ TouchLink(t)
  \/ FlushSkip(t) \/ FlushRelease(t) \/ FlushEnd(t)

(* What a call finds only when another thread came in between two of its   *)
(* steps.                                                                  *)
Overtaken(t) ==
  \/ TakeFreeAgain(t) \/ VictimNotInHash(t) \/ PageExists(t)
  \/ FlushNotInHash(t)

Begin(t) ==
  \/ \E p \in Pages : GetHit(t, p) \/ GetMiss(t, p)
  \/ Unpin(t) \/ StartFlush(t)

Next == \E t \in Threads : Begin(t) \/ Continue(t) \/ Overtaken(t)

Spec == Init /\ [][Next]_vars

(* Calls that do not overlap, of however many threads.  That they need no  *)
(* step of Overtaken is what checking this specification for deadlock      *)
(* shows.                                                                  *)
NoneInside == \A t \in Threads : pc[t] = "idle"
SerialNext == \E t \in Threads : (NoneInside /\ Begin(t)) \/ Continue(t)
(* A thread inside a call keeps running; nobody has to start one. *)
SerialSpec ==
  Init /\ [][SerialNext]_vars /\ \A t \in Threads : WF_vars(Continue(t))
-----------------------------------------------------------------------------
TypeOK ==
  /\ next \in [Slots -> SlotOrNone] /\ prev \in [Slots -> SlotOrNone]
  /\ {usedHead, usedTail, freeHead} \subseteq SlotOrNone
  /\ pageOf \in [Slots -> Pages \cup {NoPage}]
  /\ pinCount \in [Slots -> Nat]
  /\ hash \in [Pages -> SlotOrNone]
  /\ slot \in [Threads -> SlotOrNone]
  /\ want \in [Threads -> Pages \cup {NoPage}]
  /\ holder \in Threads \cup {NoThread}

UsedChain == Chain(next, usedHead)
FreeChain == Chain(next, freeHead)

(* Frames a thread has taken off one list and not yet put on another. *)
ToLink == {slot[t] : t \in {u \in Threads : pc[u] \in {"linkNew", "linkHead"}}}
ToFree == {slot[t] : t \in {u \in Threads : pc[u] = "free"}}

(* The used list read forwards from usedHead is the used list read         *)
(* backwards from usedTail, and every frame is exactly once on one of the  *)
(* two lists or in the hands of the thread that moves it.                  *)
ListsSound ==
  /\ Len(UsedChain) + Len(FreeChain) + Cardinality(ToLink \cup ToFree) = NumPages
  /\ ToSet(UsedChain) \cup ToSet(FreeChain) \cup ToLink \cup ToFree = Slots
  /\ UsedChain = Reverse(Chain(prev, usedTail))

(* No thread waits for listLock while it holds it itself.                  *)
(* bufmgr.cpp:116 re-tests the free list for exactly this situation.       *)
NoSelfDeadlock == \A t \in Threads : pc[t] # "selfWait"

(* flushPages reaches the end of the used list although it relinks the     *)
(* frame it stands on, and lets go of listLock.                            *)
FlushTerminates == \A t \in Threads : pc[t] = "flush" ~> pc[t] = "idle"

(* The linked lists implement the sequences of SlotLists: a move counts as *)
(* done when the frame is taken off its old list.                          *)
Prefixed(S, s) == IF S = {} THEN s ELSE <<CHOOSE x \in S : TRUE>> \o s
Lists == INSTANCE SlotLists
           WITH used <- Prefixed(ToLink, UsedChain),
                free <- Prefixed(ToFree, FreeChain)
Implements == Lists!Spec
=============================================================================
