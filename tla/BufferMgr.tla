------------------------------ MODULE BufferMgr ------------------------------
(***************************************************************************)
(* The buffer pool of storage/bufmgr.cpp as one thread drives it: frames   *)
(* (bufTable slots) on a free list or on the used list in MRU order, the   *)
(* hash table from pages to slots, and the files underneath.               *)
(*                                                                         *)
(* The two lists are sequences here; BufferThreads models the next/prev    *)
(* links, which implement the sequences.  Every operation is one action    *)
(* except flushPages and forcePages, whose loops take one step per frame,  *)
(* because a write that fails in the middle makes them return.             *)
(***************************************************************************)
EXTENDS Integers, SequencesExt

CONSTANTS Keys,      \* the pages in use, as <<fd, pageNum>>
          Values,    \* contents a client stores in a page
          NumPages,  \* frames in the pool
          MaxPins,   \* bound on the pins clients hold on one page
          Zero, Torn, Absent, NoPage

ASSUME BufferAssumption ==
  /\ NumPages \in Nat \ {0} /\ MaxPins \in Nat \ {0}
  /\ \A k \in Keys : k = <<k[1], k[2]>> /\ k[1] \in Nat /\ k[2] \in Nat
  /\ Zero \in Values /\ Torn \notin Values /\ Absent \notin Values
  /\ Torn # Absent
  /\ NoPage \notin Keys

Slots == 0 .. NumPages - 1
INVALID_SLOT == -1
Fds == {k[1] : k \in Keys}   \* descriptors of distinct open files
Bytes == Values \cup {Torn}

VARIABLES used,       \* used list, MRU page first (usedHead .. usedTail)
          free,       \* free list (freeHead ..)
          bufTable,   \* frame descriptors
          hashTable,  \* page -> slot
          disk,       \* file contents, Absent past the end of the file
          loop,       \* the flushPages or forcePages call in progress
          rc,         \* what the last call returned
          held,       \* pins the clients hold (history of successful calls)
          fresh       \* pages got from allocatePage and not marked dirty yet

vars == <<used, free, bufTable, hashTable, disk, loop, rc, held, fresh>>

Desc == [page : Keys \cup {NoPage}, bDirty : BOOLEAN, pinCount : Nat, pData : Bytes]
Idle == [op |-> "none", fd |-> INVALID_SLOT, at |-> 1, warn |-> FALSE]
NoLoop == loop.op = "none"
LoopCall == [op : {"none", "flush", "force"}, fd : Fds \cup {INVALID_SLOT},
             at : Nat \ {0}, warn : BOOLEAN]
ReturnCode == {"OK", "PF_NOBUF", "PF_PAGEINBUF", "PF_PAGENOTINBUF", "PF_PAGEPINNED",
               "PF_PAGEUNPINNED", "PF_INCOMPLETEREAD", "PF_INCOMPLETEWRITE", "PF_UNIX"}

(* fd and pageNum of a frame never used are indeterminate in the code and  *)
(* never read; NoPage stands for that.                                     *)
Init ==
  /\ used = << >>
  /\ free = [i \in 1 .. NumPages |-> i - 1]
  /\ bufTable = [s \in Slots |-> [page |-> NoPage, bDirty |-> FALSE,
                                  pinCount |-> 0, pData |-> Zero]]
  /\ hashTable = [k \in Keys |-> INVALID_SLOT]
  /\ disk \in [Keys -> {Zero, Absent}]
  /\ \A k, j \in Keys : k[1] = j[1] /\ k[2] < j[2] /\ disk[j] = Zero
                          => disk[k] = Zero
  /\ loop = Idle
  /\ rc = "OK"
  /\ held = [k \in Keys |-> 0]
  /\ fresh = {}
-----------------------------------------------------------------------------
(* The ..Wrong definitions are bugs on purpose: each is what a slip in the *)
(* code would make of the definition it is named after, and the properties *)
(* must fail with it.  Here: unlink left out.                              *)
UnlinkWrong(list, slot) == list

(* List operations: linkHead, unlink and insertFree on sequences. *)
Unlink(list, slot) == RemoveAt(list, CHOOSE i \in DOMAIN list : list[i] = slot)
LinkHead(list, slot) == Cons(slot, list)
MoveToHead(slot) == used' = LinkHead(Unlink(used, slot), slot)

Resident(k) == hashTable[k] # INVALID_SLOT
Frame(k) == bufTable[hashTable[k]]

(* write() at the page's offset: the page, and zeros in the hole it leaves *)
(* when the file was shorter.                                              *)
Written(files, k, bytes) ==
  [j \in Keys |-> IF j = k THEN bytes
                  ELSE IF j[1] = k[1] /\ j[2] < k[2] /\ files[j] = Absent
                       THEN Zero ELSE files[j]]

(* writePage fails: nothing written, or the page cut short. *)
WriteFails(k) ==
  \/ rc' = "PF_UNIX" /\ UNCHANGED disk
  \/ rc' = "PF_INCOMPLETEWRITE" /\ disk' = Written(disk, k, Torn)

(* A call that changes nothing but its return code. *)
Return(code) ==
  /\ rc' = code
  /\ UNCHANGED <<used, free, bufTable, hashTable, disk, loop, held, fresh>>

(* The walk never tests the pin count; the walk stops short of usedHead. *)
UnpinnedWrong == DOMAIN used
UnpinnedShortWrong == {i \in 2 .. Len(used) : bufTable[used[i]].pinCount = 0}

(* The frame the replacement takes, if any: its loop walks from usedTail   *)
(* to usedHead and stops at the first frame nobody has pinned.             *)
Unpinned == {i \in DOMAIN used : bufTable[used[i]].pinCount = 0}
Victims == {used[i] : i \in {j \in Unpinned : \A n \in Unpinned : n <= j}}

(***************************************************************************)
(* The successful outcome of bufferAlloc: the slot, now first on the used  *)
(* list, and what the other variables become.  At most one element.        *)
(***************************************************************************)
Allocated ==
  IF free # << >>
  THEN {[slot |-> Head(free), used |-> LinkHead(used, Head(free)),
         free |-> Tail(free), hash |-> hashTable, disk |-> disk]}
  ELSE {[slot |-> s, used |-> LinkHead(Unlink(used, s), s), free |-> free,
         hash |-> [hashTable EXCEPT ![bufTable[s].page] = INVALID_SLOT],
         disk |-> IF bufTable[s].bDirty
                  THEN Written(disk, bufTable[s].page, bufTable[s].pData)
                  ELSE disk] :
          s \in Victims}

(* bufferAlloc fails: every frame pinned, or the victim cannot be written. *)
AllocFails ==
  /\ free = << >>
  /\ \/ Unpinned = {} /\ rc' = "PF_NOBUF" /\ UNCHANGED disk
     \/ \E s \in Victims : bufTable[s].bDirty /\ WriteFails(bufTable[s].page)
  /\ UNCHANGED <<used, free, bufTable, hashTable, loop, held, fresh>>

(* The evicted page stays in the hash table; the new page is not pinned. *)
InstallStaleWrong(a, k, bytes) ==
  /\ used' = a.used /\ free' = a.free /\ disk' = a.disk
  /\ hashTable' = [hashTable EXCEPT ![k] = a.slot]
  /\ bufTable' = [bufTable EXCEPT ![a.slot] =
                    [page |-> k, bDirty |-> FALSE, pinCount |-> 1, pData |-> bytes]]
  /\ held' = [held EXCEPT ![k] = @ + 1]
  /\ rc' = "OK"
  /\ UNCHANGED loop
InstallUnpinnedWrong(a, k, bytes) ==
  /\ used' = a.used /\ free' = a.free /\ disk' = a.disk
  /\ hashTable' = [a.hash EXCEPT ![k] = a.slot]
  /\ bufTable' = [bufTable EXCEPT ![a.slot] =
                    [page |-> k, bDirty |-> FALSE, pinCount |-> 0, pData |-> bytes]]
  /\ held' = [held EXCEPT ![k] = @ + 1]
  /\ rc' = "OK"
  /\ UNCHANGED loop

(* initPageDesc on the new frame, with the hash entry inserted before it. *)
Install(a, k, bytes) ==
  /\ used' = a.used /\ free' = a.free /\ disk' = a.disk
  /\ hashTable' = [a.hash EXCEPT ![k] = a.slot]
  /\ bufTable' = [bufTable EXCEPT ![a.slot] =
                    [page |-> k, bDirty |-> FALSE, pinCount |-> 1, pData |-> bytes]]
  /\ held' = [held EXCEPT ![k] = @ + 1]
  /\ rc' = "OK"
  /\ UNCHANGED loop
-----------------------------------------------------------------------------
(* getPage, page resident. *)
GetHit(k) ==
  /\ NoLoop /\ Resident(k) /\ Frame(k).pinCount < MaxPins
  /\ bufTable' = [bufTable EXCEPT ![hashTable[k]].pinCount = @ + 1]
  /\ MoveToHead(hashTable[k])
  /\ held' = [held EXCEPT ![k] = @ + 1]
  /\ rc' = "OK"
  /\ UNCHANGED <<free, hashTable, disk, loop, fresh>>

(* getPage with bMultiplePins = FALSE on a pinned page. *)
GetPinned(k) ==
  /\ NoLoop /\ Resident(k) /\ Frame(k).pinCount > 0
  /\ Return("PF_PAGEPINNED")

(* getPage, page read from its file into a frame. *)
GetMiss(k) ==
  /\ NoLoop /\ ~Resident(k)
  /\ \E a \in Allocated : a.disk[k] # Absent /\ Install(a, k, a.disk[k])
  /\ UNCHANGED fresh

(* getPage, the read fails: the frame goes to the free list.  The evicted  *)
(* page is gone from the pool all the same.                                *)
GetMissReadFails(k) ==
  /\ NoLoop /\ ~Resident(k)
  /\ \E a \in Allocated, bytes \in Bytes :
       /\ \/ a.disk[k] \in {Absent, Torn} /\ rc' = "PF_INCOMPLETEREAD"
             /\ bytes \in {bufTable[a.slot].pData, Torn}
          \/ rc' = "PF_UNIX" /\ bytes = bufTable[a.slot].pData
       /\ used' = Unlink(a.used, a.slot)
       /\ free' = LinkHead(a.free, a.slot)
       /\ hashTable' = a.hash /\ disk' = a.disk
       /\ bufTable' = [bufTable EXCEPT ![a.slot].pData = bytes,
                         ![a.slot].bDirty = IF free = << >> THEN FALSE ELSE @]
  /\ UNCHANGED <<loop, held, fresh>>

GetMissNoFrame(k) == NoLoop /\ ~Resident(k) /\ AllocFails

(* allocatePage: a frame for a page the file does not have yet; the bytes  *)
(* of the frame are left as they are.                                      *)
AllocatePage(k) ==
  /\ NoLoop /\ ~Resident(k)
  /\ \E a \in Allocated : Install(a, k, bufTable[a.slot].pData)
  /\ fresh' = fresh \cup {k}

AllocateInBuf(k) == NoLoop /\ Resident(k) /\ Return("PF_PAGEINBUF")

(* markDirty, called by a client that has just stored v through the        *)
(* pointer getPage gave it.                                                *)
MarkDirty(k, v) ==
  /\ NoLoop /\ Resident(k) /\ Frame(k).pinCount > 0
  /\ bufTable' = [bufTable EXCEPT ![hashTable[k]].bDirty = TRUE,
                                  ![hashTable[k]].pData = v]
  /\ MoveToHead(hashTable[k])
  /\ fresh' = fresh \ {k}
  /\ rc' = "OK"
  /\ UNCHANGED <<free, hashTable, disk, loop, held>>

(* unpinPage.  The only caller of allocatePage, PF_FileHandle, marks the   *)
(* new page dirty before it lets go of it.                                 *)
UnpinPage(k) ==
  /\ NoLoop /\ Resident(k) /\ Frame(k).pinCount > 0 /\ k \notin fresh
  /\ bufTable' = [bufTable EXCEPT ![hashTable[k]].pinCount = @ - 1]
  /\ IF Frame(k).pinCount = 1 THEN MoveToHead(hashTable[k]) ELSE UNCHANGED used
  /\ held' = [held EXCEPT ![k] = @ - 1]
  /\ rc' = "OK"
  /\ UNCHANGED <<free, hashTable, disk, loop, fresh>>

(* markDirty and unpinPage on a page that is not resident or not pinned. *)
NotPinned(k) ==
  /\ NoLoop
  /\ \/ ~Resident(k) /\ Return("PF_PAGENOTINBUF")
     \/ Resident(k) /\ Frame(k).pinCount = 0 /\ Return("PF_PAGEUNPINNED")

(* forceSinglePage: the walk stops at the first used frame whose page      *)
(* NUMBER matches, and writes it only when it is k's and dirty.            *)
ForceTarget(k) ==
  {s \in ToSet(used) :
     /\ bufTable[s].page = k /\ bufTable[s].bDirty
     /\ \E i \in DOMAIN used :
          used[i] = s /\ \A j \in 1 .. i - 1 : bufTable[used[j]].page[2] # k[2]}

ForceSinglePage(k) ==
  /\ NoLoop
  /\ \/ ForceTarget(k) = {} /\ Return("OK")
     \/ \E s \in ForceTarget(k) :
          /\ \/ /\ disk' = Written(disk, k, bufTable[s].pData)
                /\ bufTable' = [bufTable EXCEPT ![s].bDirty = FALSE]
                /\ rc' = "OK"
             \/ WriteFails(k) /\ UNCHANGED bufTable
          /\ UNCHANGED <<used, free, hashTable, loop, held, fresh>>
-----------------------------------------------------------------------------
(* flushPages and forcePages: the walk over the used list from usedHead. *)
StartLoop(op, fd) ==
  /\ NoLoop
  /\ loop' = [op |-> op, fd |-> fd, at |-> 1, warn |-> FALSE]
  /\ UNCHANGED <<used, free, bufTable, hashTable, disk, rc, held, fresh>>

Walking(op) == loop.op = op /\ loop.at <= Len(used)
Cursor == used[loop.at]
Ours == bufTable[Cursor].page[1] = loop.fd

(* A frame the walk passes over: another file's, one that flushPages finds *)
(* pinned (it will warn), one that forcePages finds clean.                 *)
LoopSkip ==
  /\ \/ /\ Walking("flush") /\ (Ours => bufTable[Cursor].pinCount > 0)
        /\ loop' = [loop EXCEPT !.at = @ + 1, !.warn = @ \/ Ours]
     \/ /\ Walking("force") /\ ~(Ours /\ bufTable[Cursor].bDirty)
        /\ loop' = [loop EXCEPT !.at = @ + 1]
  /\ UNCHANGED <<used, free, bufTable, hashTable, disk, rc, held, fresh>>

(* The frame counts as clean although its write failed. *)
LoopWriteFailsWrong ==
  /\ \/ Walking("flush") /\ bufTable[Cursor].pinCount = 0
     \/ Walking("force")
  /\ Ours /\ bufTable[Cursor].bDirty
  /\ WriteFails(bufTable[Cursor].page)
  /\ bufTable' = [bufTable EXCEPT ![Cursor].bDirty = FALSE]
  /\ loop' = Idle
  /\ UNCHANGED <<used, free, hashTable, held, fresh>>

(* The write fails and the call returns, leaving the rest untouched. *)
LoopWriteFails ==
  /\ \/ Walking("flush") /\ bufTable[Cursor].pinCount = 0
     \/ Walking("force")
  /\ Ours /\ bufTable[Cursor].bDirty
  /\ WriteFails(bufTable[Cursor].page)
  /\ loop' = Idle
  /\ UNCHANGED <<used, free, bufTable, hashTable, held, fresh>>

FlushFrame ==
  LET f == bufTable[Cursor]
  IN /\ Walking("flush") /\ Ours /\ f.pinCount = 0
     /\ disk' = IF f.bDirty THEN Written(disk, f.page, f.pData) ELSE disk
     /\ bufTable' = [bufTable EXCEPT ![Cursor].bDirty = FALSE]
     /\ hashTable' = [hashTable EXCEPT ![f.page] = INVALID_SLOT]
     /\ used' = Unlink(used, Cursor)
     /\ free' = LinkHead(free, Cursor)
     /\ UNCHANGED <<loop, rc, held, fresh>>

ForceFrame ==
  LET f == bufTable[Cursor]
  IN /\ Walking("force") /\ Ours /\ f.bDirty
     /\ disk' = Written(disk, f.page, f.pData)
     /\ bufTable' = [bufTable EXCEPT ![Cursor].bDirty = FALSE]
     /\ loop' = [loop EXCEPT !.at = @ + 1]
     /\ UNCHANGED <<used, free, hashTable, rc, held, fresh>>

(* The walk ends one frame early. *)
LoopReturnsWrong ==
  /\ ~NoLoop /\ loop.at >= Len(used)
  /\ rc' = IF loop.warn THEN "PF_PAGEPINNED" ELSE "OK"
  /\ loop' = Idle
  /\ UNCHANGED <<used, free, bufTable, hashTable, disk, held, fresh>>

LoopReturns ==
  /\ ~NoLoop /\ loop.at > Len(used)
  /\ rc' = IF loop.warn THEN "PF_PAGEPINNED" ELSE "OK"
  /\ loop' = Idle
  /\ UNCHANGED <<used, free, bufTable, hashTable, disk, held, fresh>>

Loop == LoopSkip \/ LoopWriteFails \/ FlushFrame \/ ForceFrame \/ LoopReturns

PageCall(k) ==
  \/ GetHit(k) \/ GetPinned(k) \/ GetMiss(k) \/ GetMissReadFails(k)
  \/ GetMissNoFrame(k) \/ AllocatePage(k) \/ AllocateInBuf(k)
  \/ \E v \in Values : MarkDirty(k, v)
  \/ UnpinPage(k) \/ NotPinned(k) \/ ForceSinglePage(k)

Next ==
  \/ \E k \in Keys : PageCall(k)
  \/ \E fd \in Fds : StartLoop("flush", fd) \/ StartLoop("force", fd)
  \/ Loop

Spec == Init /\ [][Next]_vars
-----------------------------------------------------------------------------
TypeOK ==
  /\ used \in Seq(Slots) /\ free \in Seq(Slots)
  /\ bufTable \in [Slots -> Desc]
  /\ hashTable \in [Keys -> Slots \cup {INVALID_SLOT}]
  /\ disk \in [Keys -> Bytes \cup {Absent}]
  /\ loop \in LoopCall
  /\ rc \in ReturnCode
  /\ held \in [Keys -> Nat]
  /\ fresh \in SUBSET Keys

(* Every frame is on exactly one list, once: no error path of getPage,     *)
(* bufferAlloc or flushPages leaks a frame or links it twice.              *)
SlotsPartitioned ==
  /\ IsInjective(used) /\ IsInjective(free)
  /\ ToSet(used) \cap ToSet(free) = {}
  /\ ToSet(used) \cup ToSet(free) = Slots

(* The hash table finds exactly the used frames, each under the page its   *)
(* descriptor names; so a page is never in two frames and no stale entry   *)
(* survives an eviction, a failed read or a flush.                         *)
HashExact ==
  /\ \A k \in Keys : Resident(k) => hashTable[k] \in ToSet(used) /\ Frame(k).page = k
  /\ \A s \in ToSet(used) :
       bufTable[s].page \in Keys /\ hashTable[bufTable[s].page] = s

(* A frame not marked dirty holds what the file holds, so dropping it      *)
(* without a write loses nothing.                                          *)
CleanMatchesDisk ==
  \A k \in Keys \ fresh :
    Resident(k) /\ ~Frame(k).bDirty => Frame(k).pData = disk[k]

(* The pin count of a page is the number of pins its clients hold, a page  *)
(* that is not resident is pinned by nobody, and a page from allocatePage  *)
(* stays pinned until it is marked dirty.                                  *)
PinsBalanced ==
  \A k \in Keys :
    /\ held[k] = IF Resident(k) THEN Frame(k).pinCount ELSE 0
    /\ k \in fresh => held[k] > 0

(* getPage and allocatePage give up with PF_NOBUF only when clients hold   *)
(* every frame of the pool: no frame is out of reach otherwise.            *)
AllHeld == \A s \in Slots : \E k \in Keys : hashTable[k] = s /\ held[k] > 0
NoBufMeansAllHeld ==
  [][(\E k \in Keys : GetMissNoFrame(k)) /\ rc' = "PF_NOBUF" => AllHeld]_vars

(* A pinned page keeps its frame, and its bytes change only in markDirty:  *)
(* the pointer getPage handed out stays good until unpinPage.              *)
PinnedFrameStable ==
  [][\A k \in Keys : held[k] > 0 /\ held'[k] > 0 =>
       /\ hashTable'[k] = hashTable[k]
       /\ \/ bufTable'[hashTable[k]].pData = Frame(k).pData
          \/ bufTable'[hashTable[k]].bDirty]_vars

(* The content of a page: its frame if it has one, else its file. *)
Content(k) == IF Resident(k) THEN Frame(k).pData ELSE disk[k]

(* When forcePages or flushPages returns 0 the file holds the current      *)
(* content of all its pages, whatever else was evicted or torn before; and *)
(* after flushPages none of them is left in the pool, where a later file   *)
(* with the same descriptor would hit it.                                  *)
LoopDelivers ==
  [][~NoLoop /\ NoLoop' /\ rc' = "OK"
       => \A k \in Keys : k[1] = loop.fd =>
            /\ k \notin fresh => disk'[k] = Content(k)'
            /\ loop.op = "flush" => ~Resident(k)']_vars

(* The pool implements the page cache the file layer relies on: no lost    *)
(* update, no content that nobody wrote.                                   *)
Abs == INSTANCE PageCache
         WITH content <- [k \in Keys |-> Content(k)], pins <- held
Implements == Abs!Spec
=============================================================================
