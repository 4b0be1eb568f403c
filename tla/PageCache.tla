------------------------------ MODULE PageCache ------------------------------
(***************************************************************************)
(* What the buffer manager promises to the file layer above it: a page     *)
(* has one current content, whatever frame or file it sits in; only the    *)
(* client that pinned it changes that content; the file trails behind it.  *)
(* BufferMgr implements it (BufferMgr!Implements).  Frames, replacement    *)
(* and the hash table do not exist at this level.                          *)
(***************************************************************************)
EXTENDS Naturals

CONSTANTS Keys,    \* pages, as (fd, pageNum)
          Values,  \* what a client can store in a page
          Zero,    \* the content of a hole in a file
          Torn,    \* a page whose write was cut short
          Absent   \* a page past the end of its file

VARIABLES content,   \* the current content of every page
          disk,      \* what its file holds
          pins       \* how many pins clients hold on it

cacheVars == <<content, disk, pins>>

(* A write past the end of a file leaves a hole that reads as zeros. *)
FillsHole(old, new) == old = Absent /\ new = Zero

StableExcept(K) ==
  \A k \in Keys \ K : content'[k] = content[k] \/ FillsHole(content[k], content'[k])

(* Any page may be written back at any time; a failed write tears it. *)
DiskAdvances ==
  \A k \in Keys : \/ disk'[k] \in {disk[k], content[k], Torn}
                  \/ FillsHole(disk[k], disk'[k])

Init == /\ pins = [k \in Keys |-> 0]
        /\ content = disk

Pin(k) ==
  /\ pins' = [pins EXCEPT ![k] = @ + 1]
  /\ StableExcept({}) /\ DiskAdvances

(* A new page starts with whatever its frame held. *)
New(k) ==
  /\ pins[k] = 0
  /\ pins' = [pins EXCEPT ![k] = 1]
  /\ StableExcept({k}) /\ DiskAdvances

Unpin(k) ==
  /\ pins[k] > 0
  /\ pins' = [pins EXCEPT ![k] = @ - 1]
  /\ UNCHANGED <<content, disk>>

Update(k, v) ==
  /\ pins[k] > 0
  /\ content' = [content EXCEPT ![k] = v]
  /\ UNCHANGED <<disk, pins>>

WriteBack ==
  /\ UNCHANGED pins
  /\ StableExcept({}) /\ DiskAdvances

Next == \/ WriteBack
        \/ \E k \in Keys : Pin(k) \/ New(k) \/ Unpin(k)
        \/ \E k \in Keys, v \in Values : Update(k, v)

Spec == Init /\ [][Next]_cacheVars
=============================================================================
