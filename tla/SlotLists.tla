------------------------------ MODULE SlotLists ------------------------------
(***************************************************************************)
(* The two lists of the buffer pool as sequences, and the only three ways  *)
(* the pool changes them.  BufferThreads implements this specification     *)
(* with the next/prev links of bufTable.                                   *)
(***************************************************************************)
EXTENDS Integers, SequencesExt

CONSTANT NumPages

VARIABLES used,   \* MRU page first
          free

listVars == <<used, free>>

Without(list, slot) == RemoveAt(list, CHOOSE i \in DOMAIN list : list[i] = slot)

Init == used = << >> /\ free = [i \in 1 .. NumPages |-> i - 1]

(* bufferAlloc with a free frame: the first free one becomes the MRU page. *)
TakeFree ==
  /\ free # << >>
  /\ used' = Cons(Head(free), used)
  /\ free' = Tail(free)

(* getPage, markDirty, unpinPage, and bufferAlloc on its victim. *)
ToHead(slot) ==
  /\ slot \in ToSet(used)
  /\ used' = Cons(slot, Without(used, slot))
  /\ UNCHANGED free

(* flushPages, and the error path of getPage. *)
Release(slot) ==
  /\ slot \in ToSet(used)
  /\ used' = Without(used, slot)
  /\ free' = Cons(slot, free)

Next == TakeFree \/ \E slot \in 0 .. NumPages - 1 : ToHead(slot) \/ Release(slot)

Spec == Init /\ [][Next]_listVars
=============================================================================
