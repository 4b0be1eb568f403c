------------------------- MODULE MCRM_AttrFileHandle -------------------------
(* TLC instance of RM_AttrFileHandle: two classes, one of which closeFile  *)
(* remembers; two values to a page and one spare bit in class 0, and one   *)
(* value to a page in class 1.                                             *)
EXTENDS RM_AttrFileHandle, TLC

PageSizes == (0 :> 2) @@ (1 :> 1)
SpareBit == (0 :> 3) @@ (1 :> 1)

(* Places and values are interchangeable, and no property is a liveness    *)
(* property.                                                               *)
Symmetry == Permutations(Places) \cup Permutations(Values)

(* A page left pinned only keeps closeFile from succeeding: what follows   *)
(* also follows without it, so it is left there.                           *)
NotLeaked == ~leaked
=============================================================================
