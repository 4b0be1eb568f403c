--------------------------- MODULE MCRM_FileHandle ---------------------------
(* TLC instance of RM_FileHandle.  What a write past the end of a page     *)
(* leads to is followed only in a file of one page whose page 0 it has     *)
(* left alone: the properties say nothing more of it, and overrun never    *)
(* goes back.                                                              *)
EXTENDS RM_FileHandle, TLC

InsidePages == overrun => numPages <= 2 /\ diskNumPages <= 2 /\ page0 = disk0

(* No property is a liveness property. *)
Symmetric == Permutations(Values)
=============================================================================
