---------------------------- MODULE MCRM_FileScan ----------------------------
(* TLC instance of RM_FileScan. *)
EXTENDS RM_FileScan
=============================================================================
