------------------------------ MODULE MCRWLock ------------------------------
(* TLC instance of RWLock.  No symmetry: the runs check liveness. *)
EXTENDS RWLock
=============================================================================
