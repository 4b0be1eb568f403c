--------------------------- MODULE MCBufferThreads ---------------------------
(* TLC instances of BufferThreads. *)
EXTENDS BufferThreads
=============================================================================
