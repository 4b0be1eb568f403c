--------------------------- MODULE MCBufHashTable ---------------------------
(* TLC instances of BufHashTable: two pages that share one of two buckets. *)
EXTENDS BufHashTable

Colliding == {<<0, 0>>, <<1, 1>>}
=============================================================================
