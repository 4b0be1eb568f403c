----------------------------- MODULE MCBufferMgr -----------------------------
(* TLC instances of BufferMgr: file descriptors 3 and 4 and a pool smaller *)
(* than the set of pages.                                                  *)
EXTENDS BufferMgr

(* Two files, one of them with a page that writing the other leaves a hole *)
(* for.                                                                    *)
ThreePages == {<<3, 0>>, <<3, 1>>, <<4, 0>>}

(* No step reads rc: two states that differ in it only have the same       *)
(* futures.                                                                *)
AllButReturnCode ==
  <<used, free, bufTable, hashTable, disk, loop, held, fresh>>
=============================================================================
