---------------------------- MODULE MCPF_FileHandle ----------------------------
(* TLC instance of PF_FileHandle.  No step reads rc, so two states that    *)
(* differ in it only have the same futures; and one page whose contents    *)
(* change shows what happens to contents.                                  *)
EXTENDS PF_FileHandle

AllButReturnCode == <<handle, fileHdr, content, disk, pins>>

OnePageWithData ==
  \A p \in Pages \ {1} : content[p] # Absent => content[p].data = Zero
=============================================================================
