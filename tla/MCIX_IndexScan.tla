--------------------------- MODULE MCIX_IndexScan ---------------------------
(* TLC instance of IX_IndexScan: seven rows, two of them with one key. *)
EXTENDS IX_IndexScan

SevenRows == 1 .. 7
TwoAlike == <<1, 2, 3, 4, 5, 6, 3>>
=============================================================================
