--------------------------- MODULE MCDML_Manager ---------------------------
(* DML_Manager for TLC: all rows have the same value in the first column   *)
(* and each its own in the second.                                         *)
EXTENDS DML_Manager

OneAlike == [r \in Rows |-> [c \in 1 .. AttrCount |-> IF c = 1 THEN 0 ELSE r]]
Symmetric == Permutations(Rows) \cup Permutations(Tables)

(* Bound: attrcat returns the rows of a table in another order than that   *)
(* of its attributes for one table only, and while no other has indexes;   *)
(* after both a failure and an end of the process for none, and then one   *)
(* table has indexes at most.                                              *)
InOrder(s) == \A i \in 2 .. Len(s) : s[i - 1].attrName <= s[i].attrName
OutOfOrder == {t \in Tables : ~InOrder(attrcat[t]) \/ ~InOrder(attrDisk[t])}
WithIndex == {t \in Tables : Indexed(t) # {}}
OneOutOfOrder ==
  /\ OutOfOrder # {} => Cardinality(OutOfOrder \cup WithIndex) = 1
  /\ Cardinality(faults) = 2 => OutOfOrder = {} /\ Cardinality(WithIndex) <= 1
=============================================================================
