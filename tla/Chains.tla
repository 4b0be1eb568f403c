------------------------------- MODULE Chains -------------------------------
(***************************************************************************)
(* Singly linked lists given as a function from a node to its successor.   *)
(* A value outside the function's domain ends the list.                    *)
(***************************************************************************)
EXTENDS Integers, Sequences, FiniteSets

(* The node n links on from head.  Past the end of the list it stays.      *)
Walk(succ, head, n) ==
  LET at[i \in 0 .. n] ==
        IF i = 0 THEN head
        ELSE IF at[i - 1] \in DOMAIN succ THEN succ[at[i - 1]] ELSE at[i - 1]
  IN at

(* The nodes met from head on; one more than there are nodes when the list *)
(* runs into a cycle.                                                      *)
Chain(succ, head) ==
  LET nodes == DOMAIN succ
      at == Walk(succ, head, Cardinality(nodes))
      met == {i \in 0 .. Cardinality(nodes) : at[i] \in nodes}
  IN [i \in 1 .. Cardinality(met) |-> at[i - 1]]

(* The nodes met from head on.                                             *)
Reach(succ, head) ==
  LET at == Walk(succ, head, Cardinality(DOMAIN succ))
  IN {at[i] : i \in 0 .. Cardinality(DOMAIN succ)} \cap DOMAIN succ

(* The list from head has exactly the nodes of S, each once, and ends in   *)
(* last.                                                                   *)
ChainIs(succ, head, S, last) ==
  LET n == Cardinality(S)
      at == Walk(succ, head, n)
  IN {at[i] : i \in 0 .. n - 1} = S /\ at[n] = last
=============================================================================
