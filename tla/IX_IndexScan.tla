---------------------------- MODULE IX_IndexScan ----------------------------
(***************************************************************************)
(* Scans of an index, storage/ix_indexscan.cpp: openScan goes down to one  *)
(* leaf and looks for the first key there that compares with the value as  *)
(* asked; getNextEntry goes on from it along the leaves, up to the first   *)
(* key that does not.  A scan sees the tree of IX_IndexHandle as it is     *)
(* when nothing is inserted or deleted while it runs, and no leaf is left  *)
(* that a failed delete has emptied.                                       *)
(***************************************************************************)
EXTENDS IX_IndexHandle

CompOps == {"EQ_OP", "LT_OP", "GT_OP", "LE_OP", "GE_OP", "NE_OP", "NO_OP"}
matchIndex(compOp, key, value) ==
  CASE compOp = "EQ_OP" -> key = value
    [] compOp = "LT_OP" -> key < value
    [] compOp = "GT_OP" -> key > value
    [] compOp = "LE_OP" -> key <= value
    [] compOp = "GE_OP" -> key >= value
    [] compOp = "NE_OP" -> key # value
    [] compOp = "NO_OP" -> TRUE

(* The child to go on with: whatever the comparison is, the one that has   *)
(* the value's place.  A root without keys has one child.                  *)
getIntervalFromNodeWrong(node, compOp, value) ==
  IF compOp = "NO_OP" THEN node.vals[1] ELSE node.vals[InsertPos(node.keys, value)]
getIntervalFromNode(node, compOp, value) ==
  IF compOp = "NO_OP" THEN node.vals[1] ELSE node.vals[SearchPos(node.keys, value)]

(* The leaf getFirstEntry gets to.  IX_NO_PAGE where there is no tree, and *)
(* where openScan fails: in a child that a split has lost.                 *)
getFirstEntry(t, compOp, value) ==
  Last(Down([p \in InnerNodes(t) |-> getIntervalFromNode(t.node[p], compOp, value)], t.rootPage))

(* justifyNextPos: where a scan can be from a leaf, as <<page, keyPos>>.    *)
(* inOverflow is never TRUE: rows of overflow pages are not met.           *)
Positions(t, leaf) ==
  LET leaves == Chain([p \in Leaves(t) |-> t.node[p].next], leaf)
  IN FlattenSeq([i \in DOMAIN leaves |->
                  [j \in DOMAIN t.node[leaves[i]].keys |-> <<leaves[i], j>>]])
Matches(t, pos, compOp, value) == matchIndex(compOp, t.node[pos[1]].keys[pos[2]], value)

(* getFirstIntFromLeaf: the first key that matches in the first leaf with  *)
(* keys.  No other leaf is looked at.                                      *)
MatchesInLeaf(t, at, compOp, value) ==
  {i \in DOMAIN at : at[i][1] = at[1][1] /\ Matches(t, at[i], compOp, value)}

(* The rows getNextEntry returns until it says IX_EOF: up to the first key *)
(* that does not match, or through the last leaf.                          *)
ScanRows(t, compOp, value) ==
  LET at == Positions(t, getFirstEntry(t, compOp, value))
      found == MatchesInLeaf(t, at, compOp, value)
      first == Min(found)
      past == {i \in first .. Len(at) : ~Matches(t, at[i], compOp, value)}
      last == IF past = {} THEN Len(at) ELSE Min(past) - 1
      Row(pos) == t.node[pos[1]].vals[pos[2]]
  IN IF found = {} THEN << >> ELSE [i \in 1 .. last - first + 1 |-> Row(at[first + i - 1])]
-----------------------------------------------------------------------------
KeyOrder(rows) == \A i, j \in DOMAIN rows : i < j => Key[rows[i]] <= Key[rows[j]]

(* While no key was inserted twice and no leaf was emptied, a scan without *)
(* a condition returns every row once, at any height of the tree, also the *)
(* rows that a search for their key does not reach any more; and in the    *)
(* order of their keys as long as there is one level of inner nodes.       *)
FullScanExact ==
  isOpen /\ trouble \subseteq {"separator"}
    => LET rows == ScanRows(tree, "NO_OP", 0)
       IN /\ Len(rows) = Cardinality(entries) /\ ToSet(rows) = entries
          /\ Shallow(tree) => KeyOrder(rows)

(* A scan with a condition returns no row twice and, with one level of     *)
(* inner nodes, the rows in the order of their keys; and for EQ_OP all     *)
(* that have the key, if a search finds rows at all (see SearchExact).     *)
Values == {Key[r] : r \in Rows} \cup {0}
ScansSound ==
  isOpen /\ trouble \subseteq {"separator"}
    => \A compOp \in CompOps, v \in Values :
         LET rows == ScanRows(tree, compOp, v)
         IN /\ IsInjective(rows)
            /\ Shallow(tree) => KeyOrder(rows)
            /\ compOp = "EQ_OP" /\ Shallow(tree) /\ trouble = {}
                 => ToSet(rows) = {r \in entries : Key[r] = v}
=============================================================================
