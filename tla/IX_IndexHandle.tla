--------------------------- MODULE IX_IndexHandle ---------------------------
(***************************************************************************)
(* The B+ tree of storage/ix_indexhandle.cpp and the open and close of     *)
(* storage/ix_manager.cpp, for keys of type INT.  Rows are what a rid      *)
(* names; several may have the same key.  Nodes are pages of a paged file, *)
(* whose calls succeed here, except for a page number that is none.        *)
(*                                                                         *)
(* In an inner node vals has the children, one more than there are keys;   *)
(* in a leaf the row of each key.                                          *)
(***************************************************************************)
EXTENDS SequencesExt, Chains

CONSTANTS Rows,
          Key,       \* row -> key
          degree,    \* keys at which a node is split
          MaxNodes   \* bound on the pages of the file

ASSUME IndexAssumption ==
  /\ \A r \in Rows : Key[r] \in Nat
  /\ degree \in Nat /\ degree > 2
  /\ MaxNodes \in Nat \ {0}

IX_NO_PAGE == -1
IndexPages == 1 .. MaxNodes

VARIABLES tree,             \* rootPage, bHeaderModified, the pages, and those
                            \* PF has got back, the last one first
          isOpen,
          page0,            \* rootPage in the file's first page
          leaked,           \* pages that a failed call has left pinned
          entries, gone, trouble  \* history: see below

history == <<entries, gone, trouble>>
indexVars == <<tree, isOpen, page0, leaked, history>>

(* entries has the rows a call has put in and none has taken out, gone     *)
(* those taken out, which do not come back (bound).  trouble says what has *)
(* happened that later calls may suffer from:                              *)
(*   duplicate  a key was inserted that was there already                  *)
(*   separator  a key was inserted that an inner node has as a separator   *)
(*   leafGone   a leaf was emptied                                         *)
-----------------------------------------------------------------------------
Node(type, keys, vals, next, prePage, parent) ==
  [type |-> type, keys |-> keys, vals |-> vals, next |-> next,
   prePage |-> prePage, parent |-> parent]
NoNode == Node("NONE", << >>, << >>, IX_NO_PAGE, IX_NO_PAGE, IX_NO_PAGE)

IndexInit ==
  /\ tree = [rootPage |-> IX_NO_PAGE, modified |-> FALSE,
             node |-> [p \in IndexPages |-> NoNode], disposed |-> << >>]
  /\ isOpen = FALSE /\ page0 = IX_NO_PAGE /\ leaked = {}
  /\ entries = {} /\ gone = {} /\ trouble = {}

Gone(t, p) == t.node[p].type = "NONE"
FreePages(t) == {p \in IndexPages : Gone(t, p)}
Allocated(t) == IndexPages \ FreePages(t)
IsLeaf(node) == node.type \in {"LEAF", "ROOT_LEAF"}
Leaves(t) == {p \in IndexPages : IsLeaf(t.node[p])}
InnerNodes(t) == {p \in IndexPages : t.node[p].type \in {"ROOT", "NODE"}}
Shallow(t) == \A p \in IndexPages : t.node[p].type # "NODE"
Separators(t) == UNION {ToSet(t.node[p].keys) : p \in InnerNodes(t)}

(* allocatePage: the page disposed last, or one the file does not have yet. *)
NewPage(t) == IF t.disposed = << >> THEN Min(FreePages(t)) ELSE Head(t.disposed)
WithPage(t, node) ==
  [t EXCEPT !.node[NewPage(t)] = node, !.disposed = IF @ = << >> THEN @ ELSE Tail(@)]

(* The first position with a key not below k, and the one after the last   *)
(* key not above k: insertion and search differ on a separator.            *)
InsertPos(keys, k) == 1 + Cardinality({i \in DOMAIN keys : keys[i] < k})
SearchPos(keys, k) == 1 + Cardinality({i \in DOMAIN keys : keys[i] <= k})
-----------------------------------------------------------------------------
(* A bug on purpose: closeIndex would not write the header. *)
RootMovedWrong(t, p) == [t EXCEPT !.rootPage = p]
RootMoved(t, p) == [t EXCEPT !.rootPage = p, !.modified = TRUE]

(* A bug on purpose: the right node ends the list. *)
LeafAfterWrong(t, left) == IX_NO_PAGE
LeafAfter(t, left) == t.node[left].next

(* spliteTwoNodes: the right node takes the upper half.  A right leaf is   *)
(* linked behind the left one; the leaf after it still has the left one as *)
(* its prePage.  A right inner node has no last child: it is not copied.   *)
(* Its children keep the left node as their parent.                        *)
RightNode(t, left, type) ==
  LET node == t.node[left]
      half == degree \div 2
  IN Node(type, SubSeq(node.keys, half + 1, Len(node.keys)),
          SubSeq(node.vals, half + 1, Len(node.keys))
            \o IF type = "LEAF" THEN << >> ELSE <<IX_NO_PAGE>>,
          LeafAfter(t, left), left, node.parent)
LeftNode(t, left, right, type) ==
  LET node == t.node[left]
      half == Len(node.keys) \div 2
  IN IF type = "LEAF"
     THEN [node EXCEPT !.type = type, !.keys = SubSeq(@, 1, half),
                       !.vals = SubSeq(@, 1, half), !.next = right]
     ELSE [node EXCEPT !.type = type, !.keys = SubSeq(@, 1, half),
                       !.vals = SubSeq(@, 1, half + 1)]
Halved(t, left, right, type) ==
  [WithPage(t, RightNode(t, left, type)) EXCEPT
     !.node[left] = LeftNode(t, left, right, type)]

WithNewRoot(t, left, right) ==
  LET root == NewPage(t)
      node == Node("ROOT", <<t.node[right].keys[1]>>, <<left, right>>,
                   IX_NO_PAGE, IX_NO_PAGE, IX_NO_PAGE)
  IN [RootMoved(WithPage(t, node), root) EXCEPT
        !.node[left].parent = root, !.node[right].parent = root]
WithChild(t, parent, right) ==
  LET key == t.node[right].keys[1]
      pos == InsertPos(t.node[parent].keys, key)
  IN [t EXCEPT !.node[parent].keys = InsertAt(@, pos, key),
               !.node[parent].vals = InsertAt(@, pos + 1, right)]

SplitNode(t, left, type) ==
  LET right == NewPage(t)
      halves == Halved(t, left, right, type)
      parent == t.node[left].parent
  IN IF parent = IX_NO_PAGE THEN WithNewRoot(halves, left, right)
     ELSE WithChild(halves, parent, right)

(* spliteTwoNodes goes on with the parent when that gets full.  (No other  *)
(* node is full, so none is split above one that is not.)                  *)
SplitIfFull(t, p, level) ==
  IF Len(t.node[p].keys) < degree THEN t
  ELSE SplitNode(t, p, IF level = 1 THEN "LEAF" ELSE "NODE")
SplitUp(t, up) ==
  LET after[n \in 0 .. Len(up)] ==
        IF n = 0 THEN t ELSE SplitIfFull(after[n - 1], up[n], n)
  IN after
Ancestry(t, p) == Chain([q \in Allocated(t) |-> t.node[q].parent], p)
spliteTwoNodes(t, leaf) ==
  LET up == Ancestry(t, leaf) IN SplitUp(t, up)[Len(up)]
-----------------------------------------------------------------------------
(* The pages on the way down from p, and the one that is no inner node.    *)
Down(child, p) ==
  LET inner == Chain(child, p)
  IN Append(inner, IF inner = << >> THEN p ELSE child[Last(inner)])

(* The pages insertEntryRecursively goes through; IX_NO_PAGE ends it when  *)
(* it gets to the child a split has lost.                                  *)
PathTo(t, k) ==
  Down([p \in InnerNodes(t) |-> t.node[p].vals[InsertPos(t.node[p].keys, k)]], t.rootPage)
LeafFor(t, k) == Last(PathTo(t, k))

(* insertRootPage *)
NewTree(t, r) ==
  LET node == Node("ROOT_LEAF", <<Key[r]>>, <<r>>, IX_NO_PAGE, IX_NO_PAGE, IX_NO_PAGE)
  IN RootMoved(WithPage(t, node), NewPage(t))

InLeaf(t, p, r) ==
  LET pos == InsertPos(t.node[p].keys, Key[r])
      filled == [t EXCEPT !.node[p].keys = InsertAt(@, pos, Key[r]),
                          !.node[p].vals = InsertAt(@, pos, r)]
  IN IF Len(filled.node[p].keys) < degree THEN filled
     ELSE spliteTwoNodes(filled, p)

(* createOverflowPage and insertOverflowPage.  The number of the page does *)
(* not get into the leaf.                                                  *)
InOverflow(t, p, r) ==
  WithPage(t, Node("OVERFLOW", << >>, <<r>>, IX_NO_PAGE, IX_NO_PAGE, p))

Inserted(t, r) ==
  LET root == t.rootPage
  IN IF root = IX_NO_PAGE THEN NewTree(t, r)
     ELSE IF t.node[root].type = "ROOT_LEAF" /\ Key[r] \in ToSet(t.node[root].keys)
     THEN InOverflow(t, root, r)
     ELSE InLeaf(t, LeafFor(t, Key[r]), r)

Keys(rows) == {Key[r] : r \in rows}

(* A call that fails has left pages pinned: closeIndex would then close    *)
(* the handle and not the file.  What callers do after that is not         *)
(* followed.                                                               *)
Usable == isOpen /\ leaked = {}

InsertEntry(r) ==
  /\ Usable /\ r \notin entries \cup gone
  /\ tree.rootPage # IX_NO_PAGE => LeafFor(tree, Key[r]) \in Leaves(tree)
  /\ Cardinality(FreePages(tree)) > 2 * Len(Ancestry(tree, LeafFor(tree, Key[r])))  \* bound
  /\ tree' = Inserted(tree, r)
  /\ entries' = entries \cup {r}
  /\ trouble' = trouble \cup (IF Key[r] \in Keys(entries) THEN {"duplicate"} ELSE {})
                        \cup (IF Key[r] \in Separators(tree) THEN {"separator"} ELSE {})
  /\ UNCHANGED <<isOpen, page0, leaked, gone>>

(* The child has no page: the call returns the error of getThisPage, with  *)
(* the nodes on the way still pinned.                                      *)
InsertEntryFails(r) ==
  /\ Usable /\ r \notin entries \cup gone
  /\ tree.rootPage # IX_NO_PAGE /\ LeafFor(tree, Key[r]) = IX_NO_PAGE
  /\ leaked' = ToSet(PathTo(tree, Key[r])) \ {IX_NO_PAGE}
  /\ UNCHANGED <<tree, isOpen, page0, history>>
-----------------------------------------------------------------------------
(* searchEntryFromNode and searchEntryFromLeaf in a tree whose root has    *)
(* leaves as children: the leaf, and the first position of the key.  A     *)
(* root without keys compares with its own parent field, which is -1.      *)
SearchLeaf(t, k) ==
  LET root == t.node[t.rootPage]
  IN IF root.type = "ROOT_LEAF" THEN t.rootPage ELSE root.vals[SearchPos(root.keys, k)]
KeyPositions(t, k) ==
  IF t.rootPage = IX_NO_PAGE THEN {}
  ELSE {i \in DOMAIN t.node[SearchLeaf(t, k)].keys : t.node[SearchLeaf(t, k)].keys[i] = k}

(* The search for the row's key finds this row. *)
Finds(t, r) ==
  /\ KeyPositions(t, Key[r]) # {}
  /\ t.node[SearchLeaf(t, Key[r])].vals[Min(KeyPositions(t, Key[r]))] = r

(* removeChildNode on the root.  The first key goes with either of the     *)
(* first two children.  A root without children is given up.               *)
WithoutChild(t, parent, child) ==
  LET node == t.node[parent]
      pos == Min({i \in DOMAIN node.vals : node.vals[i] = child})
      rest == [t EXCEPT !.node[parent].vals = RemoveAt(@, pos)]
  IN IF Len(node.vals) = 1
     THEN [RootMoved(t, IX_NO_PAGE) EXCEPT !.node[parent].vals = << >>]
     ELSE [rest EXCEPT !.node[parent].keys = RemoveAt(@, IF pos = 1 THEN 1 ELSE pos - 1)]

(* The leaf p, emptied, is taken out of the list of leaves. *)
PassedBy(t, p) ==
  LET pre == t.node[p].prePage
      next == t.node[p].next
      one == IF pre = IX_NO_PAGE THEN t ELSE [t EXCEPT !.node[pre].next = next]
  IN IF next = IX_NO_PAGE THEN one ELSE [one EXCEPT !.node[next].prePage = pre]

OffFile(t, p) == p # IX_NO_PAGE /\ Gone(t, p)
Emptied(t, r) ==
  LET p == SearchLeaf(t, Key[r])
      pos == Min(KeyPositions(t, Key[r]))
  IN [t EXCEPT !.node[p].keys = RemoveAt(@, pos), !.node[p].vals = RemoveAt(@, pos)]

(* deleteEntry on a tree without NODE pages (bound), up to the last key of *)
(* a leaf.                                                                 *)
DeleteEntry(r) ==
  /\ Usable /\ Shallow(tree) /\ Finds(tree, r)
  /\ LET p == SearchLeaf(tree, Key[r])
         t == Emptied(tree, r)
     IN /\ t.node[p].keys # << >>
        /\ tree' = t
  /\ entries' = entries \ {r} /\ gone' = gone \cup {r}
  /\ UNCHANGED <<isOpen, page0, leaked, trouble>>

(* With its last key the leaf leaves the list, its parent and the file.    *)
DeleteLastEntry(r) ==
  /\ Usable /\ Shallow(tree) /\ Finds(tree, r)
  /\ LET p == SearchLeaf(tree, Key[r])
         t == Emptied(tree, r)
         node == t.node[p]
     IN /\ node.keys = << >> /\ node.parent # IX_NO_PAGE
        /\ ~OffFile(t, node.prePage) /\ ~OffFile(t, node.next)
        /\ tree' = [WithoutChild(PassedBy(t, p), node.parent, p) EXCEPT
                      !.node[p] = NoNode, !.disposed = <<p>> \o @]
  /\ entries' = entries \ {r} /\ gone' = gone \cup {r}
  /\ trouble' = trouble \cup {"leafGone"}
  /\ UNCHANGED <<isOpen, page0, leaked>>

(* That fails where a neighbour is no page of the file any more, and where *)
(* the leaf is the root and has no parent.  What was done before stays     *)
(* done, and the root and the leaf stay pinned.                            *)
DeleteLastEntryFails(r) ==
  /\ Usable /\ Shallow(tree) /\ Finds(tree, r)
  /\ LET p == SearchLeaf(tree, Key[r])
         t == Emptied(tree, r)
         node == t.node[p]
     IN /\ node.keys = << >>
        /\ \/ /\ OffFile(t, node.prePage)
              /\ tree' = t /\ leaked' = {p, t.rootPage}
           \/ /\ ~OffFile(t, node.prePage) /\ OffFile(t, node.next)
              /\ tree' = IF node.prePage = IX_NO_PAGE THEN t
                         ELSE [t EXCEPT !.node[node.prePage].next = node.next]
              /\ leaked' = {p, t.rootPage}
           \/ /\ ~OffFile(t, node.prePage) /\ ~OffFile(t, node.next) /\ node.parent = IX_NO_PAGE
              /\ tree' = PassedBy(t, p) /\ leaked' = {p}
  /\ entries' = entries \ {r} /\ gone' = gone \cup {r}
  /\ trouble' = trouble \cup {"leafGone"}
  /\ UNCHANGED <<isOpen, page0>>

(* A row that the search does not find.  Unless there is no tree, the root *)
(* stays pinned.                                                           *)
DeleteNotFound(r) ==
  /\ Usable /\ Shallow(tree) /\ ~Finds(tree, r)
  /\ leaked' = {tree.rootPage} \ {IX_NO_PAGE}
  /\ UNCHANGED <<tree, isOpen, page0, history>>
-----------------------------------------------------------------------------
OpenIndex ==
  /\ ~isOpen
  /\ isOpen' = TRUE
  /\ tree' = [tree EXCEPT !.rootPage = page0, !.modified = FALSE]
  /\ UNCHANGED <<page0, leaked, history>>

(* closeIndex. *)
CloseIndex ==
  /\ Usable
  /\ page0' = IF tree.modified THEN tree.rootPage ELSE page0
  /\ tree' = [tree EXCEPT !.modified = FALSE]
  /\ isOpen' = FALSE
  /\ UNCHANGED <<leaked, history>>

IndexNext ==
  \/ OpenIndex \/ CloseIndex
  \/ \E r \in Rows :
       \/ InsertEntry(r) \/ InsertEntryFails(r)
       \/ DeleteEntry(r) \/ DeleteLastEntry(r) \/ DeleteLastEntryFails(r) \/ DeleteNotFound(r)

IndexSpec == IndexInit /\ [][IndexNext]_indexVars
-----------------------------------------------------------------------------
(* While the tree has one level of inner nodes and no key was inserted     *)
(* that was there or is a separator, the search finds the rows that were   *)
(* inserted and not deleted, and no others: across splits, leaves that go, *)
(* a root that is given up, and reopening.                                 *)
SearchExact ==
  isOpen /\ Shallow(tree) /\ trouble \subseteq {"leafGone"}
    => {r \in Rows : Finds(tree, r)} = entries
=============================================================================
