----------------------------- MODULE DML_Manager -----------------------------
(***************************************************************************)
(* Insertion of rows, sql/dml_manager.cpp: the record, and then an entry   *)
(* in each index of the table, with the table's file open all the time and *)
(* the index files one at a time.  A row stands for its rid and its keys.  *)
(* Tables, indexes and failing steps are those of DDL_Manager.             *)
(***************************************************************************)
EXTENDS DDL_Manager

(* Rows that some file or handle has had an insert for (bound: a row is    *)
(* inserted again only when nothing has it any more).                      *)
RowsIn(f, S) == IF f[2] = NO_INDEX THEN S ELSE {e.row : e \in S}
Tried == UNION ({kept[t] : t \in Tables}
                \cup {RowsIn(f, file[f]) : f \in {g \in Files : file[g] # NoFile}}
                \cup {RowsIn(l.f, l.rows) : l \in lost})

(* getRelInfo, getAttrInfo, openFile and insertRec.  A table whose         *)
(* attribute rows a failed call has left incomplete is not inserted into   *)
(* (bound).                                                                *)
InsertWrong(t, r) ==
  /\ Start /\ relOpen /\ attrOpen
  /\ relcat[t] # NoRow /\ Len(attrcat[t]) = AttrCount
  /\ file[TableFile(t)] # NoFile /\ r \notin Tried
  /\ call' = [Begin("insert", "index", t, 0) EXCEPT
                !.i = 2, !.row = r, !.rows = file[TableFile(t)] \cup {r}]
  /\ UNCHANGED <<handles, catalog, onDisk, file, lost, faulty, kept>>
Insert(t, r) ==
  /\ Start /\ relOpen /\ attrOpen
  /\ relcat[t] # NoRow /\ Len(attrcat[t]) = AttrCount
  /\ file[TableFile(t)] # NoFile /\ r \notin Tried
  /\ call' = [Begin("insert", "index", t, 0) EXCEPT
                !.i = 1, !.row = r, !.rows = file[TableFile(t)] \cup {r}]
  /\ UNCHANGED <<handles, catalog, onDisk, file, lost, faulty, kept>>

(* openIndex and insertEntry for the next catalog row with an index, going *)
(* by the rows read before the insert.  The value is the one at the same   *)
(* place among those given, which is also the column it has in the record, *)
(* whatever attribute the catalog row names.  Then closeIndex.             *)
InsertIndex ==
  /\ At("insert", "index") /\ call.i <= AttrCount
  /\ LET n == attrcat[call.t][call.i].indexNo
     IN IF n = NO_INDEX
        THEN call' = [call EXCEPT !.i = @ + 1]
        ELSE /\ file[IndexFile(call.t, n)] # NoFile
             /\ \E F \in Entered(file[IndexFile(call.t, n)], {call.row}, call.i) :
                  call' = [call EXCEPT !.step = "closeIndex", !.n = n, !.entries = F]
  /\ UNCHANGED <<handles, catalog, onDisk, file, lost, faulty, kept>>
InsertCloseIndex ==
  /\ At("insert", "closeIndex")
  /\ file' = [file EXCEPT ![IndexFile(call.t, call.n)] = call.entries]
  /\ call' = [call EXCEPT !.step = "index", !.i = @ + 1, !.n = NO_INDEX, !.entries = NoFile]
  /\ UNCHANGED <<handles, catalog, onDisk, lost, faulty, kept>>

(* closeFile, and 0 is returned.  A row is kept for good only when no      *)
(* handle of an earlier insert still has the table without it.             *)
InsertCloseWrong ==
  /\ At("insert", "index") /\ call.i > AttrCount
  /\ kept' = [kept EXCEPT ![call.t] = IF \E l \in lost : l.f = TableFile(call.t)
                                      THEN @ ELSE @ \cup {call.row}]
  /\ Return
  /\ UNCHANGED <<handles, catalog, onDisk, file, lost, faulty>>
InsertClose ==
  /\ At("insert", "index") /\ call.i > AttrCount
  /\ file' = [file EXCEPT ![TableFile(call.t)] = call.rows]
  /\ kept' = [kept EXCEPT ![call.t] = IF \E l \in lost : l.f = TableFile(call.t)
                                      THEN @ ELSE @ \cup {call.row}]
  /\ Return
  /\ UNCHANGED <<handles, catalog, onDisk, lost, faulty>>

Next ==
  \/ CatalogNext
  \/ \E t \in Tables, r \in Rows : Insert(t, r)
  \/ InsertIndex \/ InsertCloseIndex \/ InsertClose
Spec == Init /\ [][Next]_vars
-----------------------------------------------------------------------------
(* A row whose insert returned 0 stays in its table until the table is     *)
(* dropped: no later insert or createIndex that fails in whatever step, no *)
(* write by a handle such a call has left open and no crash takes it away. *)
RowsStay == \A t \in Tables : kept[t] # {} => kept[t] \subseteq file[TableFile(t)]

(* Every index of a table at rest has entries of the table's rows only,    *)
(* with the key of their column, and one for the key of every row, of      *)
(* those inserted before it was created and of those inserted since.  The  *)
(* column is that of the attribute (createIndex) or the place of its row   *)
(* in attrcat (insert): the same one when attrcat returns the rows in      *)
(* their order.                                                            *)
Columns(t, n) == {attrcat[t][n + 1].attrName, n + 1}
Covers(E, R, C) ==
  /\ \A e \in E : e.row \in R /\ \E c \in C : e.key = Key[e.row][c]
  /\ \A r \in R : \E e \in E, c \in C : e.key = Key[r][c]
IndexesExact ==
  \A t \in Tables : AtRest(t) =>
    \A n \in Indexed(t) : Covers(file[IndexFile(t, n)], file[TableFile(t)], Columns(t, n))
=============================================================================
