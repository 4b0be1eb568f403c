----------------------------- MODULE DDL_Manager -----------------------------
(***************************************************************************)
(* The catalog of a database: sql/ddl_manager.cpp over the record files    *)
(* relcat and attrcat, and the files of the tables and indexes it names.   *)
(* A call changes one of them after the other.  Between any two of these   *)
(* steps the next one may fail, the pool may write a page, or the process  *)
(* may end; nothing is undone then.                                        *)
(*                                                                         *)
(* Record files and indexes are what RM_FileHandle and IX_IndexHandle say  *)
(* they are: a set of rows, or of entries in the leaves, that reaches the  *)
(* file when it is forced or closed, and perhaps before.  The rows of a    *)
(* catalog lie in any page that had room, so that those of one table are   *)
(* scanned in any order, and keep that order while they stay.              *)
(***************************************************************************)
EXTENDS Integers, SequencesExt

CONSTANTS Tables,
          AttrCount,  \* attributes of a table, all of type INT
          Rows,
          Key,        \* row -> column of the record -> the value in it
          NoRow, NoFile

Attrs == 1 .. AttrCount

(* An entry of an index on a column. *)
Entry(r, c) == [key |-> Key[r][c], row |-> r]
Entries == {Entry(r, c) : r \in Rows, c \in Attrs}

ASSUME CatalogAssumption ==
  /\ AttrCount \in Nat \ {0}
  /\ NoRow \notin Int /\ \A S \in SUBSET (Rows \cup Entries) : NoFile # S
MaxAttrRows == AttrCount + 1  \* bound, reached by what failed calls leave
MaxIndexCount == AttrCount    \* bound, the same
IndexNos == 0 .. MaxAttrRows - 1
NO_INDEX == -1

(* Files are named by the table and the number of an index; the table's    *)
(* own file has the number -1.                                             *)
Files == Tables \X (-1 .. MaxAttrRows - 1)
TableFile(t) == <<t, -1>>
IndexFile(t, n) == <<t, n>>

VARIABLES bDbOpen, relOpen, attrOpen,  \* relFileHandle and attrFileHandle
          relcat,    \* table -> its indexCount, or NoRow
          attrcat,   \* table -> its rows [attrName, indexNo] in scan order
          relDisk, attrDisk,           \* the same as the files have it
          file,      \* file -> the rows or the entries it holds, or NoFile
          call,      \* the call in progress: how far it is
          lost,      \* what handles that were never closed keep in the pool
          hurt,      \* history: tables a call was cut short for
          faults,    \* history: what has gone wrong
          kept       \* history: table -> rows that insert returned 0 for

handles == <<bDbOpen, relOpen, attrOpen>>
catalog == <<relcat, attrcat>>
onDisk == <<relDisk, attrDisk>>
faulty == <<hurt, faults>>
vars == <<handles, catalog, onDisk, file, call, lost, faulty, kept>>

(* Table and attribute, the position in attrcat, the index number, and the *)
(* contents of the table and the index that are open for writing.          *)
Idle == [op |-> "none", step |-> "none", t |-> NoRow, a |-> 0, i |-> 0, n |-> NO_INDEX,
         row |-> NoRow, rows |-> NoFile, entries |-> NoFile]
Begin(op, step, t, a) == [Idle EXCEPT !.op = op, !.step = step, !.t = t, !.a = a]
At(op, step) == call.op = op /\ call.step = step
Goto(step) == call' = [call EXCEPT !.step = step]
Return == call' = Idle

(* A step fails once and the process ends once, both in calls for the same *)
(* table if in a call at all (bounds).                                     *)
Fault(kind, T) ==
  /\ kind \notin faults /\ faults' = faults \cup {kind}
  /\ hurt' = hurt \cup T /\ Cardinality(hurt') <= 1
Fails(T) == Fault("failure", T)
FailsIf(wrong) == IF wrong THEN Fails({call'.t}) ELSE UNCHANGED faulty

(* After dbcreate. *)
Init ==
  /\ bDbOpen = FALSE /\ relOpen = FALSE /\ attrOpen = FALSE
  /\ relcat = [t \in Tables |-> NoRow] /\ relDisk = relcat
  /\ attrcat = [t \in Tables |-> << >>] /\ attrDisk = attrcat
  /\ file = [f \in Files |-> NoFile]
  /\ call = Idle /\ lost = {}
  /\ hurt = {} /\ faults = {} /\ kept = [t \in Tables |-> {}]
-----------------------------------------------------------------------------
OpenDb ==
  /\ ~bDbOpen /\ ~relOpen
  /\ relOpen' = TRUE
  /\ \/ bDbOpen' = TRUE /\ attrOpen' = TRUE /\ UNCHANGED faulty
     \/ bDbOpen' = FALSE /\ attrOpen' \in BOOLEAN /\ Fails({})  \* attrcat fails
  /\ UNCHANGED <<catalog, onDisk, file, call, lost, kept>>

(* closeDb, and the call that fails on attrcat: then relcat is closed, and *)
(* the database is neither open nor closed for good.                       *)
CloseDb ==
  /\ call = Idle /\ bDbOpen /\ relOpen
  /\ relOpen' = FALSE /\ relDisk' = relcat
  /\ \/ attrOpen' = FALSE /\ bDbOpen' = FALSE /\ attrDisk' = attrcat
        /\ UNCHANGED faulty
     \/ Fails({}) /\ UNCHANGED <<attrOpen, bDbOpen, attrDisk>>
  /\ UNCHANGED <<catalog, file, call, lost, kept>>

Start == call = Idle /\ bDbOpen
-----------------------------------------------------------------------------
(* createTable: the file first, which must not be there yet. *)
CreateTable(t) ==
  /\ Start /\ file[TableFile(t)] = NoFile
  /\ Len(attrcat[t]) + AttrCount <= MaxAttrRows
  /\ file' = [file EXCEPT ![TableFile(t)] = {}]
  /\ call' = Begin("createTable", "relRow", t, 0)
  /\ UNCHANGED <<handles, catalog, onDisk, lost, faulty, kept>>

(* createFile fails and leaves a file behind. *)
CreateTableFails(t) ==
  /\ Start /\ file[TableFile(t)] = NoFile
  /\ file' = [file EXCEPT ![TableFile(t)] = {}]
  /\ Fails({t})
  /\ UNCHANGED <<handles, catalog, onDisk, call, lost, kept>>

(* insertRec in relcat, whose return code nobody looks at. *)
CreateRelRow ==
  /\ At("createTable", "relRow")
  /\ \/ relOpen /\ relcat' = [relcat EXCEPT ![call.t] = 0] /\ UNCHANGED faulty
     \/ relOpen /\ Fails({call.t}) /\ UNCHANGED relcat
     \/ ~relOpen /\ hurt' = hurt \cup {call.t} /\ UNCHANGED <<relcat, faults>>
  /\ Goto("attrRow")
  /\ UNCHANGED <<handles, attrcat, onDisk, file, lost, kept>>

(* One row for each attribute.  It goes to the page at the head of the     *)
(* list of pages with room, which rows deleted before have put there in    *)
(* any order, so that a scan may return it before the rows of the table    *)
(* that are there already, between them or after them.                     *)
CreateAttrRow ==
  /\ At("createTable", "attrRow") /\ attrOpen
  /\ \E pos \in 1 .. Len(attrcat[call.t]) + 1 :
       attrcat' = [attrcat EXCEPT ![call.t] =
                     InsertAt(@, pos, [attrName |-> call.a + 1, indexNo |-> NO_INDEX])]
  /\ call' = [call EXCEPT !.a = @ + 1,
                          !.step = IF call.a + 1 = AttrCount THEN "forceRel" ELSE @]
  /\ UNCHANGED <<handles, relcat, onDisk, file, lost, faulty, kept>>

(* All four calls force the catalog in the same way, and only then do they *)
(* go on to the files.                                                     *)
ForceRelWrong ==
  /\ call.step = "forceRel" /\ Goto("forceAttr")
  /\ relOpen
  /\ UNCHANGED <<handles, catalog, onDisk, file, lost, faulty, kept>>
ForceRel ==
  /\ call.step = "forceRel" /\ Goto("forceAttr")
  /\ relOpen /\ relDisk' = relcat
  /\ UNCHANGED <<handles, catalog, attrDisk, file, lost, faulty, kept>>
ForceAttr ==
  /\ call.step = "forceAttr"
  /\ IF call.op = "createTable" THEN Return ELSE Goto("files")
  /\ attrOpen /\ attrDisk' = attrcat
  /\ UNCHANGED <<handles, catalog, relDisk, file, lost, faulty, kept>>
-----------------------------------------------------------------------------
(* An unlinked file takes nothing more from handles still open on it. *)
Unlink(f) ==
  /\ file[f] # NoFile
  /\ file' = [file EXCEPT ![f] = NoFile]
  /\ lost' = {l \in lost : l.f # f}

(* dropTable: the row in relcat first. *)
DropTable(t) ==
  /\ Start /\ relOpen /\ relcat[t] # NoRow
  /\ relcat' = [relcat EXCEPT ![t] = NoRow]
  /\ kept' = [kept EXCEPT ![t] = {}]
  /\ call' = Begin("dropTable", "attrRow", t, 0)
  /\ UNCHANGED <<handles, attrcat, onDisk, file, lost, faulty>>

(* The next row of attrcat: its index goes first, if it has one. *)
DropAttrIndex ==
  /\ At("dropTable", "attrRow") /\ attrOpen /\ attrcat[call.t] # << >>
  /\ Head(attrcat[call.t]).indexNo # NO_INDEX
  /\ Unlink(IndexFile(call.t, Head(attrcat[call.t]).indexNo))
  /\ Goto("deleteRow")
  /\ UNCHANGED <<handles, catalog, onDisk, faulty, kept>>
DropAttrRow ==
  /\ \/ At("dropTable", "deleteRow")
     \/ /\ At("dropTable", "attrRow") /\ attrcat[call.t] # << >>
        /\ Head(attrcat[call.t]).indexNo = NO_INDEX
  /\ attrOpen
  /\ attrcat' = [attrcat EXCEPT ![call.t] = Tail(@)]
  /\ Goto("attrRow")
  /\ UNCHANGED <<handles, relcat, onDisk, file, lost, faulty, kept>>

(* A getNextRec that fails ends the loop like the end of the scan. *)
DropNoMoreRows ==
  /\ At("dropTable", "attrRow") /\ attrOpen
  /\ Goto("forceRel") /\ FailsIf(attrcat[call.t] # << >>)
  /\ UNCHANGED <<handles, catalog, onDisk, file, lost, kept>>

DropFile ==
  /\ At("dropTable", "files") /\ Unlink(TableFile(call.t)) /\ Return
  /\ UNCHANGED <<handles, catalog, onDisk, faulty, kept>>
-----------------------------------------------------------------------------
(* getAttrcatRec, for a table that has rows: the row of the attribute, or  *)
(* the last row when the table has no such attribute.  A getNextRec that   *)
(* fails ends the search at a row before it as if that were the one.       *)
Found(t, a) ==
  LET named == {i \in DOMAIN attrcat[t] : attrcat[t][i].attrName = a}
  IN IF named = {} THEN Len(attrcat[t]) ELSE CHOOSE i \in named : \A j \in named : i <= j

(* indexExists finds the row without an index; getRelcatRec. *)
CreateIndex(t, a) ==
  /\ Start /\ attrOpen /\ relOpen /\ relcat[t] # NoRow
  /\ \E i \in DOMAIN attrcat[t] : attrcat[t][i].attrName = a
  /\ \E i \in 1 .. Found(t, a) :
       /\ attrcat[t][i].indexNo = NO_INDEX
       /\ call' = Begin("createIndex", "attr", t, a)
       /\ FailsIf(i # Found(t, a))
  /\ relcat[t] < MaxIndexCount
  /\ relcat' = [relcat EXCEPT ![t] = @ + 1]
  /\ UNCHANGED <<handles, attrcat, onDisk, file, lost, kept>>

(* The number of the index is the position of its row among the table's. *)
IndexAttr ==
  /\ At("createIndex", "attr")
  /\ LET i == Found(call.t, call.a)
     IN /\ attrcat' = [attrcat EXCEPT ![call.t][i].indexNo = i - 1]
        /\ call' = [call EXCEPT !.n = i - 1, !.step = "forceRel"]
  /\ UNCHANGED <<handles, relcat, onDisk, file, lost, faulty, kept>>

(* createIndex and openIndex of IX, and openFile of the table. *)
CreateIndexFile ==
  /\ At("createIndex", "files")
  /\ file[IndexFile(call.t, call.n)] = NoFile
  /\ file' = [file EXCEPT ![IndexFile(call.t, call.n)] = {}]
  /\ Goto("fill")
  /\ UNCHANGED <<handles, catalog, onDisk, lost, faulty, kept>>

(* What the leaves of an index with the entries E may hold after an        *)
(* insertEntry that returns 0 for each row of S, on column c.  A key that  *)
(* is not there yet gets an entry.  A key that is there gets another one,  *)
(* or none: in a root that is a leaf the row goes to an overflow page that *)
(* nothing leads to.                                                       *)
Entered(E, S, c) ==
  LET new == {Entry(r, c) : r \in S}
  IN {F \in SUBSET (E \cup new) :
        E \subseteq F /\ \A e \in new : \E g \in F : g.key = e.key}

(* insertEntry for every row, with the value at the attribute's offset.  A *)
(* getNextRec that fails ends the loop like the end of the scan.           *)
FillIndex ==
  /\ At("createIndex", "fill") /\ file[TableFile(call.t)] # NoFile
  /\ \E S \in SUBSET file[TableFile(call.t)] : \E F \in Entered({}, S, call.a) :
       /\ call' = [call EXCEPT !.entries = F, !.step = "close"]
       /\ FailsIf(S # file[TableFile(call.t)])
  /\ UNCHANGED <<handles, catalog, onDisk, file, lost, kept>>
CloseNewIndex ==
  /\ At("createIndex", "close")
  /\ file' = [file EXCEPT ![IndexFile(call.t, call.n)] = call.entries]
  /\ Return
  /\ UNCHANGED <<handles, catalog, onDisk, lost, faulty, kept>>

(* dropIndex, a also a name the table does not have: indexExists finds a   *)
(* row with an index, and getAttrcatRec is called again after relcat.      *)
DropIndex(t, a) ==
  /\ Start /\ attrOpen /\ relOpen /\ relcat[t] # NoRow
  /\ attrcat[t] # << >>
  /\ \E i \in 1 .. Found(t, a) :
       /\ attrcat[t][i].indexNo # NO_INDEX
       /\ call' = Begin("dropIndex", "attr", t, a)
       /\ FailsIf(i # Found(t, a))
  /\ relcat[t] > -MaxIndexCount
  /\ relcat' = [relcat EXCEPT ![t] = @ - 1]
  /\ UNCHANGED <<handles, attrcat, onDisk, file, lost, kept>>
DropIndexAttrWrong ==
  /\ At("dropIndex", "attr")
  /\ \E i \in 1 .. Found(call.t, call.a) :
       /\ call' = [call EXCEPT !.n = attrcat[call.t][i].indexNo, !.step = "forceRel"]
       /\ FailsIf(i # Found(call.t, call.a))
  /\ UNCHANGED <<handles, catalog, onDisk, file, lost, kept>>
DropIndexAttr ==
  /\ At("dropIndex", "attr")
  /\ \E i \in 1 .. Found(call.t, call.a) :
       /\ attrcat' = [attrcat EXCEPT ![call.t][i].indexNo = NO_INDEX]
       /\ call' = [call EXCEPT !.n = attrcat[call.t][i].indexNo, !.step = "forceRel"]
       /\ FailsIf(i # Found(call.t, call.a))
  /\ UNCHANGED <<handles, relcat, onDisk, file, lost, kept>>
DropIndexFile ==
  /\ At("dropIndex", "files") /\ call.n # NO_INDEX
  /\ Unlink(IndexFile(call.t, call.n)) /\ Return
  /\ UNCHANGED <<handles, catalog, onDisk, faulty, kept>>
-----------------------------------------------------------------------------
(* The contents a call has open for writing and not in the file yet. *)
Dirty == {l \in {[f |-> TableFile(call.t), rows |-> call.rows],
                 [f |-> IndexFile(call.t, call.n), rows |-> call.entries]} :
            l.rows # NoFile}

(* A step of the call fails and the call returns: what is done stays done, *)
(* the catalog forced or not, and what is open stays open.  destroyFile of *)
(* a table can fail on the second of its two files, and the creation of an *)
(* index after its file is there.                                          *)
StepFails ==
  /\ call # Idle
  /\ Fails({call.t})
  /\ \/ lost' = lost \cup Dirty /\ UNCHANGED file
     \/ At("dropTable", "files") /\ Unlink(TableFile(call.t))
     \/ /\ At("createIndex", "files") /\ file[IndexFile(call.t, call.n)] = NoFile
        /\ file' = [file EXCEPT ![IndexFile(call.t, call.n)] = {}]
        /\ UNCHANGED lost
  /\ Return
  /\ UNCHANGED <<handles, catalog, onDisk, kept>>

(* The pool writes a page of a catalog, of a file the call has open, or of *)
(* one that an earlier call has left open.                                 *)
Evict ==
  /\ \/ /\ \E t \in Tables : relDisk' = [relDisk EXCEPT ![t] = relcat[t]]
        /\ UNCHANGED <<attrDisk, file>>
     \/ /\ \E t \in Tables : attrDisk' = [attrDisk EXCEPT ![t] = attrcat[t]]
        /\ UNCHANGED <<relDisk, file>>
     \/ /\ \E l \in lost \cup Dirty :
             file[l.f] # NoFile /\ file' = [file EXCEPT ![l.f] = l.rows]
        /\ UNCHANGED onDisk
  /\ UNCHANGED <<handles, catalog, call, lost, faulty, kept>>

(* The process ends, in a call or between two. *)
Crash ==
  /\ bDbOpen' = FALSE /\ relOpen' = FALSE /\ attrOpen' = FALSE
  /\ relcat' = relDisk /\ attrcat' = attrDisk
  /\ lost' = {} /\ call' = Idle
  /\ Fault("end", {call.t} \cap Tables)
  /\ UNCHANGED <<onDisk, file, kept>>

CatalogNext ==
  \/ OpenDb \/ CloseDb
  \/ \E t \in Tables :
       \/ CreateTable(t) \/ CreateTableFails(t) \/ DropTable(t)
       \/ \E a \in Attrs : CreateIndex(t, a)
       \/ \E a \in 0 .. AttrCount : DropIndex(t, a)
  \/ CreateRelRow \/ CreateAttrRow \/ ForceRel \/ ForceAttr
  \/ DropAttrIndex \/ DropAttrRow \/ DropNoMoreRows \/ DropFile
  \/ IndexAttr \/ CreateIndexFile \/ FillIndex \/ CloseNewIndex
  \/ DropIndexAttr \/ DropIndexFile
  \/ StepFails \/ Evict \/ Crash
-----------------------------------------------------------------------------
(* Every table the catalog names has its file: in the handle and on disk,  *)
(* whichever step of whichever call failed or was the last before the end  *)
(* of the process.                                                         *)
TablesHaveFiles ==
  \A t \in Tables :
    relcat[t] # NoRow \/ relDisk[t] # NoRow => file[TableFile(t)] # NoFile

(* The table as it should be: one row for each attribute, in any order, an *)
(* index count and index files that agree with them; the index of the row  *)
(* that is scanned first has number 0, and so on.                          *)
Indexed(t) == {n \in IndexNos : file[IndexFile(t, n)] # NoFile}
CatalogRowsExact(t) ==
  IF file[TableFile(t)] = NoFile
  THEN relcat[t] = NoRow /\ attrcat[t] = << >> /\ Indexed(t) = {}
  ELSE /\ relcat[t] = Cardinality(Indexed(t))
       /\ Len(attrcat[t]) = AttrCount
       /\ \A a \in Attrs : \E i \in Attrs : attrcat[t][i].attrName = a
       /\ \A i \in Attrs :
            attrcat[t][i].indexNo = IF i - 1 \in Indexed(t) THEN i - 1 ELSE NO_INDEX
       /\ \A n \in Indexed(t) : n + 1 \in Attrs

(* A table that no call was cut short for has exactly its catalog rows,    *)
(* its file and its index files, in the handles and on disk: across drops  *)
(* and creations under the same name, failures in calls for other tables,  *)
(* and crashes.                                                            *)
AtRest(t) == t \notin hurt /\ call.t # t
CatalogExact ==
  \A t \in Tables : AtRest(t) =>
    CatalogRowsExact(t) /\ relDisk[t] = relcat[t] /\ attrDisk[t] = attrcat[t]
=============================================================================
