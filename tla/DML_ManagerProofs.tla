-------------------------- MODULE DML_ManagerProofs ---------------------------
(***************************************************************************)
(* Safety of the catalog and of the rows of its tables, for any number of  *)
(* tables, rows and attributes: a table that the catalog names has its     *)
(* file, and a row whose insert returned 0 is not taken away.              *)
(*                                                                         *)
(* Neither is inductive.  SafeInv adds what a half-done call has           *)
(* established by the step it is at, and that every content that may still *)
(* be written over a file, by the call in progress or through the handle a *)
(* failed call has left open, has the rows that are kept.                  *)
(*                                                                         *)
(* The second half proves on top of it that the catalog says what there    *)
(* is: the rows of relcat and attrcat of a table at rest are those of its  *)
(* file and its indexes, and every index has the keys of the table's rows. *)
(* At rest is between two calls; the induction needs the exact content of  *)
(* the catalog, and what each index has to hold (Holds), at each step in   *)
(* between.  ExactInv says it for every call by its step (TableExact), for *)
(* all tables that no failed call and no crash has hurt.  Rows of attrcat  *)
(* are identified by their position in the scan, never by the attribute    *)
(* they name: the two may differ.                                          *)
(***************************************************************************)
EXTENDS DML_Manager, Lemmas, SequenceTheorems

-----------------------------------------------------------------------------
Steps == {"none", "relRow", "attrRow", "forceRel", "forceAttr", "files", "deleteRow",
          "attr", "fill", "close", "index", "closeIndex"}
Ops == {"none", "createTable", "dropTable", "createIndex", "dropIndex", "insert"}
AttrRow == [attrName : Nat, indexNo : IndexNos \cup {NO_INDEX}]
RowSets == (SUBSET Rows) \cup {NoFile}
Contents == (SUBSET (Rows \cup Entries)) \cup {NoFile}
Call == [op : Ops, step : Steps, t : Tables \cup {NoRow}, a : Nat, i : Nat, n : Int,
         row : Rows \cup {NoRow}, rows : RowSets, entries : Contents]
Count == Int \cup {NoRow}

(* The types of what the calls compute with. *)
Typed ==
  /\ relcat \in [Tables -> Count] /\ relDisk \in [Tables -> Count]
  /\ attrcat \in [Tables -> Seq(AttrRow)] /\ attrDisk \in [Tables -> Seq(AttrRow)]
  /\ file \in [Files -> Contents]
  /\ kept \in [Tables -> SUBSET Rows]
  /\ \A t \in Tables : Len(attrcat[t]) <= MaxAttrRows /\ Len(attrDisk[t]) <= MaxAttrRows
  /\ call \in Call
  /\ \A l \in lost : l.rows \in SUBSET (Rows \cup Entries)

(* The file of a table has rows, and so has whatever may be written over   *)
(* it; a row that is kept is in all of these.                              *)
RowsSafe ==
  \A t \in Tables :
    /\ file[TableFile(t)] \in RowSets
    /\ \A l \in lost : l.f = TableFile(t) => l.rows \in RowSets
    /\ kept[t] # {} =>
         /\ file[TableFile(t)] # NoFile /\ kept[t] \subseteq file[TableFile(t)]
         /\ \A l \in lost : l.f = TableFile(t) => kept[t] \subseteq l.rows
         /\ call.t = t /\ call.rows # NoFile => kept[t] \subseteq call.rows

(* What a call has established by the step it is at. *)
CallSound ==
  /\ IF call.op = "none" THEN call.step = "none" ELSE call.t \in Tables
  /\ call.rows # NoFile => call.op = "insert"
  /\ call.entries # NoFile => call.op \in {"insert", "createIndex"} /\ call.n \in IndexNos
  /\ call.op = "insert" =>
       /\ call.step \in {"index", "closeIndex"}
       /\ call.rows # NoFile /\ call.row \in Rows /\ call.row \in call.rows
       /\ call.i >= 1 /\ Len(attrcat[call.t]) = AttrCount
       /\ call.step = "closeIndex" => call.entries # NoFile
  /\ call.op = "createTable" =>
       /\ call.step \in {"relRow", "attrRow", "forceRel", "forceAttr"}
       /\ file[TableFile(call.t)] # NoFile
       /\ call.step \in {"relRow", "attrRow"} =>
            call.a < AttrCount /\ Len(attrcat[call.t]) + AttrCount <= MaxAttrRows + call.a
  /\ call.op = "dropTable" =>
       /\ call.step \in {"attrRow", "deleteRow", "forceRel", "forceAttr", "files"}
       /\ relcat[call.t] = NoRow /\ kept[call.t] = {}
       /\ call.step = "deleteRow" => attrcat[call.t] # << >>
       /\ call.step \in {"forceAttr", "files"} => relDisk[call.t] = NoRow
  /\ call.op = "createIndex" =>
       /\ call.step \in {"attr", "forceRel", "forceAttr", "files", "fill", "close"}
       /\ call.a \in Attrs
       /\ IF call.step = "attr"
          THEN \E i \in DOMAIN attrcat[call.t] : attrcat[call.t][i].attrName = call.a
          ELSE call.n \in IndexNos
       /\ call.step = "close" => call.entries # NoFile
  /\ call.op = "dropIndex" => call.step \in {"attr", "forceRel", "forceAttr", "files"}

SafeInv == Typed /\ TablesHaveFiles /\ RowsSafe /\ CallSound

-----------------------------------------------------------------------------
(* The values that are none: NoRow, NoFile and NO_INDEX. *)
LEMMA Values ==
  /\ \A S \in SUBSET (Rows \cup Entries) : S # NoFile
  /\ NO_INDEX \in Int /\ NO_INDEX \notin Nat /\ NoRow \notin Int
  /\ NoFile \in Contents /\ \A S \in SUBSET (Rows \cup Entries) : S \in Contents
  /\ \A S \in Contents : S # NoFile => S \in SUBSET (Rows \cup Entries)
  /\ NoFile \in RowSets /\ \A S \in SUBSET Rows : S \in RowSets /\ S \in Contents
  /\ \A S \in RowSets : S \in Contents /\ (S # NoFile => S \in SUBSET Rows)
BY CatalogAssumption DEF NO_INDEX, Contents, RowSets

(* The file of a table, and those of its indexes, have names of their own. *)
LEMMA FileNames ==
  /\ \A t \in Tables : TableFile(t) \in Files
  /\ \A t, u : TableFile(t) = TableFile(u) => t = u
  /\ \A n \in IndexNos : n \in Nat /\ n # NO_INDEX
  /\ \A t \in Tables, n \in IndexNos : IndexFile(t, n) \in Files
  /\ \A t, u, n : n # NO_INDEX => IndexFile(t, n) # TableFile(u)
BY CatalogAssumption DEF TableFile, IndexFile, NO_INDEX, Files, MaxAttrRows, IndexNos

(* No call, a call that begins, and one that goes on. *)
LEMMA IdleFacts ==
  /\ Idle \in Call
  /\ Idle.op = "none" /\ Idle.step = "none" /\ Idle.t = NoRow /\ Idle.i = 0
  /\ Idle.n = NO_INDEX /\ Idle.rows = NoFile /\ Idle.entries = NoFile
<1>1. "none" \in Ops /\ "none" \in Steps /\ NO_INDEX \in Int /\ NoFile \in Contents
      /\ NoFile \in RowSets
  BY DEF Ops, Steps, NO_INDEX, Contents, RowSets
<1> QED BY <1>1 DEF Idle, Call

LEMMA BeginFacts ==
  ASSUME NEW op \in Ops, NEW step \in Steps, NEW t \in Tables, NEW a \in Nat
  PROVE  LET c == Begin(op, step, t, a)
         IN /\ c \in Call
            /\ c.op = op /\ c.step = step /\ c.t = t /\ c.a = a /\ c.i = 0
            /\ c.n = NO_INDEX /\ c.rows = NoFile /\ c.entries = NoFile
BY IdleFacts DEF Begin, Call

(* A step of a call that leaves its table and what it has open alone. *)
Same == /\ call'.op = call.op /\ call'.t = call.t /\ call'.row = call.row
        /\ call'.rows = call.rows

LEMMA CallTypes ==
  ASSUME call \in Call
  PROVE  /\ call.t \in Tables \cup {NoRow} /\ call.a \in Nat /\ call.i \in Nat /\ call.n \in Int
         /\ call.row \in Rows \cup {NoRow} /\ call.rows \in RowSets /\ call.entries \in Contents
BY DEF Call

LEMMA GotoFacts ==
  ASSUME call \in Call, NEW step \in Steps, Goto(step)
  PROVE  /\ call' \in Call /\ call'.step = step /\ Same
         /\ call'.a = call.a /\ call'.i = call.i /\ call'.n = call.n
         /\ call'.entries = call.entries
BY DEF Goto, Call, Same

(* InsertAt keeps the order of what was there. *)
LEMMA InsertAtFacts ==
  ASSUME NEW S, NEW s \in Seq(S), NEW pos \in 1 .. Len(s) + 1, NEW e \in S
  PROVE  LET r == InsertAt(s, pos, e)
         IN /\ r \in Seq(S) /\ Len(r) = Len(s) + 1
            /\ \A i \in 1 .. Len(s) + 1 :
                 r[i] = IF i < pos THEN s[i] ELSE IF i = pos THEN e ELSE s[i - 1]
<1>1. Len(s) \in Nat /\ \A i \in 1 .. Len(s) : s[i] \in S
  BY LenProperties, ElementOfSeq
<1> DEFINE u == SubSeq(s, 1, pos - 1)
           v == SubSeq(s, pos, Len(s))
<1>2. u \in Seq(S) /\ Len(u) = pos - 1 /\ \A i \in 1 .. pos - 1 : u[i] = s[i]
  <2>1. \A i \in 1 .. pos - 1 : s[i] \in S
    BY <1>1
  <2>2. /\ u \in Seq(S) /\ Len(u) = IF 1 <= pos - 1 THEN (pos - 1) - 1 + 1 ELSE 0
        /\ \A i \in 1 .. (pos - 1) - 1 + 1 : u[i] = s[1 + i - 1]
    BY <1>1, <2>1, SubSeqProperties
  <2> HIDE DEF u
  <2> QED BY <1>1, <2>2
<1>3. /\ v \in Seq(S) /\ Len(v) = Len(s) + 1 - pos
      /\ \A i \in 1 .. Len(s) + 1 - pos : v[i] = s[i + pos - 1]
  <2>1. \A i \in pos .. Len(s) : s[i] \in S
    BY <1>1
  <2>2. /\ v \in Seq(S) /\ Len(v) = IF pos <= Len(s) THEN Len(s) - pos + 1 ELSE 0
        /\ \A i \in 1 .. Len(s) - pos + 1 : v[i] = s[pos + i - 1]
    BY <1>1, <2>1, SubSeqProperties
  <2> HIDE DEF v
  <2> QED BY <1>1, <2>2
<1> HIDE DEF u, v
<1>4. <<e>> \in Seq(S) /\ Len(<<e>>) = 1 /\ <<e>>[1] = e
  OBVIOUS
<1> DEFINE w == u \o <<e>>
<1>5. /\ w \in Seq(S) /\ Len(w) = pos
      /\ \A i \in 1 .. pos : w[i] = IF i < pos THEN s[i] ELSE e
  <2>1. /\ w \in Seq(S) /\ Len(w) = Len(u) + 1
        /\ \A i \in 1 .. Len(u) + 1 : w[i] = IF i <= Len(u) THEN u[i] ELSE <<e>>[i - Len(u)]
    BY <1>2, <1>4, ConcatProperties
  <2> HIDE DEF w
  <2> QED BY <1>2, <1>4, <2>1
<1> HIDE DEF w
<1> DEFINE r == w \o v
<1>6. /\ r \in Seq(S) /\ Len(r) = Len(w) + Len(v)
      /\ \A i \in 1 .. Len(w) + Len(v) : r[i] = IF i <= Len(w) THEN w[i] ELSE v[i - Len(w)]
  BY <1>3, <1>5, ConcatProperties
<1>7. InsertAt(s, pos, e) = r
  BY DEF InsertAt, u, v, w
<1> HIDE DEF r
<1>8. ASSUME NEW i \in 1 .. Len(s) + 1
      PROVE  r[i] = IF i < pos THEN s[i] ELSE IF i = pos THEN e ELSE s[i - 1]
  <2>1. CASE i <= pos
    BY <2>1, <1>1, <1>3, <1>5, <1>6
  <2>2. CASE i > pos
    <3>1. i - pos \in 1 .. Len(s) + 1 - pos /\ i - pos + pos - 1 = i - 1
      BY <2>2, <1>1
    <3> QED BY <2>2, <3>1, <1>1, <1>3, <1>5, <1>6
  <2> QED BY <2>1, <2>2, <1>1
<1>9. r \in Seq(S) /\ Len(r) = Len(s) + 1
  BY <1>1, <1>3, <1>5, <1>6
<1> QED BY <1>7, <1>8, <1>9

(* Found returns a position in the rows of the table, or 0. *)
LEMMA FoundFacts ==
  ASSUME NEW t \in Tables, NEW a, attrcat[t] \in Seq(AttrRow)
  PROVE  /\ Found(t, a) \in 0 .. Len(attrcat[t])
         /\ (\E i \in DOMAIN attrcat[t] : attrcat[t][i].attrName = a) => Found(t, a) >= 1
         /\ attrcat[t] # << >> => Found(t, a) >= 1
<1> DEFINE named == {i \in DOMAIN attrcat[t] : attrcat[t][i].attrName = a}
<1>1. Len(attrcat[t]) \in Nat /\ DOMAIN attrcat[t] = 1 .. Len(attrcat[t])
  BY LenProperties
<1>2. attrcat[t] # << >> => Len(attrcat[t]) >= 1
  BY EmptySeq, <1>1
<1>3. CASE named = {}
  BY <1>1, <1>2, <1>3 DEF Found
<1>4. CASE named # {}
  <2>1. named \in SUBSET Nat
    BY <1>1
  <2>2. \E i \in named : \A j \in named : i <= j
    BY <2>1, <1>4, LeastNatural
  <2>3. Found(t, a) = CHOOSE i \in named : \A j \in named : i <= j
    BY <1>4 DEF Found
  <2>4. Found(t, a) \in named
    BY <2>2, <2>3
  <2> QED BY <1>1, <2>4
<1> QED BY <1>3, <1>4

(* One row of attrcat is changed, and keeps its type. *)
LEMMA SetIndexNo ==
  ASSUME NEW s \in Seq(AttrRow), NEW i \in 1 .. Len(s), NEW n \in IndexNos \cup {NO_INDEX}
  PROVE  LET r == [s EXCEPT ![i].indexNo = n]
         IN /\ r \in Seq(AttrRow) /\ Len(r) = Len(s)
            /\ \A j \in 1 .. Len(s) :
                 r[j] = IF j = i THEN [attrName |-> s[i].attrName, indexNo |-> n] ELSE s[j]
<1>1. s[i] \in AttrRow
  BY ElementOfSeq
<1>2. [s[i] EXCEPT !.indexNo = n] = [attrName |-> s[i].attrName, indexNo |-> n]
  BY <1>1 DEF AttrRow
<1> DEFINE e == [attrName |-> s[i].attrName, indexNo |-> n]
<1>3. e \in AttrRow
  BY <1>1 DEF AttrRow
<1>4. [s EXCEPT ![i].indexNo = n] = [s EXCEPT ![i] = e]
  BY <1>2
<1> HIDE DEF e
<1>5. /\ [s EXCEPT ![i] = e] \in Seq(AttrRow) /\ Len([s EXCEPT ![i] = e]) = Len(s)
      /\ \A j \in 1 .. Len(s) : [s EXCEPT ![i] = e][j] = IF j = i THEN e ELSE s[j]
  BY <1>3, ExceptSeq
<1> QED BY <1>4, <1>5 DEF e

(* The handle of attrcat after a step that changes the rows of one table. *)
LEMMA AttrcatFacts ==
  ASSUME Typed, NEW t \in Tables, NEW s \in Seq(AttrRow), Len(s) <= MaxAttrRows,
         attrcat' = [attrcat EXCEPT ![t] = s], UNCHANGED attrDisk
  PROVE  /\ attrcat' \in [Tables -> Seq(AttrRow)] /\ attrDisk' \in [Tables -> Seq(AttrRow)]
         /\ \A u \in Tables : Len(attrcat[u])' <= MaxAttrRows /\ Len(attrDisk[u])' <= MaxAttrRows
         /\ attrcat'[t] = s /\ \A u \in Tables : u # t => attrcat'[u] = attrcat[u]
BY DEF Typed

(* The entries of an index after insertions: those there were, none but    *)
(* the rows' own besides, and the key of every row.                        *)
LEMMA EnteredFacts ==
  ASSUME NEW E, NEW S, NEW c, NEW F \in Entered(E, S, c)
  PROVE  /\ E \subseteq F
         /\ \A e \in F : e \in E \/ \E r \in S : e = Entry(r, c)
         /\ \A r \in S : \E g \in F : g.key = Key[r][c]
<1> DEFINE new == {Entry(r, c) : r \in S}
<1>1. F \subseteq E \cup new /\ E \subseteq F /\ \A e \in new : \E g \in F : g.key = e.key
  BY DEF Entered
<1>2. ASSUME NEW r \in S PROVE \E g \in F : g.key = Key[r][c]
  <2>1. Entry(r, c) \in new /\ Entry(r, c).key = Key[r][c]
    BY DEF Entry
  <2> QED BY <1>1, <2>1
<1> QED BY <1>1, <1>2

LEMMA EnteredTyped ==
  ASSUME NEW E \in SUBSET (Rows \cup Entries), NEW S \in SUBSET Rows, NEW c \in Attrs,
         NEW F \in Entered(E, S, c)
  PROVE  F \in SUBSET (Rows \cup Entries)
<1>1. \A r \in S : Entry(r, c) \in Entries
  BY DEF Entries
<1> QED BY <1>1, EnteredFacts

(* What the pool may write for the call in progress. *)
LEMMA DirtyFacts ==
  ASSUME SafeInv, NEW l \in Dirty
  PROVE  /\ l.rows \in SUBSET (Rows \cup Entries) /\ l.rows # NoFile
         /\ \A u \in Tables : l.f = TableFile(u) => l.rows \in RowSets
         /\ \A u \in Tables : l.f = TableFile(u) /\ kept[u] # {} => kept[u] \subseteq l.rows
<1>1. l.rows # NoFile /\ (\/ l.f = TableFile(call.t) /\ l.rows = call.rows
                          \/ l.f = IndexFile(call.t, call.n) /\ l.rows = call.entries)
  BY DEF Dirty
<1>2. l.rows \in SUBSET (Rows \cup Entries)
  BY <1>1, CallTypes, Values DEF SafeInv, Typed
<1>3. ASSUME NEW u \in Tables, l.f = TableFile(u)
      PROVE  l.rows \in RowSets /\ (kept[u] # {} => kept[u] \subseteq l.rows)
  <2>1. CASE l.f = TableFile(call.t) /\ l.rows = call.rows
    BY <1>1, <1>3, <2>1, FileNames, CallTypes DEF SafeInv, RowsSafe, Typed
  <2>2. CASE l.f = IndexFile(call.t, call.n) /\ l.rows = call.entries
    <3>1. call.n # NO_INDEX
      BY <1>1, <2>2, FileNames DEF SafeInv, CallSound
    <3> QED BY <1>3, <2>2, <3>1, FileNames
  <2> QED BY <1>1, <2>1, <2>2
<1> QED BY <1>1, <1>2, <1>3

(* Each step keeps SafeInv: what it makes of the call (the lemma named     *)
(* Call), then the rest (Safe).                                            *)
LEMMA OpenDbSafe ==
  ASSUME SafeInv, OpenDb
  PROVE  SafeInv'
<1> USE CatalogAssumption DEF SafeInv, handles, catalog, onDisk
<1>1. Typed'
  BY DEF Typed, OpenDb
<1>2. TablesHaveFiles'
  BY Values, FileNames, IdleFacts, CallTypes DEF OpenDb, Typed, TablesHaveFiles, RowsSafe, CallSound, Count
<1>3. RowsSafe'
  BY Values, FileNames, IdleFacts, CallTypes DEF OpenDb, Typed, TablesHaveFiles, RowsSafe, CallSound, Same
<1>4. CallSound'
  BY Values, FileNames, IdleFacts, CallTypes DEF OpenDb, Typed, TablesHaveFiles, RowsSafe, CallSound, Same
<1> QED BY <1>1, <1>2, <1>3, <1>4

LEMMA CloseDbSafe ==
  ASSUME SafeInv, CloseDb
  PROVE  SafeInv'
<1> USE CatalogAssumption DEF SafeInv, handles, catalog, onDisk
<1>1. Typed'
  <2>1. relcat' \in [Tables -> Count] /\ relDisk' \in [Tables -> Count]
    BY Values, FileNames, IdleFacts, CallTypes DEF CloseDb, Typed, CallSound, Count
  <2>2. attrcat' \in [Tables -> Seq(AttrRow)] /\ attrDisk' \in [Tables -> Seq(AttrRow)]
    BY Values, FileNames, IdleFacts, CallTypes DEF CloseDb, Typed, CallSound, Count, AttrRow
  <2>3. \A u \in Tables : Len(attrcat[u])' <= MaxAttrRows /\ Len(attrDisk[u])' <= MaxAttrRows
    BY Values, FileNames, IdleFacts, CallTypes DEF CloseDb, Typed, CallSound, Count
  <2> QED BY <2>1, <2>2, <2>3 DEF Typed, CloseDb
<1>2. TablesHaveFiles'
  BY Values, FileNames, IdleFacts, CallTypes DEF CloseDb, Typed, TablesHaveFiles, RowsSafe, CallSound, Count
<1>3. RowsSafe'
  BY Values, FileNames, IdleFacts, CallTypes DEF CloseDb, Typed, TablesHaveFiles, RowsSafe, CallSound, Same
<1>4. CallSound'
  BY Values, FileNames, IdleFacts, CallTypes DEF CloseDb, Typed, TablesHaveFiles, RowsSafe, CallSound, Same
<1> QED BY <1>1, <1>2, <1>3, <1>4

LEMMA CreateTableCall ==
  ASSUME SafeInv, NEW t \in Tables, CreateTable(t)
  PROVE  call' \in Call /\ call'.op = "createTable" /\ call'.step = "relRow" /\ call'.t = t
         /\ call'.rows = NoFile /\ call'.entries = NoFile /\ call'.a = 0
BY BeginFacts DEF CreateTable, Ops, Steps

LEMMA CreateTableSafe ==
  ASSUME SafeInv, NEW t \in Tables, CreateTable(t)
  PROVE  SafeInv'
<1> USE CatalogAssumption DEF SafeInv, handles, catalog, onDisk
<1>0. call' \in Call /\ call'.op = "createTable" /\ call'.step = "relRow" /\ call'.t = t
      /\ call'.rows = NoFile /\ call'.entries = NoFile /\ call'.a = 0
  BY CreateTableCall
<1>1. Typed'
  <2>1. file' \in [Files -> Contents]
    BY Values, FileNames, IdleFacts, CallTypes, <1>0 DEF CreateTable, Start, Typed, CallSound, Count, Contents
  <2> QED BY <2>1, <1>0 DEF Typed, CreateTable, Start
<1>2. TablesHaveFiles'
  BY Values, FileNames, IdleFacts, CallTypes, <1>0 DEF CreateTable, Start, Typed, TablesHaveFiles, RowsSafe, CallSound, Count
<1>3. RowsSafe'
  BY Values, FileNames, IdleFacts, CallTypes, <1>0 DEF CreateTable, Start, Typed, TablesHaveFiles, RowsSafe, CallSound, Same
<1>4. CallSound'
  <2>1. 0 < AttrCount /\ Len(attrcat'[t]) + AttrCount <= MaxAttrRows + 0
    BY DEF CreateTable, MaxAttrRows
  <2>2. file'[TableFile(t)] = {} /\ {} # NoFile
    BY FileNames, Values DEF CreateTable, Typed
  <2> QED BY <1>0, <2>1, <2>2 DEF CallSound
<1> QED BY <1>1, <1>2, <1>3, <1>4

LEMMA CreateTableFailsSafe ==
  ASSUME SafeInv, NEW t \in Tables, CreateTableFails(t)
  PROVE  SafeInv'
<1> USE CatalogAssumption DEF SafeInv, handles, catalog, onDisk
<1>1. Typed'
  <2>1. file' \in [Files -> Contents]
    BY Values, FileNames, IdleFacts, CallTypes DEF CreateTableFails, Start, Typed, CallSound, Count, Contents
  <2> QED BY <2>1 DEF Typed, CreateTableFails, Start
<1>2. TablesHaveFiles'
  BY Values, FileNames, IdleFacts, CallTypes DEF CreateTableFails, Start, Typed, TablesHaveFiles, RowsSafe, CallSound, Count
<1>3. RowsSafe'
  BY Values, FileNames, IdleFacts, CallTypes DEF CreateTableFails, Start, Typed, TablesHaveFiles, RowsSafe, CallSound, Same
<1>4. CallSound'
  BY Values, FileNames, IdleFacts, CallTypes DEF CreateTableFails, Start, Typed, TablesHaveFiles, RowsSafe, CallSound, Same
<1> QED BY <1>1, <1>2, <1>3, <1>4

LEMMA CreateRelRowCall ==
  ASSUME SafeInv, CreateRelRow
  PROVE  call' \in Call /\ call'.step = "attrRow" /\ Same
         /\ call'.a = call.a /\ call'.i = call.i /\ call'.n = call.n
         /\ call'.entries = call.entries
BY GotoFacts DEF SafeInv, CreateRelRow, Steps, Typed

LEMMA CreateRelRowSafe ==
  ASSUME SafeInv, CreateRelRow
  PROVE  SafeInv'
<1> USE CatalogAssumption DEF SafeInv, handles, catalog, onDisk
<1>0. call' \in Call /\ call'.step = "attrRow" /\ Same
      /\ call'.a = call.a /\ call'.i = call.i /\ call'.n = call.n
      /\ call'.entries = call.entries
  BY CreateRelRowCall
<1>1. Typed'
  <2>1. relcat' \in [Tables -> Count] /\ relDisk' \in [Tables -> Count]
    <3>1. UNCHANGED relDisk /\ (UNCHANGED relcat \/ relcat' = [relcat EXCEPT ![call.t] = 0])
      BY DEF CreateRelRow
    <3>2. 0 \in Count
      BY DEF Count
    <3> QED BY <3>1, <3>2 DEF Typed
  <2> QED BY <2>1, <1>0 DEF Typed, CreateRelRow, At
<1>2. TablesHaveFiles'
  BY Values, FileNames, IdleFacts, CallTypes, <1>0 DEF CreateRelRow, At, Typed, TablesHaveFiles, RowsSafe, CallSound, Count
<1>3. RowsSafe'
  BY Values, FileNames, IdleFacts, CallTypes, <1>0 DEF CreateRelRow, At, Typed, TablesHaveFiles, RowsSafe, CallSound, Same
<1>4. CallSound'
  BY Values, FileNames, IdleFacts, CallTypes, <1>0 DEF CreateRelRow, At, Typed, TablesHaveFiles, RowsSafe, CallSound, Same
<1> QED BY <1>1, <1>2, <1>3, <1>4

LEMMA CreateAttrRowCall ==
  ASSUME SafeInv, CreateAttrRow
  PROVE  /\ call' \in Call /\ call'.step \in {"attrRow", "forceRel"} /\ Same
         /\ call'.entries = call.entries /\ call'.a = call.a + 1
         /\ call'.step = "attrRow" => call'.a < AttrCount
<1> USE CatalogAssumption DEF SafeInv, handles, catalog, onDisk
<1>1. call' = [call EXCEPT !.a = @ + 1,
                           !.step = IF call.a + 1 = AttrCount THEN "forceRel" ELSE @]
  BY DEF CreateAttrRow
<1>2. call \in Call /\ call.step = "attrRow"
  BY DEF CreateAttrRow, At, Typed
<1>3. PICK s \in {"attrRow", "forceRel"} :
        /\ call' = [call EXCEPT !.a = call.a + 1, !.step = s]
        /\ s = "attrRow" => call.a + 1 < AttrCount
  <2>1. call.a < AttrCount /\ call.a \in Nat
    BY <1>2, CallTypes DEF CreateAttrRow, At, CallSound, Typed
  <2>2. CASE call.a + 1 = AttrCount
    BY <1>1, <1>2, <2>2 DEF Call
  <2>3. CASE call.a + 1 # AttrCount
    <3>1. call.a + 1 < AttrCount
      BY <2>1, <2>3
    <3>2. call' = [call EXCEPT !.a = call.a + 1, !.step = "attrRow"]
      BY <1>1, <1>2, <2>3 DEF Call
    <3> QED BY <3>1, <3>2
  <2> QED BY <2>2, <2>3
<1>4. s \in Steps /\ call.a + 1 \in Nat
  BY <1>2, CallTypes DEF Steps
<1> QED BY <1>2, <1>3, <1>4 DEF Call, Same

LEMMA CreateAttrRowSafe ==
  ASSUME SafeInv, CreateAttrRow
  PROVE  SafeInv'
<1> USE CatalogAssumption DEF SafeInv, handles, catalog, onDisk
<1>0. /\ call' \in Call /\ call'.step \in {"attrRow", "forceRel"} /\ Same
      /\ call'.entries = call.entries /\ call'.a = call.a + 1
      /\ call'.step = "attrRow" => call'.a < AttrCount
  BY CreateAttrRowCall
<1>5. /\ attrcat' \in [Tables -> Seq(AttrRow)] /\ attrDisk' \in [Tables -> Seq(AttrRow)]
      /\ \A u \in Tables : Len(attrcat[u])' <= MaxAttrRows /\ Len(attrDisk[u])' <= MaxAttrRows
      /\ Len(attrcat'[call.t]) = Len(attrcat[call.t]) + 1
  <2>1. PICK pos \in 1 .. Len(attrcat[call.t]) + 1 :
          attrcat' = [attrcat EXCEPT ![call.t] =
                        InsertAt(@, pos, [attrName |-> call.a + 1, indexNo |-> NO_INDEX])]
    BY DEF CreateAttrRow
  <2> DEFINE e == [attrName |-> call.a + 1, indexNo |-> NO_INDEX]
  <2>2. /\ call.t \in Tables /\ call.a \in Nat
        /\ call.a < AttrCount /\ Len(attrcat[call.t]) + AttrCount <= MaxAttrRows + call.a
    BY CallTypes DEF CreateAttrRow, At, CallSound, Typed
  <2>3. /\ attrcat[call.t] \in Seq(AttrRow) /\ Len(attrcat[call.t]) \in Nat
        /\ pos \in 1 .. Len(attrcat[call.t]) + 1
    BY <2>2, LenProperties DEF Typed
  <2>4. e \in AttrRow
    BY <2>2 DEF AttrRow
  <2> HIDE DEF e
  <2>5. /\ InsertAt(attrcat[call.t], pos, e) \in Seq(AttrRow)
        /\ Len(InsertAt(attrcat[call.t], pos, e)) = Len(attrcat[call.t]) + 1
    BY <2>3, <2>4, InsertAtFacts
  <2>6. Len(attrcat[call.t]) + 1 <= MaxAttrRows
    BY <2>2, <2>3 DEF MaxAttrRows
  <2>7. attrcat' = [attrcat EXCEPT ![call.t] = InsertAt(attrcat[call.t], pos, e)]
    BY <2>1 DEF e
  <2>8. UNCHANGED attrDisk
    BY DEF CreateAttrRow
  <2> DEFINE s == InsertAt(attrcat[call.t], pos, e)
  <2> HIDE DEF s
  <2> QED BY <2>2, <2>5, <2>6, <2>7, <2>8, AttrcatFacts DEF s
<1>1. Typed'
  <2>1. attrcat' \in [Tables -> Seq(AttrRow)] /\ attrDisk' \in [Tables -> Seq(AttrRow)]
    BY <1>5
  <2>2. \A u \in Tables : Len(attrcat[u])' <= MaxAttrRows /\ Len(attrDisk[u])' <= MaxAttrRows
    BY <1>5
  <2> QED BY <2>1, <2>2, <1>0 DEF Typed, CreateAttrRow, At
<1>2. TablesHaveFiles'
  BY Values, FileNames, IdleFacts, CallTypes, <1>0 DEF CreateAttrRow, At, Typed, TablesHaveFiles, RowsSafe, CallSound, Count
<1>3. RowsSafe'
  BY Values, FileNames, IdleFacts, CallTypes, <1>0 DEF CreateAttrRow, At, Typed, TablesHaveFiles, RowsSafe, CallSound, Same
<1>4. CallSound'
  <2>1. call.op = "createTable" /\ call.t \in Tables /\ UNCHANGED <<relcat, relDisk, file, kept>>
    BY DEF CreateAttrRow, At, CallSound
  <2>2. Len(attrcat[call.t]) \in Nat /\ call.a \in Nat
    BY <2>1, CallTypes, LenProperties DEF Typed
  <2>3. call.a < AttrCount /\ Len(attrcat[call.t]) + AttrCount <= MaxAttrRows + call.a
    BY DEF CreateAttrRow, At, CallSound
  <2>4. Len(attrcat'[call.t]) + AttrCount <= MaxAttrRows + (call.a + 1)
    BY <1>5, <2>2, <2>3 DEF MaxAttrRows
  <2> QED BY <1>0, <2>1, <2>4 DEF CallSound, Same
<1> QED BY <1>1, <1>2, <1>3, <1>4

LEMMA ForceRelCall ==
  ASSUME SafeInv, ForceRel
  PROVE  call' \in Call /\ call'.step = "forceAttr" /\ Same
         /\ call'.a = call.a /\ call'.i = call.i /\ call'.n = call.n
         /\ call'.entries = call.entries
BY GotoFacts DEF SafeInv, ForceRel, Steps, Typed

LEMMA ForceRelSafe ==
  ASSUME SafeInv, ForceRel
  PROVE  SafeInv'
<1> USE CatalogAssumption DEF SafeInv, handles, catalog, onDisk
<1>0. call' \in Call /\ call'.step = "forceAttr" /\ Same
      /\ call'.a = call.a /\ call'.i = call.i /\ call'.n = call.n
      /\ call'.entries = call.entries
  BY ForceRelCall
<1>1. Typed'
  <2>1. relcat' \in [Tables -> Count] /\ relDisk' \in [Tables -> Count]
    BY Values, FileNames, IdleFacts, CallTypes, <1>0 DEF ForceRel, Typed, CallSound, Count
  <2> QED BY <2>1, <1>0 DEF Typed, ForceRel
<1>2. TablesHaveFiles'
  BY Values, FileNames, IdleFacts, CallTypes, <1>0 DEF ForceRel, Typed, TablesHaveFiles, RowsSafe, CallSound, Count
<1>3. RowsSafe'
  BY Values, FileNames, IdleFacts, CallTypes, <1>0 DEF ForceRel, Typed, TablesHaveFiles, RowsSafe, CallSound, Same
<1>4. CallSound'
  BY Values, FileNames, IdleFacts, CallTypes, <1>0 DEF ForceRel, Typed, TablesHaveFiles, RowsSafe, CallSound, Same
<1> QED BY <1>1, <1>2, <1>3, <1>4

LEMMA ForceAttrCall ==
  ASSUME SafeInv, ForceAttr
  PROVE  /\ call' \in Call
         /\ \/ call' = Idle
            \/ /\ call.op # "createTable" /\ call'.step = "files" /\ Same
               /\ call'.a = call.a /\ call'.i = call.i /\ call'.n = call.n
               /\ call'.entries = call.entries
<1> USE CatalogAssumption DEF SafeInv, handles, catalog, onDisk
<1>1. CASE call.op = "createTable"
  <2>1. call' = Idle
    BY <1>1 DEF ForceAttr, Return
  <2> QED BY <2>1, IdleFacts
<1>2. CASE call.op # "createTable"
  <2>1. Goto("files") /\ "files" \in Steps /\ call \in Call
    BY <1>2 DEF ForceAttr, Steps, Typed
  <2> QED BY <1>2, <2>1, GotoFacts
<1> QED BY <1>1, <1>2

LEMMA ForceAttrSafe ==
  ASSUME SafeInv, ForceAttr
  PROVE  SafeInv'
<1> USE CatalogAssumption DEF SafeInv, handles, catalog, onDisk
<1>0. /\ call' \in Call
      /\ \/ call' = Idle
         \/ /\ call.op # "createTable" /\ call'.step = "files" /\ Same
            /\ call'.a = call.a /\ call'.i = call.i /\ call'.n = call.n
            /\ call'.entries = call.entries
  BY ForceAttrCall
<1>1. Typed'
  <2>1. attrcat' \in [Tables -> Seq(AttrRow)] /\ attrDisk' \in [Tables -> Seq(AttrRow)]
    BY Values, FileNames, IdleFacts, CallTypes, <1>0 DEF ForceAttr, Return, Typed, CallSound, Count, AttrRow
  <2>2. \A u \in Tables : Len(attrcat[u])' <= MaxAttrRows /\ Len(attrDisk[u])' <= MaxAttrRows
    BY Values, FileNames, IdleFacts, CallTypes, <1>0 DEF ForceAttr, Return, Typed, CallSound, Count
  <2> QED BY <2>1, <2>2, <1>0 DEF Typed, ForceAttr, Return
<1>2. TablesHaveFiles'
  BY Values, FileNames, IdleFacts, CallTypes, <1>0 DEF ForceAttr, Return, Typed, TablesHaveFiles, RowsSafe, CallSound, Count
<1>3. RowsSafe'
  BY Values, FileNames, IdleFacts, CallTypes, <1>0 DEF ForceAttr, Return, Typed, TablesHaveFiles, RowsSafe, CallSound, Same
<1>4. CallSound'
  BY Values, FileNames, IdleFacts, CallTypes, <1>0 DEF ForceAttr, Return, Typed, TablesHaveFiles, RowsSafe, CallSound, Same
<1> QED BY <1>1, <1>2, <1>3, <1>4

LEMMA DropTableCall ==
  ASSUME SafeInv, NEW t \in Tables, DropTable(t)
  PROVE  call' \in Call /\ call'.op = "dropTable" /\ call'.step = "attrRow" /\ call'.t = t
         /\ call'.a = 0 /\ call'.i = 0 /\ call'.n = NO_INDEX
         /\ call'.rows = NoFile /\ call'.entries = NoFile
BY BeginFacts, CatalogAssumption DEF SafeInv, DropTable, Attrs, Steps, Ops

LEMMA DropTableSafe ==
  ASSUME SafeInv, NEW t \in Tables, DropTable(t)
  PROVE  SafeInv'
<1> USE CatalogAssumption DEF SafeInv, handles, catalog, onDisk
<1>0. call' \in Call /\ call'.op = "dropTable" /\ call'.step = "attrRow" /\ call'.t = t
      /\ call'.a = 0 /\ call'.i = 0 /\ call'.n = NO_INDEX
      /\ call'.rows = NoFile /\ call'.entries = NoFile
  BY DropTableCall
<1>1. Typed'
  <2>1. relcat' \in [Tables -> Count] /\ relDisk' \in [Tables -> Count]
    BY Values, FileNames, IdleFacts, CallTypes, <1>0 DEF DropTable, Start, Typed, CallSound, Count
  <2>2. kept' \in [Tables -> SUBSET Rows]
    BY Values, FileNames, IdleFacts, CallTypes, <1>0 DEF DropTable, Start, Typed, CallSound, Count
  <2> QED BY <2>1, <2>2, <1>0 DEF Typed, DropTable, Start
<1>2. TablesHaveFiles'
  BY Values, FileNames, IdleFacts, CallTypes, <1>0 DEF DropTable, Start, Typed, TablesHaveFiles, RowsSafe, CallSound, Count
<1>3. RowsSafe'
  BY Values, FileNames, IdleFacts, CallTypes, <1>0 DEF DropTable, Start, Typed, TablesHaveFiles, RowsSafe, CallSound, Same
<1>4. CallSound'
  BY Values, FileNames, IdleFacts, CallTypes, <1>0 DEF DropTable, Start, Typed, TablesHaveFiles, RowsSafe, CallSound, Same
<1> QED BY <1>1, <1>2, <1>3, <1>4

LEMMA DropAttrIndexCall ==
  ASSUME SafeInv, DropAttrIndex
  PROVE  call' \in Call /\ call'.step = "deleteRow" /\ Same
         /\ call'.a = call.a /\ call'.i = call.i /\ call'.n = call.n
         /\ call'.entries = call.entries
BY GotoFacts DEF SafeInv, DropAttrIndex, Steps, Typed

LEMMA DropAttrIndexSafe ==
  ASSUME SafeInv, DropAttrIndex
  PROVE  SafeInv'
<1> USE CatalogAssumption DEF SafeInv, handles, catalog, onDisk
<1>0. call' \in Call /\ call'.step = "deleteRow" /\ Same
      /\ call'.a = call.a /\ call'.i = call.i /\ call'.n = call.n
      /\ call'.entries = call.entries
  BY DropAttrIndexCall
<1>1. Typed'
  <2>1. file' \in [Files -> Contents]
    BY Values, FileNames, IdleFacts, CallTypes, <1>0 DEF DropAttrIndex, At, Unlink, Typed, CallSound, Count, Contents
  <2>2. \A l \in lost' : l.rows \in SUBSET (Rows \cup Entries)
    BY Values, FileNames, IdleFacts, CallTypes, <1>0 DEF DropAttrIndex, At, Unlink, Typed, CallSound, Count, Contents
  <2> QED BY <2>1, <2>2, <1>0 DEF Typed, DropAttrIndex, At, Unlink
<1>2. TablesHaveFiles'
  BY Values, FileNames, IdleFacts, CallTypes, <1>0 DEF DropAttrIndex, At, Unlink, Typed, TablesHaveFiles, RowsSafe, CallSound, Count
<1>3. RowsSafe'
  BY Values, FileNames, IdleFacts, CallTypes, <1>0 DEF DropAttrIndex, At, Unlink, Typed, TablesHaveFiles, RowsSafe, CallSound, Same
<1>4. CallSound'
  BY Values, FileNames, IdleFacts, CallTypes, <1>0 DEF DropAttrIndex, At, Unlink, Typed, TablesHaveFiles, RowsSafe, CallSound, Same
<1> QED BY <1>1, <1>2, <1>3, <1>4

LEMMA DropAttrRowCall ==
  ASSUME SafeInv, DropAttrRow
  PROVE  call' \in Call /\ call'.step = "attrRow" /\ Same
         /\ call'.a = call.a /\ call'.i = call.i /\ call'.n = call.n
         /\ call'.entries = call.entries
BY GotoFacts DEF SafeInv, DropAttrRow, Steps, Typed

LEMMA DropAttrRowSafe ==
  ASSUME SafeInv, DropAttrRow
  PROVE  SafeInv'
<1> USE CatalogAssumption DEF SafeInv, handles, catalog, onDisk
<1>0. call' \in Call /\ call'.step = "attrRow" /\ Same
      /\ call'.a = call.a /\ call'.i = call.i /\ call'.n = call.n
      /\ call'.entries = call.entries
  BY DropAttrRowCall
<1>5. /\ attrcat' \in [Tables -> Seq(AttrRow)] /\ attrDisk' \in [Tables -> Seq(AttrRow)]
      /\ \A u \in Tables : Len(attrcat[u])' <= MaxAttrRows /\ Len(attrDisk[u])' <= MaxAttrRows
  <2>1. /\ call.t \in Tables /\ attrcat[call.t] \in Seq(AttrRow) /\ attrcat[call.t] # << >>
        /\ Len(attrcat[call.t]) \in Nat /\ Len(attrcat[call.t]) <= MaxAttrRows
    BY LenProperties DEF DropAttrRow, At, CallSound, Typed
  <2>2. /\ Tail(attrcat[call.t]) \in Seq(AttrRow)
        /\ Len(Tail(attrcat[call.t])) = Len(attrcat[call.t]) - 1
    BY <2>1, HeadTailProperties
  <2>3. attrcat' = [attrcat EXCEPT ![call.t] = Tail(attrcat[call.t])] /\ UNCHANGED attrDisk
    BY DEF DropAttrRow
  <2>4. Len(Tail(attrcat[call.t])) <= MaxAttrRows
    BY <2>1, <2>2 DEF MaxAttrRows
  <2> QED BY <2>1, <2>2, <2>3, <2>4, AttrcatFacts
<1>1. Typed'
  <2>1. attrcat' \in [Tables -> Seq(AttrRow)] /\ attrDisk' \in [Tables -> Seq(AttrRow)]
    BY <1>5
  <2>2. \A u \in Tables : Len(attrcat[u])' <= MaxAttrRows /\ Len(attrDisk[u])' <= MaxAttrRows
    BY <1>5
  <2> QED BY <2>1, <2>2, <1>0 DEF Typed, DropAttrRow, At
<1>2. TablesHaveFiles'
  BY Values, FileNames, IdleFacts, CallTypes, <1>0 DEF DropAttrRow, At, Typed, TablesHaveFiles, RowsSafe, CallSound, Count
<1>3. RowsSafe'
  BY Values, FileNames, IdleFacts, CallTypes, <1>0 DEF DropAttrRow, At, Typed, TablesHaveFiles, RowsSafe, CallSound, Same
<1>4. CallSound'
  BY Values, FileNames, IdleFacts, CallTypes, <1>0 DEF DropAttrRow, At, Typed, TablesHaveFiles, RowsSafe, CallSound, Same
<1> QED BY <1>1, <1>2, <1>3, <1>4

LEMMA DropNoMoreRowsCall ==
  ASSUME SafeInv, DropNoMoreRows
  PROVE  call' \in Call /\ call'.step = "forceRel" /\ Same
         /\ call'.a = call.a /\ call'.i = call.i /\ call'.n = call.n
         /\ call'.entries = call.entries
BY GotoFacts DEF SafeInv, DropNoMoreRows, Steps, Typed

LEMMA DropNoMoreRowsSafe ==
  ASSUME SafeInv, DropNoMoreRows
  PROVE  SafeInv'
<1> USE CatalogAssumption DEF SafeInv, handles, catalog, onDisk
<1>0. call' \in Call /\ call'.step = "forceRel" /\ Same
      /\ call'.a = call.a /\ call'.i = call.i /\ call'.n = call.n
      /\ call'.entries = call.entries
  BY DropNoMoreRowsCall
<1>1. Typed'
  BY <1>0 DEF Typed, DropNoMoreRows, At
<1>2. TablesHaveFiles'
  BY Values, FileNames, IdleFacts, CallTypes, <1>0 DEF DropNoMoreRows, At, Typed, TablesHaveFiles, RowsSafe, CallSound, Count
<1>3. RowsSafe'
  BY Values, FileNames, IdleFacts, CallTypes, <1>0 DEF DropNoMoreRows, At, Typed, TablesHaveFiles, RowsSafe, CallSound, Same
<1>4. CallSound'
  BY Values, FileNames, IdleFacts, CallTypes, <1>0 DEF DropNoMoreRows, At, Typed, TablesHaveFiles, RowsSafe, CallSound, Same
<1> QED BY <1>1, <1>2, <1>3, <1>4

LEMMA DropFileCall ==
  ASSUME SafeInv, DropFile
  PROVE  call' = Idle /\ call' \in Call
BY IdleFacts DEF SafeInv, DropFile, Return

LEMMA DropFileSafe ==
  ASSUME SafeInv, DropFile
  PROVE  SafeInv'
<1> USE CatalogAssumption DEF SafeInv, handles, catalog, onDisk
<1>0. call' = Idle /\ call' \in Call
  BY DropFileCall
<1>1. Typed'
  <2>1. file' \in [Files -> Contents]
    BY Values, FileNames, IdleFacts, CallTypes, <1>0 DEF DropFile, At, Return, Unlink, Typed, CallSound, Count, Contents
  <2>2. \A l \in lost' : l.rows \in SUBSET (Rows \cup Entries)
    BY Values, FileNames, IdleFacts, CallTypes, <1>0 DEF DropFile, At, Return, Unlink, Typed, CallSound, Count, Contents
  <2> QED BY <2>1, <2>2, <1>0 DEF Typed, DropFile, At, Return, Unlink
<1>2. TablesHaveFiles'
  BY Values, FileNames, IdleFacts, CallTypes, <1>0 DEF DropFile, At, Return, Unlink, Typed, TablesHaveFiles, RowsSafe, CallSound, Count
<1>3. RowsSafe'
  <2>1. \A u \in Tables : u # call.t => file'[TableFile(u)] = file[TableFile(u)]
    BY FileNames DEF DropFile, Unlink, Typed
  <2>2. kept'[call.t] = {} /\ UNCHANGED kept
    BY DEF DropFile, At, CallSound
  <2>3. lost' \subseteq lost /\ call'.rows = NoFile
    BY <1>0, IdleFacts DEF DropFile, Unlink
  <2>4. \A u \in Tables : file'[TableFile(u)] \in RowSets
    BY <2>1, FileNames, Values DEF DropFile, Unlink, Typed, RowsSafe
  <2> QED BY <2>1, <2>2, <2>3, <2>4 DEF RowsSafe
<1>4. CallSound'
  BY Values, FileNames, IdleFacts, CallTypes, <1>0 DEF DropFile, At, Return, Unlink, Typed, TablesHaveFiles, RowsSafe, CallSound, Same
<1> QED BY <1>1, <1>2, <1>3, <1>4

LEMMA CreateIndexCall ==
  ASSUME SafeInv, NEW t \in Tables, NEW a \in Attrs, CreateIndex(t, a)
  PROVE  call' \in Call /\ call'.op = "createIndex" /\ call'.step = "attr" /\ call'.t = t
         /\ call'.a = a /\ call'.i = 0 /\ call'.n = NO_INDEX
         /\ call'.rows = NoFile /\ call'.entries = NoFile
<1>1. call' = Begin("createIndex", "attr", t, a)
  BY DEF CreateIndex
<1>2. "createIndex" \in Ops /\ "attr" \in Steps /\ a \in Nat
  BY CatalogAssumption DEF Ops, Steps, Attrs
<1> QED BY <1>1, <1>2, BeginFacts

LEMMA CreateIndexSafe ==
  ASSUME SafeInv, NEW t \in Tables, NEW a \in Attrs, CreateIndex(t, a)
  PROVE  SafeInv'
<1> USE CatalogAssumption DEF SafeInv, handles, catalog, onDisk
<1>0. call' \in Call /\ call'.op = "createIndex" /\ call'.step = "attr" /\ call'.t = t
      /\ call'.a = a /\ call'.i = 0 /\ call'.n = NO_INDEX
      /\ call'.rows = NoFile /\ call'.entries = NoFile
  BY CreateIndexCall
<1>1. Typed'
  <2>1. relcat' \in [Tables -> Count] /\ relDisk' \in [Tables -> Count]
    BY Values, FileNames, IdleFacts, CallTypes, <1>0 DEF CreateIndex, Start, Typed, CallSound, Count
  <2> QED BY <2>1, <1>0 DEF Typed, CreateIndex, Start
<1>2. TablesHaveFiles'
  BY Values, FileNames, IdleFacts, CallTypes, <1>0 DEF CreateIndex, Start, Typed, TablesHaveFiles, RowsSafe, CallSound, Count
<1>3. RowsSafe'
  BY Values, FileNames, IdleFacts, CallTypes, <1>0 DEF CreateIndex, Start, Typed, TablesHaveFiles, RowsSafe, CallSound, Same
<1>4. CallSound'
  BY Values, FileNames, IdleFacts, CallTypes, <1>0 DEF CreateIndex, Start, Typed, TablesHaveFiles, RowsSafe, CallSound, Same
<1> QED BY <1>1, <1>2, <1>3, <1>4

LEMMA IndexAttrCall ==
  ASSUME SafeInv, IndexAttr
  PROVE  call' \in Call /\ call'.step = "forceRel" /\ Same /\ call'.n \in IndexNos
         /\ call'.entries = call.entries /\ call'.i = call.i /\ call'.a = call.a
<1> USE CatalogAssumption DEF SafeInv, handles, catalog, onDisk
<1> DEFINE f == Found(call.t, call.a) - 1
<1>1. call' = [call EXCEPT !.n = f, !.step = "forceRel"]
  BY DEF IndexAttr
<1>2. f \in IndexNos /\ f \in Int /\ "forceRel" \in Steps /\ call \in Call
  BY FoundFacts, LenProperties DEF IndexAttr, At, CallSound, Typed, IndexNos, MaxAttrRows, Steps
<1> HIDE DEF f
<1> QED BY <1>1, <1>2 DEF Call, Same

LEMMA IndexAttrSafe ==
  ASSUME SafeInv, IndexAttr
  PROVE  SafeInv'
<1> USE CatalogAssumption DEF SafeInv, handles, catalog, onDisk
<1>0. call' \in Call /\ call'.step = "forceRel" /\ Same /\ call'.n \in IndexNos
      /\ call'.entries = call.entries /\ call'.i = call.i /\ call'.a = call.a
  BY IndexAttrCall
<1>5. /\ attrcat' \in [Tables -> Seq(AttrRow)] /\ attrDisk' \in [Tables -> Seq(AttrRow)]
      /\ \A u \in Tables : Len(attrcat[u])' <= MaxAttrRows /\ Len(attrDisk[u])' <= MaxAttrRows
  <2> DEFINE i == Found(call.t, call.a)
  <2>1. i \in 1 .. Len(attrcat[call.t]) /\ i - 1 \in IndexNos
    BY FoundFacts, LenProperties DEF IndexAttr, At, CallSound, Typed, IndexNos, MaxAttrRows
  <2>2. attrcat' = [attrcat EXCEPT ![call.t][i].indexNo = i - 1]
    BY DEF IndexAttr
  <2> HIDE DEF i
  <2>3. /\ call.t \in Tables /\ attrcat[call.t] \in Seq(AttrRow)
        /\ Len(attrcat[call.t]) \in Nat /\ Len(attrcat[call.t]) <= MaxAttrRows
    BY LenProperties DEF IndexAttr, At, CallSound, Typed
  <2> DEFINE s == [attrcat[call.t] EXCEPT ![i].indexNo = i - 1]
  <2>4. s \in Seq(AttrRow) /\ Len(s) = Len(attrcat[call.t])
    BY <2>1, <2>3, SetIndexNo DEF IndexNos
  <2>5. attrcat' = [attrcat EXCEPT ![call.t] = s] /\ UNCHANGED attrDisk
    BY <2>1, <2>2 DEF IndexAttr
  <2> HIDE DEF s
  <2> QED BY <2>3, <2>4, <2>5, AttrcatFacts
<1>1. Typed'
  <2>1. attrcat' \in [Tables -> Seq(AttrRow)] /\ attrDisk' \in [Tables -> Seq(AttrRow)]
    BY <1>5
  <2>2. \A u \in Tables : Len(attrcat[u])' <= MaxAttrRows /\ Len(attrDisk[u])' <= MaxAttrRows
    BY <1>5
  <2> QED BY <2>1, <2>2, <1>0 DEF Typed, IndexAttr, At
<1>2. TablesHaveFiles'
  BY Values, FileNames, IdleFacts, CallTypes, <1>0 DEF IndexAttr, At, Typed, TablesHaveFiles, RowsSafe, CallSound, Count
<1>3. RowsSafe'
  BY Values, FileNames, IdleFacts, CallTypes, <1>0 DEF IndexAttr, At, Typed, TablesHaveFiles, RowsSafe, CallSound, Same
<1>4. CallSound'
  BY Values, FileNames, IdleFacts, CallTypes, <1>0 DEF IndexAttr, At, Typed, TablesHaveFiles, RowsSafe, CallSound, Same
<1> QED BY <1>1, <1>2, <1>3, <1>4

LEMMA CreateIndexFileCall ==
  ASSUME SafeInv, CreateIndexFile
  PROVE  call' \in Call /\ call'.step = "fill" /\ Same
         /\ call'.a = call.a /\ call'.i = call.i /\ call'.n = call.n
         /\ call'.entries = call.entries
BY GotoFacts DEF SafeInv, CreateIndexFile, Steps, Typed

LEMMA CreateIndexFileSafe ==
  ASSUME SafeInv, CreateIndexFile
  PROVE  SafeInv'
<1> USE CatalogAssumption DEF SafeInv, handles, catalog, onDisk
<1>0. call' \in Call /\ call'.step = "fill" /\ Same
      /\ call'.a = call.a /\ call'.i = call.i /\ call'.n = call.n
      /\ call'.entries = call.entries
  BY CreateIndexFileCall
<1>1. Typed'
  <2>1. file' \in [Files -> Contents]
    BY Values, FileNames, IdleFacts, CallTypes, <1>0 DEF CreateIndexFile, At, Typed, CallSound, Count, Contents
  <2> QED BY <2>1, <1>0 DEF Typed, CreateIndexFile, At
<1>2. TablesHaveFiles'
  BY Values, FileNames, IdleFacts, CallTypes, <1>0 DEF CreateIndexFile, At, Typed, TablesHaveFiles, RowsSafe, CallSound, Count
<1>3. RowsSafe'
  BY Values, FileNames, IdleFacts, CallTypes, <1>0 DEF CreateIndexFile, At, Typed, TablesHaveFiles, RowsSafe, CallSound, Same
<1>4. CallSound'
  BY Values, FileNames, IdleFacts, CallTypes, <1>0 DEF CreateIndexFile, At, Typed, TablesHaveFiles, RowsSafe, CallSound, Same
<1> QED BY <1>1, <1>2, <1>3, <1>4

LEMMA FillIndexCall ==
  ASSUME SafeInv, FillIndex
  PROVE  /\ call' \in Call /\ call'.step = "close" /\ Same /\ call'.n = call.n
         /\ call'.a = call.a /\ call'.i = call.i
         /\ call'.entries # NoFile /\ call'.entries \in SUBSET (Rows \cup Entries)
<1> USE CatalogAssumption DEF SafeInv, handles, catalog, onDisk
<1>1. PICK S \in SUBSET file[TableFile(call.t)] : \E F \in Entered({}, S, call.a) :
        call' = [call EXCEPT !.entries = F, !.step = "close"]
  BY DEF FillIndex
<1>2. PICK F \in Entered({}, S, call.a) : call' = [call EXCEPT !.entries = F, !.step = "close"]
  BY <1>1
<1>3. call.t \in Tables /\ call.a \in Attrs
  BY DEF FillIndex, CallSound, At
<1>4. S \in SUBSET Rows
  BY <1>1, <1>3, Values DEF FillIndex, RowsSafe
<1>5. {} \in SUBSET (Rows \cup Entries)
  OBVIOUS
<1>6. F \in SUBSET (Rows \cup Entries)
  BY <1>2, <1>3, <1>4, <1>5, EnteredTyped
<1> QED BY <1>2, <1>6, Values DEF Call, Same, Steps, Typed

LEMMA FillIndexSafe ==
  ASSUME SafeInv, FillIndex
  PROVE  SafeInv'
<1> USE CatalogAssumption DEF SafeInv, handles, catalog, onDisk
<1>0. /\ call' \in Call /\ call'.step = "close" /\ Same /\ call'.n = call.n
      /\ call'.a = call.a /\ call'.i = call.i
      /\ call'.entries # NoFile /\ call'.entries \in SUBSET (Rows \cup Entries)
  BY FillIndexCall
<1>1. Typed'
  BY <1>0 DEF Typed, FillIndex, At
<1>2. TablesHaveFiles'
  BY Values, FileNames, IdleFacts, CallTypes, <1>0 DEF FillIndex, At, Typed, TablesHaveFiles, RowsSafe, CallSound, Count
<1>3. RowsSafe'
  BY Values, FileNames, IdleFacts, CallTypes, <1>0 DEF FillIndex, At, Typed, TablesHaveFiles, RowsSafe, CallSound, Same
<1>4. CallSound'
  BY Values, FileNames, IdleFacts, CallTypes, <1>0 DEF FillIndex, At, Typed, TablesHaveFiles, RowsSafe, CallSound, Same
<1> QED BY <1>1, <1>2, <1>3, <1>4

LEMMA CloseNewIndexCall ==
  ASSUME SafeInv, CloseNewIndex
  PROVE  call' = Idle /\ call' \in Call
BY IdleFacts DEF SafeInv, CloseNewIndex, Return

LEMMA CloseNewIndexSafe ==
  ASSUME SafeInv, CloseNewIndex
  PROVE  SafeInv'
<1> USE CatalogAssumption DEF SafeInv, handles, catalog, onDisk
<1>0. call' = Idle /\ call' \in Call
  BY CloseNewIndexCall
<1>1. Typed'
  <2>1. file' \in [Files -> Contents]
    BY Values, FileNames, IdleFacts, CallTypes, <1>0 DEF CloseNewIndex, At, Return, Typed, CallSound, Count, Contents
  <2> QED BY <2>1, <1>0 DEF Typed, CloseNewIndex, At, Return
<1>2. TablesHaveFiles'
  BY Values, FileNames, IdleFacts, CallTypes, <1>0 DEF CloseNewIndex, At, Return, Typed, TablesHaveFiles, RowsSafe, CallSound, Count
<1>3. RowsSafe'
  <2>1. \A u \in Tables : file'[TableFile(u)] = file[TableFile(u)]
    BY FileNames DEF CloseNewIndex, At, CallSound, Typed
  <2> QED BY <2>1, <1>0, IdleFacts, Values DEF CloseNewIndex, RowsSafe, At, CallSound
<1>4. CallSound'
  BY Values, FileNames, IdleFacts, CallTypes, <1>0 DEF CloseNewIndex, At, Return, Typed, TablesHaveFiles, RowsSafe, CallSound, Same
<1> QED BY <1>1, <1>2, <1>3, <1>4

LEMMA DropIndexCall ==
  ASSUME SafeInv, NEW t \in Tables, NEW a \in 0 .. AttrCount, DropIndex(t, a)
  PROVE  call' \in Call /\ call'.op = "dropIndex" /\ call'.step = "attr" /\ call'.t = t
         /\ call'.a = a /\ call'.i = 0 /\ call'.n = NO_INDEX
         /\ call'.rows = NoFile /\ call'.entries = NoFile
<1>1. call' = Begin("dropIndex", "attr", t, a)
  BY DEF DropIndex
<1>2. "dropIndex" \in Ops /\ "attr" \in Steps /\ a \in Nat
  BY CatalogAssumption DEF Ops, Steps, Attrs
<1> QED BY <1>1, <1>2, BeginFacts

LEMMA DropIndexSafe ==
  ASSUME SafeInv, NEW t \in Tables, NEW a \in 0 .. AttrCount, DropIndex(t, a)
  PROVE  SafeInv'
<1> USE CatalogAssumption DEF SafeInv, handles, catalog, onDisk
<1>0. call' \in Call /\ call'.op = "dropIndex" /\ call'.step = "attr" /\ call'.t = t
      /\ call'.a = a /\ call'.i = 0 /\ call'.n = NO_INDEX
      /\ call'.rows = NoFile /\ call'.entries = NoFile
  BY DropIndexCall
<1>1. Typed'
  <2>1. relcat' \in [Tables -> Count] /\ relDisk' \in [Tables -> Count]
    BY Values, FileNames, IdleFacts, CallTypes, <1>0 DEF DropIndex, Start, Typed, CallSound, Count
  <2> QED BY <2>1, <1>0 DEF Typed, DropIndex, Start
<1>2. TablesHaveFiles'
  BY Values, FileNames, IdleFacts, CallTypes, <1>0 DEF DropIndex, Start, Typed, TablesHaveFiles, RowsSafe, CallSound, Count
<1>3. RowsSafe'
  BY Values, FileNames, IdleFacts, CallTypes, <1>0 DEF DropIndex, Start, Typed, TablesHaveFiles, RowsSafe, CallSound, Same
<1>4. CallSound'
  BY Values, FileNames, IdleFacts, CallTypes, <1>0 DEF DropIndex, Start, Typed, TablesHaveFiles, RowsSafe, CallSound, Same
<1> QED BY <1>1, <1>2, <1>3, <1>4

LEMMA DropIndexAttrCall ==
  ASSUME SafeInv, DropIndexAttr
  PROVE  call' \in Call /\ call'.step = "forceRel" /\ Same /\ call'.i = call.i
         /\ call'.entries = call.entries
<1> USE CatalogAssumption DEF SafeInv, handles, catalog, onDisk
<1>1. PICK i \in 1 .. Found(call.t, call.a) :
        call' = [call EXCEPT !.n = attrcat[call.t][i].indexNo, !.step = "forceRel"]
  BY DEF DropIndexAttr
<1>2. i \in 1 .. Len(attrcat[call.t]) /\ attrcat[call.t] \in Seq(AttrRow)
  BY <1>1, FoundFacts, LenProperties DEF DropIndexAttr, At, CallSound, Typed
<1>3. attrcat[call.t][i].indexNo \in Int
  <2>1. attrcat[call.t][i] \in AttrRow
    BY <1>2, ElementOfSeq
  <2> QED BY <2>1 DEF AttrRow, IndexNos, NO_INDEX
<1> QED BY <1>1, <1>3 DEF Call, Same, Steps, Typed

LEMMA DropIndexAttrSafe ==
  ASSUME SafeInv, DropIndexAttr
  PROVE  SafeInv'
<1> USE CatalogAssumption DEF SafeInv, handles, catalog, onDisk
<1>0. call' \in Call /\ call'.step = "forceRel" /\ Same /\ call'.i = call.i
      /\ call'.entries = call.entries
  BY DropIndexAttrCall
<1>5. /\ attrcat' \in [Tables -> Seq(AttrRow)] /\ attrDisk' \in [Tables -> Seq(AttrRow)]
      /\ \A u \in Tables : Len(attrcat[u])' <= MaxAttrRows /\ Len(attrDisk[u])' <= MaxAttrRows
  <2>1. PICK i \in 1 .. Found(call.t, call.a) :
          attrcat' = [attrcat EXCEPT ![call.t][i].indexNo = NO_INDEX]
    BY DEF DropIndexAttr
  <2>2. i \in 1 .. Len(attrcat[call.t])
    BY <2>1, FoundFacts, LenProperties DEF DropIndexAttr, At, CallSound, Typed
  <2>3. /\ call.t \in Tables /\ attrcat[call.t] \in Seq(AttrRow)
        /\ Len(attrcat[call.t]) \in Nat /\ Len(attrcat[call.t]) <= MaxAttrRows
    BY LenProperties DEF DropIndexAttr, At, CallSound, Typed
  <2> DEFINE s == [attrcat[call.t] EXCEPT ![i].indexNo = NO_INDEX]
  <2>4. s \in Seq(AttrRow) /\ Len(s) = Len(attrcat[call.t])
    BY <2>2, <2>3, SetIndexNo DEF IndexNos
  <2>5. attrcat' = [attrcat EXCEPT ![call.t] = s] /\ UNCHANGED attrDisk
    BY <2>1, <2>2 DEF DropIndexAttr
  <2> HIDE DEF s
  <2> QED BY <2>3, <2>4, <2>5, AttrcatFacts
<1>1. Typed'
  <2>1. attrcat' \in [Tables -> Seq(AttrRow)] /\ attrDisk' \in [Tables -> Seq(AttrRow)]
    BY <1>5
  <2>2. \A u \in Tables : Len(attrcat[u])' <= MaxAttrRows /\ Len(attrDisk[u])' <= MaxAttrRows
    BY <1>5
  <2> QED BY <2>1, <2>2, <1>0 DEF Typed, DropIndexAttr, At
<1>2. TablesHaveFiles'
  BY Values, FileNames, IdleFacts, CallTypes, <1>0 DEF DropIndexAttr, At, Typed, TablesHaveFiles, RowsSafe, CallSound, Count
<1>3. RowsSafe'
  BY Values, FileNames, IdleFacts, CallTypes, <1>0 DEF DropIndexAttr, At, Typed, TablesHaveFiles, RowsSafe, CallSound, Same
<1>4. CallSound'
  BY Values, FileNames, IdleFacts, CallTypes, <1>0 DEF DropIndexAttr, At, Typed, TablesHaveFiles, RowsSafe, CallSound, Same
<1> QED BY <1>1, <1>2, <1>3, <1>4

LEMMA DropIndexFileCall ==
  ASSUME SafeInv, DropIndexFile
  PROVE  call' = Idle /\ call' \in Call
BY IdleFacts DEF SafeInv, DropIndexFile, Return

LEMMA DropIndexFileSafe ==
  ASSUME SafeInv, DropIndexFile
  PROVE  SafeInv'
<1> USE CatalogAssumption DEF SafeInv, handles, catalog, onDisk
<1>0. call' = Idle /\ call' \in Call
  BY DropIndexFileCall
<1>1. Typed'
  <2>1. file' \in [Files -> Contents]
    BY Values, FileNames, IdleFacts, CallTypes, <1>0 DEF DropIndexFile, At, Return, Unlink, Typed, CallSound, Count, Contents
  <2>2. \A l \in lost' : l.rows \in SUBSET (Rows \cup Entries)
    BY Values, FileNames, IdleFacts, CallTypes, <1>0 DEF DropIndexFile, At, Return, Unlink, Typed, CallSound, Count, Contents
  <2> QED BY <2>1, <2>2, <1>0 DEF Typed, DropIndexFile, At, Return, Unlink
<1>2. TablesHaveFiles'
  BY Values, FileNames, IdleFacts, CallTypes, <1>0 DEF DropIndexFile, At, Return, Unlink, Typed, TablesHaveFiles, RowsSafe, CallSound, Count
<1>3. RowsSafe'
  BY Values, FileNames, IdleFacts, CallTypes, <1>0 DEF DropIndexFile, At, Return, Unlink, Typed, TablesHaveFiles, RowsSafe, CallSound, Same
<1>4. CallSound'
  BY Values, FileNames, IdleFacts, CallTypes, <1>0 DEF DropIndexFile, At, Return, Unlink, Typed, TablesHaveFiles, RowsSafe, CallSound, Same
<1> QED BY <1>1, <1>2, <1>3, <1>4

(* Steps of the pool, and of the operating system. *)
LEMMA EvictSafe ==
  ASSUME SafeInv, Evict
  PROVE  SafeInv'
<1> USE CatalogAssumption DEF SafeInv, handles, catalog, onDisk
<1>6. \A l \in lost \cup Dirty :
        /\ l.rows \in SUBSET (Rows \cup Entries) /\ l.rows # NoFile
        /\ \A u \in Tables : l.f = TableFile(u) => l.rows \in RowSets
        /\ \A u \in Tables : l.f = TableFile(u) /\ kept[u] # {} => kept[u] \subseteq l.rows
  BY DirtyFacts, Values DEF RowsSafe, Typed
<1>1. Typed'
  <2>1. relcat' \in [Tables -> Count] /\ relDisk' \in [Tables -> Count]
    <3>1. relcat \in [Tables -> Count] /\ relDisk \in [Tables -> Count]
      BY DEF Typed
    <3>2. /\ UNCHANGED relcat
          /\ \/ UNCHANGED relDisk
             \/ \E t \in Tables : relDisk' = [relDisk EXCEPT ![t] = relcat[t]]
      BY DEF Evict
    <3> QED BY <3>1, <3>2
  <2>2. attrcat' \in [Tables -> Seq(AttrRow)] /\ attrDisk' \in [Tables -> Seq(AttrRow)]
    <3>1. attrcat \in [Tables -> Seq(AttrRow)] /\ attrDisk \in [Tables -> Seq(AttrRow)]
      BY DEF Typed
    <3>2. /\ UNCHANGED attrcat
          /\ \/ UNCHANGED attrDisk
             \/ \E t \in Tables : attrDisk' = [attrDisk EXCEPT ![t] = attrcat[t]]
      BY DEF Evict
    <3> QED BY <3>1, <3>2
  <2>3. file' \in [Files -> Contents]
    <3>1. CASE UNCHANGED file
      BY <3>1 DEF Typed
    <3>2. CASE \E l \in lost \cup Dirty : file' = [file EXCEPT ![l.f] = l.rows]
      <4>1. PICK l \in lost \cup Dirty : file' = [file EXCEPT ![l.f] = l.rows]
        BY <3>2
      <4>2. l.rows \in Contents
        BY <1>6, <4>1, Values
      <4> QED BY <4>1, <4>2 DEF Typed
    <3> QED BY <3>1, <3>2 DEF Evict
  <2>4. \A u \in Tables : Len(attrcat[u])' <= MaxAttrRows /\ Len(attrDisk[u])' <= MaxAttrRows
    BY Values, FileNames, IdleFacts, CallTypes DEF Evict, Dirty, Typed, CallSound, Count
  <2> QED BY <2>1, <2>2, <2>3, <2>4 DEF Typed, Evict, Dirty
<1>2. TablesHaveFiles'
  BY Values, FileNames, IdleFacts, CallTypes DEF Evict, Dirty, Typed, TablesHaveFiles, RowsSafe, CallSound, Count
<1>3. RowsSafe'
  <2>1. UNCHANGED <<kept, lost, call>>
    BY DEF Evict
  <2>2. CASE UNCHANGED file
    BY <2>1, <2>2 DEF RowsSafe
  <2>3. CASE \E l \in lost \cup Dirty : file' = [file EXCEPT ![l.f] = l.rows]
    <3>1. PICK l \in lost \cup Dirty : file' = [file EXCEPT ![l.f] = l.rows]
      BY <2>3
    <3>2. ASSUME NEW u \in Tables, l.f = TableFile(u)
          PROVE  /\ l.rows # NoFile /\ l.rows \in RowSets
                 /\ kept[u] # {} => kept[u] \subseteq l.rows
      BY <1>6, <3>1, <3>2
    <3>3. \A u \in Tables : file'[TableFile(u)] =
             IF l.f = TableFile(u) THEN l.rows ELSE file[TableFile(u)]
      BY <3>1, FileNames DEF Typed
    <3> QED BY <2>1, <3>2, <3>3 DEF RowsSafe
  <2> QED BY <2>2, <2>3 DEF Evict
<1>4. CallSound'
  BY Values, FileNames, IdleFacts, CallTypes DEF Evict, Dirty, Typed, TablesHaveFiles, RowsSafe, CallSound, Same
<1> QED BY <1>1, <1>2, <1>3, <1>4

LEMMA CrashCall ==
  ASSUME SafeInv, Crash
  PROVE  call' = Idle /\ call' \in Call
BY IdleFacts DEF SafeInv, Crash

LEMMA CrashSafe ==
  ASSUME SafeInv, Crash
  PROVE  SafeInv'
<1> USE CatalogAssumption DEF SafeInv, handles, catalog, onDisk
<1>0. call' = Idle /\ call' \in Call
  BY CrashCall
<1>1. Typed'
  <2>1. relcat' \in [Tables -> Count] /\ relDisk' \in [Tables -> Count]
    BY Values, FileNames, IdleFacts, CallTypes, <1>0 DEF Crash, Typed, CallSound, Count
  <2>2. attrcat' \in [Tables -> Seq(AttrRow)] /\ attrDisk' \in [Tables -> Seq(AttrRow)]
    BY Values, FileNames, IdleFacts, CallTypes, <1>0 DEF Crash, Typed, CallSound, Count, AttrRow
  <2>3. \A l \in lost' : l.rows \in SUBSET (Rows \cup Entries)
    BY Values, FileNames, IdleFacts, CallTypes, <1>0 DEF Crash, Typed, CallSound, Count, Contents
  <2>4. \A u \in Tables : Len(attrcat[u])' <= MaxAttrRows /\ Len(attrDisk[u])' <= MaxAttrRows
    BY Values, FileNames, IdleFacts, CallTypes, <1>0 DEF Crash, Typed, CallSound, Count
  <2> QED BY <2>1, <2>2, <2>3, <2>4, <1>0 DEF Typed, Crash
<1>2. TablesHaveFiles'
  BY Values, FileNames, IdleFacts, CallTypes, <1>0 DEF Crash, Typed, TablesHaveFiles, RowsSafe, CallSound, Count
<1>3. RowsSafe'
  BY Values, FileNames, IdleFacts, CallTypes, <1>0 DEF Crash, Typed, TablesHaveFiles, RowsSafe, CallSound, Same
<1>4. CallSound'
  BY Values, FileNames, IdleFacts, CallTypes, <1>0 DEF Crash, Typed, TablesHaveFiles, RowsSafe, CallSound, Same
<1> QED BY <1>1, <1>2, <1>3, <1>4

(* DML_Manager::insert. *)
LEMMA InsertCall ==
  ASSUME SafeInv, NEW t \in Tables, NEW r \in Rows, Insert(t, r)
  PROVE  call' \in Call /\ call'.op = "insert" /\ call'.step = "index" /\ call'.t = t
         /\ call'.row = r /\ call'.rows = file[TableFile(t)] \cup {r} /\ call'.rows \in SUBSET Rows
         /\ call'.entries = NoFile /\ call'.i = 1
<1> USE CatalogAssumption DEF SafeInv, handles, catalog, onDisk
<1>1. /\ Begin("insert", "index", t, 0) \in Call
      /\ Begin("insert", "index", t, 0).op = "insert"
      /\ Begin("insert", "index", t, 0).step = "index"
      /\ Begin("insert", "index", t, 0).t = t
      /\ Begin("insert", "index", t, 0).entries = NoFile
  BY BeginFacts DEF Ops, Steps
<1>2. file[TableFile(t)] \cup {r} \in SUBSET Rows
  BY Values DEF Insert, RowsSafe
<1> QED BY <1>1, <1>2, Values DEF Insert, Call

LEMMA InsertSafe ==
  ASSUME SafeInv, NEW t \in Tables, NEW r \in Rows, Insert(t, r)
  PROVE  SafeInv'
<1> USE CatalogAssumption DEF SafeInv, handles, catalog, onDisk
<1>0. call' \in Call /\ call'.op = "insert" /\ call'.step = "index" /\ call'.t = t
      /\ call'.row = r /\ call'.rows = file[TableFile(t)] \cup {r} /\ call'.rows \in SUBSET Rows
      /\ call'.entries = NoFile /\ call'.i = 1
  BY InsertCall
<1>1. Typed'
  BY <1>0 DEF Typed, Insert, Start
<1>2. TablesHaveFiles'
  BY Values, FileNames, IdleFacts, CallTypes, <1>0 DEF Insert, Start, Typed, TablesHaveFiles, RowsSafe, CallSound, Count
<1>3. RowsSafe'
  BY Values, FileNames, IdleFacts, CallTypes, <1>0 DEF Insert, Start, Typed, TablesHaveFiles, RowsSafe, CallSound, Same
<1>4. CallSound'
  BY Values, FileNames, IdleFacts, CallTypes, <1>0 DEF Insert, Start, Typed, TablesHaveFiles, RowsSafe, CallSound, Same
<1> QED BY <1>1, <1>2, <1>3, <1>4

LEMMA InsertIndexCall ==
  ASSUME SafeInv, InsertIndex
  PROVE  /\ call' \in Call /\ Same /\ call'.i >= 1
         /\ \/ call'.step = "index" /\ call'.entries = call.entries /\ call'.n = call.n
            \/ /\ call'.step = "closeIndex" /\ call'.n \in IndexNos
               /\ call'.entries # NoFile /\ call'.entries \in SUBSET (Rows \cup Entries)
<1> USE CatalogAssumption DEF SafeInv, handles, catalog, onDisk
<1> DEFINE n == attrcat[call.t][call.i].indexNo
<1>1. call.i \in Nat /\ call \in Call /\ call.t \in Tables /\ call.row \in Rows
      /\ call.step = "index" /\ call.i >= 1
  BY CallTypes DEF InsertIndex, At, Typed, CallSound
<1>2. call.i \in Attrs
  <2>1. call.i <= AttrCount
    BY Zenon DEF InsertIndex
  <2> QED BY <1>1, <2>1 DEF Attrs
<1>3. attrcat[call.t] \in Seq(AttrRow) /\ Len(attrcat[call.t]) = AttrCount
  BY <1>1 DEF InsertIndex, At, Typed, CallSound
<1>4. attrcat[call.t][call.i] \in AttrRow
  BY <1>2, <1>3, ElementOfSeq DEF Attrs
<1>5. CASE n = NO_INDEX
  <2>1. call' = [call EXCEPT !.i = call.i + 1]
    BY <1>5 DEF InsertIndex
  <2> QED BY <1>1, <2>1 DEF Call, Same
<1>6. CASE n # NO_INDEX
  <2>1. PICK F \in Entered(file[IndexFile(call.t, n)], {call.row}, call.i) :
          call' = [call EXCEPT !.step = "closeIndex", !.n = n, !.entries = F]
    BY <1>6 DEF InsertIndex
  <2>2. n \in IndexNos /\ n \in Int
    BY <1>1, <1>6, <1>4 DEF AttrRow, IndexNos
  <2>3. file[IndexFile(call.t, n)] \in SUBSET (Rows \cup Entries)
    <3>1. file[IndexFile(call.t, n)] # NoFile
      BY <1>6 DEF InsertIndex
    <3>2. IndexFile(call.t, n) \in Files
      BY <1>1, <2>2, FileNames
    <3> QED BY <3>1, <3>2, Values DEF Typed
  <2>4. call.i \in Attrs /\ {call.row} \in SUBSET Rows
    BY <1>1, <1>2
  <2> HIDE DEF n
  <2>5. F \in SUBSET (Rows \cup Entries)
    BY <2>1, <2>3, <2>4, EnteredTyped
  <2> QED BY <1>1, <1>6, <2>1, <2>2, <2>5, Values DEF Call, Same, Steps
<1> QED BY <1>5, <1>6

LEMMA InsertIndexSafe ==
  ASSUME SafeInv, InsertIndex
  PROVE  SafeInv'
<1> USE CatalogAssumption DEF SafeInv, handles, catalog, onDisk
<1>0. /\ call' \in Call /\ Same /\ call'.i >= 1
      /\ \/ call'.step = "index" /\ call'.entries = call.entries /\ call'.n = call.n
         \/ /\ call'.step = "closeIndex" /\ call'.n \in IndexNos
            /\ call'.entries # NoFile /\ call'.entries \in SUBSET (Rows \cup Entries)
  BY InsertIndexCall
<1>1. Typed'
  BY <1>0 DEF Typed, InsertIndex, At
<1>2. TablesHaveFiles'
  BY Values, FileNames, IdleFacts, CallTypes, <1>0 DEF InsertIndex, At, Typed, TablesHaveFiles, RowsSafe, CallSound, Count
<1>3. RowsSafe'
  BY Values, FileNames, IdleFacts, CallTypes, <1>0 DEF InsertIndex, At, Typed, TablesHaveFiles, RowsSafe, CallSound, Same
<1>4. CallSound'
  BY Values, FileNames, IdleFacts, CallTypes, <1>0 DEF InsertIndex, At, Typed, TablesHaveFiles, RowsSafe, CallSound, Same
<1> QED BY <1>1, <1>2, <1>3, <1>4

LEMMA InsertCloseIndexCall ==
  ASSUME SafeInv, InsertCloseIndex
  PROVE  call' \in Call /\ call'.step = "index" /\ Same /\ call'.entries = NoFile
         /\ call'.i >= 1
<1> USE CatalogAssumption DEF SafeInv, handles, catalog, onDisk
<1>1. call' = [call EXCEPT !.step = "index", !.i = call.i + 1, !.n = NO_INDEX, !.entries = NoFile]
  BY DEF InsertCloseIndex
<1>2. call.i + 1 \in Nat /\ call.i + 1 >= 1 /\ "index" \in Steps /\ call \in Call
  BY CallTypes DEF Typed, Steps
<1> QED BY <1>1, <1>2, Values DEF Call, Same

LEMMA InsertCloseIndexSafe ==
  ASSUME SafeInv, InsertCloseIndex
  PROVE  SafeInv'
<1> USE CatalogAssumption DEF SafeInv, handles, catalog, onDisk
<1>0. call' \in Call /\ call'.step = "index" /\ Same /\ call'.entries = NoFile
      /\ call'.i >= 1
  BY InsertCloseIndexCall
<1>1. Typed'
  <2>1. file' \in [Files -> Contents]
    BY Values, FileNames, IdleFacts, CallTypes, <1>0 DEF InsertCloseIndex, At, Typed, CallSound, Count, Contents
  <2> QED BY <2>1, <1>0 DEF Typed, InsertCloseIndex, At
<1>2. TablesHaveFiles'
  BY Values, FileNames, IdleFacts, CallTypes, <1>0 DEF InsertCloseIndex, At, Typed, TablesHaveFiles, RowsSafe, CallSound, Count
<1>3. RowsSafe'
  <2>1. \A u \in Tables : file'[TableFile(u)] = file[TableFile(u)]
    BY FileNames DEF InsertCloseIndex, At, CallSound, Typed
  <2> QED BY <2>1, <1>0, IdleFacts, Values DEF InsertCloseIndex, RowsSafe, At, CallSound, Same
<1>4. CallSound'
  BY Values, FileNames, IdleFacts, CallTypes, <1>0 DEF InsertCloseIndex, At, Typed, TablesHaveFiles, RowsSafe, CallSound, Same
<1> QED BY <1>1, <1>2, <1>3, <1>4

LEMMA InsertCloseCall ==
  ASSUME SafeInv, InsertClose
  PROVE  call' = Idle /\ call' \in Call
BY IdleFacts DEF SafeInv, InsertClose, Return

LEMMA InsertCloseSafe ==
  ASSUME SafeInv, InsertClose
  PROVE  SafeInv'
<1> USE CatalogAssumption DEF SafeInv, handles, catalog, onDisk
<1>0. call' = Idle /\ call' \in Call
  BY InsertCloseCall
<1>1. Typed'
  <2>1. file' \in [Files -> Contents]
    BY Values, FileNames, IdleFacts, CallTypes, <1>0 DEF InsertClose, At, Return, Typed, CallSound, Count, Contents
  <2>2. kept' \in [Tables -> SUBSET Rows]
    BY Values, FileNames, IdleFacts, CallTypes, <1>0 DEF InsertClose, At, Return, Typed, CallSound, Count
  <2> QED BY <2>1, <2>2, <1>0 DEF Typed, InsertClose, At, Return
<1>2. TablesHaveFiles'
  BY Values, FileNames, IdleFacts, CallTypes, <1>0 DEF InsertClose, At, Return, Typed, TablesHaveFiles, RowsSafe, CallSound, Count
<1>3. RowsSafe'
  <2>1. /\ call.op = "insert" /\ call.t \in Tables /\ call.row \in Rows
        /\ call.rows # NoFile /\ call.rows \in SUBSET Rows
    BY CallTypes, Values DEF InsertClose, At, CallSound, Typed
  <2>2. /\ file' = [file EXCEPT ![TableFile(call.t)] = call.rows] /\ UNCHANGED lost
        /\ call'.rows = NoFile
    BY <1>0, IdleFacts DEF InsertClose
  <2>3. ASSUME NEW u \in Tables, u # call.t
        PROVE  file'[TableFile(u)] = file[TableFile(u)] /\ kept'[u] = kept[u]
    BY <2>1, <2>2, <2>3, FileNames DEF InsertClose, Typed
  <2>4. file'[TableFile(call.t)] = call.rows
    BY <2>1, <2>2, FileNames DEF Typed
  <2>5. kept'[call.t] = kept[call.t] \/ /\ kept'[call.t] = kept[call.t] \cup {call.row}
                                        /\ \A l \in lost : l.f # TableFile(call.t)
    BY <2>1 DEF InsertClose, Typed
  <2>6. call.row \in call.rows /\ kept[call.t] \subseteq call.rows
    BY <2>1 DEF RowsSafe, CallSound
  <2> QED BY <2>1, <2>2, <2>3, <2>4, <2>5, <2>6, Values DEF RowsSafe
<1>4. CallSound'
  BY Values, FileNames, IdleFacts, CallTypes, <1>0 DEF InsertClose, At, Return, Typed, TablesHaveFiles, RowsSafe, CallSound, Same
<1> QED BY <1>1, <1>2, <1>3, <1>4

(* A call that fails leaves its handles open, and the pool with them. *)
LEMMA StepFailsCall ==
  ASSUME SafeInv, StepFails
  PROVE  call' = Idle /\ call' \in Call
BY IdleFacts DEF SafeInv, StepFails, Return

LEMMA StepFailsSafe ==
  ASSUME SafeInv, StepFails
  PROVE  SafeInv'
<1> USE CatalogAssumption DEF SafeInv, handles, catalog, onDisk
<1>0. call' = Idle /\ call' \in Call
  BY StepFailsCall
<1>6. \A l \in lost \cup Dirty :
        /\ l.rows \in SUBSET (Rows \cup Entries) /\ l.rows # NoFile
        /\ \A u \in Tables : l.f = TableFile(u) => l.rows \in RowSets
        /\ \A u \in Tables : l.f = TableFile(u) /\ kept[u] # {} => kept[u] \subseteq l.rows
  BY DirtyFacts, Values DEF RowsSafe, Typed
<1>1. Typed'
  <2>1. file' \in [Files -> Contents]
    BY Values, FileNames, IdleFacts, CallTypes, <1>0 DEF StepFails, At, Return, Unlink, Dirty, Typed, CallSound, Count, Contents
  <2>2. \A l \in lost' : l.rows \in SUBSET (Rows \cup Entries)
    <3>1. lost' \subseteq lost \cup Dirty
      BY DEF StepFails, Unlink
    <3> QED BY <1>6, <3>1
  <2> QED BY <2>1, <2>2, <1>0 DEF Typed, StepFails, At, Return, Unlink, Dirty
<1>2. TablesHaveFiles'
  BY Values, FileNames, IdleFacts, CallTypes, <1>0 DEF StepFails, At, Return, Unlink, Dirty, Typed, TablesHaveFiles, RowsSafe, CallSound, Count
<1>3. RowsSafe'
  <2>1. UNCHANGED kept /\ call'.rows = NoFile
    BY <1>0, IdleFacts DEF StepFails
  <2>2. CASE lost' = lost \cup Dirty /\ UNCHANGED file
    <3>1. ASSUME NEW u \in Tables, NEW l \in lost', l.f = TableFile(u)
          PROVE  l.rows \in RowSets /\ (kept[u] # {} => kept[u] \subseteq l.rows)
      BY <1>6, <2>2, <3>1
    <3> QED BY <2>1, <2>2, <3>1 DEF RowsSafe
  <2>3. CASE At("dropTable", "files") /\ Unlink(TableFile(call.t))
    <3>1. kept[call.t] = {} /\ call.t \in Tables /\ lost' \subseteq lost
      BY <2>3 DEF At, CallSound, Unlink
    <3>2. \A u \in Tables : u # call.t => file'[TableFile(u)] = file[TableFile(u)]
      BY <2>3, FileNames DEF Unlink, Typed
    <3>3. \A u \in Tables : file'[TableFile(u)] \in RowSets
      BY <2>3, <3>2, FileNames, Values DEF Unlink, Typed, RowsSafe
    <3> QED BY <2>1, <3>1, <3>2, <3>3 DEF RowsSafe
  <2>4. CASE /\ At("createIndex", "files") /\ UNCHANGED lost
             /\ file' = [file EXCEPT ![IndexFile(call.t, call.n)] = {}]
    <3>1. \A u \in Tables : file'[TableFile(u)] = file[TableFile(u)]
      BY <2>4, FileNames DEF At, CallSound, Typed
    <3> QED BY <2>1, <2>4, <3>1 DEF RowsSafe
  <2> QED BY <2>2, <2>3, <2>4 DEF StepFails
<1>4. CallSound'
  BY Values, FileNames, IdleFacts, CallTypes, <1>0 DEF StepFails, At, Return, Unlink, Dirty, Typed, TablesHaveFiles, RowsSafe, CallSound, Same
<1> QED BY <1>1, <1>2, <1>3, <1>4

LEMMA InitSafe == Init => SafeInv
<1> USE CatalogAssumption DEF Init
<1> SUFFICES ASSUME Init PROVE SafeInv
  OBVIOUS
<1>1. Typed
  <2>1. << >> \in Seq(AttrRow) /\ Len(<< >>) = 0 /\ NoRow \in Count
    BY DEF Count
  <2>2. attrcat \in [Tables -> Seq(AttrRow)] /\ \A t \in Tables : attrcat[t] = << >>
    BY <2>1
  <2> QED BY <2>1, <2>2, IdleFacts, Values DEF Typed, MaxAttrRows
<1>2. TablesHaveFiles
  BY DEF TablesHaveFiles
<1>3. RowsSafe
  BY FileNames, Values DEF RowsSafe
<1>4. CallSound
  BY IdleFacts DEF CallSound
<1> QED BY <1>1, <1>2, <1>3, <1>4 DEF SafeInv

LEMMA NextSafe == SafeInv /\ [Next]_vars => SafeInv'
<1> SUFFICES ASSUME SafeInv, [Next]_vars PROVE SafeInv'
  OBVIOUS
<1>1. CASE CatalogNext
  BY <1>1, OpenDbSafe, CloseDbSafe, CreateTableSafe, CreateTableFailsSafe, DropTableSafe,
     CreateIndexSafe, DropIndexSafe, CreateRelRowSafe, CreateAttrRowSafe, ForceRelSafe,
     ForceAttrSafe, DropAttrIndexSafe, DropAttrRowSafe, DropNoMoreRowsSafe, DropFileSafe,
     IndexAttrSafe, CreateIndexFileSafe, FillIndexSafe, CloseNewIndexSafe,
     DropIndexAttrSafe, DropIndexFileSafe, StepFailsSafe, EvictSafe, CrashSafe DEF CatalogNext
<1>2. CASE Next /\ ~CatalogNext
  BY <1>2, InsertSafe, InsertIndexSafe, InsertCloseIndexSafe, InsertCloseSafe DEF Next
<1>3. CASE UNCHANGED vars
  BY <1>3 DEF vars, handles, catalog, onDisk, faulty, SafeInv, Typed, TablesHaveFiles,
              RowsSafe, CallSound
<1> QED BY <1>1, <1>2, <1>3

(* A table that the catalog names has its file, whatever step of           *)
(* createTable or dropTable fails and whenever the process dies: openTable *)
(* never finds a table without one.                                        *)
THEOREM DbTablesHaveFiles == Spec => []TablesHaveFiles
<1>1. SafeInv => TablesHaveFiles
  BY DEF SafeInv
<1> QED BY <1>1, InitSafe, NextSafe, PTL DEF Spec

(* A row whose insert returned 0 stays in its table until the table is     *)
(* dropped, whatever later calls fail or are cut off by a crash.           *)
THEOREM DbRowsStay == Spec => []RowsStay
<1>1. SafeInv => RowsStay
  BY DEF SafeInv, RowsSafe, RowsStay
<1> QED BY <1>1, InitSafe, NextSafe, PTL DEF Spec

-----------------------------------------------------------------------------
(* The index numbers in the rows of a table that has the indexes I, from   *)
(* the position on, when the first gone rows are deleted.                  *)
RowsFrom(t, from, gone, I) ==
  \A j \in from .. Len(attrcat[t]) :
    attrcat[t][j].indexNo = IF gone + j - 1 \in I THEN gone + j - 1 ELSE NO_INDEX
Named(t, k) == \A a \in 1 .. k : \E i \in 1 .. k : attrcat[t][i].attrName = a
HasRows(t, I) == Len(attrcat[t]) = AttrCount /\ RowsFrom(t, 1, 0, I) /\ Named(t, AttrCount)
NoRows(t) == relcat[t] = NoRow /\ attrcat[t] = << >>

(* The entries E of the index n cover the rows R. *)
Present(t) == file[TableFile(t)] # NoFile
Holds(t, n, E, R) == Covers(E, R, Columns(t, n))
Full(t, N) == \A n \in N : Holds(t, n, file[IndexFile(t, n)], file[TableFile(t)])
Numbered(t) == \A n \in Indexed(t) : n < AttrCount

RelForced(t) == relDisk[t] = relcat[t]
AttrForced(t) == attrDisk[t] = attrcat[t]
ForcedSoFar(t) ==
  /\ call.step \in {"forceAttr", "files", "fill", "close"} => RelForced(t)
  /\ call.step \in {"files", "fill", "close"} => AttrForced(t)

Whole(t) == /\ Present(t) /\ RelForced(t) /\ AttrForced(t) /\ Numbered(t)
            /\ relcat[t] = Cardinality(Indexed(t)) /\ HasRows(t, Indexed(t))
Absent(t) == /\ ~Present(t) /\ RelForced(t) /\ AttrForced(t)
             /\ NoRows(t) /\ Indexed(t) = {}
RestExact(t) == (Whole(t) /\ Full(t, Indexed(t))) \/ Absent(t)

CreateTableExact(t) ==
  /\ Present(t) /\ Indexed(t) = {} /\ ForcedSoFar(t)
  /\ IF call.step = "relRow" THEN NoRows(t) /\ call.a = 0 ELSE relcat[t] = 0
  /\ call.step = "attrRow" =>
       Len(attrcat[t]) = call.a /\ RowsFrom(t, 1, 0, {}) /\ Named(t, call.a)
  /\ call.step \in {"forceRel", "forceAttr"} => HasRows(t, {})

DropTableExact(t) ==
  LET gone == AttrCount - Len(attrcat[t])
      head == IF call.step = "deleteRow" THEN 1 ELSE 0
  IN /\ Present(t) /\ ForcedSoFar(t)
     /\ gone >= 0 /\ \A n \in Indexed(t) : gone + head <= n /\ n < AttrCount
     /\ RowsFrom(t, 1 + head, gone, Indexed(t))
     /\ call.step \notin {"attrRow", "deleteRow"} => attrcat[t] = << >>

CreateIndexExact(t) ==
  LET n == IF call.step = "attr" THEN Found(t, call.a) - 1 ELSE call.n
      I == Indexed(t) \cup {n}
  IN /\ Present(t) /\ ForcedSoFar(t) /\ Numbered(t)
     /\ n + 1 \in Attrs /\ attrcat[t][n + 1].attrName = call.a
     /\ (n \in Indexed(t)) = (call.step \in {"fill", "close"})
     /\ relcat[t] = Cardinality(I) /\ Full(t, Indexed(t) \ {n})
     /\ HasRows(t, IF call.step = "attr" THEN Indexed(t) ELSE I)
     /\ IF call.step = "close" THEN Holds(t, n, call.entries, file[TableFile(t)])
                               ELSE call.entries = NoFile

DropIndexExact(t) ==
  LET n == IF call.step = "attr" THEN Found(t, call.a) - 1 ELSE call.n
      I == Indexed(t) \ {n}
  IN /\ Present(t) /\ ForcedSoFar(t) /\ Numbered(t) /\ Full(t, Indexed(t))
     /\ n \in Indexed(t) /\ relcat[t] = Cardinality(I)
     /\ HasRows(t, IF call.step = "attr" THEN Indexed(t) ELSE I)

InsertExact(t) ==
  LET before == call.rows \ {call.row}
  IN /\ Whole(t) /\ file[TableFile(t)] \in {before, call.rows}
     /\ \A n \in Indexed(t) :
          /\ n + 1 < call.i => Holds(t, n, file[IndexFile(t, n)], call.rows)
          /\ n + 1 > call.i => Holds(t, n, file[IndexFile(t, n)], before)
          /\ n + 1 = call.i => \/ Holds(t, n, file[IndexFile(t, n)], before)
                               \/ call.step = "closeIndex"
     /\ IF call.step = "closeIndex"
        THEN call.n + 1 = call.i /\ call.n \in Indexed(t) /\ Holds(t, call.n, call.entries, call.rows)
        ELSE call.entries = NoFile

CallExact(t) ==
  /\ call.op = "createTable" => CreateTableExact(t)
  /\ call.op = "dropTable" => DropTableExact(t)
  /\ call.op = "createIndex" => CreateIndexExact(t)
  /\ call.op = "dropIndex" => DropIndexExact(t)
  /\ call.op = "insert" => InsertExact(t)

Active(t) == call.op # "none" /\ call.t = t
TableExact(t) == IF Active(t) THEN CallExact(t) ELSE RestExact(t)
ExactInv ==
  /\ \A l \in lost : l.f[1] \in hurt
  /\ \A t \in Tables : t \notin hurt => TableExact(t)

-----------------------------------------------------------------------------
(* The indexes a table has are finitely many. *)
LEMMA IndexedFacts ==
  ASSUME NEW t
  PROVE  /\ Indexed(t) \subseteq IndexNos /\ IndexNos \subseteq Nat
         /\ IsFiniteSet(Indexed(t)) /\ Cardinality(Indexed(t)) \in Nat
<1>1. IndexNos \subseteq Nat /\ IsFiniteSet(IndexNos)
  BY CatalogAssumption, FS_Interval DEF IndexNos, MaxAttrRows
<1>2. Indexed(t) \subseteq IndexNos
  BY DEF Indexed
<1> QED BY <1>1, <1>2, FS_Subset, FS_CardinalityType

(* What an index has to hold goes by the names in the rows of its table. *)
LEMMA SameHolds ==
  ASSUME NEW t, attrcat'[t] = attrcat[t]
  PROVE  \A n, E, R : Holds(t, n, E, R)' = Holds(t, n, E, R)
BY DEF Holds, Covers, Columns

(* What a step leaves alone of a table. *)
SameTable(u) ==
  /\ relcat'[u] = relcat[u] /\ attrcat'[u] = attrcat[u]
  /\ relDisk'[u] = relDisk[u] /\ attrDisk'[u] = attrDisk[u]
  /\ file'[TableFile(u)] = file[TableFile(u)]
  /\ \A n \in IndexNos : file'[IndexFile(u, n)] = file[IndexFile(u, n)]

(* A table at rest that a step leaves alone stays as it should be. *)
LEMMA RestKept ==
  ASSUME NEW u \in Tables, RestExact(u), SameTable(u)
  PROVE  RestExact(u)'
<1>1. Indexed(u)' = Indexed(u)
  BY DEF Indexed, SameTable
<1>2. Present(u)' = Present(u) /\ RelForced(u)' = RelForced(u) /\ AttrForced(u)' = AttrForced(u)
  BY DEF SameTable, Present, RelForced, AttrForced
<1>3. Full(u, Indexed(u))' = Full(u, Indexed(u))
  <2>1. \A n, E, R : Holds(u, n, E, R)' = Holds(u, n, E, R)
    BY SameHolds DEF SameTable
  <2> QED BY <1>1, <2>1, IndexedFacts DEF SameTable, Full
<1>4. Numbered(u)' = Numbered(u) /\ HasRows(u, Indexed(u))' = HasRows(u, Indexed(u))
      /\ NoRows(u)' = NoRows(u)
  BY <1>1 DEF SameTable, Numbered, HasRows, RowsFrom, Named, NoRows
<1>5. Cardinality(Indexed(u))' = Cardinality(Indexed(u)) /\ relcat'[u] = relcat[u]
  BY <1>1 DEF SameTable
<1> QED BY <1>1, <1>2, <1>3, <1>4, <1>5 DEF RestExact, Whole, Absent

(* A step changes one table: the one its call is for. *)
LEMMA OneTable ==
  ASSUME ExactInv, NEW t,
         hurt \subseteq hurt', \A l \in lost' : l.f[1] \in hurt',
         \A u \in Tables : u # t => ~Active(u) /\ ~Active(u)',
         \A u \in Tables : u # t /\ u \notin hurt' => SameTable(u),
         t \in Tables \ hurt' => TableExact(t)'
  PROVE  ExactInv'
<1>1. ASSUME NEW u \in Tables, u \notin hurt', u # t
      PROVE  TableExact(u)'
  <2>1. RestExact(u) /\ SameTable(u)
    BY <1>1 DEF ExactInv, TableExact
  <2>2. RestExact(u)'
    BY <2>1, RestKept
  <2> QED BY <1>1, <2>2 DEF TableExact
<1> QED BY <1>1 DEF ExactInv

(* What is known of the table of the call in progress. *)
LEMMA ActiveFacts ==
  ASSUME SafeInv
  PROVE  /\ call = Idle => \A u : ~Active(u)
         /\ call' = Idle => \A u : ~Active(u)'
         /\ \A u : u # call.t => ~Active(u)
         /\ \A u : u # call'.t => ~Active(u)'
         /\ call.op # "none" => call.t \in Tables /\ Active(call.t)
BY IdleFacts DEF Active, SafeInv, CallSound

(* Index files have names of their own. *)
LEMMA IndexFileNames ==
  /\ \A t, u, m, n : IndexFile(t, m) = IndexFile(u, n) => t = u /\ m = n
  /\ \A t, n : IndexFile(t, n)[1] = t /\ TableFile(t)[1] = t
BY FileNames DEF IndexFile, TableFile

(* The steps of a call that touch no file, only its rows in the catalog. *)
LEMMA CatalogStep ==
  ASSUME SafeInv, ExactInv, NEW t \in Tables, call'.op # "none" => call'.t = t,
         call.op # "none" => call.t = t,
         hurt \subseteq hurt', UNCHANGED <<file, lost>>,
         \A u \in Tables : u # t /\ u \notin hurt' =>
             /\ relcat'[u] = relcat[u] /\ attrcat'[u] = attrcat[u]
             /\ relDisk'[u] = relDisk[u] /\ attrDisk'[u] = attrDisk[u],
         t \notin hurt' => TableExact(t)'
  PROVE  ExactInv'
<1>1. \A u \in Tables : u # t => ~Active(u) /\ ~Active(u)'
  BY DEF Active
<1>2. \A l \in lost' : l.f[1] \in hurt'
  BY DEF ExactInv
<1>3. \A u \in Tables : u # t /\ u \notin hurt' => SameTable(u)
  BY DEF SameTable
<1> QED BY <1>1, <1>2, <1>3, OneTable

(* A file is written, created or removed. *)
Put(f, c) == file' = [file EXCEPT ![f] = c]

(* Those that change one of its files. *)
LEMMA FileStep ==
  ASSUME SafeInv, ExactInv, NEW t \in Tables, call'.op # "none" => call'.t = t,
         call.op # "none" => call.t = t,
         hurt \subseteq hurt', lost' \subseteq lost, UNCHANGED <<catalog, onDisk>>,
         NEW f, f[1] = t, NEW c, Put(f, c),
         t \notin hurt' => TableExact(t)'
  PROVE  ExactInv'
<1>1. \A u \in Tables : u # t => ~Active(u) /\ ~Active(u)'
  BY DEF Active
<1>2. \A l \in lost' : l.f[1] \in hurt'
  BY DEF ExactInv
<1>3. \A u \in Tables : u # t => SameTable(u)
  BY FileNames, IndexFileNames DEF SameTable, catalog, onDisk, SafeInv, Typed, Put
<1> QED BY <1>1, <1>2, <1>3, OneTable

(* indexCount counts one index more, or one less. *)
LEMMA CountFacts ==
  ASSUME NEW t, NEW n \in IndexNos
  PROVE  /\ n \notin Indexed(t) =>
              Cardinality(Indexed(t) \cup {n}) = Cardinality(Indexed(t)) + 1
         /\ n \in Indexed(t) => /\ Cardinality(Indexed(t) \ {n}) = Cardinality(Indexed(t)) - 1
                                /\ Indexed(t) \cup {n} = Indexed(t)
         /\ Cardinality({}) = 0
<1>1. IsFiniteSet(Indexed(t)) /\ Cardinality(Indexed(t)) \in Nat
  BY IndexedFacts
<1>2. n \notin Indexed(t) => Cardinality(Indexed(t) \cup {n}) = Cardinality(Indexed(t)) + 1
  BY <1>1, FS_AddElement
<1>3. n \in Indexed(t) => Cardinality(Indexed(t) \ {n}) = Cardinality(Indexed(t)) - 1
  BY <1>1, FS_RemoveElement
<1> QED BY <1>2, <1>3, FS_EmptySet

-----------------------------------------------------------------------------
(* createTable and dropTable, one step after the other. *)
LEMMA CreateTableStep ==
  ASSUME SafeInv, ExactInv, NEW t \in Tables, CreateTable(t)
  PROVE  ExactInv'
<1>1. call = Idle /\ ~Active(t) /\ \A u : ~Active(u)
  BY ActiveFacts DEF CreateTable, Start
<1>2. /\ call'.op = "createTable" /\ call'.step = "relRow" /\ call'.t = t
      /\ call'.a = 0
  BY CreateTableCall
<1>3. ASSUME t \notin hurt
      PROVE  TableExact(t)'
  <2>1. Absent(t)
    BY <1>1, <1>3 DEF ExactInv, TableExact, RestExact, CreateTable, Whole, Present
  <2>2. Present(t)'
    BY FileNames, Values DEF CreateTable, Present, SafeInv, Typed
  <2>3. Indexed(t)' = Indexed(t)
    BY FileNames DEF Indexed, CreateTable, SafeInv, Typed
  <2>4. NoRows(t)'
    BY <2>1 DEF NoRows, Absent, CreateTable, catalog
  <2> QED BY <1>2, <2>1, <2>2, <2>3, <2>4
          DEF TableExact, Active, CallExact, CreateTableExact, Absent, ForcedSoFar
<1> QED
  <2>1. Put(TableFile(t), {}) /\ TableFile(t)[1] = t
    BY IndexFileNames DEF Put, CreateTable, faulty
  <2>2. UNCHANGED <<catalog, onDisk>>
    BY Zenon DEF catalog, onDisk, CreateTable, faulty
  <2> QED BY <1>1, <1>2, <1>3, <2>1, <2>2, IdleFacts, FileStep DEF CreateTable, faulty

LEMMA CreateTableFailsStep ==
  ASSUME SafeInv, ExactInv, NEW t \in Tables, CreateTableFails(t)
  PROVE  ExactInv'
<1>1. call = Idle /\ UNCHANGED call /\ t \in hurt'
  BY DEF CreateTableFails, Start, Fails, Fault
<1>2. Put(TableFile(t), {}) /\ TableFile(t)[1] = t
  BY IndexFileNames DEF CreateTableFails, Put
<1>3. UNCHANGED <<catalog, onDisk, lost>> /\ hurt \subseteq hurt'
  BY DEF CreateTableFails, Fails, Fault
<1> QED BY <1>1, <1>2, <1>3, IdleFacts, FileStep

LEMMA CreateRelRowStep ==
  ASSUME SafeInv, ExactInv, CreateRelRow
  PROVE  ExactInv'
<1>1. PICK t \in Tables : /\ t = call.t /\ Active(t)
                          /\ call.op = "createTable" /\ call.step = "relRow"
  BY DEF CreateRelRow, At, SafeInv, CallSound, Active
<1>2. call'.step = "attrRow" /\ call'.op = call.op /\ call'.t = t
      /\ call'.a = call.a
  BY <1>1, CreateRelRowCall DEF Same
<1>3. hurt \subseteq hurt' /\ UNCHANGED <<attrcat, relDisk, attrDisk, file, lost>>
      /\ \A u \in Tables : u # t => relcat'[u] = relcat[u]
  BY <1>1 DEF CreateRelRow, Fails, Fault, faulty, onDisk, SafeInv, Typed
<1>4. ASSUME t \notin hurt'
      PROVE  TableExact(t)'
  <2>1. relcat'[t] = 0
    BY <1>1, <1>4 DEF CreateRelRow, Fails, Fault, SafeInv, Typed
  <2>2. CreateTableExact(t)
    BY <1>1, <1>3, <1>4 DEF ExactInv, TableExact, CallExact
  <2>3. Indexed(t)' = Indexed(t) /\ Present(t)' = Present(t)
    BY <1>3 DEF Indexed, Present
  <2>4. attrcat'[t] = << >> /\ Len(attrcat'[t]) = 0 /\ RowsFrom(t, 1, 0, {})' /\ Named(t, 0)'
    BY <1>1, <1>3, <2>2 DEF CreateTableExact, NoRows, RowsFrom, Named
  <2>5. CreateTableExact(t)'
    BY <1>1, <1>2, <2>1, <2>2, <2>3, <2>4 DEF CreateTableExact, ForcedSoFar
  <2> QED BY <1>1, <1>2, <2>5 DEF TableExact, Active, CallExact
<1> QED BY <1>1, <1>2, <1>3, <1>4, CatalogStep

LEMMA CreateAttrRowStep ==
  ASSUME SafeInv, ExactInv, CreateAttrRow
  PROVE  ExactInv'
<1>1. PICK t \in Tables : /\ t = call.t /\ Active(t)
                          /\ call.op = "createTable" /\ call.step = "attrRow"
  BY DEF CreateAttrRow, At, SafeInv, CallSound, Active
<1> DEFINE e == [attrName |-> call.a + 1, indexNo |-> NO_INDEX]
<1>2. PICK pos \in 1 .. Len(attrcat[t]) + 1 :
        attrcat' = [attrcat EXCEPT ![t] = InsertAt(attrcat[t], pos, e)]
  BY <1>1 DEF CreateAttrRow
<1>3. /\ call'.step \in {"attrRow", "forceRel"} /\ call'.op = call.op /\ call'.t = t
      /\ call'.a = call.a + 1
      /\ call'.step = "attrRow" => call.a + 1 < AttrCount
      /\ call'.step = "forceRel" => call.a + 1 = AttrCount
  <2>1. /\ call'.step \in {"attrRow", "forceRel"} /\ call'.op = call.op /\ call'.t = t
        /\ call'.a = call.a + 1
    BY <1>1, CreateAttrRowCall DEF Same
  <2>2. call \in Call
    BY DEF SafeInv, Typed
  <2>3. call'.step = IF call.a + 1 = AttrCount THEN "forceRel" ELSE call.step
    BY <2>2 DEF CreateAttrRow, Call
  <2>4. call.a < AttrCount /\ call.a \in Nat /\ AttrCount \in Nat
    BY CallTypes, CatalogAssumption DEF CreateAttrRow, At, CallSound, SafeInv, Typed
  <2> QED BY <1>1, <2>1, <2>3, <2>4
<1>4. /\ UNCHANGED <<relcat, relDisk, attrDisk, file, lost, hurt>>
      /\ \A u \in Tables : u # t => attrcat'[u] = attrcat[u]
  BY <1>1, <1>2 DEF CreateAttrRow, faulty, onDisk, SafeInv, Typed
<1>5. ASSUME t \notin hurt'
      PROVE  TableExact(t)'
  <2>1. CreateTableExact(t)
    BY <1>1, <1>4, <1>5 DEF ExactInv, TableExact, CallExact
  <2>2. /\ attrcat[t] \in Seq(AttrRow) /\ Len(attrcat[t]) = call.a /\ call.a \in Nat
        /\ \A j \in 1 .. call.a : attrcat[t][j].indexNo = NO_INDEX
        /\ \A b \in 1 .. call.a : \E i \in 1 .. call.a : attrcat[t][i].attrName = b
    BY <1>1, <2>1, CallTypes DEF CreateTableExact, RowsFrom, Named, SafeInv, Typed
  <2>3. pos \in 1 .. call.a + 1
    BY <2>2
  <2>4. e \in AttrRow
    BY <2>2 DEF AttrRow
  <2>5. attrcat'[t] = InsertAt(attrcat[t], pos, e)
    BY <1>2 DEF SafeInv, Typed
  <2> HIDE DEF e
  <2>6. /\ Len(attrcat'[t]) = call.a + 1
        /\ \A j \in 1 .. call.a + 1 : attrcat'[t][j] =
             IF j < pos THEN attrcat[t][j] ELSE IF j = pos THEN e ELSE attrcat[t][j - 1]
    <3>1. /\ Len(InsertAt(attrcat[t], pos, e)) = Len(attrcat[t]) + 1
          /\ \A j \in 1 .. Len(attrcat[t]) + 1 : InsertAt(attrcat[t], pos, e)[j] =
               IF j < pos THEN attrcat[t][j] ELSE IF j = pos THEN e ELSE attrcat[t][j - 1]
      <4>1. attrcat[t] \in Seq(AttrRow) /\ pos \in 1 .. Len(attrcat[t]) + 1 /\ e \in AttrRow
        BY <2>2, <2>3, <2>4
      <4>2. PICK s : s = attrcat[t]
        OBVIOUS
      <4>3. /\ Len(InsertAt(s, pos, e)) = Len(s) + 1
            /\ \A j \in 1 .. Len(s) + 1 : InsertAt(s, pos, e)[j] =
                 IF j < pos THEN s[j] ELSE IF j = pos THEN e ELSE s[j - 1]
        BY <4>1, <4>2, InsertAtFacts
      <4> QED BY <4>2, <4>3
    <3> QED BY <2>2, <2>3, <2>5, <3>1
  <2>11. e.attrName = call.a + 1 /\ e.indexNo = NO_INDEX
    BY DEF e
  <2>7. ASSUME NEW j \in 1 .. call.a + 1
        PROVE  attrcat'[t][j].indexNo = NO_INDEX
    <3>1. CASE j < pos
      <4>1. j \in 1 .. call.a /\ attrcat'[t][j] = attrcat[t][j]
        BY <2>2, <2>3, <2>6, <3>1
      <4> QED BY <2>2, <4>1
    <3>2. CASE j = pos
      BY <2>6, <2>11, <3>2
    <3>3. CASE j > pos
      <4>1. j - 1 \in 1 .. call.a /\ attrcat'[t][j] = attrcat[t][j - 1]
        BY <2>2, <2>3, <2>6, <3>3
      <4> QED BY <2>2, <4>1
    <3> QED BY <2>2, <2>3, <3>1, <3>2, <3>3
  <2>12. ASSUME NEW b \in 1 .. call.a + 1
         PROVE  \E i \in 1 .. call.a + 1 : attrcat'[t][i].attrName = b
    <3>1. CASE b = call.a + 1
      <4>1. attrcat'[t][pos] = e
        BY <2>2, <2>3, <2>6
      <4> QED BY <2>3, <2>11, <3>1, <4>1
    <3>2. CASE b # call.a + 1
      <4>4. b \in 1 .. call.a
        BY <2>2, <3>2
      <4>1. PICK i \in 1 .. call.a : attrcat[t][i].attrName = b
        BY <2>2, <4>4
      <4>2. CASE i < pos
        <5>1. i \in 1 .. call.a + 1 /\ attrcat'[t][i] = attrcat[t][i]
          BY <2>2, <2>6, <4>2
        <5> QED BY <4>1, <5>1
      <4>3. CASE ~(i < pos)
        <5>1. i + 1 \in 1 .. call.a + 1 /\ i + 1 - 1 = i /\ ~(i + 1 < pos) /\ i + 1 # pos
          BY <2>2, <2>3, <4>3
        <5>2. attrcat'[t][i + 1] = attrcat[t][i]
          BY <2>6, <5>1
        <5> QED BY <4>1, <5>1, <5>2
      <4> QED BY <4>2, <4>3
    <3> QED BY <3>1, <3>2
  <2>8. Indexed(t)' = Indexed(t) /\ Present(t)' = Present(t)
    BY <1>4 DEF Indexed, Present
  <2>9. RowsFrom(t, 1, 0, {})' /\ Named(t, call.a)'
    <3>1. call'.a = call.a + 1 /\ Len(attrcat'[t]) = call.a + 1
      BY <1>3, <2>6
    <3> QED BY <2>7, <2>12, <3>1 DEF RowsFrom, Named
  <2>10. CreateTableExact(t)'
    <3>1. /\ Len(attrcat'[t]) = call'.a /\ call'.a = call.a + 1
          /\ call'.step = "forceRel" => call'.a = AttrCount
      BY <1>3, <2>6
    <3>2. call'.step = "forceRel" => HasRows(t, {})'
      BY <2>9, <3>1 DEF HasRows, Named
    <3> QED BY <1>1, <1>3, <1>4, <2>1, <2>8, <2>9, <3>1, <3>2 DEF CreateTableExact, ForcedSoFar
  <2> QED BY <1>1, <1>3, <2>10 DEF TableExact, Active, CallExact
<1> QED BY <1>1, <1>3, <1>4, <1>5, CatalogStep

LEMMA SameFiles ==
  ASSUME UNCHANGED file, NEW t
  PROVE  /\ Indexed(t)' = Indexed(t) /\ Present(t)' = Present(t)
         /\ Numbered(t)' = Numbered(t)
BY DEF Indexed, Present, Numbered

LEMMA SameRows ==
  ASSUME NEW t, attrcat'[t] = attrcat[t]
  PROVE  /\ \A I : HasRows(t, I)' = HasRows(t, I)
         /\ \A I, i, k : RowsFrom(t, i, k, I)' = RowsFrom(t, i, k, I)
         /\ \A k : Named(t, k)' = Named(t, k)
         /\ \A a : Found(t, a)' = Found(t, a)
BY DEF HasRows, RowsFrom, Named, Found

LEMMA SameFull ==
  ASSUME UNCHANGED file, NEW t, attrcat'[t] = attrcat[t]
  PROVE  \A N : Full(t, N)' = Full(t, N)
BY SameHolds DEF Full

LEMMA ForceRelStep ==
  ASSUME SafeInv, ExactInv, ForceRel
  PROVE  ExactInv'
<1>1. PICK t \in Tables : t = call.t /\ Active(t) /\ call.step = "forceRel"
  BY DEF ForceRel, SafeInv, CallSound, Active
<1>2. /\ call'.step = "forceAttr" /\ call'.op = call.op /\ call'.t = t
      /\ call'.a = call.a /\ call'.n = call.n /\ call'.entries = call.entries
  BY <1>1, ForceRelCall DEF Same
<1>3. UNCHANGED <<relcat, attrcat, attrDisk, file, lost, hurt>> /\ relDisk' = relcat
  BY <1>1 DEF ForceRel, faulty, catalog
<1>4. \A u \in Tables : u # t /\ u \notin hurt' => relDisk'[u] = relDisk[u]
  BY <1>1, <1>3 DEF ExactInv, TableExact, Active, RestExact, Whole, Absent, RelForced
<1>5. ASSUME t \notin hurt'
      PROVE  TableExact(t)'
  <2>1. CallExact(t)
    BY <1>1, <1>3, <1>5 DEF ExactInv, TableExact
  <2>2. Indexed(t)' = Indexed(t) /\ Present(t)' = Present(t) /\ Numbered(t)' = Numbered(t)
        /\ (\A I : HasRows(t, I)' = HasRows(t, I)) /\ (\A N : Full(t, N)' = Full(t, N))
        /\ \A a : Found(t, a)' = Found(t, a)
    BY <1>3, SameFiles, SameRows, SameFull
  <2>3. ForcedSoFar(t)'
    BY <1>2, <1>3 DEF ForcedSoFar, RelForced
  <2>4. CallExact(t)'
    <3>1. CASE call.op = "createTable"
      BY <1>1, <1>2, <1>3, <2>1, <2>2, <2>3, <3>1 DEF CallExact, CreateTableExact
    <3>2. CASE call.op = "dropTable"
      BY <1>1, <1>2, <1>3, <2>1, <2>2, <2>3, <3>2 DEF CallExact, DropTableExact, RowsFrom
    <3>3. CASE call.op = "createIndex"
      BY <1>1, <1>2, <1>3, <2>1, <2>2, <2>3, <3>3 DEF CallExact, CreateIndexExact
    <3>4. CASE call.op = "dropIndex"
      BY <1>1, <1>2, <1>3, <2>1, <2>2, <2>3, <3>4 DEF CallExact, DropIndexExact
    <3> QED BY <1>1, <1>2, <3>1, <3>2, <3>3, <3>4 DEF SafeInv, CallSound, CallExact
  <2> QED BY <1>1, <1>2, <2>4 DEF TableExact, Active
<1> QED BY <1>1, <1>2, <1>3, <1>4, <1>5, CatalogStep



LEMMA ForceAttrStep ==
  ASSUME SafeInv, ExactInv, ForceAttr
  PROVE  ExactInv'
<1>1. PICK t \in Tables : t = call.t /\ Active(t) /\ call.step = "forceAttr"
  BY DEF ForceAttr, SafeInv, CallSound, Active
<1>2. UNCHANGED <<relcat, attrcat, relDisk, file, lost, hurt>> /\ attrDisk' = attrcat
  BY <1>1 DEF ForceAttr, faulty, catalog
<1>3. \A u \in Tables : u # t /\ u \notin hurt' => attrDisk'[u] = attrDisk[u]
  BY <1>1, <1>2 DEF ExactInv, TableExact, Active, RestExact, Whole, Absent, AttrForced
<1>4. CASE call.op = "createTable"
  <2>1. call' = Idle
    BY <1>4 DEF ForceAttr, Return
  <2>2. ASSUME t \notin hurt'
        PROVE  TableExact(t)'
    <3>1. CreateTableExact(t)
      BY <1>1, <1>2, <1>4, <2>2 DEF ExactInv, TableExact, CallExact
    <3>2. /\ Present(t) /\ Indexed(t) = {} /\ relcat[t] = 0 /\ HasRows(t, {}) /\ RelForced(t)
      BY <1>1, <3>1 DEF CreateTableExact, ForcedSoFar
    <3>3. Whole(t)'
      BY <1>2, <3>2, SameFiles, SameRows, FS_EmptySet DEF Whole, RelForced, AttrForced, Numbered
    <3>4. Full(t, Indexed(t))'
      BY <1>2, <3>2, SameFiles DEF Full
    <3> QED BY <2>1, <3>3, <3>4, ActiveFacts DEF TableExact, RestExact
  <2> QED BY <1>1, <1>2, <1>3, <2>1, <2>2, IdleFacts, CatalogStep
<1>5. CASE call.op # "createTable"
  <2>1. /\ call'.step = "files" /\ call'.op = call.op /\ call'.t = t
        /\ call'.a = call.a /\ call'.n = call.n /\ call'.entries = call.entries
    BY <1>1, <1>5, GotoFacts DEF ForceAttr, SafeInv, Typed, Steps, Same
  <2>2. ASSUME t \notin hurt'
        PROVE  TableExact(t)'
    <3>1. CallExact(t)
      BY <1>1, <1>2, <2>2 DEF ExactInv, TableExact
    <3>2. ForcedSoFar(t) => ForcedSoFar(t)'
      BY <1>1, <1>2, <2>1 DEF ForcedSoFar, RelForced, AttrForced
    <3>3. CallExact(t)'
      <4>1. CASE call.op = "dropTable"
        BY <1>1, <1>2, <2>1, <3>1, <3>2, <4>1, SameFiles, SameRows DEF CallExact, DropTableExact
      <4>2. CASE call.op = "createIndex"
        BY <1>1, <1>2, <2>1, <3>1, <3>2, <4>2, SameFiles, SameRows, SameFull
           DEF CallExact, CreateIndexExact
      <4>3. CASE call.op = "dropIndex"
        BY <1>1, <1>2, <2>1, <3>1, <3>2, <4>3, SameFiles, SameRows, SameFull
           DEF CallExact, DropIndexExact
      <4> QED BY <1>1, <1>5, <2>1, <4>1, <4>2, <4>3 DEF SafeInv, CallSound, CallExact
    <3> QED BY <1>1, <2>1, <3>3 DEF TableExact, Active
  <2> QED BY <1>1, <1>2, <1>3, <2>1, <2>2, CatalogStep
<1> QED BY <1>4, <1>5

LEMMA DropTableStep ==
  ASSUME SafeInv, ExactInv, NEW t \in Tables, DropTable(t)
  PROVE  ExactInv'
<1>1. call = Idle /\ ~Active(t) /\ \A u : ~Active(u)
  BY ActiveFacts DEF DropTable, Start
<1>2. call'.op = "dropTable" /\ call'.step = "attrRow" /\ call'.t = t
  BY DropTableCall
<1>3. /\ UNCHANGED <<attrcat, relDisk, attrDisk, file, lost, hurt>>
      /\ \A u \in Tables : u # t => relcat'[u] = relcat[u]
  BY DEF DropTable, onDisk, faulty, SafeInv, Typed
<1>4. ASSUME t \notin hurt'
      PROVE  TableExact(t)'
  <2>1. Whole(t) /\ Full(t, Indexed(t))
    BY <1>1, <1>3, <1>4 DEF ExactInv, TableExact, RestExact, Absent, NoRows, DropTable
  <2>2. DropTableExact(t)'
    BY <1>2, <1>3, <2>1, SameFiles, SameRows, CatalogAssumption, IndexedFacts
       DEF Whole, HasRows, DropTableExact, ForcedSoFar, Numbered
  <2> QED BY <1>2, <2>2 DEF TableExact, Active, CallExact
<1> QED BY <1>1, <1>2, <1>3, <1>4, IdleFacts, CatalogStep

LEMMA DropNoMoreRowsStep ==
  ASSUME SafeInv, ExactInv, DropNoMoreRows
  PROVE  ExactInv'
<1>1. PICK t \in Tables : /\ t = call.t /\ Active(t)
                          /\ call.op = "dropTable" /\ call.step = "attrRow"
  BY DEF DropNoMoreRows, At, SafeInv, CallSound, Active
<1>2. call'.step = "forceRel" /\ call'.op = call.op /\ call'.t = t
  BY <1>1, DropNoMoreRowsCall DEF Same
<1>3. /\ UNCHANGED <<relcat, attrcat, relDisk, attrDisk, file, lost>> /\ hurt \subseteq hurt'
      /\ t \notin hurt' => attrcat[t] = << >>
  BY <1>1, <1>2 DEF DropNoMoreRows, catalog, onDisk, faulty, FailsIf, Fails, Fault
<1>4. ASSUME t \notin hurt'
      PROVE  TableExact(t)'
  <2>1. DropTableExact(t) /\ attrcat[t] = << >> /\ Len(attrcat[t]) = 0
    BY <1>1, <1>3, <1>4 DEF ExactInv, TableExact, CallExact
  <2>2. Indexed(t) = {}
    BY <1>1, <2>1, IndexedFacts, CatalogAssumption DEF DropTableExact
  <2>3. /\ attrcat'[t] = << >> /\ Len(attrcat'[t]) = 0 /\ Indexed(t)' = {}
        /\ Present(t)' = Present(t)
    BY <1>3, <2>1, <2>2, SameFiles
  <2>4. \A k, I : RowsFrom(t, 1, k, I)'
    BY <2>3 DEF RowsFrom
  <2>5. DropTableExact(t)'
    BY <1>1, <1>2, <2>1, <2>3, <2>4, CatalogAssumption DEF DropTableExact, ForcedSoFar
  <2> QED BY <1>1, <1>2, <2>5 DEF TableExact, Active, CallExact
<1> QED BY <1>1, <1>2, <1>3, <1>4, CatalogStep

(* A step that writes or unlinks one index file of a table. *)
LEMMA IndexStep ==
  ASSUME SafeInv, NEW t \in Tables, NEW n \in IndexNos, NEW c,
         Put(IndexFile(t, n), c)
  PROVE  /\ Present(t)' = Present(t) /\ file'[TableFile(t)] = file[TableFile(t)]
         /\ Indexed(t)' = IF c = NoFile THEN Indexed(t) \ {n} ELSE Indexed(t) \cup {n}
         /\ \A m \in IndexNos : file'[IndexFile(t, m)] = IF m = n THEN c ELSE file[IndexFile(t, m)]
<1>1. /\ IndexFile(t, n) \in Files /\ IndexFile(t, n) # TableFile(t) /\ TableFile(t) \in Files
      /\ \A m \in IndexNos : IndexFile(t, m) \in Files /\ (IndexFile(t, m) = IndexFile(t, n) => m = n)
  BY FileNames, IndexFileNames
<1>2. \A m \in IndexNos : file'[IndexFile(t, m)] = IF m = n THEN c ELSE file[IndexFile(t, m)]
  BY <1>1 DEF SafeInv, Typed, Put
<1>3. file'[TableFile(t)] = file[TableFile(t)]
  BY <1>1 DEF SafeInv, Typed, Put
<1>4. Indexed(t)' = IF c = NoFile THEN Indexed(t) \ {n} ELSE Indexed(t) \cup {n}
  BY <1>2 DEF Indexed
<1> QED BY <1>2, <1>3, <1>4 DEF Present

LEMMA DropAttrIndexStep ==
  ASSUME SafeInv, ExactInv, DropAttrIndex
  PROVE  ExactInv'
<1>1. PICK t \in Tables : /\ t = call.t /\ Active(t)
                          /\ call.op = "dropTable" /\ call.step = "attrRow"
  BY DEF DropAttrIndex, At, SafeInv, CallSound, Active
<1>2. call'.step = "deleteRow" /\ call'.op = call.op /\ call'.t = t
  BY <1>1, DropAttrIndexCall DEF Same
<1>5. PICK n : n = Head(attrcat[t]).indexNo
  OBVIOUS
<1>3. /\ UNCHANGED <<relcat, attrcat, relDisk, attrDisk, hurt>> /\ lost' \subseteq lost
      /\ n # NO_INDEX /\ attrcat[t] # << >>
      /\ file' = [file EXCEPT ![IndexFile(t, n)] = NoFile]
  BY <1>1, <1>5 DEF DropAttrIndex, catalog, onDisk, faulty, Unlink
<1>4. ASSUME t \notin hurt'
      PROVE  TableExact(t)'
  <2>1. DropTableExact(t)
    BY <1>1, <1>3, <1>4 DEF ExactInv, TableExact, CallExact
  <2>2. /\ attrcat[t] \in Seq(AttrRow) /\ Len(attrcat[t]) \in Nat /\ Len(attrcat[t]) >= 1
        /\ Head(attrcat[t]) = attrcat[t][1]
    BY <1>3, LenProperties, EmptySeq DEF SafeInv, Typed
  <2> PICK gone : gone = AttrCount - Len(attrcat[t])
    OBVIOUS
  <2>10. gone = AttrCount - Len(attrcat[t]) /\ gone \in Int
    BY <2>2, CatalogAssumption
  <2>3. /\ gone >= 0 /\ \A m \in Indexed(t) : gone <= m /\ m < AttrCount
        /\ RowsFrom(t, 1, gone, Indexed(t)) /\ ForcedSoFar(t) /\ Present(t)
    BY <1>1, <2>1, CatalogAssumption, IndexedFacts, <2>2, <2>10 DEF DropTableExact
  <2>4. n = gone /\ gone \in Indexed(t) /\ gone \in IndexNos
    <3>1. Head(attrcat[t]).indexNo =
            IF gone + 1 - 1 \in Indexed(t) THEN gone + 1 - 1 ELSE NO_INDEX
      BY <2>2, <2>3 DEF RowsFrom
    <3>2. gone + 1 - 1 = gone
      BY <2>10
    <3> QED BY <1>3, <1>5, <3>1, <3>2, IndexedFacts
  <2>5. /\ Indexed(t)' = Indexed(t) \ {gone} /\ Present(t)'
        /\ file'[TableFile(t)] = file[TableFile(t)]
        /\ \A m \in IndexNos : m # gone => file'[IndexFile(t, m)] = file[IndexFile(t, m)]
    <3>1. Put(IndexFile(t, gone), NoFile)
      BY <1>3, <2>4 DEF Put
    <3>2. /\ Present(t)' = Present(t) /\ file'[TableFile(t)] = file[TableFile(t)]
          /\ Indexed(t)' = IF NoFile = NoFile THEN Indexed(t) \ {gone} ELSE Indexed(t) \cup {gone}
          /\ \A m \in IndexNos :
               file'[IndexFile(t, m)] = IF m = gone THEN NoFile ELSE file[IndexFile(t, m)]
      BY <2>4, <3>1, IndexStep
    <3> QED BY <2>3, <3>2
  <2>7. RowsFrom(t, 2, gone, Indexed(t))'
    <3>1. ASSUME NEW j \in 2 .. Len(attrcat[t])
          PROVE  attrcat[t][j].indexNo =
                   IF gone + j - 1 \in Indexed(t)' THEN gone + j - 1 ELSE NO_INDEX
      <4>1. gone + j - 1 # gone /\ j \in 1 .. Len(attrcat[t])
        BY <2>2, <2>10
      <4> QED BY <2>3, <2>5, <4>1 DEF RowsFrom
    <3> QED BY <1>3, <3>1 DEF RowsFrom
  <2>8. \A m \in Indexed(t)' : gone + 1 <= m /\ m < AttrCount
    <3>1. \A m \in Indexed(t)' : m \in Nat /\ gone <= m /\ m # gone /\ m < AttrCount
      BY <2>3, <2>5, IndexedFacts
    <3> QED BY <2>10, <3>1
  <2>9. DropTableExact(t)'
    BY <1>1, <1>2, <1>3, <2>2, <2>3, <2>5, <2>7, <2>8, <2>10 DEF DropTableExact, ForcedSoFar
  <2> QED BY <1>1, <1>2, <2>9 DEF TableExact, Active, CallExact
<1> QED
  <2>1. Put(IndexFile(t, n), NoFile) /\ IndexFile(t, n)[1] = t
    BY <1>3, IndexFileNames DEF Put
  <2>2. UNCHANGED <<catalog, onDisk>>
    BY <1>3 DEF catalog, onDisk
  <2> QED BY <1>1, <1>2, <1>3, <1>4, <2>1, <2>2, FileStep

LEMMA DropAttrRowStep ==
  ASSUME SafeInv, ExactInv, DropAttrRow
  PROVE  ExactInv'
<1>1. PICK t \in Tables : /\ t = call.t /\ Active(t) /\ call.op = "dropTable"
                          /\ attrcat[t] # << >>
                          /\ \/ call.step = "deleteRow"
                             \/ call.step = "attrRow" /\ Head(attrcat[t]).indexNo = NO_INDEX
  BY DEF DropAttrRow, At, SafeInv, CallSound, Active
<1>2. call'.step = "attrRow" /\ call'.op = call.op /\ call'.t = t
  BY <1>1, DropAttrRowCall DEF Same
<1>3. /\ UNCHANGED <<relcat, relDisk, attrDisk, file, lost, hurt>>
      /\ \A u \in Tables : u # t => attrcat'[u] = attrcat[u]
      /\ attrcat'[t] = Tail(attrcat[t])
  BY <1>1 DEF DropAttrRow, onDisk, faulty, SafeInv, Typed
<1>4. ASSUME t \notin hurt'
      PROVE  TableExact(t)'
  <2>10. PICK head : head = IF call.step = "deleteRow" THEN 1 ELSE 0
    OBVIOUS
  <2>1. DropTableExact(t)
    BY <1>1, <1>3, <1>4 DEF ExactInv, TableExact, CallExact
  <2>2. /\ attrcat[t] \in Seq(AttrRow) /\ Len(attrcat[t]) \in Nat /\ Len(attrcat[t]) >= 1
        /\ Head(attrcat[t]) = attrcat[t][1]
    BY <1>1, LenProperties, EmptySeq DEF SafeInv, Typed
  <2> PICK gone : gone = AttrCount - Len(attrcat[t])
    OBVIOUS
  <2>9. gone = AttrCount - Len(attrcat[t]) /\ gone \in Int
    BY <2>2, CatalogAssumption
  <2>3. /\ gone \in Nat /\ \A m \in Indexed(t) : gone + head <= m /\ m < AttrCount /\ m \in Nat
        /\ RowsFrom(t, 1 + head, gone, Indexed(t)) /\ Present(t)
    <3>1. /\ gone >= 0 /\ \A m \in Indexed(t) : gone + head <= m /\ m < AttrCount
          /\ RowsFrom(t, 1 + head, gone, Indexed(t)) /\ Present(t)
      BY <2>1, <2>9, <2>10 DEF DropTableExact
    <3> QED BY <2>9, <3>1, IndexedFacts
  <2>4. gone \notin Indexed(t)
    <3>1. CASE call.step = "deleteRow"
      BY <2>3, <2>10, <3>1
    <3>2. CASE call.step # "deleteRow"
      <4>1. Head(attrcat[t]).indexNo =
              IF gone + 1 - 1 \in Indexed(t) THEN gone + 1 - 1 ELSE NO_INDEX
        BY <2>2, <2>3, <2>10, <3>2 DEF RowsFrom
      <4>2. gone + 1 - 1 = gone /\ gone # NO_INDEX
        BY <2>3, Values
      <4> QED BY <1>1, <3>2, <4>1, <4>2
    <3> QED BY <3>1, <3>2
  <2>5. /\ Len(attrcat'[t]) = Len(attrcat[t]) - 1
        /\ \A j \in 1 .. Len(attrcat[t]) - 1 : attrcat'[t][j] = attrcat[t][j + 1]
    BY <1>1, <1>3, <2>2, HeadTailProperties
  <2>6. RowsFrom(t, 1, gone + 1, Indexed(t))'
    <3>1. ASSUME NEW j \in 1 .. Len(attrcat'[t])
          PROVE  attrcat'[t][j].indexNo =
                   IF gone + 1 + j - 1 \in Indexed(t) THEN gone + 1 + j - 1 ELSE NO_INDEX
      <4>1. j + 1 \in 1 + head .. Len(attrcat[t]) /\ attrcat'[t][j] = attrcat[t][j + 1]
        BY <2>2, <2>5, <2>10
      <4>2. gone + (j + 1) = gone + 1 + j /\ gone + (j + 1) - 1 = gone + 1 + j - 1
        BY <2>3
      <4> QED BY <2>3, <4>1, <4>2 DEF RowsFrom
    <3>2. Indexed(t)' = Indexed(t)
      BY <1>3, SameFiles
    <3> QED BY <3>1, <3>2 DEF RowsFrom
  <2>7. /\ AttrCount - Len(attrcat'[t]) = gone + 1
        /\ \A m \in Indexed(t) : gone + 1 <= m /\ m < AttrCount
    <3>1. AttrCount - Len(attrcat'[t]) = gone + 1
      BY <2>2, <2>5, <2>9, CatalogAssumption
    <3>2. ASSUME NEW m \in Indexed(t) PROVE gone + 1 <= m /\ m < AttrCount
      <4>1. m # gone /\ gone + head <= m /\ m < AttrCount /\ m \in Nat /\ gone \in Nat
            /\ head \in {0, 1}
        BY <2>3, <2>4, <2>10
      <4> QED BY <4>1
    <3> QED BY <3>1, <3>2
  <2>8. DropTableExact(t)'
    BY <1>1, <1>2, <1>3, <2>3, <2>6, <2>7, SameFiles DEF DropTableExact, ForcedSoFar
  <2> QED BY <1>1, <1>2, <2>8 DEF TableExact, Active, CallExact
<1> QED BY <1>1, <1>2, <1>3, <1>4, CatalogStep

LEMMA DropFileStep ==
  ASSUME SafeInv, ExactInv, DropFile
  PROVE  ExactInv'
<1>1. PICK t \in Tables : /\ t = call.t /\ Active(t)
                          /\ call.op = "dropTable" /\ call.step = "files"
  BY DEF DropFile, At, SafeInv, CallSound, Active
<1>2. /\ UNCHANGED <<relcat, attrcat, relDisk, attrDisk, hurt>> /\ lost' \subseteq lost
      /\ file' = [file EXCEPT ![TableFile(t)] = NoFile] /\ call' = Idle
  BY <1>1 DEF DropFile, Unlink, Return, catalog, onDisk, faulty
<1>3. ASSUME t \notin hurt'
      PROVE  TableExact(t)'
  <2>1. DropTableExact(t)
    BY <1>1, <1>2, <1>3 DEF ExactInv, TableExact, CallExact
  <2>2. attrcat[t] = << >> /\ Len(attrcat[t]) = 0 /\ RelForced(t) /\ AttrForced(t)
    BY <1>1, <2>1 DEF DropTableExact, ForcedSoFar
  <2>3. Indexed(t) = {}
    BY <1>1, <2>1, <2>2, IndexedFacts, CatalogAssumption DEF DropTableExact
  <2>4. Indexed(t)' = {} /\ ~Present(t)'
    BY <1>2, <2>3, FileNames DEF Indexed, Present, SafeInv, Typed
  <2>5. relcat[t] = NoRow
    BY <1>1 DEF SafeInv, CallSound
  <2>6. Absent(t)'
    BY <1>2, <2>2, <2>4, <2>5 DEF Absent, NoRows, RelForced, AttrForced
  <2> QED BY <1>2, <2>6, ActiveFacts DEF TableExact, RestExact
<1> QED
  <2>1. Put(TableFile(t), NoFile) /\ TableFile(t)[1] = t
    BY <1>2, IndexFileNames DEF Put
  <2>2. UNCHANGED <<catalog, onDisk>>
    BY <1>2 DEF catalog, onDisk
  <2> QED BY <1>1, <1>2, <1>3, <2>1, <2>2, IdleFacts, FileStep

-----------------------------------------------------------------------------
(* The row of an attribute is found, wherever it is. *)
LEMMA FoundWith ==
  ASSUME NEW t \in Tables, attrcat[t] \in Seq(AttrRow), NEW I, HasRows(t, I), NEW a
  PROVE  /\ Found(t, a) \in Attrs
         /\ a \in Attrs => attrcat[t][Found(t, a)].attrName = a
         /\ \A i \in Attrs : attrcat[t][i].indexNo = IF i - 1 \in I THEN i - 1 ELSE NO_INDEX
<1>1. /\ AttrCount \in Nat /\ AttrCount >= 1 /\ Attrs = 1 .. AttrCount
      /\ Len(attrcat[t]) = AttrCount /\ DOMAIN attrcat[t] = 1 .. AttrCount
  BY CatalogAssumption, LenProperties DEF HasRows, Attrs
<1>2. \A i \in Attrs : attrcat[t][i].indexNo = IF i - 1 \in I THEN i - 1 ELSE NO_INDEX
  <2>1. \A i \in Attrs : 0 + i = i
    BY <1>1
  <2> QED BY <1>1, <2>1 DEF HasRows, RowsFrom
<1>3. attrcat[t] # << >>
  BY <1>1, LenProperties
<1>4. Found(t, a) \in Attrs
  BY <1>1, <1>3, FoundFacts
<1>5. ASSUME a \in Attrs
      PROVE  attrcat[t][Found(t, a)].attrName = a
  <2> DEFINE named == {i \in DOMAIN attrcat[t] : attrcat[t][i].attrName = a}
  <2>5. PICK k \in 1 .. AttrCount : attrcat[t][k].attrName = a
    BY <1>1, <1>5 DEF HasRows, Named
  <2>1. named # {} /\ named \in SUBSET Nat
    BY <1>1, <2>5
  <2>2. \E i \in named : \A j \in named : i <= j
    BY <2>1, LeastNatural
  <2>3. Found(t, a) = CHOOSE i \in named : \A j \in named : i <= j
    BY <2>1 DEF Found
  <2>4. Found(t, a) \in named
    BY <2>2, <2>3
  <2> QED BY <2>4
<1> QED BY <1>2, <1>4, <1>5

(* Changing the number in one row leaves the names, and with them what an  *)
(* index has to hold; it makes the rows those of the indexes J.            *)
LEMMA NamesKept ==
  ASSUME SafeInv, NEW t \in Tables, Len(attrcat[t]) = AttrCount, NEW i \in Attrs,
         NEW n \in IndexNos \cup {NO_INDEX}, attrcat' = [attrcat EXCEPT ![t][i].indexNo = n]
  PROVE  /\ \A j \in Attrs : attrcat'[t][j].attrName = attrcat[t][j].attrName
         /\ \A m, E, R : m + 1 \in Attrs => Holds(t, m, E, R)' = Holds(t, m, E, R)
<1>1. /\ AttrCount \in Nat /\ Attrs = 1 .. AttrCount
      /\ attrcat[t] \in Seq(AttrRow) /\ attrcat \in [Tables -> Seq(AttrRow)]
  BY CatalogAssumption DEF Attrs, SafeInv, Typed
<1>2. \A j \in Attrs : [attrcat[t] EXCEPT ![i].indexNo = n][j] =
        IF j = i THEN [attrName |-> attrcat[t][i].attrName, indexNo |-> n] ELSE attrcat[t][j]
  BY <1>1, SetIndexNo
<1>3. attrcat'[t] = [attrcat[t] EXCEPT ![i].indexNo = n]
  BY <1>1
<1>4. ASSUME NEW j \in Attrs PROVE attrcat'[t][j].attrName = attrcat[t][j].attrName
  <2>1. attrcat'[t][j] =
          IF j = i THEN [attrName |-> attrcat[t][i].attrName, indexNo |-> n] ELSE attrcat[t][j]
    BY <1>2, <1>3
  <2> QED BY <2>1
<1>5. ASSUME NEW m, m + 1 \in Attrs, NEW E, NEW R
      PROVE  Holds(t, m, E, R)' = Holds(t, m, E, R)
  BY <1>4, <1>5 DEF Holds, Columns, Covers
<1> QED BY <1>4, <1>5

LEMMA RowSet ==
  ASSUME SafeInv, NEW t \in Tables, NEW I, HasRows(t, I), NEW i \in Attrs, NEW J,
         NEW n \in IndexNos \cup {NO_INDEX}, n = IF i - 1 \in J THEN i - 1 ELSE NO_INDEX,
         \A m : m # i - 1 => (m \in J <=> m \in I),
         attrcat' = [attrcat EXCEPT ![t][i].indexNo = n]
  PROVE  HasRows(t, J)' /\ \A u \in Tables : u # t => attrcat'[u] = attrcat[u]
<1>1. /\ AttrCount \in Nat /\ Attrs = 1 .. AttrCount /\ Len(attrcat[t]) = AttrCount
      /\ attrcat[t] \in Seq(AttrRow) /\ attrcat \in [Tables -> Seq(AttrRow)]
  BY CatalogAssumption DEF HasRows, Attrs, SafeInv, Typed
<1> DEFINE r == [attrcat[t] EXCEPT ![i].indexNo = n]
<1>2. /\ Len(r) = AttrCount
      /\ \A j \in Attrs : r[j] = IF j = i THEN [attrName |-> attrcat[t][i].attrName, indexNo |-> n]
                                 ELSE attrcat[t][j]
  BY <1>1, SetIndexNo
<1>3. attrcat'[t] = r /\ \A u \in Tables : u # t => attrcat'[u] = attrcat[u]
  BY <1>1
<1> HIDE DEF r
<1>4. ASSUME NEW j \in Attrs
      PROVE  r[j].indexNo = IF 0 + j - 1 \in J THEN 0 + j - 1 ELSE NO_INDEX
  <2>1. /\ 0 + j = j /\ (j # i => j - 1 # i - 1)
        /\ attrcat[t][j].indexNo = IF 0 + j - 1 \in I THEN 0 + j - 1 ELSE NO_INDEX
    BY <1>1 DEF HasRows, RowsFrom
  <2>2. CASE j = i
    <3>1. 0 + j - 1 = i - 1 /\ r[j].indexNo = n
      BY <1>1, <1>2, <2>1, <2>2
    <3> QED BY <3>1
  <2>3. CASE j # i
    <3>1. 0 + j - 1 # i - 1
      BY <1>1, <2>3
    <3> QED BY <1>2, <2>1, <2>3, <3>1
  <2> QED BY <2>2, <2>3
<1>5. HasRows(t, J)'
  <2>2. \A j \in Attrs : attrcat'[t][j].attrName = attrcat[t][j].attrName
    BY <1>1, NamesKept
  <2>1. Named(t, AttrCount)'
    BY <1>1, <2>2 DEF HasRows, Named
  <2> QED BY <1>1, <1>2, <1>3, <1>4, <2>1 DEF HasRows, RowsFrom
<1> QED BY <1>3, <1>5

(* What insertEntry does to an index that is new, or that has what it has  *)
(* to hold.                                                                *)
LEMMA HoldsFilled ==
  ASSUME NEW t, NEW n, NEW S, NEW F \in Entered({}, S, attrcat[t][n + 1].attrName)
  PROVE  Holds(t, n, F, S)
<1>1. PICK c : c = attrcat[t][n + 1].attrName
  OBVIOUS
<1>2. /\ \A e \in F : \E r \in S : e = Entry(r, c)
      /\ \A r \in S : \E g \in F : g.key = Key[r][c]
  BY <1>1, EnteredFacts
<1>3. \A r : Entry(r, c).row = r /\ Entry(r, c).key = Key[r][c]
  BY DEF Entry
<1> QED BY <1>1, <1>2, <1>3 DEF Holds, Covers, Columns

LEMMA HoldsInserted ==
  ASSUME NEW t, NEW n, NEW E, NEW R, Holds(t, n, E, R), NEW r, NEW F \in Entered(E, {r}, n + 1)
  PROVE  Holds(t, n, F, R \cup {r})
<1>1. PICK c : c = n + 1
  OBVIOUS
<1>2. E \subseteq F /\ (\A e \in F : e \in E \/ e = Entry(r, c)) /\ \E g \in F : g.key = Key[r][c]
  BY <1>1, EnteredFacts
<1>3. Entry(r, c).row = r /\ Entry(r, c).key = Key[r][c]
  BY DEF Entry
<1> QED BY <1>1, <1>2, <1>3 DEF Holds, Covers, Columns

(* createIndex and dropIndex. *)
LEMMA CreateIndexStep ==
  ASSUME SafeInv, ExactInv, NEW t \in Tables, NEW a \in Attrs, CreateIndex(t, a)
  PROVE  ExactInv'
<1>1. call = Idle /\ ~Active(t) /\ \A u : ~Active(u)
  BY ActiveFacts DEF CreateIndex, Start
<1>2. call'.op = "createIndex" /\ call'.step = "attr" /\ call'.t = t /\ call'.a = a
      /\ call'.entries = NoFile
  BY CreateIndexCall
<1>3. /\ UNCHANGED <<attrcat, relDisk, attrDisk, file, lost>> /\ hurt \subseteq hurt'
      /\ \A u \in Tables : u # t => relcat'[u] = relcat[u]
      /\ relcat'[t] = relcat[t] + 1
  BY DEF CreateIndex, onDisk, faulty, FailsIf, Fails, Fault, SafeInv, Typed
<1>5. PICK n : n = Found(t, a) - 1
  OBVIOUS
<1>4. ASSUME t \notin hurt'
      PROVE  TableExact(t)'
  <2>1. Whole(t) /\ Full(t, Indexed(t))
    BY <1>1, <1>3, <1>4 DEF ExactInv, TableExact, RestExact, Absent, NoRows, CreateIndex
  <2>2. attrcat[t][Found(t, a)].indexNo = NO_INDEX
    BY <1>2, <1>4 DEF CreateIndex, FailsIf, Fails, Fault
  <2>3. attrcat[t] \in Seq(AttrRow) /\ HasRows(t, Indexed(t))
    BY <2>1 DEF Whole, SafeInv, Typed
  <2>8. Found(t, a) \in Attrs /\ attrcat[t][Found(t, a)].attrName = a
        /\ n + 1 = Found(t, a) /\ n \in IndexNos /\ n # NO_INDEX
    <3>1. Found(t, a) \in Attrs /\ attrcat[t][Found(t, a)].attrName = a
      BY <2>3, FoundWith
    <3>2. n + 1 = Found(t, a) /\ n \in IndexNos
      BY <1>5, <3>1, CatalogAssumption DEF IndexNos, MaxAttrRows, Attrs
    <3> QED BY <3>1, <3>2, FileNames
  <2>4. n \notin Indexed(t) /\ n \in IndexNos
    BY <1>5, <2>2, <2>3, <2>8, FoundWith
  <2>5. relcat'[t] = Cardinality(Indexed(t) \cup {n})
    BY <1>3, <2>1, <2>4, CountFacts DEF Whole
  <2>6. HasRows(t, Indexed(t))' /\ Indexed(t)' = Indexed(t) /\ Found(t, call.a)' - 1 = n
    BY <1>2, <1>3, <1>5, <2>3, SameFiles, SameRows
  <2>7. CreateIndexExact(t)'
    <3>1. Full(t, Indexed(t) \ {n})' /\ attrcat'[t][n + 1].attrName = call'.a
      <4>1. Full(t, Indexed(t) \ {n})
        BY <2>1 DEF Full
      <4> QED BY <1>2, <1>3, <2>6, <2>8, <4>1, SameFull
    <3>2. Present(t)' /\ Numbered(t)' /\ ForcedSoFar(t)'
      BY <1>2, <1>3, <2>1, SameFiles DEF Whole, ForcedSoFar
    <3> QED BY <1>2, <2>4, <2>5, <2>6, <2>8, <3>1, <3>2 DEF CreateIndexExact
  <2> QED BY <1>2, <2>7 DEF TableExact, Active, CallExact
<1> QED BY <1>1, <1>2, <1>3, <1>4, IdleFacts, CatalogStep

LEMMA IndexAttrStep ==
  ASSUME SafeInv, ExactInv, IndexAttr
  PROVE  ExactInv'
<1>1. PICK t \in Tables : /\ t = call.t /\ Active(t)
                          /\ call.op = "createIndex" /\ call.step = "attr"
  BY DEF IndexAttr, At, SafeInv, CallSound, Active
<1>2. PICK i : i = Found(t, call.a)
  OBVIOUS
<1>3. /\ UNCHANGED <<relcat, relDisk, attrDisk, file, lost, hurt>>
      /\ attrcat' = [attrcat EXCEPT ![t][i].indexNo = i - 1]
      /\ call' = [call EXCEPT !.n = i - 1, !.step = "forceRel"]
  BY <1>1, <1>2 DEF IndexAttr, onDisk, faulty
<1>4. /\ call'.op = "createIndex" /\ call'.step = "forceRel" /\ call'.t = t
      /\ call'.a = call.a /\ call'.n = i - 1 /\ call'.entries = call.entries
  BY <1>1, <1>3 DEF SafeInv, Typed, Call
<1>6. \A u \in Tables : u # t => attrcat'[u] = attrcat[u]
  BY <1>3 DEF SafeInv, Typed
<1>5. ASSUME t \notin hurt'
      PROVE  TableExact(t)'
  <2>1. CreateIndexExact(t)
    BY <1>1, <1>3, <1>5 DEF ExactInv, TableExact, CallExact
  <2>7. PICK n : n = i - 1
    OBVIOUS
  <2>8. attrcat[t] \in Seq(AttrRow) /\ HasRows(t, Indexed(t))
    BY <1>1, <2>1 DEF CreateIndexExact, SafeInv, Typed
  <2>3. i \in Attrs /\ n + 1 = i /\ n \in IndexNos
    <3>1. i \in Attrs
      BY <1>2, <2>8, FoundWith
    <3> QED BY <2>7, <3>1, CatalogAssumption DEF Attrs, IndexNos, MaxAttrRows
  <2>2. /\ Present(t) /\ Numbered(t) /\ n \notin Indexed(t) /\ attrcat[t][i].attrName = call.a
        /\ call.entries = NoFile /\ relcat[t] = Cardinality(Indexed(t) \cup {n})
        /\ Full(t, Indexed(t) \ {n})
    BY <1>1, <1>2, <2>1, <2>3, <2>7 DEF CreateIndexExact
  <2> PICK J : J = Indexed(t) \cup {n}
    OBVIOUS
  <2>4. J = Indexed(t) \cup {n} /\ J = Indexed(t)' \cup {n} /\ Indexed(t)' = Indexed(t)
    BY <1>3, SameFiles
  <2>5. /\ HasRows(t, J)' /\ attrcat'[t][i].attrName = call.a
        /\ \A m, E, R : m + 1 \in Attrs => Holds(t, m, E, R)' = Holds(t, m, E, R)
    <3>1. /\ n = IF i - 1 \in J THEN i - 1 ELSE NO_INDEX
          /\ \A m : m # i - 1 => (m \in J <=> m \in Indexed(t))
          /\ attrcat' = [attrcat EXCEPT ![t][i].indexNo = n]
      BY <1>3, <2>4, <2>7
    <3>2. HasRows(t, J)'
      BY <2>3, <2>8, <3>1, RowSet
    <3>3. /\ \A j \in Attrs : attrcat'[t][j].attrName = attrcat[t][j].attrName
          /\ \A m, E, R : m + 1 \in Attrs => Holds(t, m, E, R)' = Holds(t, m, E, R)
      BY <2>3, <2>8, <3>1, NamesKept DEF HasRows
    <3> QED BY <2>2, <2>3, <3>2, <3>3
  <2>6. CreateIndexExact(t)'
    <3>1. Full(t, Indexed(t) \ {n})'
      <4>1. \A m \in Indexed(t) : m + 1 \in Attrs
        BY <2>2, IndexedFacts, CatalogAssumption DEF Numbered, Attrs
      <4> QED BY <1>3, <2>2, <2>4, <2>5, <4>1 DEF Full
    <3>2. Present(t)' /\ Numbered(t)' /\ ForcedSoFar(t)' /\ relcat'[t] = Cardinality(Indexed(t)' \cup {n})
      BY <1>3, <1>4, <2>2, <2>4, SameFiles DEF ForcedSoFar
    <3>3. call'.n = n /\ call'.step = "forceRel" /\ call'.entries = NoFile /\ call'.a = call.a
      BY <1>4, <2>2, <2>7
    <3>4. HasRows(t, Indexed(t) \cup {n})'
      BY <2>4, <2>5
    <3> QED BY <2>2, <2>3, <2>4, <2>5, <3>1, <3>2, <3>3, <3>4 DEF CreateIndexExact
  <2> QED BY <1>4, <2>6 DEF TableExact, Active, CallExact
<1> QED BY <1>1, <1>3, <1>4, <1>5, <1>6, CatalogStep

LEMMA CreateIndexFileStep ==
  ASSUME SafeInv, ExactInv, CreateIndexFile
  PROVE  ExactInv'
<1>1. PICK t \in Tables : /\ t = call.t /\ Active(t)
                          /\ call.op = "createIndex" /\ call.step = "files"
  BY DEF CreateIndexFile, At, SafeInv, CallSound, Active
<1>2. /\ call'.op = "createIndex" /\ call'.step = "fill" /\ call'.t = t
      /\ call'.a = call.a /\ call'.n = call.n /\ call'.entries = call.entries
  BY <1>1, CreateIndexFileCall DEF Same
<1>5. PICK n : n = call.n
  OBVIOUS
<1>3. /\ UNCHANGED <<relcat, attrcat, relDisk, attrDisk, hurt, lost>>
      /\ file' = [file EXCEPT ![IndexFile(t, n)] = {}]
  BY <1>1, <1>5 DEF CreateIndexFile, catalog, onDisk, faulty
<1>4. ASSUME t \notin hurt'
      PROVE  TableExact(t)'
  <2>1. CreateIndexExact(t)
    BY <1>1, <1>3, <1>4 DEF ExactInv, TableExact, CallExact
  <2>2. /\ Present(t) /\ Numbered(t) /\ n + 1 \in Attrs /\ attrcat[t][n + 1].attrName = call.a
        /\ n \notin Indexed(t) /\ relcat[t] = Cardinality(Indexed(t) \cup {n})
        /\ Full(t, Indexed(t) \ {n}) /\ HasRows(t, Indexed(t) \cup {n})
        /\ RelForced(t) /\ AttrForced(t) /\ call.entries = NoFile
    BY <1>1, <1>5, <2>1 DEF CreateIndexExact, ForcedSoFar
  <2>3. n \in IndexNos /\ n < AttrCount /\ {} # NoFile
    <3>1. n \in IndexNos
      BY <1>1, <1>5 DEF SafeInv, CallSound
    <3> QED BY <2>2, <3>1, CatalogAssumption, Values DEF Attrs, IndexNos, MaxAttrRows
  <2>4. /\ Present(t)' = Present(t) /\ file'[TableFile(t)] = file[TableFile(t)]
        /\ Indexed(t)' = Indexed(t) \cup {n}
        /\ \A m \in IndexNos : m # n => file'[IndexFile(t, m)] = file[IndexFile(t, m)]
    <3>1. /\ Present(t)' = Present(t) /\ file'[TableFile(t)] = file[TableFile(t)]
          /\ Indexed(t)' = IF {} = NoFile THEN Indexed(t) \ {n} ELSE Indexed(t) \cup {n}
          /\ \A m \in IndexNos : file'[IndexFile(t, m)] = IF m = n THEN {} ELSE file[IndexFile(t, m)]
      <4>1. Put(IndexFile(t, n), {}) /\ n \in IndexNos
        BY <1>3, <2>3 DEF Put
      <4> QED BY <4>1, IndexStep
    <3> QED BY <2>3, <3>1
  <2>5. Full(t, Indexed(t) \ {n})'
    BY <1>3, <2>2, <2>4, IndexedFacts, SameHolds DEF Full
  <2>6. Indexed(t)' \cup {n} = Indexed(t) \cup {n} /\ n \in Indexed(t)' /\ n = call'.n
    BY <1>2, <1>5, <2>2, <2>4
  <2>7. HasRows(t, Indexed(t) \cup {n})' /\ Numbered(t)'
        /\ relcat'[t] = Cardinality(Indexed(t)' \cup {n})
    BY <1>3, <2>2, <2>3, <2>4, <2>5, <2>6, SameRows DEF Numbered
  <2>8. ForcedSoFar(t)'
    BY <1>3, <2>2 DEF ForcedSoFar, RelForced, AttrForced
  <2>9. CreateIndexExact(t)'
    BY <1>2, <1>3, <2>2, <2>4, <2>5, <2>6, <2>7, <2>8 DEF CreateIndexExact
  <2> QED BY <1>2, <2>9 DEF TableExact, Active, CallExact
<1> QED
  <2>1. Put(IndexFile(t, n), {}) /\ IndexFile(t, n)[1] = t
    BY <1>3, IndexFileNames DEF Put
  <2>2. UNCHANGED <<catalog, onDisk>>
    BY <1>3 DEF catalog, onDisk
  <2> QED BY <1>1, <1>2, <1>3, <1>4, <2>1, <2>2, FileStep

LEMMA FillIndexStep ==
  ASSUME SafeInv, ExactInv, FillIndex
  PROVE  ExactInv'
<1>1. PICK t \in Tables : /\ t = call.t /\ Active(t)
                          /\ call.op = "createIndex" /\ call.step = "fill"
  BY DEF FillIndex, At, SafeInv, CallSound, Active
<1>2. PICK S \in SUBSET file[TableFile(t)] :
        \E F \in Entered({}, S, call.a) : /\ call' = [call EXCEPT !.entries = F, !.step = "close"]
                                          /\ FailsIf(S # file[TableFile(t)])
  BY <1>1 DEF FillIndex
<1>6. PICK F \in Entered({}, S, call.a) : call' = [call EXCEPT !.entries = F, !.step = "close"]
  BY <1>2
<1>3. /\ call'.op = "createIndex" /\ call'.step = "close" /\ call'.t = t
      /\ call'.a = call.a /\ call'.n = call.n /\ call'.entries = F
  BY <1>1, <1>6 DEF SafeInv, Typed, Call
<1>4. /\ UNCHANGED <<relcat, attrcat, relDisk, attrDisk, file, lost>> /\ hurt \subseteq hurt'
      /\ t \notin hurt' => S = file[TableFile(t)]
  BY <1>2, <1>3 DEF FillIndex, catalog, onDisk, faulty, FailsIf, Fails, Fault
<1>5. ASSUME t \notin hurt'
      PROVE  TableExact(t)'
  <2>1. CreateIndexExact(t)
    BY <1>1, <1>4, <1>5 DEF ExactInv, TableExact, CallExact
  <2>2. ForcedSoFar(t)'
    BY <1>1, <1>4, <2>1 DEF CreateIndexExact, ForcedSoFar, RelForced, AttrForced
  <2>6. PICK n : n = call.n
    OBVIOUS
  <2>7. /\ Present(t) /\ Numbered(t) /\ n + 1 \in Attrs /\ attrcat[t][n + 1].attrName = call.a
        /\ n \in Indexed(t) /\ relcat[t] = Cardinality(Indexed(t) \cup {n})
        /\ Full(t, Indexed(t) \ {n}) /\ HasRows(t, Indexed(t) \cup {n})
    BY <1>1, <2>1, <2>6 DEF CreateIndexExact
  <2>3. Full(t, Indexed(t) \ {n})' /\ HasRows(t, Indexed(t) \cup {n})'
    BY <1>4, <2>7, SameFiles, SameRows, SameFull
  <2>4. Holds(t, n, call.entries, file[TableFile(t)])'
    <3>1. Holds(t, n, F, S)
      BY <2>7, HoldsFilled
    <3>2. Holds(t, n, F, S)'
      BY <1>4, <3>1, SameHolds
    <3> QED BY <1>3, <1>4, <1>5, <3>1, SameHolds
  <2>5. CreateIndexExact(t)'
    BY <1>3, <1>4, <2>2, <2>3, <2>4, <2>6, <2>7, SameFiles DEF CreateIndexExact
  <2> QED BY <1>3, <2>5 DEF TableExact, Active, CallExact
<1> QED BY <1>1, <1>3, <1>4, <1>5, CatalogStep

LEMMA CloseNewIndexStep ==
  ASSUME SafeInv, ExactInv, CloseNewIndex
  PROVE  ExactInv'
<1>1. PICK t \in Tables : /\ t = call.t /\ Active(t)
                          /\ call.op = "createIndex" /\ call.step = "close"
  BY DEF CloseNewIndex, At, SafeInv, CallSound, Active
<1>4. PICK n, e : n = call.n /\ e = call.entries
  OBVIOUS
<1>2. /\ UNCHANGED <<relcat, attrcat, relDisk, attrDisk, hurt, lost>>
      /\ file' = [file EXCEPT ![IndexFile(t, n)] = e] /\ call' = Idle
  BY <1>1, <1>4 DEF CloseNewIndex, Return, catalog, onDisk, faulty
<1>3. ASSUME t \notin hurt'
      PROVE  TableExact(t)'
  <2>1. CreateIndexExact(t)
    BY <1>1, <1>2, <1>3 DEF ExactInv, TableExact, CallExact
  <2>2. /\ Present(t) /\ Numbered(t) /\ n \in Indexed(t)
        /\ Indexed(t) \cup {n} = Indexed(t) /\ n \in IndexNos
        /\ RelForced(t) /\ AttrForced(t) /\ Holds(t, n, e, file[TableFile(t)]) /\ e # NoFile
    BY <1>1, <1>4, <2>1, IndexedFacts DEF CreateIndexExact, ForcedSoFar, SafeInv, CallSound
  <2>3. /\ relcat[t] = Cardinality(Indexed(t)) /\ HasRows(t, Indexed(t))
        /\ Full(t, Indexed(t) \ {n})
    BY <1>1, <1>4, <2>1, <2>2 DEF CreateIndexExact
  <2>4. /\ Present(t)' = Present(t) /\ file'[TableFile(t)] = file[TableFile(t)]
        /\ Indexed(t)' = Indexed(t)
        /\ \A m \in IndexNos : file'[IndexFile(t, m)] = IF m = n THEN e ELSE file[IndexFile(t, m)]
    <3>1. /\ Present(t)' = Present(t) /\ file'[TableFile(t)] = file[TableFile(t)]
          /\ Indexed(t)' = IF e = NoFile THEN Indexed(t) \ {n} ELSE Indexed(t) \cup {n}
          /\ \A m \in IndexNos : file'[IndexFile(t, m)] = IF m = n THEN e ELSE file[IndexFile(t, m)]
      <4>1. Put(IndexFile(t, n), e) /\ n \in IndexNos
        BY <1>2, <2>2 DEF Put
      <4> QED BY <4>1, IndexStep
    <3> QED BY <2>2, <3>1
  <2>5. Full(t, Indexed(t))'
    <3>1. ASSUME NEW m \in Indexed(t)
          PROVE  Holds(t, m, file'[IndexFile(t, m)], file[TableFile(t)])
      <4>1. m \in IndexNos /\ (m # n => m \in Indexed(t) \ {n})
        BY IndexedFacts
      <4> QED BY <2>2, <2>3, <2>4, <4>1 DEF Full
    <3> QED BY <1>2, <2>4, <3>1, SameHolds DEF Full
  <2>6. HasRows(t, Indexed(t))'
    BY <1>2, <2>3, <2>4, SameRows
  <2>7. Whole(t)'
    BY <1>2, <2>2, <2>3, <2>4, <2>6 DEF Whole, RelForced, AttrForced, Numbered
  <2> QED BY <1>2, <2>5, <2>7, ActiveFacts DEF TableExact, RestExact
<1> QED
  <2>1. Put(IndexFile(t, n), e) /\ IndexFile(t, n)[1] = t
    BY <1>2, IndexFileNames DEF Put
  <2>2. UNCHANGED <<catalog, onDisk>>
    BY <1>2 DEF catalog, onDisk
  <2> QED BY <1>1, <1>2, <1>3, <2>1, <2>2, IdleFacts, FileStep

LEMMA DropIndexStep ==
  ASSUME SafeInv, ExactInv, NEW t \in Tables, NEW a \in 0 .. AttrCount, DropIndex(t, a)
  PROVE  ExactInv'
<1>1. call = Idle /\ ~Active(t) /\ \A u : ~Active(u)
  BY ActiveFacts DEF DropIndex, Start
<1>2. call'.op = "dropIndex" /\ call'.step = "attr" /\ call'.t = t /\ call'.a = a
  BY DropIndexCall
<1>3. /\ UNCHANGED <<attrcat, relDisk, attrDisk, file, lost>> /\ hurt \subseteq hurt'
      /\ \A u \in Tables : u # t => relcat'[u] = relcat[u]
      /\ relcat'[t] = relcat[t] - 1
  BY DEF DropIndex, onDisk, faulty, FailsIf, Fails, Fault, SafeInv, Typed
<1>5. PICK n : n = Found(t, a) - 1
  OBVIOUS
<1>6. Found(t, a)' = Found(t, a)
  BY <1>3 DEF Found
<1>4. ASSUME t \notin hurt'
      PROVE  TableExact(t)'
  <2>1. Whole(t) /\ Full(t, Indexed(t))
    BY <1>1, <1>3, <1>4 DEF ExactInv, TableExact, RestExact, Absent, NoRows, DropIndex
  <2>2. attrcat[t][Found(t, a)].indexNo # NO_INDEX
    BY <1>2, <1>4 DEF DropIndex, FailsIf, Fails, Fault
  <2>3. attrcat[t] \in Seq(AttrRow) /\ HasRows(t, Indexed(t))
    BY <2>1 DEF Whole, SafeInv, Typed
  <2>4. n \in Indexed(t) /\ n \in IndexNos
    BY <1>5, <2>2, <2>3, FoundWith, IndexedFacts
  <2>5. relcat'[t] = Cardinality(Indexed(t) \ {n})
    BY <1>3, <2>1, <2>4, CountFacts DEF Whole
  <2>6. HasRows(t, Indexed(t))' /\ Indexed(t)' = Indexed(t) /\ Found(t, call.a)' - 1 = n
    BY <1>2, <1>3, <1>5, <1>6, <2>3, SameFiles, SameRows
  <2>7. DropIndexExact(t)'
    BY <1>2, <1>3, <2>1, <2>4, <2>5, <2>6, SameFiles, SameFull
       DEF Whole, DropIndexExact, ForcedSoFar
  <2> QED BY <1>2, <2>7 DEF TableExact, Active, CallExact
<1> QED BY <1>1, <1>2, <1>3, <1>4, IdleFacts, CatalogStep

LEMMA DropIndexAttrStep ==
  ASSUME SafeInv, ExactInv, DropIndexAttr
  PROVE  ExactInv'
<1>1. PICK t \in Tables : /\ t = call.t /\ Active(t)
                          /\ call.op = "dropIndex" /\ call.step = "attr"
  BY DEF DropIndexAttr, At, SafeInv, CallSound, Active
<1>2. PICK i \in 1 .. Found(t, call.a) :
        /\ attrcat' = [attrcat EXCEPT ![t][i].indexNo = NO_INDEX]
        /\ call' = [call EXCEPT !.n = attrcat[t][i].indexNo, !.step = "forceRel"]
        /\ FailsIf(i # Found(t, call.a))
  BY <1>1 DEF DropIndexAttr
<1>3. /\ call'.op = "dropIndex" /\ call'.step = "forceRel" /\ call'.t = t
      /\ call'.n = attrcat[t][i].indexNo
  BY <1>1, <1>2 DEF SafeInv, Typed, Call
<1>4. /\ UNCHANGED <<relcat, relDisk, attrDisk, file, lost>> /\ hurt \subseteq hurt'
      /\ \A u \in Tables : u # t => attrcat'[u] = attrcat[u]
      /\ t \notin hurt' => i = Found(t, call.a)
  BY <1>2, <1>3 DEF DropIndexAttr, onDisk, faulty, FailsIf, Fails, Fault, SafeInv, Typed
<1>5. ASSUME t \notin hurt'
      PROVE  TableExact(t)'
  <2>1. DropIndexExact(t)
    BY <1>1, <1>4, <1>5 DEF ExactInv, TableExact, CallExact
  <2>2. /\ Present(t) /\ Numbered(t) /\ Full(t, Indexed(t)) /\ i - 1 \in Indexed(t)
        /\ relcat[t] = Cardinality(Indexed(t) \ {i - 1})
        /\ HasRows(t, Indexed(t)) /\ attrcat[t] \in Seq(AttrRow)
    BY <1>1, <1>4, <1>5, <2>1 DEF DropIndexExact, SafeInv, Typed
  <2>3. i \in Attrs /\ attrcat[t][i].indexNo = i - 1
    BY <1>4, <1>5, <2>2, FoundWith
  <2>7. PICK J : J = Indexed(t) \ {i - 1}
    OBVIOUS
  <2>4. /\ J = Indexed(t) \ {i - 1} /\ J = Indexed(t)' \ {i - 1}
        /\ Indexed(t)' = Indexed(t) /\ Present(t)' /\ Numbered(t)'
    BY <1>4, <2>2, <2>7, SameFiles
  <2>5. /\ HasRows(t, J)'
        /\ \A m, E, R : m + 1 \in Attrs => Holds(t, m, E, R)' = Holds(t, m, E, R)
    <3>1. HasRows(t, J)'
      BY <1>2, <2>2, <2>3, <2>4, RowSet
    <3>2. \A m, E, R : m + 1 \in Attrs => Holds(t, m, E, R)' = Holds(t, m, E, R)
      BY <1>2, <2>2, <2>3, NamesKept DEF HasRows
    <3> QED BY <3>1, <3>2
  <2>9. Full(t, Indexed(t))'
    <3>1. \A m \in Indexed(t) : m + 1 \in Attrs
      BY <2>2, IndexedFacts, CatalogAssumption DEF Numbered, Attrs
    <3> QED BY <1>4, <2>2, <2>4, <2>5, <3>1 DEF Full
  <2>6. call'.n = i - 1 /\ HasRows(t, Indexed(t) \ {call.n})'
    BY <1>3, <2>3, <2>4, <2>5
  <2>8. DropIndexExact(t)'
    BY <1>3, <1>4, <2>2, <2>4, <2>6, <2>9 DEF DropIndexExact, ForcedSoFar
  <2> QED BY <1>3, <2>8 DEF TableExact, Active, CallExact
<1> QED BY <1>1, <1>3, <1>4, <1>5, CatalogStep

LEMMA DropIndexFileStep ==
  ASSUME SafeInv, ExactInv, DropIndexFile
  PROVE  ExactInv'
<1>1. PICK t \in Tables : /\ t = call.t /\ Active(t)
                          /\ call.op = "dropIndex" /\ call.step = "files"
  BY DEF DropIndexFile, At, SafeInv, CallSound, Active
<1>4. PICK n : n = call.n
  OBVIOUS
<1>2. /\ UNCHANGED <<relcat, attrcat, relDisk, attrDisk, hurt>> /\ lost' \subseteq lost
      /\ file' = [file EXCEPT ![IndexFile(t, n)] = NoFile] /\ call' = Idle
  BY <1>1, <1>4 DEF DropIndexFile, Unlink, Return, catalog, onDisk, faulty
<1>3. ASSUME t \notin hurt'
      PROVE  TableExact(t)'
  <2>1. DropIndexExact(t)
    BY <1>1, <1>2, <1>3 DEF ExactInv, TableExact, CallExact
  <2>2. /\ Present(t) /\ Numbered(t) /\ Full(t, Indexed(t)) /\ n \in Indexed(t) /\ n \in IndexNos
        /\ RelForced(t) /\ AttrForced(t)
        /\ relcat[t] = Cardinality(Indexed(t) \ {n}) /\ HasRows(t, Indexed(t) \ {n})
    BY <1>1, <1>4, <2>1, IndexedFacts DEF DropIndexExact, ForcedSoFar
  <2>4. /\ Present(t)' = Present(t) /\ file'[TableFile(t)] = file[TableFile(t)]
        /\ Indexed(t)' = Indexed(t) \ {n}
        /\ \A m \in IndexNos : m # n => file'[IndexFile(t, m)] = file[IndexFile(t, m)]
    <3>1. /\ Present(t)' = Present(t) /\ file'[TableFile(t)] = file[TableFile(t)]
          /\ Indexed(t)' = IF NoFile = NoFile THEN Indexed(t) \ {n} ELSE Indexed(t) \cup {n}
          /\ \A m \in IndexNos : file'[IndexFile(t, m)] = IF m = n THEN NoFile ELSE file[IndexFile(t, m)]
      <4>1. Put(IndexFile(t, n), NoFile) /\ n \in IndexNos
        BY <1>2, <2>2 DEF Put
      <4> QED BY <4>1, IndexStep
    <3> QED BY <3>1
  <2>5. Full(t, Indexed(t))' /\ Numbered(t)'
    BY <1>2, <2>2, <2>4, IndexedFacts, SameHolds DEF Full, Numbered
  <2>6. HasRows(t, Indexed(t))'
    BY <1>2, <2>2, <2>4, SameRows
  <2>7. Whole(t)'
    BY <1>2, <2>2, <2>4, <2>5, <2>6 DEF Whole, RelForced, AttrForced
  <2> QED BY <1>2, <2>5, <2>7, ActiveFacts DEF TableExact, RestExact
<1> QED
  <2>1. Put(IndexFile(t, n), NoFile) /\ IndexFile(t, n)[1] = t
    BY <1>2, IndexFileNames DEF Put
  <2>2. UNCHANGED <<catalog, onDisk>>
    BY <1>2 DEF catalog, onDisk
  <2> QED BY <1>1, <1>2, <1>3, <2>1, <2>2, IdleFacts, FileStep

-----------------------------------------------------------------------------
(* insert: the indexes get the row one after the other, before the table   *)
(* does, or after it when the pool has evicted the table's page.           *)
LEMMA InsertStep ==
  ASSUME SafeInv, ExactInv, NEW t \in Tables, NEW r \in Rows, Insert(t, r)
  PROVE  ExactInv'
<1>1. call = Idle /\ ~Active(t) /\ \A u : ~Active(u)
  BY ActiveFacts DEF Insert, Start
<1>2. /\ call'.op = "insert" /\ call'.step = "index" /\ call'.t = t /\ call'.i = 1
      /\ call'.row = r /\ call'.entries = NoFile /\ call'.rows = file[TableFile(t)] \cup {r}
  BY InsertCall
<1>3. UNCHANGED <<relcat, attrcat, relDisk, attrDisk, file, lost, hurt>>
  BY DEF Insert, catalog, onDisk, faulty
<1>4. ASSUME t \notin hurt'
      PROVE  TableExact(t)'
  <2>1. Whole(t) /\ Full(t, Indexed(t))
    BY <1>1, <1>3, <1>4 DEF ExactInv, TableExact, RestExact, Absent, NoRows, Insert
  <2>2. r \notin file[TableFile(t)]
    <3>1. TableFile(t) \in {g \in Files : file[g] # NoFile}
          /\ RowsIn(TableFile(t), file[TableFile(t)]) = file[TableFile(t)]
      BY FileNames DEF Insert, RowsIn, TableFile, NO_INDEX
    <3> QED BY <3>1 DEF Insert, Tried
  <2>3. call'.rows \ {call'.row} = file[TableFile(t)]
    BY <1>2, <2>2
  <2>4. Whole(t)'
    BY <1>3, <2>1, SameFiles, SameRows DEF Whole, RelForced, AttrForced
  <2>5. \A n \in Indexed(t)' : n \in Nat
                               /\ Holds(t, n, file[IndexFile(t, n)], file[TableFile(t)])'
    <3>1. Full(t, Indexed(t))'
      BY <1>3, <2>1, SameFiles, SameFull
    <3> QED BY <3>1, <1>3, SameFiles, IndexedFacts DEF Full
  <2>6. \A n \in Indexed(t)' : ~(n + 1 < call'.i)
    BY <1>2, <2>5
  <2>7. InsertExact(t)'
    BY <1>2, <1>3, <2>3, <2>4, <2>5, <2>6 DEF InsertExact
  <2> QED BY <1>2, <2>7 DEF TableExact, Active, CallExact
<1> QED BY <1>1, <1>2, <1>3, <1>4, IdleFacts, CatalogStep

LEMMA InsertIndexStep ==
  ASSUME SafeInv, ExactInv, InsertIndex
  PROVE  ExactInv'
<1>1. PICK t \in Tables : /\ t = call.t /\ Active(t)
                          /\ call.op = "insert" /\ call.step = "index" /\ call.i <= AttrCount
  BY DEF InsertIndex, At, SafeInv, CallSound, Active
<1>2. PICK n : n = attrcat[t][call.i].indexNo
  OBVIOUS
<1>3. /\ UNCHANGED <<relcat, attrcat, relDisk, attrDisk, file, lost, hurt>>
      /\ call \in Call /\ call.i \in Nat /\ call.i >= 1
  BY <1>1, CallTypes DEF InsertIndex, catalog, onDisk, faulty, SafeInv, Typed, CallSound
<1>4. /\ call'.op = "insert" /\ call'.t = t /\ call'.row = call.row /\ call'.rows = call.rows
      /\ n = NO_INDEX => call'.step = "index" /\ call'.i = call.i + 1
                         /\ call'.entries = call.entries
      /\ n # NO_INDEX => /\ call'.step = "closeIndex" /\ call'.i = call.i /\ call'.n = n
                         /\ call'.entries \in Entered(file[IndexFile(t, n)], {call.row}, call.i)
  <2>1. CASE n = NO_INDEX
    BY <1>1, <1>2, <1>3, <2>1 DEF InsertIndex, Call
  <2>2. CASE n # NO_INDEX
    <3>1. PICK F \in Entered(file[IndexFile(t, n)], {call.row}, call.i) :
            call' = [call EXCEPT !.step = "closeIndex", !.n = n, !.entries = F]
      BY <1>1, <1>2, <2>2 DEF InsertIndex
    <3> QED BY <1>1, <1>3, <2>2, <3>1 DEF Call
  <2> QED BY <2>1, <2>2
<1>5. ASSUME t \notin hurt'
      PROVE  TableExact(t)'
  <2>1. InsertExact(t)
    BY <1>1, <1>3, <1>5 DEF ExactInv, TableExact, CallExact
  <2>2. /\ Whole(t) /\ HasRows(t, Indexed(t)) /\ attrcat[t] \in Seq(AttrRow)
        /\ call.i \in Attrs /\ call.row \in call.rows
    BY <1>1, <1>3, <2>1, CatalogAssumption DEF InsertExact, Whole, SafeInv, Typed, CallSound, Attrs
  <2>3. n = IF call.i - 1 \in Indexed(t) THEN call.i - 1 ELSE NO_INDEX
    <3>1. attrcat[t][call.i].indexNo =
            IF 0 + call.i - 1 \in Indexed(t) THEN 0 + call.i - 1 ELSE NO_INDEX
      BY <2>2, CatalogAssumption DEF HasRows, RowsFrom, Attrs
    <3> QED BY <1>2, <1>3, <3>1
  <2>4. Whole(t)' /\ Indexed(t)' = Indexed(t)
    BY <1>3, <2>2, SameFiles, SameRows DEF Whole, RelForced, AttrForced
  <2>5. \A m \in Indexed(t) : m \in Nat /\ m # NO_INDEX
    BY IndexedFacts, Values
  <2>6. CASE n = NO_INDEX
    <3>1. call.i - 1 \notin Indexed(t)
      BY <2>3, <2>5, <2>6
    <3>2. \A m \in Indexed(t) : /\ m + 1 # call.i
                                /\ m + 1 < call.i + 1 => m + 1 < call.i
                                /\ m + 1 >= call.i + 1 => m + 1 > call.i
      BY <1>3, <2>5, <3>1
    <3>3. ASSUME NEW m \in Indexed(t)
          PROVE  /\ m + 1 < call.i + 1 =>
                      Holds(t, m, file[IndexFile(t, m)], call.rows)'
                 /\ m + 1 >= call.i + 1 =>
                      Holds(t, m, file[IndexFile(t, m)], call.rows \ {call.row})'
      <4>1. /\ m + 1 < call.i + 1 => Holds(t, m, file[IndexFile(t, m)], call.rows)
            /\ m + 1 >= call.i + 1 => Holds(t, m, file[IndexFile(t, m)], call.rows \ {call.row})
        BY <2>1, <3>2 DEF InsertExact
      <4> QED BY <1>3, <1>4, <4>1, SameHolds
    <3>4. \A m \in Indexed(t) : m + 1 \in Int /\ (m + 1 > call.i + 1 => m + 1 >= call.i + 1)
                                /\ (m + 1 = call.i + 1 => m + 1 >= call.i + 1)
      BY <1>3, <2>5
    <3>5. file'[TableFile(t)] \in {call.rows \ {call.row}, call.rows}
      BY <1>3, <2>1 DEF InsertExact
    <3>7. call.entries = NoFile
      BY <1>1, <2>1 DEF InsertExact
    <3>6. InsertExact(t)'
      BY <1>4, <2>4, <2>6, <3>3, <3>4, <3>5, <3>7 DEF InsertExact
    <3> QED BY <1>4, <3>6 DEF TableExact, Active, CallExact
  <2>7. CASE n # NO_INDEX
    <3>1. n = call.i - 1 /\ n \in Indexed(t) /\ n + 1 = call.i
      BY <1>3, <2>3, <2>7
    <3>2. Holds(t, n, file[IndexFile(t, n)], call.rows \ {call.row})
      BY <1>1, <2>1, <3>1 DEF InsertExact
    <3>3. Holds(t, call.n, call.entries, call.rows)'
      <4>1. Holds(t, n, call'.entries, (call.rows \ {call.row}) \cup {call.row})
        BY <1>4, <2>7, <3>1, <3>2, HoldsInserted
      <4>2. (call.rows \ {call.row}) \cup {call.row} = call.rows
        BY <2>2
      <4> QED BY <1>3, <1>4, <2>7, <4>1, <4>2, SameHolds
    <3>4. InsertExact(t)'
      <4>1. ASSUME NEW m \in Indexed(t)
            PROVE  /\ m + 1 < call.i => Holds(t, m, file[IndexFile(t, m)], call.rows)'
                   /\ m + 1 > call.i =>
                        Holds(t, m, file[IndexFile(t, m)], call.rows \ {call.row})'
        BY <1>3, <1>4, <2>1, SameHolds DEF InsertExact
      <4>2. file'[TableFile(t)] \in {call'.rows \ {call'.row}, call'.rows}
        BY <1>3, <1>4, <2>1 DEF InsertExact
      <4> QED BY <1>4, <2>4, <2>7, <3>1, <3>3, <4>1, <4>2 DEF InsertExact
    <3> QED BY <1>4, <3>4 DEF TableExact, Active, CallExact
  <2> QED BY <2>6, <2>7
<1> QED BY <1>1, <1>3, <1>4, <1>5, CatalogStep

LEMMA InsertCloseIndexStep ==
  ASSUME SafeInv, ExactInv, InsertCloseIndex
  PROVE  ExactInv'
<1>1. PICK t \in Tables : /\ t = call.t /\ Active(t)
                          /\ call.op = "insert" /\ call.step = "closeIndex"
  BY DEF InsertCloseIndex, At, SafeInv, CallSound, Active
<1>4. PICK n, e : n = call.n /\ e = call.entries
  OBVIOUS
<1>2. /\ UNCHANGED <<relcat, attrcat, relDisk, attrDisk, hurt, lost>>
      /\ file' = [file EXCEPT ![IndexFile(t, n)] = e]
      /\ call \in Call /\ call.i \in Nat /\ call.i >= 1
  BY <1>1, <1>4, CallTypes
     DEF InsertCloseIndex, catalog, onDisk, faulty, SafeInv, Typed, CallSound
<1>5. /\ call'.op = "insert" /\ call'.step = "index" /\ call'.t = t /\ call'.i = call.i + 1
      /\ call'.row = call.row /\ call'.rows = call.rows /\ call'.entries = NoFile
  BY <1>1, <1>2 DEF InsertCloseIndex, Call
<1>3. ASSUME t \notin hurt'
      PROVE  TableExact(t)'
  <2>1. InsertExact(t)
    BY <1>1, <1>2, <1>3 DEF ExactInv, TableExact, CallExact
  <2>2. /\ Whole(t) /\ n + 1 = call.i /\ n \in Indexed(t) /\ n \in IndexNos /\ n \in Nat
        /\ Holds(t, n, e, call.rows) /\ e # NoFile /\ Indexed(t) \cup {n} = Indexed(t)
    BY <1>1, <1>4, <2>1, IndexedFacts DEF InsertExact, SafeInv, CallSound
  <2>4. /\ Present(t)' = Present(t) /\ file'[TableFile(t)] = file[TableFile(t)]
        /\ Indexed(t)' = Indexed(t)
        /\ \A m \in IndexNos : file'[IndexFile(t, m)] = IF m = n THEN e ELSE file[IndexFile(t, m)]
    <3>1. /\ Present(t)' = Present(t) /\ file'[TableFile(t)] = file[TableFile(t)]
          /\ Indexed(t)' = IF e = NoFile THEN Indexed(t) \ {n} ELSE Indexed(t) \cup {n}
          /\ \A m \in IndexNos : file'[IndexFile(t, m)] = IF m = n THEN e ELSE file[IndexFile(t, m)]
      <4>1. Put(IndexFile(t, n), e) /\ n \in IndexNos
        BY <1>2, <2>2 DEF Put
      <4> QED BY <4>1, IndexStep
    <3> QED BY <2>2, <3>1
  <2>5. Whole(t)'
    BY <1>2, <2>2, <2>4, SameRows DEF Whole, RelForced, AttrForced, Numbered
  <2>6. ASSUME NEW m \in Indexed(t)
        PROVE  /\ m + 1 < call.i + 1 => Holds(t, m, file[IndexFile(t, m)], call.rows)'
               /\ m + 1 >= call.i + 1 =>
                    Holds(t, m, file[IndexFile(t, m)], call.rows \ {call.row})'
    <3>1. m \in Nat /\ m \in IndexNos
      BY IndexedFacts
    <3>2. CASE m = n
      <4>1. file'[IndexFile(t, m)] = e /\ ~(m + 1 >= call.i + 1)
        BY <1>2, <2>2, <2>4, <3>1, <3>2
      <4> QED BY <1>2, <1>5, <2>2, <3>2, <4>1, SameHolds
    <3>3. CASE m # n
      <4>1. /\ m + 1 < call.i + 1 => m + 1 < call.i
            /\ m + 1 >= call.i + 1 => m + 1 > call.i
        BY <1>2, <2>2, <3>1, <3>3
      <4>2. file'[IndexFile(t, m)] = file[IndexFile(t, m)]
        BY <2>4, <3>1, <3>3
      <4>3. /\ m + 1 < call.i + 1 => Holds(t, m, file[IndexFile(t, m)], call.rows)
            /\ m + 1 >= call.i + 1 => Holds(t, m, file[IndexFile(t, m)], call.rows \ {call.row})
        BY <2>1, <4>1 DEF InsertExact
      <4> QED BY <1>2, <1>5, <4>2, <4>3, SameHolds
    <3> QED BY <3>2, <3>3
  <2>8. \A m \in Indexed(t) : m + 1 \in Int /\ (m + 1 > call.i + 1 => m + 1 >= call.i + 1)
                              /\ (m + 1 = call.i + 1 => m + 1 >= call.i + 1)
    BY <1>2, IndexedFacts
  <2>7. InsertExact(t)'
    BY <1>1, <1>2, <1>5, <2>1, <2>4, <2>5, <2>6, <2>8 DEF InsertExact
  <2> QED BY <1>5, <2>7 DEF TableExact, Active, CallExact
<1> QED
  <2>1. Put(IndexFile(t, n), e) /\ IndexFile(t, n)[1] = t
    BY <1>2, IndexFileNames DEF Put
  <2>2. UNCHANGED <<catalog, onDisk>>
    BY <1>2 DEF catalog, onDisk
  <2> QED BY <1>1, <1>2, <1>3, <1>5, <2>1, <2>2, FileStep

LEMMA InsertCloseStep ==
  ASSUME SafeInv, ExactInv, InsertClose
  PROVE  ExactInv'
<1>1. PICK t \in Tables : /\ t = call.t /\ Active(t) /\ call.op = "insert"
                          /\ call.step = "index" /\ call.i > AttrCount
  BY DEF InsertClose, At, SafeInv, CallSound, Active
<1>4. PICK e : e = call.rows
  OBVIOUS
<1>2. /\ UNCHANGED <<relcat, attrcat, relDisk, attrDisk, hurt, lost>>
      /\ file' = [file EXCEPT ![TableFile(t)] = e] /\ call' = Idle /\ call.i \in Nat
  BY <1>1, <1>4, CallTypes DEF InsertClose, Return, catalog, onDisk, faulty, SafeInv, Typed
<1>3. ASSUME t \notin hurt'
      PROVE  TableExact(t)'
  <2>1. InsertExact(t)
    BY <1>1, <1>2, <1>3 DEF ExactInv, TableExact, CallExact
  <2>2. Whole(t) /\ e # NoFile
    BY <1>1, <1>4, <2>1 DEF InsertExact, SafeInv, CallSound
  <2>3. /\ file'[TableFile(t)] = e /\ Present(t)' /\ Indexed(t)' = Indexed(t)
        /\ \A m \in IndexNos : file'[IndexFile(t, m)] = file[IndexFile(t, m)]
    BY <1>2, <2>2, FileNames DEF Present, Indexed, SafeInv, Typed
  <2>4. \A m \in Indexed(t) : m \in Nat /\ m < AttrCount /\ m + 1 < call.i /\ m \in IndexNos
    BY <1>1, <1>2, <2>2, IndexedFacts, CatalogAssumption DEF Whole, Numbered
  <2>5. \A m \in Indexed(t) : Holds(t, m, file[IndexFile(t, m)], e)
    BY <1>4, <2>1, <2>4 DEF InsertExact
  <2>6. Full(t, Indexed(t))'
    BY <1>2, <2>3, <2>4, <2>5, SameHolds DEF Full
  <2>7. Whole(t)'
    BY <1>2, <2>2, <2>3, SameRows DEF Whole, RelForced, AttrForced, Numbered
  <2> QED BY <1>2, <2>6, <2>7, ActiveFacts DEF TableExact, RestExact
<1> QED
  <2>1. Put(TableFile(t), e) /\ TableFile(t)[1] = t
    BY <1>2, IndexFileNames DEF Put
  <2>2. UNCHANGED <<catalog, onDisk>>
    BY <1>2 DEF catalog, onDisk
  <2> QED BY <1>1, <1>2, <1>3, <2>1, <2>2, IdleFacts, FileStep

-----------------------------------------------------------------------------
(* The steps at which something fails: the table of the call counts as     *)
(* hurt, and no other one has changed.                                     *)
LEMMA DirtyOfCall == \A l \in Dirty : l.f[1] = call.t
BY IndexFileNames DEF Dirty

LEMMA StepFailsStep ==
  ASSUME SafeInv, ExactInv, StepFails
  PROVE  ExactInv'
<1>1. call' = Idle /\ call.t \in hurt' /\ hurt \subseteq hurt' /\ UNCHANGED <<catalog, onDisk>>
  BY DEF StepFails, Return, Fails, Fault
<1>2. \A l \in lost' : l.f[1] \in hurt'
  BY <1>1, DirtyOfCall DEF StepFails, Unlink, ExactInv
<1>3. PICK f, c : f[1] = call.t /\ (UNCHANGED file \/ file' = [file EXCEPT ![f] = c])
  <2>1. \/ UNCHANGED file
        \/ file' = [file EXCEPT ![TableFile(call.t)] = NoFile]
        \/ file' = [file EXCEPT ![IndexFile(call.t, call.n)] = {}]
    BY DEF StepFails, Unlink
  <2> QED BY <2>1, IndexFileNames
<1>4. \A u \in Tables : u # call.t => SameTable(u)
  BY <1>1, <1>3, FileNames, IndexFileNames DEF SameTable, catalog, onDisk, SafeInv, Typed
<1>5. \A u \in Tables : u # call.t => ~Active(u) /\ ~Active(u)'
  BY <1>1, ActiveFacts
<1> QED BY <1>1, <1>2, <1>4, <1>5, OneTable

LEMMA CrashStep ==
  ASSUME SafeInv, ExactInv, Crash
  PROVE  ExactInv'
<1>1. /\ call' = Idle /\ lost' = {} /\ hurt \subseteq hurt' /\ {call.t} \cap Tables \subseteq hurt'
      /\ relcat' = relDisk /\ attrcat' = attrDisk /\ UNCHANGED <<relDisk, attrDisk, file>>
  BY DEF Crash, Fault, onDisk
<1>2. \A u \in Tables : u # call.t => ~Active(u) /\ ~Active(u)'
  BY <1>1, ActiveFacts
<1>3. \A u \in Tables : u # call.t /\ u \notin hurt' => SameTable(u)
  BY <1>1, <1>2
     DEF SameTable, ExactInv, TableExact, RestExact, Whole, Absent, RelForced, AttrForced
<1> QED BY <1>1, <1>2, <1>3, OneTable

(* A call goes on as it was, whatever of the catalog is written meanwhile. *)
LEMMA CallKept ==
  ASSUME NEW t \in Tables, CallExact(t), UNCHANGED <<call, relcat, attrcat>>,
         file'[TableFile(t)] = file[TableFile(t)],
         \A n \in IndexNos : file'[IndexFile(t, n)] = file[IndexFile(t, n)],
         RelForced(t) => RelForced(t)', AttrForced(t) => AttrForced(t)'
  PROVE  CallExact(t)'
<1>1. Indexed(t)' = Indexed(t) /\ Present(t)' = Present(t) /\ Found(t, call.a)' = Found(t, call.a)
      /\ Numbered(t)' = Numbered(t) /\ \A n \in Indexed(t) : file'[IndexFile(t, n)] = file[IndexFile(t, n)]
  BY IndexedFacts DEF Indexed, Present, Numbered, Found
<1>2. ForcedSoFar(t) => ForcedSoFar(t)'
  BY DEF ForcedSoFar
<1>3. CreateTableExact(t) => CreateTableExact(t)'
  BY <1>1, <1>2, SameRows DEF CreateTableExact, NoRows
<1>8. /\ \A n, E, R : Holds(t, n, E, R)' = Holds(t, n, E, R)
      /\ \A N \in SUBSET IndexNos : Full(t, N)' = Full(t, N)
  BY SameHolds DEF Full
<1>4. DropTableExact(t) => DropTableExact(t)'
  BY <1>1, <1>2, SameRows DEF DropTableExact
<1>5. CreateIndexExact(t) => CreateIndexExact(t)'
  BY <1>1, <1>2, <1>8, SameRows, IndexedFacts DEF CreateIndexExact
<1>6. DropIndexExact(t) => DropIndexExact(t)'
  BY <1>1, <1>2, <1>8, SameRows, IndexedFacts DEF DropIndexExact
<1>7. InsertExact(t) => InsertExact(t)'
  BY <1>1, <1>8, SameRows DEF InsertExact, Whole
<1> QED BY <1>3, <1>4, <1>5, <1>6, <1>7 DEF CallExact

LEMMA ExactKept ==
  ASSUME ExactInv, UNCHANGED <<relcat, attrcat, relDisk, attrDisk, file, call, lost>>,
         hurt \subseteq hurt'
  PROVE  ExactInv'
<1>1. ASSUME NEW u \in Tables, u \notin hurt'
      PROVE  TableExact(u)'
  <2>1. Active(u)' = Active(u) /\ TableExact(u)
    BY <1>1 DEF Active, ExactInv
  <2>2. CASE Active(u)
    BY <2>1, <2>2, CallKept DEF TableExact, RelForced, AttrForced
  <2>3. CASE ~Active(u)
    BY <2>1, <2>3, RestKept DEF TableExact, SameTable
  <2> QED BY <2>2, <2>3
<1> QED BY <1>1 DEF ExactInv

(* openDb and closeDb: the handles hold what the disk has. *)
LEMMA OpenDbStep ==
  ASSUME SafeInv, ExactInv, OpenDb
  PROVE  ExactInv'
BY ExactKept DEF OpenDb, faulty, Fails, Fault, catalog, onDisk

LEMMA CloseDbStep ==
  ASSUME SafeInv, ExactInv, CloseDb
  PROVE  ExactInv'
<1>1. /\ call = Idle /\ UNCHANGED <<relcat, attrcat, file, call, lost>> /\ hurt \subseteq hurt'
      /\ relDisk' = relcat /\ attrDisk' \in {attrcat, attrDisk}
  BY DEF CloseDb, faulty, Fails, Fault, catalog
<1>2. \A u : ~Active(u) /\ ~Active(u)'
  BY <1>1, ActiveFacts
<1>3. ASSUME NEW u \in Tables, u \notin hurt'
      PROVE  TableExact(u)'
  <2>1. RestExact(u) /\ SameTable(u)
    BY <1>1, <1>2, <1>3 DEF SameTable, ExactInv, TableExact, RestExact, Whole, Absent,
                            RelForced, AttrForced
  <2> QED BY <1>2, <2>1, RestKept DEF TableExact
<1> QED BY <1>1, <1>3 DEF ExactInv

(* A page of the catalog that the pool writes is one a table at rest has   *)
(* on disk already; a page of a file is one of the call in progress, or of *)
(* a table that is hurt.  Here it is one that the call has open.           *)
LEMMA EvictDirty ==
  ASSUME SafeInv, NEW t \in Tables, t = call.t, CallExact(t), NEW l \in Dirty,
         UNCHANGED <<call, relcat, attrcat, relDisk, attrDisk>>,
         NEW f, f = l.f, NEW c, c = l.rows, file' = [file EXCEPT ![f] = c], file[f] # NoFile
  PROVE  CallExact(t)'
<1>1. c # NoFile /\ (\/ f = TableFile(t) /\ c = call.rows
                     \/ f = IndexFile(t, call.n) /\ c = call.entries)
  BY DEF Dirty
<1>2. CASE f = TableFile(t) /\ c = call.rows
  <2>1. call.op = "insert" /\ InsertExact(t)
    BY <1>1, <1>2 DEF SafeInv, CallSound, CallExact
  <2>2. /\ file'[TableFile(t)] = call.rows /\ Present(t)' /\ Indexed(t)' = Indexed(t)
        /\ \A m \in IndexNos : file'[IndexFile(t, m)] = file[IndexFile(t, m)]
    BY <1>1, <1>2, FileNames DEF Present, Indexed, SafeInv, Typed
  <2>3. Whole(t)'
    BY <2>1, <2>2, SameRows DEF InsertExact, Whole, RelForced, AttrForced, Numbered
  <2>4. \A m \in Indexed(t) : file'[IndexFile(t, m)] = file[IndexFile(t, m)]
    BY <2>2, IndexedFacts
  <2>5. InsertExact(t)'
    <3>1. /\ \A m \in Indexed(t) : \A R :
               Holds(t, m, file[IndexFile(t, m)], R)' = Holds(t, m, file[IndexFile(t, m)], R)
          /\ \A m, E, R : Holds(t, m, E, R)' = Holds(t, m, E, R)
      BY <2>4, SameHolds
    <3> QED BY <2>1, <2>2, <2>3, <2>4, <3>1 DEF InsertExact
  <2> QED BY <2>1, <2>5 DEF CallExact
<1>3. CASE f = IndexFile(t, call.n) /\ c = call.entries
  <2>1. call.op \in {"insert", "createIndex"} /\ call.n \in IndexNos
    BY <1>1, <1>3 DEF SafeInv, CallSound
  <2>2. PICK n : n = call.n
    OBVIOUS
  <2>3. /\ Present(t)' = Present(t) /\ file'[TableFile(t)] = file[TableFile(t)]
        /\ Indexed(t)' = Indexed(t) \cup {n}
        /\ \A m \in IndexNos : file'[IndexFile(t, m)] = IF m = n THEN c ELSE file[IndexFile(t, m)]
    <3>1. /\ Present(t)' = Present(t) /\ file'[TableFile(t)] = file[TableFile(t)]
          /\ Indexed(t)' = IF c = NoFile THEN Indexed(t) \ {n} ELSE Indexed(t) \cup {n}
          /\ \A m \in IndexNos : file'[IndexFile(t, m)] = IF m = n THEN c ELSE file[IndexFile(t, m)]
      <4>1. Put(IndexFile(t, n), c) /\ n \in IndexNos
        BY <1>3, <2>1, <2>2 DEF Put
      <4> QED BY <4>1, IndexStep
    <3> QED BY <1>1, <3>1
  <2>4. Indexed(t)' = Indexed(t) /\ n \in Indexed(t)
    BY <1>3, <2>1, <2>2, <2>3 DEF Indexed
  <2>5. \A m \in Indexed(t) : file'[IndexFile(t, m)] = IF m = n THEN c ELSE file[IndexFile(t, m)]
    BY <2>3, IndexedFacts
  <2>6. CASE call.op = "insert"
    <3>1. InsertExact(t) /\ call.step = "closeIndex" /\ n + 1 = call.i
      BY <1>1, <1>3, <2>2, <2>6 DEF CallExact, InsertExact
    <3>2. Whole(t)'
      BY <2>3, <2>4, <3>1, SameRows DEF InsertExact, Whole, RelForced, AttrForced, Numbered
    <3>4. ASSUME NEW m \in Indexed(t)
          PROVE  /\ m + 1 < call.i => Holds(t, m, file[IndexFile(t, m)], call.rows)'
                 /\ m + 1 > call.i => Holds(t, m, file[IndexFile(t, m)], call.rows \ {call.row})'
      <4>1. m + 1 \in Int
        BY IndexedFacts
      <4>2. CASE m = n
        BY <3>1, <4>1, <4>2
      <4>3. CASE m # n
        <5>1. file'[IndexFile(t, m)] = file[IndexFile(t, m)]
          BY <2>5, <4>3
        <5> QED BY <3>1, <5>1, SameHolds DEF InsertExact
      <4> QED BY <4>2, <4>3
    <3>5. Holds(t, call.n, call.entries, call.rows)'
      BY <3>1, SameHolds DEF InsertExact
    <3>3. InsertExact(t)'
      BY <2>2, <2>3, <2>4, <3>1, <3>2, <3>4, <3>5 DEF InsertExact
    <3> QED BY <2>6, <3>3 DEF CallExact
  <2>7. CASE call.op = "createIndex"
    <3>1. CreateIndexExact(t) /\ call.step = "close"
      BY <1>1, <1>3, <2>7 DEF CallExact, CreateIndexExact
    <3>2. Full(t, Indexed(t) \ {n})' /\ Holds(t, n, call.entries, file[TableFile(t)])'
      BY <2>2, <2>3, <2>4, <2>5, <3>1, SameHolds DEF CreateIndexExact, Full
    <3>3. ForcedSoFar(t)' /\ Numbered(t)' /\ Present(t)'
      BY <2>3, <2>4, <3>1 DEF CreateIndexExact, ForcedSoFar, RelForced, AttrForced, Numbered
    <3>4. CreateIndexExact(t)'
      BY <2>2, <2>3, <2>4, <3>1, <3>2, <3>3, SameRows DEF CreateIndexExact
    <3> QED BY <2>7, <3>4 DEF CallExact
  <2> QED BY <2>1, <2>6, <2>7
<1> QED BY <1>1, <1>2, <1>3

(* The pool writes a page. *)
LEMMA EvictStep ==
  ASSUME SafeInv, ExactInv, Evict
  PROVE  ExactInv'
<1>1. UNCHANGED <<call, relcat, attrcat, lost, hurt>>
  BY DEF Evict, catalog, faulty
<1>2. \A u : Active(u)' = Active(u) /\ (Active(u) => u = call.t)
  BY <1>1 DEF Active
<1>3. CASE /\ UNCHANGED file
           /\ \A u \in Tables : /\ relDisk'[u] \in {relDisk[u], relcat[u]}
                               /\ attrDisk'[u] \in {attrDisk[u], attrcat[u]}
  <2>1. ASSUME NEW u \in Tables, u \notin hurt
        PROVE  TableExact(u)'
    <3>1. /\ RelForced(u) => RelForced(u)' /\ relDisk'[u] = relDisk[u]
          /\ AttrForced(u) => AttrForced(u)' /\ attrDisk'[u] = attrDisk[u]
      BY <1>1, <1>3 DEF RelForced, AttrForced
    <3>2. CASE Active(u)
      BY <1>1, <1>2, <1>3, <2>1, <3>1, <3>2, CallKept DEF TableExact, ExactInv
    <3>3. CASE ~Active(u)
      <4>1. RestExact(u)
        BY <2>1, <3>3 DEF TableExact, ExactInv
      <4>2. SameTable(u)
        BY <1>1, <1>3, <3>1, <4>1
           DEF SameTable, RestExact, Whole, Absent, RelForced, AttrForced
      <4> QED BY <1>2, <3>3, <4>1, <4>2, RestKept DEF TableExact
    <3> QED BY <3>2, <3>3
  <2> QED BY <1>1, <2>1 DEF ExactInv
<1>4. CASE /\ UNCHANGED onDisk
           /\ \E l \in lost \cup Dirty : file[l.f] # NoFile /\ file' = [file EXCEPT ![l.f] = l.rows]
  <2>10. PICK l \in lost \cup Dirty : file[l.f] # NoFile /\ file' = [file EXCEPT ![l.f] = l.rows]
    BY <1>4
  <2>1. PICK f, c : f = l.f /\ c = l.rows /\ file[f] # NoFile /\ file' = [file EXCEPT ![f] = c]
    BY <2>10
  <2>2. \A u \in Tables : u # f[1] => SameTable(u)
    BY <1>1, <1>4, <2>1, IndexFileNames DEF SameTable, onDisk, SafeInv, Typed
  <2>3. ASSUME NEW u \in Tables, u \notin hurt
        PROVE  TableExact(u)'
    <3>1. CASE u # f[1] /\ ~Active(u)
      BY <1>2, <2>2, <2>3, <3>1, RestKept DEF TableExact, ExactInv
    <3>2. CASE u # f[1] /\ Active(u)
      <4>1. /\ CallExact(u) /\ file'[TableFile(u)] = file[TableFile(u)]
            /\ \A n \in IndexNos : file'[IndexFile(u, n)] = file[IndexFile(u, n)]
            /\ RelForced(u) => RelForced(u)'
            /\ AttrForced(u) => AttrForced(u)'
        BY <2>2, <2>3, <3>2 DEF TableExact, ExactInv, SameTable, RelForced, AttrForced
      <4> QED BY <1>1, <1>2, <3>2, <4>1, CallKept DEF TableExact
    <3>3. CASE u = f[1]
      <4>1. l \in Dirty /\ u = call.t
        BY <2>1, <2>3, <3>3, DirtyOfCall DEF ExactInv
      <4>2. call.op # "none"
        BY <4>1 DEF Dirty, SafeInv, CallSound
      <4>3. CallExact(u) /\ Active(u)
        BY <2>3, <4>1, <4>2 DEF Active, TableExact, ExactInv
      <4>4. CallExact(u)'
        BY <1>1, <1>4, <2>1, <4>1, <4>3, EvictDirty DEF onDisk
      <4> QED BY <1>2, <4>3, <4>4 DEF TableExact
    <3> QED BY <3>1, <3>2, <3>3
  <2> QED BY <1>1, <2>3 DEF ExactInv
<1> QED BY <1>3, <1>4 DEF Evict, onDisk, SafeInv, Typed

LEMMA InitExact == Init => ExactInv
<1> SUFFICES ASSUME Init PROVE ExactInv
  OBVIOUS
<1>1. \A t : ~Active(t)
  BY IdleFacts DEF Init, Active
<1>2. ASSUME NEW t \in Tables
      PROVE  Absent(t)
  BY FileNames DEF Init, Absent, Present, RelForced, AttrForced, NoRows, Indexed
<1> QED BY <1>1, <1>2 DEF Init, ExactInv, TableExact, RestExact

LEMMA NextExact == SafeInv /\ ExactInv /\ [Next]_vars => ExactInv'
<1> SUFFICES ASSUME SafeInv, ExactInv, [Next]_vars PROVE ExactInv'
  OBVIOUS
<1>1. CASE CatalogNext
  BY <1>1, OpenDbStep, CloseDbStep, CreateTableStep, CreateTableFailsStep, DropTableStep,
     CreateIndexStep, DropIndexStep, CreateRelRowStep, CreateAttrRowStep, ForceRelStep,
     ForceAttrStep, DropAttrIndexStep, DropAttrRowStep, DropNoMoreRowsStep, DropFileStep,
     IndexAttrStep, CreateIndexFileStep, FillIndexStep, CloseNewIndexStep,
     DropIndexAttrStep, DropIndexFileStep, StepFailsStep, EvictStep, CrashStep DEF CatalogNext
<1>2. CASE Next /\ ~CatalogNext
  BY <1>2, InsertStep, InsertIndexStep, InsertCloseIndexStep, InsertCloseStep DEF Next
<1>3. CASE UNCHANGED vars
  BY <1>3, ExactKept DEF vars, catalog, onDisk, faulty
<1> QED BY <1>1, <1>2, <1>3

(* A table at rest, in the terms of CatalogExact and IndexesExact. *)
LEMMA RestRows ==
  ASSUME SafeInv, ExactInv, NEW t \in Tables, AtRest(t)
  PROVE  /\ CatalogRowsExact(t) /\ relDisk[t] = relcat[t] /\ attrDisk[t] = attrcat[t]
         /\ \A n \in Indexed(t) : Covers(file[IndexFile(t, n)], file[TableFile(t)], Columns(t, n))
<1>1. RestExact(t)
  BY DEF AtRest, ExactInv, TableExact, Active
<1>2. CASE Whole(t) /\ Full(t, Indexed(t))
  <2>1. attrcat[t] \in Seq(AttrRow) /\ HasRows(t, Indexed(t))
    BY <1>2 DEF Whole, SafeInv, Typed
  <2>2. \A i \in Attrs :
          attrcat[t][i].indexNo = IF i - 1 \in Indexed(t) THEN i - 1 ELSE NO_INDEX
    BY <2>1, FoundWith
  <2>3. \A a \in Attrs : \E i \in Attrs : attrcat[t][i].attrName = a
    BY <2>1 DEF HasRows, Named, Attrs
  <2>4. \A n \in Indexed(t) : n + 1 \in Attrs
    BY <1>2, IndexedFacts, CatalogAssumption DEF Whole, Numbered, Attrs
  <2>5. CatalogRowsExact(t)
    BY <1>2, <2>1, <2>2, <2>3, <2>4 DEF Whole, Present, HasRows, CatalogRowsExact
  <2> QED BY <1>2, <2>5 DEF Whole, Full, Holds, RelForced, AttrForced
<1>3. CASE Absent(t)
  BY <1>3, FS_EmptySet DEF Absent, Present, RelForced, AttrForced, NoRows, CatalogRowsExact
<1> QED BY <1>1, <1>2, <1>3 DEF RestExact

(* Between two calls, the rows of relcat and attrcat of a table are        *)
(* exactly those of the files it has, on disk too, in whatever order the   *)
(* rows of attrcat lie in their pages: createTable, dropTable, createIndex *)
(* and dropIndex leave nothing behind and count right.                     *)
THEOREM DbCatalogExact == Spec => []CatalogExact
<1>1. SafeInv /\ ExactInv => CatalogExact
  BY RestRows DEF CatalogExact
<1> QED BY <1>1, InitSafe, NextSafe, InitExact, NextExact, PTL DEF Spec

(* Between two calls, every index of a table has an entry for the key of   *)
(* every row of the table, inserted before createIndex or since, and no    *)
(* entry that is not a row's: although insertEntry may give rows with the  *)
(* same key no entry each, and the rows of attrcat may be in any order.    *)
THEOREM DbIndexesExact == Spec => []IndexesExact
<1>1. SafeInv /\ ExactInv => IndexesExact
  BY RestRows DEF IndexesExact
<1> QED BY <1>1, InitSafe, NextSafe, InitExact, NextExact, PTL DEF Spec
=============================================================================
