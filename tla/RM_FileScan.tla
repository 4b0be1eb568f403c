----------------------------- MODULE RM_FileScan -----------------------------
(***************************************************************************)
(* A scan over a record file, storage/rm_filescan.cpp, while its caller    *)
(* inserts, deletes and updates records of the same file: what the callers *)
(* that delete what they find do.  The scan has a position and a copy of   *)
(* the file handle it was opened with, so it knows the pages of that time. *)
(*                                                                         *)
(* The condition is a set of matching records.  A scan whose call failed   *)
(* in openScan is dropped by its caller, and closeScan forgets it.         *)
(***************************************************************************)
EXTENDS RM_FileHandle

CONSTANT Matching  \* the records that meet the scan's condition

ASSUME MatchingAssumption == Matching \subseteq Values

VARIABLES bScanOpen,
          at,             \* pageNum and slotNum: the next slot to look at
          scanPages,      \* numPages in the copied handle
          returned,       \* the last record the scan returned
          due             \* records the scan must still return (history)

scanVars == <<bScanOpen, at, scanPages, returned, due>>
allVars == <<vars, scanVars>>

AtEnd == <<RM_NO_FREE_PAGE, 1>>
Nothing == [rid |-> <<0, 0>>, rec |-> Blank]

ScanInit ==
  /\ Init
  /\ bScanOpen = FALSE /\ at = AtEnd /\ scanPages = 1
  /\ returned = Nothing /\ due = {}

Before(r, q) == r[1] < q[1] \/ (r[1] = q[1] /\ r[2] < q[2])
isBitFilled(r) == r[2] \in pages[r[1]].bitmap
matchRecord(r) == pages[r[1]].rec[r[2]] \in Matching

(* Slots from the position to the end of the pages the copied handle has.  *)
Ahead ==
  IF at = AtEnd THEN {}
  ELSE {r \in Pages \X (1 .. NumberRecords) : r[1] < scanPages /\ ~Before(r, at)}
Hits == {r \in Ahead : isBitFilled(r) /\ matchRecord(r)}

(* Bugs on purpose: slotNum is not set back to 1 on the next page, or it   *)
(* is and pageNum is not moved on.                                         *)
AdvanceWrong(r) ==
  IF r[2] < NumberRecords THEN <<r[1], r[2] + 1>>
  ELSE IF r[1] + 1 < scanPages THEN <<r[1] + 1, r[2]>> ELSE AtEnd
AdvanceSamePageWrong(r) ==
  IF r[2] < NumberRecords THEN <<r[1], r[2] + 1>>
  ELSE IF r[1] + 1 < scanPages THEN <<r[1], 1>> ELSE AtEnd

(* The slot after r. *)
Advance(r) ==
  IF r[2] < NumberRecords THEN <<r[1], r[2] + 1>>
  ELSE IF r[1] + 1 < scanPages THEN <<r[1] + 1, 1>> ELSE AtEnd
-----------------------------------------------------------------------------
(* The position is the first page after page 0, if there is one. *)
OpenScan ==
  /\ bFileOpen /\ ~bScanOpen
  /\ bScanOpen' = TRUE
  /\ at' = IF numPages > 1 THEN <<1, 1>> ELSE AtEnd
  /\ scanPages' = numPages
  /\ due' = {r \in Rids : live[r] \in Matching}
  /\ returned' = Nothing
  /\ UNCHANGED vars

(* getNextRec looks at one slot after the other, and over the end of a     *)
(* page at the next, up to a record that matches.                          *)
GetNextRec ==
  /\ bScanOpen
  /\ \E r \in Hits :
       /\ \A q \in Hits : ~Before(q, r)
       /\ at' = Advance(r)
       /\ returned' = [rid |-> r, rec |-> pages[r[1]].rec[r[2]]]
       /\ due' = due \ {r}
  /\ UNCHANGED <<vars, bScanOpen, scanPages>>

GetNextRecEOF ==
  /\ bScanOpen /\ Hits = {}
  /\ at' = AtEnd
  /\ UNCHANGED <<vars, bScanOpen, scanPages, returned, due>>

(* The page after r cannot be got: the call returns the error and stands   *)
(* on r, the last slot of its page, also when r matches.                   *)
GetNextRecFails ==
  /\ bScanOpen
  /\ \E r \in Ahead :
       /\ r[2] = NumberRecords /\ r[1] + 1 < scanPages
       /\ \A q \in Hits : ~Before(q, r)
       /\ at' = r
  /\ UNCHANGED <<vars, bScanOpen, scanPages, returned, due>>

CloseScan ==
  /\ bScanOpen
  /\ bScanOpen' = FALSE /\ due' = {}
  /\ UNCHANGED <<vars, at, scanPages, returned>>

(* A record that is deleted or changed is owed no more.  There is no crash *)
(* here, and without one InsertPastPage is never enabled (PastPageMeans in *)
(* RM_FileHandleProofs).                                                   *)
Owed == {r \in due : live'[r] = live[r]}
FileCall ==
  /\ \/ OpenFile \/ InsertFails
     \/ \E v \in Values : InsertRec(v)
     \/ \E p \in Pages, s \in Slots :
          DeleteRec(p, s) \/ \E v \in Values : UpdateRec(p, s, v)
  /\ due' = Owed
  /\ UNCHANGED <<bScanOpen, at, scanPages, returned>>

ScanNext ==
  \/ FileCall
  \/ OpenScan \/ GetNextRec \/ GetNextRecEOF \/ GetNextRecFails \/ CloseScan

ScanSpec == ScanInit /\ [][ScanNext]_allVars
-----------------------------------------------------------------------------
(* Every matching record that is there when the scan opens and stays as it *)
(* is comes ahead of the position until it is returned: none is skipped,   *)
(* whatever is inserted, deleted or moved on the lists meanwhile.          *)
NothingSkipped == bScanOpen => due \subseteq Hits

(* No slot is returned twice, not even when a record is deleted and        *)
(* another inserted in its place; and what is returned is what getRec      *)
(* gives for that rid.                                                     *)
ReturnsEachOnce ==
  [][GetNextRec => /\ Before(returned.rid, returned'.rid)
                   /\ returned'.rec = live[returned'.rid]]_allVars
=============================================================================
