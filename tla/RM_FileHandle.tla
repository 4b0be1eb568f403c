---------------------------- MODULE RM_FileHandle ----------------------------
(***************************************************************************)
(* One record file: storage/rm_filehandle.cpp, rm_bitmap.cpp, and the open *)
(* and close of rm_manager.cpp.  A page holds a bitmap and NumberRecords   *)
(* record slots; the pages with room form a list through their headers.    *)
(* The list's head and the number of records are kept in the handle and    *)
(* reach page 0 only in closeFile.                                         *)
(*                                                                         *)
(* The paged file below never gets a page back, so its allocatePage is     *)
(* numPages++ (PF_FileHandle!AllocateNew).  Variable-length values and     *)
(* their file are not part of this module.                                 *)
(***************************************************************************)
EXTENDS Integers, FiniteSets, Sequences, FiniteSetsExt, Chains

CONSTANTS NumberRecords,  \* records in a page
          BitmapBits,     \* NumberRecords rounded up to whole bytes
          MaxPages,       \* bound on the pages of records
          MaxPins,        \* bound on the pins left on one page
          MaxTotal,       \* bound on the record count, which crashes make drift
          Values, Blank,  \* records, and the bytes of a slot never written
          Absent          \* a page the file system does not have, or a hole

ASSUME RecordAssumption ==
  /\ NumberRecords \in Nat \ {0} /\ BitmapBits \in Nat
  /\ BitmapBits >= NumberRecords
  /\ MaxPages \in Nat \ {0} /\ MaxPins \in Nat \ {0} /\ MaxTotal \in Nat
  /\ Blank \notin Values

RM_NO_FREE_PAGE == -1
Pages == 1 .. MaxPages
Slots == 1 .. BitmapBits
Rids == Pages \X Slots

VARIABLES hdrPage, bHdrPageChanged, bFileOpen,  \* the handle
          numPages,                             \* of the paged file
          page0, pages,                         \* the pool's view of the file
          disk0, diskPages, diskNumPages,       \* what the file holds
          pins,
          live,    \* the records inserted and not deleted
          forced,  \* those a forcePages or closeFile has returned 0 for
          crashed, \* whether there was a crash
          overrun  \* whether a record was written past the end of its page

handle == <<hdrPage, bHdrPageChanged, bFileOpen>>
onDisk == <<disk0, diskPages, diskNumPages>>
history == <<live, forced, crashed, overrun>>
vars == <<handle, numPages, page0, pages, onDisk, pins, history>>

PageNum == {RM_NO_FREE_PAGE} \cup Pages
Header == [firstFreePage : PageNum, totalNumberRecords : -MaxTotal .. MaxTotal]
RecordPage == [nextPage : PageNum, bitmap : SUBSET Slots,
               rec : [Slots -> Values \cup {Blank}]]
EmptyPage == [nextPage |-> RM_NO_FREE_PAGE, bitmap |-> {},
              rec |-> [s \in Slots |-> Blank]]
NoRecords == [firstFreePage |-> RM_NO_FREE_PAGE, totalNumberRecords |-> 0]

(* After createFile. *)
Init ==
  /\ hdrPage = NoRecords /\ bHdrPageChanged = FALSE /\ bFileOpen = FALSE
  /\ page0 = NoRecords /\ disk0 = NoRecords
  /\ numPages = 1 /\ diskNumPages = 1
  /\ pages = [p \in Pages |-> Absent] /\ diskPages = pages
  /\ pins = [p \in Pages |-> 0]
  /\ live = [r \in Rids |-> Blank] /\ forced = live /\ crashed = FALSE
  /\ overrun = FALSE

(* getThisPage finds the page.  When it does not, and for a rid outside    *)
(* the file, a call returns its error before it has changed anything: no   *)
(* step.                                                                   *)
Gettable(p) == p < numPages /\ p \in Pages /\ pages[p] # Absent

(* A return that forgets the pin getThisPage took. *)
ReturnPinned(p) ==
  /\ pins[p] < MaxPins
  /\ pins' = [pins EXCEPT ![p] = @ + 1]
  /\ UNCHANGED <<handle, numPages, page0, pages, onDisk, history>>

(* A bug the properties must reject: a bit position off by one. *)
ZeroBitsWrong(bitmap) == Slots \ {b - 1 : b \in bitmap}

isBitmapFull(bitmap) == 1 .. NumberRecords \subseteq bitmap
(* calcFirstZeroBit looks at every bit of the bitmap's bytes. *)
ZeroBits(bitmap) == Slots \ bitmap
-----------------------------------------------------------------------------
(* insertRec.  The page it inserts into, new when no page has room. *)
Target ==
  IF hdrPage.firstFreePage = RM_NO_FREE_PAGE
  THEN [num |-> numPages, page |-> EmptyPage, end |-> numPages + 1]
  ELSE [num |-> hdrPage.firstFreePage, page |-> pages[hdrPage.firstFreePage],
        end |-> numPages]
CanInsert ==
  /\ bFileOpen
  /\ hdrPage.firstFreePage = RM_NO_FREE_PAGE => numPages \in Pages

InsertRec(v) ==
  /\ CanInsert
  /\ Target.page # Absent /\ ZeroBits(Target.page.bitmap) # {}
  /\ Min(ZeroBits(Target.page.bitmap)) <= NumberRecords
  /\ hdrPage.totalNumberRecords < MaxTotal
  /\ LET p == Target.num
         s == Min(ZeroBits(Target.page.bitmap))
         bitmap == Target.page.bitmap \cup {s}
         rec == [Target.page.rec EXCEPT ![s] = v]
         full == isBitmapFull(bitmap)
     IN /\ pages' = [pages EXCEPT ![p] =
                       [nextPage |-> IF full THEN RM_NO_FREE_PAGE ELSE Target.page.nextPage,
                        bitmap |-> bitmap, rec |-> rec]]
        /\ hdrPage' = [firstFreePage |-> IF full THEN Target.page.nextPage ELSE p,
                       totalNumberRecords |-> hdrPage.totalNumberRecords + 1]
        /\ numPages' = Target.end
        /\ live' = [live EXCEPT ![<<p, s>>] = v]
        /\ forced' = [forced EXCEPT ![<<p, s>>] = Blank]
  /\ bHdrPageChanged' = TRUE
  /\ UNCHANGED <<bFileOpen, page0, onDisk, pins, crashed, overrun>>

(* insertRec on a head of the list that has only spare bits left, as the   *)
(* stale header a crash leaves may name it.  The record's place is past    *)
(* the end of the page: its bytes go to the memory behind the frame, where *)
(* page 0 or another page may be, and nothing is known of that page then.  *)
Overwrites(p, own) ==
  LET inserted == [pages EXCEPT ![p] = own]
  IN \/ pages' = inserted /\ page0' \in Header
     \/ /\ \E q \in Pages \ {p}, page \in RecordPage :
             pages[q] # Absent /\ pages' = [inserted EXCEPT ![q] = page]
        /\ UNCHANGED page0
InsertPastPage ==
  /\ CanInsert
  /\ Target.page # Absent /\ ZeroBits(Target.page.bitmap) # {}
  /\ Min(ZeroBits(Target.page.bitmap)) > NumberRecords
  /\ hdrPage.totalNumberRecords < MaxTotal
  /\ LET p == Target.num
         s == Min(ZeroBits(Target.page.bitmap))
     IN Overwrites(p, [nextPage |-> RM_NO_FREE_PAGE, bitmap |-> Target.page.bitmap \cup {s},
                       rec |-> Target.page.rec])
  /\ hdrPage' = [firstFreePage |-> Target.page.nextPage,
                 totalNumberRecords |-> hdrPage.totalNumberRecords + 1]
  /\ bHdrPageChanged' = TRUE /\ overrun' = TRUE
  /\ UNCHANGED <<bFileOpen, numPages, onDisk, pins, live, forced, crashed>>

(* The new page is in the list by the time it cannot be fetched. *)
InsertFails ==
  /\ CanInsert /\ hdrPage.firstFreePage = RM_NO_FREE_PAGE
  /\ pages' = [pages EXCEPT ![numPages] = EmptyPage]
  /\ hdrPage' = [hdrPage EXCEPT !.firstFreePage = numPages]
  /\ bHdrPageChanged' = TRUE
  /\ numPages' = numPages + 1
  /\ UNCHANGED <<bFileOpen, page0, onDisk, pins, history>>

(* RM_INCONSISTENT_BITMAP: the head of the list has no zero bit. *)
InsertInconsistent ==
  /\ CanInsert
  /\ Target.page # Absent /\ ZeroBits(Target.page.bitmap) = {}
  /\ ReturnPinned(Target.num)
-----------------------------------------------------------------------------
(* The bitmap is tested for being full after the bit was cleared. *)
DeleteRecWrong(p, s) ==
  /\ bFileOpen /\ Gettable(p) /\ s \in pages[p].bitmap /\ s <= NumberRecords
  /\ hdrPage.totalNumberRecords > -MaxTotal
  /\ LET full == isBitmapFull(pages[p].bitmap \ {s})
     IN /\ pages' = [pages EXCEPT
                       ![p].bitmap = @ \ {s},
                       ![p].nextPage = IF full THEN hdrPage.firstFreePage ELSE @]
        /\ hdrPage' = [firstFreePage |-> IF full THEN p ELSE hdrPage.firstFreePage,
                       totalNumberRecords |-> hdrPage.totalNumberRecords - 1]
  /\ bHdrPageChanged' = TRUE
  /\ live' = [live EXCEPT ![<<p, s>>] = Blank]
  /\ forced' = [forced EXCEPT ![<<p, s>>] = Blank]
  /\ UNCHANGED <<bFileOpen, numPages, page0, onDisk, pins, crashed, overrun>>

(* deleteRec for a record that is there. *)
DeleteRec(p, s) ==
  /\ bFileOpen /\ Gettable(p) /\ s \in pages[p].bitmap /\ s <= NumberRecords
  /\ hdrPage.totalNumberRecords > -MaxTotal
  /\ LET full == isBitmapFull(pages[p].bitmap)
     IN /\ pages' = [pages EXCEPT
                       ![p].bitmap = @ \ {s},
                       ![p].nextPage = IF full THEN hdrPage.firstFreePage ELSE @]
        /\ hdrPage' = [firstFreePage |-> IF full THEN p ELSE hdrPage.firstFreePage,
                       totalNumberRecords |-> hdrPage.totalNumberRecords - 1]
  /\ bHdrPageChanged' = TRUE
  /\ live' = [live EXCEPT ![<<p, s>>] = Blank]
  /\ forced' = [forced EXCEPT ![<<p, s>>] = Blank]
  /\ UNCHANGED <<bFileOpen, numPages, page0, onDisk, pins, crashed, overrun>>

(* RM_INCONSISTENT_BITMAP: unsetBit refuses a slot that is empty. *)
DeleteEmpty(p, s) ==
  /\ bFileOpen /\ Gettable(p) /\ s <= NumberRecords /\ s \notin pages[p].bitmap
  /\ ReturnPinned(p)

(* updateRec does not look at the bitmap. *)
UpdateRec(p, s, v) ==
  /\ bFileOpen /\ Gettable(p) /\ s <= NumberRecords
  /\ pages' = [pages EXCEPT ![p].rec[s] = v]
  /\ live' = [live EXCEPT ![<<p, s>>] = IF s \in pages[p].bitmap THEN v ELSE @]
  /\ forced' = [forced EXCEPT ![<<p, s>>] = Blank]
  /\ UNCHANGED <<handle, numPages, page0, onDisk, pins, crashed, overrun>>
-----------------------------------------------------------------------------
(* The pool evicts a page to make room. *)
Evict(p) ==
  /\ p < numPages /\ pins[p] = 0 /\ diskPages[p] # pages[p]
  /\ diskPages' = [diskPages EXCEPT ![p] = pages[p]]
  /\ UNCHANGED <<handle, numPages, page0, pages, disk0, diskNumPages, pins, history>>

(* The last page is forgotten. *)
WrittenWrong(S) ==
  [p \in Pages |-> IF p \in S /\ p # numPages - 1 THEN pages[p] ELSE diskPages[p]]

(* Everything the pool holds in the pages of S, and page 0, goes out.      *)
Written(S) == [p \in Pages |-> IF p \in S THEN pages[p] ELSE diskPages[p]]

(* The header of the paged file is forgotten. *)
ForcePagesWrong ==
  /\ bFileOpen
  /\ \/ diskPages' = pages /\ disk0' = page0 /\ forced' = live
     \/ /\ \E S \in SUBSET Pages : diskPages' = Written(S)
        /\ UNCHANGED <<disk0, forced>>
  /\ UNCHANGED <<handle, numPages, page0, pages, diskNumPages, pins, live, crashed, overrun>>

(* forcePages: the header of the paged file and all pages; hdrPage stays   *)
(* in the handle.                                                          *)
ForcePages ==
  /\ bFileOpen
  /\ diskNumPages' = numPages
  /\ \/ diskPages' = pages /\ disk0' = page0 /\ forced' = live
     \/ /\ \E S \in SUBSET Pages : diskPages' = Written(S)
        /\ UNCHANGED <<disk0, forced>>
  /\ UNCHANGED <<handle, numPages, page0, pages, pins, live, crashed, overrun>>

OpenFile ==
  /\ ~bFileOpen
  /\ hdrPage' = page0 /\ bHdrPageChanged' = FALSE /\ bFileOpen' = TRUE
  /\ UNCHANGED <<numPages, page0, pages, onDisk, pins, history>>

(* closeFile: hdrPage goes to page 0, then the paged file is closed, which *)
(* a pinned page or a failing write prevents.                              *)
Unpinned == {p \in Pages : pins[p] = 0}
CloseFile ==
  /\ bFileOpen
  /\ page0' = IF bHdrPageChanged THEN hdrPage ELSE page0
  /\ diskNumPages' = numPages
  /\ \/ /\ diskPages' = Written(Unpinned) /\ disk0' = page0'
        /\ IF Unpinned = Pages
           THEN /\ bFileOpen' = FALSE /\ bHdrPageChanged' = FALSE
                /\ forced' = live
           ELSE UNCHANGED <<bFileOpen, bHdrPageChanged, forced>>
     \/ /\ \E S \in SUBSET Unpinned : diskPages' = Written(S)
        /\ disk0' \in {disk0, page0'}
        /\ UNCHANGED <<bFileOpen, bHdrPageChanged, forced>>
  /\ UNCHANGED <<hdrPage, numPages, pages, pins, live, crashed, overrun>>

(* The process ends without closeFile.  What is left is what is on disk. *)
Found(p, s) == p < diskNumPages /\ diskPages[p] # Absent /\ s \in diskPages[p].bitmap
Crash ==
  /\ bFileOpen
  /\ bFileOpen' = FALSE /\ bHdrPageChanged' = FALSE
  /\ numPages' = diskNumPages /\ page0' = disk0
  /\ pages' = [p \in Pages |-> IF p < diskNumPages THEN diskPages[p] ELSE Absent]
  /\ pins' = [p \in Pages |-> 0]
  /\ crashed' = TRUE
  /\ live' = [r \in Rids |-> IF Found(r[1], r[2]) THEN diskPages[r[1]].rec[r[2]] ELSE Blank]
  /\ UNCHANGED <<hdrPage, onDisk, forced, overrun>>

Next ==
  \/ OpenFile \/ CloseFile \/ ForcePages \/ Crash
  \/ \E v \in Values : InsertRec(v)
  \/ InsertPastPage \/ InsertFails \/ InsertInconsistent
  \/ \E p \in Pages : Evict(p)
  \/ \E p \in Pages, s \in Slots :
       DeleteRec(p, s) \/ DeleteEmpty(p, s) \/ \E v \in Values : UpdateRec(p, s, v)

Spec == Init /\ [][Next]_vars
-----------------------------------------------------------------------------
ASSUME AbsentAssumption == Absent \notin RecordPage

TypeOK ==
  /\ {hdrPage, page0, disk0} \subseteq Header
  /\ pages \in [Pages -> RecordPage \cup {Absent}]
  /\ diskPages \in [Pages -> RecordPage \cup {Absent}]
  /\ {numPages, diskNumPages} \subseteq 1 .. MaxPages + 1
  /\ pins \in [Pages -> 0 .. MaxPins]

(* Header h and pages f (n of them with page 0) hold exactly the records   *)
(* of live: the bitmaps, the bytes and the count agree.                    *)
HoldsRecords(h, f, n) ==
  /\ \A r \in Rids :
       LET there == r[1] < n /\ r[2] \in f[r[1]].bitmap
       IN /\ there <=> live[r] # Blank
          /\ there => f[r[1]].rec[r[2]] = live[r]
  /\ h.totalNumberRecords = Cardinality({r \in Rids : live[r] # Blank})

(* The list from h's first free page has every page with room, once.       *)
ListsRoom(h, f, n) ==
  LET in == 1 .. n - 1
  IN ChainIs([p \in in |-> f[p].nextPage], h.firstFreePage,
             {p \in in : ~isBitmapFull(f[p].bitmap)}, RM_NO_FREE_PAGE)

(* Every record inserted and not deleted is found with the bytes last      *)
(* stored, nothing else is, and getNumTuples counts them.                  *)
RecordsKept == bFileOpen => HoldsRecords(hdrPage, pages, numPages)

(* insertRec never runs out of room it has, and never walks to a full      *)
(* page, whatever order pages fill and empty in.                           *)
FreeListExact == bFileOpen => ListsRoom(hdrPage, pages, numPages)

(* A file that has been closed holds its pages, its records and its list   *)
(* on disk, until there is a crash.                                        *)
ClosedFileExact ==
  ~bFileOpen /\ ~crashed
             => /\ \A p \in 1 .. diskNumPages - 1 : diskPages[p] # Absent
                /\ HoldsRecords(disk0, diskPages, diskNumPages)
                /\ ListsRoom(disk0, diskPages, diskNumPages)

(* Records a forcePages or closeFile returned 0 for, and that were not     *)
(* changed since, are found on disk from then on.                          *)
ForcedOnDisk ==
  \A r \in Rids : forced[r] # Blank =>
    Found(r[1], r[2]) /\ diskPages[r[1]].rec[r[2]] = forced[r]

(* They are, also after a crash and what is inserted on top of the stale   *)
(* header the crash leaves, unless such an insert goes past the end of a   *)
(* page, which takes a page with spare bits in its bitmap.                 *)
ForcedRecordsSurvive ==
  /\ ~overrun => ForcedOnDisk
  /\ overrun => crashed /\ BitmapBits > NumberRecords
=============================================================================
