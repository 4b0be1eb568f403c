------------------------- MODULE RM_FileHandleProofs --------------------------
(***************************************************************************)
(* Record files and scans over them, for any number of pages, records in a *)
(* page, spare bits, pins and values: storage/rm_filehandle.cpp and        *)
(* rm_filescan.cpp.                                                        *)
(*                                                                         *)
(* RecordInv says page by page what HoldsRecords says of the file: a slot  *)
(* is taken if and only if a record is live there, and has its bytes; what *)
(* was forced is on disk and still live; and until the first crash the list *)
(* of pages with room (a path, see Lemmas) and the record count are exact, *)
(* in the handle while the file is open and on disk while it is closed.    *)
(* After a crash only the first three remain: the header is stale then.    *)
(* FileInv says that all this holds until insertRec writes past the end of *)
(* a page, and that this takes a crash and a bitmap with spare bits; only  *)
(* the types are left then.                                                *)
(*                                                                         *)
(* ScanInv adds that the records a scan owes are ahead of its position, and *)
(* that everything ahead comes after the last record it returned.          *)
(***************************************************************************)
EXTENDS RM_FileScan, Lemmas

-----------------------------------------------------------------------------
(* Slot s of page p is taken. *)
There(f, p, s) == f[p] # Absent /\ s \in f[p].bitmap

(* A slot is taken if and only if a record is live there. *)
LiveExact ==
  \A p \in Pages, s \in Slots :
    /\ There(pages, p, s) <=> live[<<p, s>>] # Blank
    /\ There(pages, p, s) => pages[p].rec[s] = live[<<p, s>>]

(* No taken slot of the file is blank, and what was forced is there. *)
ForcedKept ==
  \A p \in Pages, s \in Slots :
    /\ There(diskPages, p, s) => diskPages[p].rec[s] # Blank
    /\ forced[<<p, s>>] # Blank =>
         /\ live[<<p, s>>] = forced[<<p, s>>]
         /\ p < diskNumPages /\ There(diskPages, p, s)
         /\ diskPages[p].rec[s] = forced[<<p, s>>]

(* The pages of records, and the list of those that have room. *)
InFile(n) == 1 .. n - 1
Links(f, n) == [p \in InFile(n) |-> f[p].nextPage]
Room(f, n) == {p \in InFile(n) : ~isBitmapFull(f[p].bitmap)}
RoomList(first, f, n) == Linked(Links(f, n), first, Room(f, n), RM_NO_FREE_PAGE)

(* How many records there are. *)
Count(l) == Cardinality({r \in Rids : l[r] # Blank})
Records == [Rids -> Values \cup {Blank}]

(* The pages, the list and the count agree with header h. *)
PagesSound(f, n) ==
  \A p \in InFile(n) : f[p] # Absent /\ f[p].bitmap \subseteq 1 .. NumberRecords
Exact(h) == /\ PagesSound(pages, numPages)
            /\ RoomList(h.firstFreePage, pages, numPages)
            /\ h.totalNumberRecords = Count(live)

(* Types, the history included. *)
Typed == /\ TypeOK /\ live \in Records /\ forced \in Records
         /\ {bFileOpen, bHdrPageChanged, crashed} \subseteq BOOLEAN
NoneBeyond == \A p \in Pages : p >= numPages => pages[p] = Absent
(* Exact in the handle while the file is open, on disk when it is closed. *)
ExactUntilCrash ==
  ~crashed =>
    IF bFileOpen
    THEN Exact(hdrPage) /\ (~bHdrPageChanged => page0 = hdrPage)
    ELSE Exact(page0) /\ disk0 = page0 /\ diskPages = pages /\ diskNumPages = numPages

RecordInv ==
  Typed /\ NoneBeyond /\ LiveExact /\ ForcedKept /\ ExactUntilCrash

FileInv ==
  /\ Typed
  /\ IF overrun THEN crashed /\ BitmapBits > NumberRecords ELSE RecordInv

(* Where a scan may stand. *)
Slot == Pages \X (1 .. NumberRecords)
ScanTyped ==
  /\ bScanOpen \in BOOLEAN
  /\ scanPages \in 1 .. numPages
  /\ at = AtEnd \/ (at \in Slot /\ at[1] < scanPages)
(* Between two calls of a scan or on its file. *)
ScanInv ==
  /\ RecordInv /\ ~crashed /\ ScanTyped
  /\ bScanOpen => /\ bFileOpen
                  /\ due \subseteq Ahead /\ \A r \in due : live[r] \in Matching
                  /\ \A r \in Ahead : Before(returned.rid, r)
-----------------------------------------------------------------------------
(* Record ids are pairs of a page and a slot. *)
LEMMA RidFacts ==
  /\ \A p \in Pages, s \in Slots : <<p, s>> \in Rids /\ <<p, s>>[1] = p /\ <<p, s>>[2] = s
  /\ \A r \in Rids : r[1] \in Pages /\ r[2] \in Slots /\ r = <<r[1], r[2]>>
  /\ \A p, q, s, t : <<p, s>> = <<q, t>> <=> p = q /\ s = t
  /\ IsFiniteSet(Rids) /\ Pages \subseteq Nat \ {0} /\ Slots \subseteq Nat \ {0}
<1>1. IsFiniteSet(Pages) /\ IsFiniteSet(Slots)
  BY RecordAssumption, FS_Interval DEF Pages, Slots
<1>2. IsFiniteSet(Rids)
  BY <1>1, FS_Product DEF Rids
<1>3. Pages \subseteq Nat \ {0} /\ Slots \subseteq Nat \ {0}
  BY RecordAssumption DEF Pages, Slots
<1> QED BY <1>2, <1>3 DEF Rids

(* Pages of records. *)
LEMMA PageFacts ==
  /\ EmptyPage \in RecordPage /\ EmptyPage.nextPage = RM_NO_FREE_PAGE /\ EmptyPage.bitmap = {}
  /\ \A e \in RecordPage : /\ e # Absent /\ e.nextPage \in PageNum
                           /\ e.bitmap \in SUBSET Slots /\ e.rec \in [Slots -> Values \cup {Blank}]
  /\ \A n \in PageNum, b \in SUBSET Slots, r \in [Slots -> Values \cup {Blank}] :
       [nextPage |-> n, bitmap |-> b, rec |-> r] \in RecordPage
  /\ RM_NO_FREE_PAGE \in PageNum /\ RM_NO_FREE_PAGE \notin Pages
  /\ \A p \in Pages : p \in PageNum
<1>1. RM_NO_FREE_PAGE \in PageNum /\ RM_NO_FREE_PAGE \notin Pages
  BY DEF PageNum, RM_NO_FREE_PAGE, Pages
<1>2. EmptyPage \in RecordPage
  BY <1>1 DEF EmptyPage, RecordPage
<1>3. \A e \in RecordPage : e # Absent
  BY AbsentAssumption
<1> QED BY <1>1, <1>2, <1>3 DEF EmptyPage, RecordPage, PageNum

(* The bits that stand for slots, and an empty bitmap. *)
LEMMA BitFacts ==
  /\ 1 .. NumberRecords \subseteq Slots /\ 1 \in 1 .. NumberRecords
  /\ ~isBitmapFull({})
BY RecordAssumption DEF Slots, isBitmapFull

(* calcFirstZeroBit. *)
LEMMA FirstZero ==
  ASSUME NEW b \in SUBSET Slots, ZeroBits(b) # {}
  PROVE  /\ Min(ZeroBits(b)) \in Slots /\ Min(ZeroBits(b)) \notin b
         /\ \A t \in ZeroBits(b) : Min(ZeroBits(b)) <= t
<1> DEFINE Z == ZeroBits(b)
<1>1. Z \in SUBSET Nat /\ Z \subseteq Slots /\ \A t \in Z : t \notin b
  BY RidFacts DEF ZeroBits
<1>2. \E m \in Z : \A t \in Z : m <= t
  BY <1>1, LeastNatural
<1>3. Min(Z) \in Z /\ \A t \in Z : Min(Z) <= t
  BY <1>2 DEF Min
<1> QED BY <1>1, <1>3

(* One record stored or removed, and what it does to their number. *)
Set(l, p, s, v) == [l EXCEPT ![<<p, s>>] = v]
LEMMA CountFacts ==
  ASSUME NEW l \in Records, NEW p \in Pages, NEW s \in Slots, NEW v \in Values \cup {Blank},
         NEW l2, l2 = Set(l, p, s, v)
  PROVE  /\ l2 \in Records /\ l2[<<p, s>>] = v
         /\ \A q \in Pages, t \in Slots : q # p \/ t # s => l2[<<q, t>>] = l[<<q, t>>]
         /\ Count(l) \in Nat
         /\ v # Blank /\ l[<<p, s>>] = Blank => Count(l2) = Count(l) + 1
         /\ v # Blank /\ l[<<p, s>>] # Blank => Count(l2) = Count(l)
         /\ v = Blank /\ l[<<p, s>>] # Blank => Count(l2) = Count(l) - 1
<1> DEFINE x == <<p, s>>
           N(m) == {r \in Rids : m[r] # Blank}
<1>1. x \in Rids
  BY RidFacts
<1>2. l2 \in Records /\ l2[x] = v /\ \A r \in Rids : r # x => l2[r] = l[r]
  BY <1>1 DEF Records, Set
<1>3. IsFiniteSet(N(l)) /\ Count(l) = Cardinality(N(l)) /\ Count(l2) = Cardinality(N(l2))
  BY RidFacts, FS_Subset DEF Count
<1>4. Count(l) \in Nat
  BY <1>3, FS_CardinalityType
<1>5. \A q \in Pages, t \in Slots : q # p \/ t # s => <<q, t>> \in Rids /\ <<q, t>> # x
  BY RidFacts
<1>6. v # Blank => N(l2) = N(l) \cup {x}
  BY <1>1, <1>2
<1>7. v = Blank => N(l2) = N(l) \ {x}
  BY <1>1, <1>2
<1>8. x \in N(l) <=> l[x] # Blank
  BY <1>1
<1> HIDE DEF x, N
<1>9. v # Blank /\ l[x] = Blank => Count(l2) = Count(l) + 1
  BY <1>3, <1>6, <1>8, FS_AddElement
<1>10. v # Blank /\ l[x] # Blank => Count(l2) = Count(l)
  BY <1>3, <1>6, <1>8, FS_AddElement
<1>11. v = Blank /\ l[x] # Blank => Count(l2) = Count(l) - 1
  BY <1>3, <1>7, <1>8, FS_RemoveElement
<1> QED BY <1>2, <1>4, <1>5, <1>9, <1>10, <1>11 DEF x
-----------------------------------------------------------------------------
(* The list of pages with room. *)
LEMMA RoomFacts ==
  ASSUME NEW first, NEW f, NEW n \in Nat, RoomList(first, f, n)
  PROVE  /\ first = RM_NO_FREE_PAGE <=> Room(f, n) = {}
         /\ first # RM_NO_FREE_PAGE => first \in Room(f, n)
         /\ RM_NO_FREE_PAGE \notin InFile(n) /\ RM_NO_FREE_PAGE \notin Room(f, n)
<1>1. RM_NO_FREE_PAGE \notin InFile(n) /\ RM_NO_FREE_PAGE \notin Room(f, n)
  BY DEF InFile, Room, RM_NO_FREE_PAGE
<1> QED BY <1>1, LinkedHead DEF RoomList

(* Pages change, and none gains or loses its room. *)
LEMMA RoomSame ==
  ASSUME NEW first, NEW f, NEW n, NEW f2, NEW n2, RoomList(first, f, n),
         Room(f2, n2) = Room(f, n), \A q \in Room(f, n) : f2[q].nextPage = f[q].nextPage
  PROVE  RoomList(first, f2, n2)
<1>1. PICK s, s2 : s = Links(f, n) /\ s2 = Links(f2, n2)
  OBVIOUS
<1>2. Room(f, n) \subseteq DOMAIN s2 /\ \A q \in Room(f, n) : s2[q] = s[q]
  BY <1>1 DEF Links, Room
<1>3. Linked(s, first, Room(f, n), RM_NO_FREE_PAGE)
  BY <1>1 DEF RoomList
<1>4. Linked(s2, first, Room(f, n), RM_NO_FREE_PAGE)
  BY <1>2, <1>3, LinkedSame
<1> QED BY <1>1, <1>4 DEF RoomList

(* A page gets room and is put in front of the list. *)
LEMMA RoomPush ==
  ASSUME NEW first, NEW f, NEW n, NEW f2, NEW n2, RoomList(first, f, n),
         NEW p \in InFile(n2), p \notin Room(f, n), ~isBitmapFull(f2[p].bitmap),
         f2[p].nextPage = first,
         \A q \in InFile(n2) : q # p => q \in InFile(n) /\ f2[q] = f[q],
         InFile(n) \subseteq InFile(n2)
  PROVE  RoomList(p, f2, n2)
<1>1. PICK s, s2 : s = Links(f, n) /\ s2 = Links(f2, n2)
  OBVIOUS
<1>2. Room(f2, n2) = Room(f, n) \cup {p}
  BY DEF Room
<1>3. /\ p \in DOMAIN s2 /\ s2[p] = first
      /\ Room(f, n) \subseteq DOMAIN s2 /\ \A q \in Room(f, n) : s2[q] = s[q]
  BY <1>1 DEF Links, Room
<1>4. Linked(s, first, Room(f, n), RM_NO_FREE_PAGE)
  BY <1>1 DEF RoomList
<1>5. Linked(s2, p, Room(f, n) \cup {p}, RM_NO_FREE_PAGE)
  BY <1>3, <1>4, LinkedPush
<1> QED BY <1>1, <1>2, <1>5 DEF RoomList

(* The first page fills up and is taken off. *)
LEMMA RoomPop ==
  ASSUME NEW p, NEW f, NEW n \in Nat, NEW f2, RoomList(p, f, n), p # RM_NO_FREE_PAGE,
         isBitmapFull(f2[p].bitmap), \A q \in InFile(n) : q # p => f2[q] = f[q]
  PROVE  RoomList(f[p].nextPage, f2, n)
<1>1. PICK s, s2 : s = Links(f, n) /\ s2 = Links(f2, n)
  OBVIOUS
<1>2. p \in Room(f, n) /\ RM_NO_FREE_PAGE \notin Room(f, n)
  BY RoomFacts
<1>3. Room(f2, n) = Room(f, n) \ {p} /\ s[p] = f[p].nextPage
  BY <1>1, <1>2 DEF Room, Links
<1>4. Linked(s, p, Room(f, n), RM_NO_FREE_PAGE)
  BY <1>1 DEF RoomList
<1>5. Linked(s, s[p], Room(f, n) \ {p}, RM_NO_FREE_PAGE)
  BY <1>2, <1>4, LinkedPop
<1>6. Room(f, n) \ {p} \subseteq DOMAIN s2 /\ \A q \in Room(f, n) \ {p} : s2[q] = s[q]
  BY <1>1 DEF Links, Room
<1>7. Linked(s2, s[p], Room(f, n) \ {p}, RM_NO_FREE_PAGE)
  BY <1>5, <1>6, LinkedSame
<1> QED BY <1>1, <1>3, <1>7 DEF RoomList
-----------------------------------------------------------------------------
(* What a call may rely on. *)
LEMMA StateFacts ==
  ASSUME RecordInv
  PROVE  /\ numPages \in Nat \ {0} /\ numPages <= MaxPages + 1
         /\ diskNumPages \in 1 .. MaxPages + 1
         /\ pages \in [Pages -> RecordPage \cup {Absent}]
         /\ diskPages \in [Pages -> RecordPage \cup {Absent}]
         /\ hdrPage \in Header /\ page0 \in Header /\ disk0 \in Header
         /\ live \in Records /\ forced \in Records
         /\ pins \in [Pages -> 0 .. MaxPins]
         /\ InFile(numPages) \subseteq Pages
         /\ \A p \in Pages : p \in InFile(numPages) <=> p < numPages
         /\ \A p \in Pages : pages[p] # Absent => pages[p] \in RecordPage /\ p < numPages
<1>1. numPages \in 1 .. MaxPages + 1 /\ diskNumPages \in 1 .. MaxPages + 1
  BY DEF RecordInv, Typed, TypeOK
<1>2. numPages \in Nat \ {0} /\ numPages <= MaxPages + 1
  BY <1>1, RecordAssumption
<1>3. InFile(numPages) \subseteq Pages /\ \A p \in Pages : p \in InFile(numPages) <=> p < numPages
  BY <1>2, RecordAssumption DEF InFile, Pages
<1>4. \A p \in Pages : pages[p] # Absent => pages[p] \in RecordPage /\ p < numPages
  BY <1>2, RidFacts DEF RecordInv, Typed, TypeOK, NoneBeyond
<1> QED BY <1>1, <1>2, <1>3, <1>4 DEF RecordInv, Typed, TypeOK

(* One page stored. *)
Put(f, p, e) == [f EXCEPT ![p] = e]
(* A step that changes one page and the records on it. *)
LEMMA OnePage ==
  ASSUME RecordInv, NEW p \in Pages, NEW e \in RecordPage,
         pages' = Put(pages, p, e),
         live' \in Records, forced' \in Records,
         \A q \in Pages, t \in Slots : q # p =>
           live'[<<q, t>>] = live[<<q, t>>] /\ forced'[<<q, t>>] = forced[<<q, t>>],
         \A t \in Slots : /\ t \in e.bitmap <=> live'[<<p, t>>] # Blank
                          /\ t \in e.bitmap => e.rec[t] = live'[<<p, t>>],
         \A t \in Slots : forced'[<<p, t>>] # Blank =>
           forced'[<<p, t>>] = forced[<<p, t>>] /\ live'[<<p, t>>] = live[<<p, t>>],
         UNCHANGED <<diskPages, diskNumPages>>
  PROVE  /\ pages' \in [Pages -> RecordPage \cup {Absent}]
         /\ pages'[p] = e /\ \A q \in Pages : q # p => pages'[q] = pages[q]
         /\ LiveExact' /\ ForcedKept'
<1>1. pages \in [Pages -> RecordPage \cup {Absent}] /\ e # Absent
  BY StateFacts, PageFacts
<1>2. /\ pages' \in [Pages -> RecordPage \cup {Absent}]
      /\ pages'[p] = e /\ \A q \in Pages : q # p => pages'[q] = pages[q]
  BY <1>1 DEF Put
<1>3. LiveExact'
  <2> SUFFICES ASSUME NEW q \in Pages, NEW t \in Slots
               PROVE  /\ There(pages, q, t)' <=> live'[<<q, t>>] # Blank
                      /\ There(pages, q, t)' => pages'[q].rec[t] = live'[<<q, t>>]
    BY DEF LiveExact
  <2>1. CASE q = p
    BY <1>1, <1>2, <2>1 DEF There
  <2>2. CASE q # p
    BY <1>2, <2>2 DEF There, RecordInv, LiveExact
  <2> QED BY <2>1, <2>2
<1>4. ForcedKept'
  <2>1. ASSUME NEW q \in Pages, NEW t \in Slots, forced'[<<q, t>>] # Blank
        PROVE  /\ live'[<<q, t>>] = forced'[<<q, t>>]
               /\ q < diskNumPages' /\ There(diskPages, q, t)'
               /\ diskPages'[q].rec[t] = forced'[<<q, t>>]
    <3>1. forced'[<<q, t>>] = forced[<<q, t>>] /\ live'[<<q, t>>] = live[<<q, t>>]
      BY <2>1
    <3> QED BY <2>1, <3>1 DEF RecordInv, ForcedKept, There
  <2>2. \A q \in Pages, t \in Slots : There(diskPages, q, t)' => diskPages'[q].rec[t] # Blank
    BY DEF RecordInv, ForcedKept, There
  <2> QED BY <2>1, <2>2 DEF ForcedKept
<1> QED BY <1>2, <1>3, <1>4

(* The page an insert goes to, and what it makes of it. *)
LEMMA TargetFacts ==
  ASSUME RecordInv, CanInsert, Target.page # Absent
  PROVE  /\ Target.num \in Pages /\ Target.num < Target.end
         /\ Target.page \in RecordPage
         /\ Target.end \in {numPages, numPages + 1} /\ Target.end <= MaxPages + 1
         /\ \A t \in Slots : /\ t \in Target.page.bitmap <=> live[<<Target.num, t>>] # Blank
                             /\ t \in Target.page.bitmap =>
                                  Target.page.rec[t] = live[<<Target.num, t>>]
<1>1. CASE hdrPage.firstFreePage = RM_NO_FREE_PAGE
  <2>1. Target.num = numPages /\ Target.page = EmptyPage /\ Target.end = numPages + 1
    BY <1>1 DEF Target
  <2>2. numPages \in Pages /\ numPages <= MaxPages
    BY <1>1 DEF CanInsert, Pages
  <2>3. pages[numPages] = Absent
    BY <2>2, StateFacts DEF RecordInv, NoneBeyond
  <2>4. \A t \in Slots : live[<<numPages, t>>] = Blank
    BY <2>2, <2>3 DEF RecordInv, LiveExact, There
  <2> QED BY <2>1, <2>2, <2>4, StateFacts, PageFacts, RecordAssumption
<1>2. CASE hdrPage.firstFreePage # RM_NO_FREE_PAGE
  <2> DEFINE p == hdrPage.firstFreePage
  <2>1. Target.num = p /\ Target.page = pages[p] /\ Target.end = numPages
    BY <1>2 DEF Target
  <2>2. p \in Pages
    BY <1>2, StateFacts DEF Header, PageNum
  <2>3. pages[p] \in RecordPage /\ p < numPages
    BY <2>1, <2>2, StateFacts
  <2>4. \A t \in Slots : /\ t \in pages[p].bitmap <=> live[<<p, t>>] # Blank
                         /\ t \in pages[p].bitmap => pages[p].rec[t] = live[<<p, t>>]
    BY <2>1, <2>2 DEF RecordInv, LiveExact, There
  <2> HIDE DEF p
  <2> QED BY <2>1, <2>2, <2>3, <2>4, StateFacts, RecordAssumption
<1> QED BY <1>1, <1>2

(* No page has room for a record, or the first one of the list has. *)
LEMMA InsertPlace ==
  ASSUME RecordInv, CanInsert, Target.page # Absent, ~crashed
  PROVE  /\ PagesSound(pages, numPages)
         /\ RoomList(hdrPage.firstFreePage, pages, numPages)
         /\ Target.page.bitmap \subseteq 1 .. NumberRecords /\ ~isBitmapFull(Target.page.bitmap)
         /\ \/ /\ Target.num = numPages /\ Target.end = numPages + 1
               /\ Target.page = EmptyPage /\ hdrPage.firstFreePage = RM_NO_FREE_PAGE
            \/ /\ Target.num = hdrPage.firstFreePage /\ Target.end = numPages
               /\ Target.page = pages[Target.num]
               /\ Target.num \in Room(pages, numPages) /\ Target.num # RM_NO_FREE_PAGE
<1>1. PagesSound(pages, numPages) /\ RoomList(hdrPage.firstFreePage, pages, numPages)
  BY DEF CanInsert, RecordInv, ExactUntilCrash, Exact
<1>2. CASE hdrPage.firstFreePage = RM_NO_FREE_PAGE
  BY <1>1, <1>2, PageFacts, BitFacts DEF Target
<1>3. CASE hdrPage.firstFreePage # RM_NO_FREE_PAGE
  <2>1. hdrPage.firstFreePage \in Room(pages, numPages)
    BY <1>1, <1>3, StateFacts, RoomFacts
  <2> QED BY <1>1, <1>3, <2>1 DEF Target, Room, PagesSound
<1> QED BY <1>2, <1>3

(* insertRec: the record is put in the first zero bit of the first page    *)
(* with room, which leaves the list when that was its last.                *)
LEMMA InsertRecInv ==
  ASSUME RecordInv, NEW v \in Values, InsertRec(v)
  PROVE  RecordInv'
<1>1. /\ CanInsert /\ Target.page # Absent /\ ZeroBits(Target.page.bitmap) # {}
      /\ hdrPage.totalNumberRecords < MaxTotal
      /\ UNCHANGED <<bFileOpen, page0, disk0, diskPages, diskNumPages, pins, crashed>>
      /\ bHdrPageChanged' = TRUE /\ numPages' = Target.end
  BY DEF InsertRec, onDisk
<1>2. PICK p, s, page, end : p = Target.num /\ s = Min(ZeroBits(Target.page.bitmap))
                             /\ page = Target.page /\ end = Target.end
  OBVIOUS
<1>3. PICK b, rec : b = page.bitmap \cup {s} /\ rec = [page.rec EXCEPT ![s] = v]
  OBVIOUS
<1>4. PICK e : e = [nextPage |-> IF isBitmapFull(b) THEN RM_NO_FREE_PAGE ELSE page.nextPage,
                    bitmap |-> b, rec |-> rec]
  OBVIOUS
<1>5. /\ pages' = [pages EXCEPT ![p] = e]
      /\ hdrPage' = [firstFreePage |-> IF isBitmapFull(b) THEN page.nextPage ELSE p,
                     totalNumberRecords |-> hdrPage.totalNumberRecords + 1]
      /\ live' = [live EXCEPT ![<<p, s>>] = v] /\ forced' = [forced EXCEPT ![<<p, s>>] = Blank]
  BY <1>2, <1>3, <1>4 DEF InsertRec
<1>6. /\ p \in Pages /\ p < end /\ page \in RecordPage /\ end \in {numPages, numPages + 1}
      /\ end <= MaxPages + 1
      /\ \A t \in Slots : /\ t \in page.bitmap <=> live[<<p, t>>] # Blank
                          /\ t \in page.bitmap => page.rec[t] = live[<<p, t>>]
  BY <1>1, <1>2, TargetFacts
<1>7. /\ s \in Slots /\ s \notin page.bitmap /\ \A t \in ZeroBits(page.bitmap) : s <= t
  BY <1>1, <1>2, <1>6, PageFacts, FirstZero
<1>8. /\ e \in RecordPage /\ e.bitmap = page.bitmap \cup {s} /\ e.rec[s] = v
      /\ \A t \in Slots : t # s => e.rec[t] = page.rec[t]
      /\ e.nextPage = IF isBitmapFull(e.bitmap) THEN RM_NO_FREE_PAGE ELSE page.nextPage
  <2>1. b \in SUBSET Slots /\ rec \in [Slots -> Values \cup {Blank}] /\ page.nextPage \in PageNum
        /\ rec[s] = v /\ \A t \in Slots : t # s => rec[t] = page.rec[t]
    BY <1>3, <1>6, <1>7, PageFacts
  <2> QED BY <1>3, <1>4, <2>1, PageFacts
<1>9. /\ live' \in Records /\ live'[<<p, s>>] = v
      /\ \A q \in Pages, t \in Slots : q # p \/ t # s => live'[<<q, t>>] = live[<<q, t>>]
      /\ Count(live') = Count(live) + 1
  <2>1. live[<<p, s>>] = Blank /\ v # Blank
    BY <1>6, <1>7, RecordAssumption
  <2>2. PICK l2 : l2 = live'
    OBVIOUS
  <2>3. l2 = Set(live, p, s, v)
    BY <1>5, <2>2 DEF Set
  <2> QED BY <1>6, <1>7, <2>1, <2>2, <2>3, StateFacts, CountFacts
<1>10. /\ forced' \in Records /\ forced'[<<p, s>>] = Blank
       /\ \A q \in Pages, t \in Slots : q # p \/ t # s => forced'[<<q, t>>] = forced[<<q, t>>]
  <2>1. PICK l2 : l2 = forced'
    OBVIOUS
  <2>2. l2 = Set(forced, p, s, Blank)
    BY <1>5, <2>1 DEF Set
  <2> QED BY <1>6, <1>7, <2>1, <2>2, StateFacts, CountFacts
<1>11. /\ pages' \in [Pages -> RecordPage \cup {Absent}]
       /\ pages'[p] = e /\ \A q \in Pages : q # p => pages'[q] = pages[q]
       /\ LiveExact' /\ ForcedKept'
  <2>1. pages' = Put(pages, p, e) /\ UNCHANGED <<diskPages, diskNumPages>>
    BY <1>1, <1>5 DEF Put
  <2>2. \A t \in Slots : /\ t \in e.bitmap <=> live'[<<p, t>>] # Blank
                         /\ t \in e.bitmap => e.rec[t] = live'[<<p, t>>]
    BY <1>6, <1>7, <1>8, <1>9, RecordAssumption
  <2> HIDE <1>5
  <2> QED BY <1>6, <1>8, <1>9, <1>10, <2>1, <2>2, OnePage
<1>12. hdrPage' \in Header /\ hdrPage'.totalNumberRecords = hdrPage.totalNumberRecords + 1
       /\ hdrPage'.firstFreePage = IF isBitmapFull(e.bitmap) THEN page.nextPage ELSE p
  <2>1. page.nextPage \in PageNum /\ p \in PageNum /\ e.bitmap = b
    BY <1>3, <1>6, <1>8, PageFacts
  <2>2. hdrPage.totalNumberRecords + 1 \in -MaxTotal .. MaxTotal
    BY <1>1, StateFacts, RecordAssumption DEF Header
  <2> QED BY <1>5, <2>1, <2>2 DEF Header
<1>13. Typed'
  <2>1. numPages' \in 1 .. MaxPages + 1
    BY <1>1, <1>2, <1>6, StateFacts, RecordAssumption
  <2> QED BY <1>1, <1>9, <1>10, <1>11, <1>12, <2>1 DEF RecordInv, Typed, TypeOK
<1>14. NoneBeyond'
  <2>1. end >= numPages /\ p < end
    BY <1>6, StateFacts
  <2> QED BY <1>1, <1>2, <1>6, <1>11, <2>1, StateFacts, RidFacts DEF RecordInv, NoneBeyond
<1>15. ASSUME ~crashed PROVE Exact(hdrPage)'
  <2>1. /\ PagesSound(pages, numPages) /\ RoomList(hdrPage.firstFreePage, pages, numPages)
        /\ page.bitmap \subseteq 1 .. NumberRecords /\ ~isBitmapFull(page.bitmap)
    BY <1>1, <1>2, <1>15, InsertPlace
  <2>2. \/ p = numPages /\ end = numPages + 1 /\ page = EmptyPage
           /\ hdrPage.firstFreePage = RM_NO_FREE_PAGE
        \/ p = hdrPage.firstFreePage /\ end = numPages /\ page = pages[p]
           /\ p \in Room(pages, numPages) /\ p # RM_NO_FREE_PAGE
    BY <1>1, <1>2, <1>15, InsertPlace
  <2>3. e.bitmap \subseteq 1 .. NumberRecords
    <3>1. PICK t \in 1 .. NumberRecords : t \notin page.bitmap
      BY <2>1 DEF isBitmapFull
    <3>2. t \in ZeroBits(page.bitmap)
      BY <3>1, BitFacts DEF ZeroBits
    <3>3. s <= t /\ s \in Nat \ {0}
      BY <3>2, <1>7, RidFacts
    <3> QED BY <3>1, <3>3, <2>1, <1>8, RecordAssumption
  <2>4. /\ p \in InFile(end) /\ InFile(numPages) \subseteq InFile(end) /\ InFile(end) \subseteq Pages
        /\ \A q \in InFile(end) : q # p => q \in InFile(numPages) /\ pages'[q] = pages[q]
    <3>1. p \in InFile(end) /\ InFile(numPages) \subseteq InFile(end) /\ InFile(end) \subseteq Pages
      BY <1>6, StateFacts, RidFacts, RecordAssumption DEF InFile, Pages
    <3>2. \A q \in InFile(end) : q # p => q \in InFile(numPages)
      BY <1>6, <2>2, StateFacts DEF InFile
    <3> QED BY <3>1, <3>2, <1>11
  <2>5. numPages' = end
    BY <1>1, <1>2
  <2>6. PagesSound(pages, numPages)'
    BY <1>8, <1>11, <2>1, <2>3, <2>4, <2>5, PageFacts DEF PagesSound
  <2>7. PICK f2 : f2 = pages'
    OBVIOUS
  <2>8. /\ f2[p] = e /\ e.nextPage = IF isBitmapFull(e.bitmap) THEN RM_NO_FREE_PAGE
                                     ELSE page.nextPage
        /\ \A q \in InFile(end) : q # p => q \in InFile(numPages) /\ f2[q] = pages[q]
    BY <1>8, <1>11, <2>4, <2>7
  <2>9. RoomList(IF isBitmapFull(e.bitmap) THEN page.nextPage ELSE p, f2, end)
    <3>1. CASE isBitmapFull(e.bitmap) /\ p = numPages
      <4>1. /\ hdrPage.firstFreePage = RM_NO_FREE_PAGE /\ page.nextPage = RM_NO_FREE_PAGE
            /\ p \notin InFile(numPages)
        BY <2>2, <3>1, StateFacts, PageFacts DEF Room, InFile
      <4>2. /\ Room(f2, end) = Room(pages, numPages)
            /\ \A q \in Room(pages, numPages) : f2[q].nextPage = pages[q].nextPage
        BY <2>4, <2>8, <3>1, <4>1 DEF Room
      <4> QED BY <2>1, <3>1, <4>1, <4>2, RoomSame
    <3>2. CASE ~isBitmapFull(e.bitmap) /\ p = numPages
      <4>1. /\ hdrPage.firstFreePage = RM_NO_FREE_PAGE /\ page.nextPage = RM_NO_FREE_PAGE
            /\ p \notin Room(pages, numPages)
        BY <2>2, <3>2, StateFacts, PageFacts DEF Room, InFile
      <4> QED BY <2>1, <2>4, <2>8, <3>2, <4>1, RoomPush
    <3>3. CASE isBitmapFull(e.bitmap) /\ p # numPages
      <4>1. p = hdrPage.firstFreePage /\ end = numPages /\ page = pages[p] /\ p # RM_NO_FREE_PAGE
        BY <2>2, <3>3
      <4>2. RoomList(pages[p].nextPage, f2, numPages)
        BY <2>1, <2>8, <3>3, <4>1, StateFacts, RoomPop
      <4> QED BY <3>3, <4>1, <4>2
    <3>4. CASE ~isBitmapFull(e.bitmap) /\ p # numPages
      <4>1. p = hdrPage.firstFreePage /\ end = numPages /\ page = pages[p]
            /\ p \in Room(pages, numPages)
        BY <2>2, <3>4
      <4>2. /\ Room(f2, end) = Room(pages, numPages)
            /\ \A q \in Room(pages, numPages) : f2[q].nextPage = pages[q].nextPage
        BY <2>4, <2>8, <3>4, <4>1 DEF Room
      <4> QED BY <2>1, <3>4, <4>1, <4>2, RoomSame
    <3> QED BY <3>1, <3>2, <3>3, <3>4
  <2>10. hdrPage.totalNumberRecords = Count(live)
    BY <1>1, <1>15 DEF CanInsert, RecordInv, ExactUntilCrash, Exact
  <2> QED BY <1>9, <1>12, <2>5, <2>6, <2>7, <2>9, <2>10 DEF Exact
<1>16. ExactUntilCrash'
  BY <1>1, <1>15 DEF CanInsert, ExactUntilCrash
<1> QED BY <1>11, <1>13, <1>14, <1>16 DEF RecordInv

(* insertRec that cannot fetch the page it has just made: the page is on   *)
(* the list and empty.                                                     *)
LEMMA InsertFailsInv ==
  ASSUME RecordInv, InsertFails
  PROVE  RecordInv'
<1>1. /\ CanInsert /\ hdrPage.firstFreePage = RM_NO_FREE_PAGE /\ bHdrPageChanged' = TRUE
      /\ numPages' = numPages + 1
      /\ UNCHANGED <<bFileOpen, page0, disk0, diskPages, diskNumPages, pins, live, forced, crashed>>
  BY DEF InsertFails, onDisk, history
<1>2. /\ pages' = [pages EXCEPT ![numPages] = EmptyPage]
      /\ hdrPage' = [hdrPage EXCEPT !.firstFreePage = numPages]
  BY DEF InsertFails
<1>3. PICK p : p = numPages
  OBVIOUS
<1>4. p \in Pages /\ p \in Nat \ {0}
  BY <1>1, <1>3, RidFacts DEF CanInsert
<1>5. \A t \in Slots : live[<<p, t>>] = Blank /\ forced[<<p, t>>] = Blank
  BY <1>3, <1>4, StateFacts DEF RecordInv, NoneBeyond, LiveExact, There, ForcedKept
<1>6. /\ pages' \in [Pages -> RecordPage \cup {Absent}]
      /\ pages'[p] = EmptyPage /\ \A q \in Pages : q # p => pages'[q] = pages[q]
      /\ LiveExact' /\ ForcedKept'
  <2>1. pages' = Put(pages, p, EmptyPage) /\ UNCHANGED <<diskPages, diskNumPages>>
    BY <1>1, <1>2, <1>3 DEF Put
  <2>2. live' = live /\ forced' = forced
    BY <1>1
  <2> QED BY <1>4, <1>5, <2>1, <2>2, StateFacts, PageFacts, OnePage
<1>7. /\ hdrPage' \in Header /\ hdrPage'.firstFreePage = p
      /\ hdrPage'.totalNumberRecords = hdrPage.totalNumberRecords
  BY <1>2, <1>3, <1>4, StateFacts, PageFacts DEF Header
<1>8. Typed'
  <2>1. numPages' \in 1 .. MaxPages + 1
    BY <1>1, <1>3, <1>4, RecordAssumption DEF Pages
  <2> QED BY <1>1, <1>6, <1>7, <2>1 DEF RecordInv, Typed, TypeOK
<1>9. NoneBeyond'
  BY <1>1, <1>3, <1>4, <1>6, RidFacts DEF RecordInv, NoneBeyond
<1>10. ASSUME ~crashed PROVE Exact(hdrPage)'
  <2>1. /\ PagesSound(pages, numPages) /\ RoomList(hdrPage.firstFreePage, pages, numPages)
        /\ hdrPage.totalNumberRecords = Count(live)
    BY <1>1, <1>10 DEF CanInsert, RecordInv, ExactUntilCrash, Exact
  <2>2. /\ p \in InFile(p + 1) /\ InFile(p) \subseteq InFile(p + 1) /\ p \notin InFile(p)
        /\ InFile(p + 1) \subseteq Pages /\ \A q \in InFile(p + 1) : q # p => q \in InFile(p)
    BY <1>4, RecordAssumption DEF InFile, Pages
  <2>3. PICK f2 : f2 = pages'
    OBVIOUS
  <2>4. f2[p] = EmptyPage /\ \A q \in InFile(p + 1) : q # p => f2[q] = pages[q]
    BY <1>6, <2>2, <2>3
  <2>5. RoomList(p, f2, p + 1)
    <3>1. p \notin Room(pages, p) /\ ~isBitmapFull(f2[p].bitmap)
          /\ f2[p].nextPage = hdrPage.firstFreePage
      BY <1>1, <2>2, <2>4, PageFacts, BitFacts DEF Room
    <3> QED BY <1>3, <2>1, <2>2, <2>4, <3>1, RoomPush
  <2>6. PagesSound(f2, p + 1)
    BY <1>3, <2>1, <2>2, <2>4, PageFacts DEF PagesSound
  <2> QED BY <1>1, <1>3, <1>7, <2>1, <2>3, <2>5, <2>6 DEF Exact
<1>11. ExactUntilCrash'
  BY <1>1, <1>10 DEF CanInsert, ExactUntilCrash
<1> QED BY <1>6, <1>8, <1>9, <1>11 DEF RecordInv

(* A page stays pinned. *)
LEMMA PinnedInv ==
  ASSUME RecordInv, pins' \in [Pages -> 0 .. MaxPins],
         UNCHANGED <<handle, numPages, page0, pages, onDisk, history>>
  PROVE  RecordInv'
<1>1. UNCHANGED <<hdrPage, bHdrPageChanged, bFileOpen, numPages, page0, pages, disk0, diskPages,
                  diskNumPages, live, forced, crashed>>
  BY DEF handle, onDisk, history
<1>2. Typed'
  BY <1>1 DEF RecordInv, Typed, TypeOK
<1>3. NoneBeyond' /\ LiveExact' /\ ForcedKept'
  BY <1>1 DEF RecordInv, NoneBeyond, LiveExact, ForcedKept, There
<1>4. ExactUntilCrash'
  BY <1>1 DEF RecordInv, ExactUntilCrash, Exact
<1> QED BY <1>2, <1>3, <1>4 DEF RecordInv

(* A call that refuses, and forgets its pin. *)
LEMMA ReturnPinnedInv ==
  ASSUME RecordInv, NEW p \in Pages, ReturnPinned(p)
  PROVE  RecordInv'
<1>1. pins[p] \in 0 .. MaxPins /\ pins[p] < MaxPins
  BY StateFacts DEF ReturnPinned
<1>2. pins[p] + 1 \in 0 .. MaxPins
  BY <1>1, RecordAssumption
<1>3. pins' \in [Pages -> 0 .. MaxPins]
  BY <1>2, StateFacts DEF ReturnPinned
<1> QED BY <1>3, PinnedInv DEF ReturnPinned

(* A page with two fields changed. *)
LEMMA TwoFields ==
  ASSUME NEW page \in RecordPage, NEW b, NEW l
  PROVE  [page EXCEPT !.bitmap = b, !.nextPage = l] =
         [nextPage |-> l, bitmap |-> b, rec |-> page.rec]
<1>1. PICK x, y, z : page = [nextPage |-> x, bitmap |-> y, rec |-> z]
  BY DEF RecordPage
<1>2. PICK q : q = [page EXCEPT !.bitmap = b]
  OBVIOUS
<1>3. q = [nextPage |-> x, bitmap |-> b, rec |-> z]
  BY <1>1, <1>2
<1>4. [q EXCEPT !.nextPage = l] = [nextPage |-> l, bitmap |-> b, rec |-> z]
  BY <1>3
<1>5. [page EXCEPT !.bitmap = b, !.nextPage = l] = [[page EXCEPT !.bitmap = b] EXCEPT !.nextPage = l]
  OBVIOUS
<1> QED BY <1>1, <1>2, <1>4, <1>5

(* deleteRec: a page that was full comes back to the list. *)
LEMMA DeleteRecInv ==
  ASSUME RecordInv, NEW p \in Pages, NEW s \in Slots, DeleteRec(p, s)
  PROVE  RecordInv'
<1>1. /\ bFileOpen /\ Gettable(p) /\ s \in pages[p].bitmap /\ s <= NumberRecords
      /\ hdrPage.totalNumberRecords > -MaxTotal /\ bHdrPageChanged' = TRUE
      /\ UNCHANGED <<bFileOpen, numPages, page0, disk0, diskPages, diskNumPages, pins, crashed>>
  BY DEF DeleteRec, onDisk
<1>2. PICK page, full : page = pages[p] /\ full = isBitmapFull(pages[p].bitmap)
  OBVIOUS
<1>3. page \in RecordPage /\ page # Absent /\ p < numPages
  BY <1>1, <1>2, StateFacts DEF Gettable
<1>4. PICK e : e = [nextPage |-> IF full THEN hdrPage.firstFreePage ELSE page.nextPage,
                    bitmap |-> page.bitmap \ {s}, rec |-> page.rec]
  OBVIOUS
<1>5. /\ e \in RecordPage /\ e.bitmap = page.bitmap \ {s} /\ e.rec = page.rec
      /\ e.nextPage = IF full THEN hdrPage.firstFreePage ELSE page.nextPage
  <2>1. hdrPage.firstFreePage \in PageNum
    BY StateFacts DEF Header
  <2> QED BY <1>3, <1>4, <2>1, PageFacts
<1>6. /\ pages' = Put(pages, p, e)
      /\ live' = [live EXCEPT ![<<p, s>>] = Blank] /\ forced' = [forced EXCEPT ![<<p, s>>] = Blank]
      /\ hdrPage' = [firstFreePage |-> IF full THEN p ELSE hdrPage.firstFreePage,
                     totalNumberRecords |-> hdrPage.totalNumberRecords - 1]
  <2>1. page \in [nextPage : PageNum, bitmap : SUBSET Slots, rec : [Slots -> Values \cup {Blank}]]
    BY <1>3 DEF RecordPage
  <2>2. PICK link : link = IF full THEN hdrPage.firstFreePage ELSE page.nextPage
    OBVIOUS
  <2>3. e = [page EXCEPT !.bitmap = page.bitmap \ {s}, !.nextPage = link]
    <3>1. PICK b : b = page.bitmap \ {s}
      OBVIOUS
    <3>2. e = [nextPage |-> link, bitmap |-> b, rec |-> page.rec]
      BY <1>4, <2>2, <3>1
    <3> QED BY <1>3, <3>1, <3>2, TwoFields
  <2>4. pages' = [pages EXCEPT ![p] = e]
    <3>1. pages' = [pages EXCEPT ![p] = [page EXCEPT !.bitmap = page.bitmap \ {s}, !.nextPage = link]]
      BY <1>2, <2>2, StateFacts DEF DeleteRec
    <3> QED BY <2>3, <3>1
  <2> QED BY <1>2, <2>4 DEF DeleteRec, Put
<1>7. \A t \in Slots : /\ t \in page.bitmap <=> live[<<p, t>>] # Blank
                       /\ t \in page.bitmap => page.rec[t] = live[<<p, t>>]
  BY <1>2, <1>3 DEF RecordInv, LiveExact, There
<1>8. /\ live' \in Records /\ live'[<<p, s>>] = Blank
      /\ \A q \in Pages, t \in Slots : q # p \/ t # s => live'[<<q, t>>] = live[<<q, t>>]
      /\ Count(live') = Count(live) - 1
  <2>1. live[<<p, s>>] # Blank
    BY <1>1, <1>2, <1>7
  <2>2. PICK l2 : l2 = live'
    OBVIOUS
  <2>3. l2 = Set(live, p, s, Blank)
    BY <1>6, <2>2 DEF Set
  <2> QED BY <2>1, <2>2, <2>3, StateFacts, CountFacts
<1>9. /\ forced' \in Records /\ forced'[<<p, s>>] = Blank
      /\ \A q \in Pages, t \in Slots : q # p \/ t # s => forced'[<<q, t>>] = forced[<<q, t>>]
  <2>1. PICK l2 : l2 = forced'
    OBVIOUS
  <2>2. l2 = Set(forced, p, s, Blank)
    BY <1>6, <2>1 DEF Set
  <2> QED BY <2>1, <2>2, StateFacts, CountFacts
<1>10. /\ pages' \in [Pages -> RecordPage \cup {Absent}]
       /\ pages'[p] = e /\ \A q \in Pages : q # p => pages'[q] = pages[q]
       /\ LiveExact' /\ ForcedKept'
  <2>1. pages' = Put(pages, p, e) /\ UNCHANGED <<diskPages, diskNumPages>>
    BY <1>1, <1>6
  <2>2. \A t \in Slots : /\ t \in e.bitmap <=> live'[<<p, t>>] # Blank
                         /\ t \in e.bitmap => e.rec[t] = live'[<<p, t>>]
    BY <1>5, <1>7, <1>8
  <2> HIDE <1>6
  <2> QED BY <1>5, <1>8, <1>9, <2>1, <2>2, OnePage
<1>11. /\ hdrPage' \in Header /\ hdrPage'.totalNumberRecords = hdrPage.totalNumberRecords - 1
       /\ hdrPage'.firstFreePage = IF full THEN p ELSE hdrPage.firstFreePage
  <2>1. hdrPage.totalNumberRecords - 1 \in -MaxTotal .. MaxTotal /\ hdrPage.firstFreePage \in PageNum
    BY <1>1, StateFacts, RecordAssumption DEF Header
  <2> QED BY <1>6, <2>1, PageFacts DEF Header
<1>12. Typed'
  BY <1>1, <1>8, <1>9, <1>10, <1>11 DEF RecordInv, Typed, TypeOK
<1>13. NoneBeyond'
  BY <1>1, <1>3, <1>10, StateFacts, RidFacts DEF RecordInv, NoneBeyond
<1>14. ASSUME ~crashed PROVE Exact(hdrPage)'
  <2>1. /\ PagesSound(pages, numPages) /\ RoomList(hdrPage.firstFreePage, pages, numPages)
        /\ hdrPage.totalNumberRecords = Count(live)
    BY <1>1, <1>14 DEF RecordInv, ExactUntilCrash, Exact
  <2>2. p \in InFile(numPages) /\ InFile(numPages) \subseteq Pages
    BY <1>3, StateFacts
  <2>3. PICK f2 : f2 = pages'
    OBVIOUS
  <2>4. f2[p] = e /\ \A q \in InFile(numPages) : q # p => f2[q] = pages[q]
    BY <1>10, <2>2, <2>3
  <2>5. PagesSound(f2, numPages)
    BY <1>2, <1>5, <2>1, <2>2, <2>4, PageFacts DEF PagesSound
  <2>6. ~isBitmapFull(e.bitmap)
    <3>1. s \in 1 .. NumberRecords
      BY <1>1, RidFacts
    <3> QED BY <1>5, <3>1 DEF isBitmapFull
  <2>7. RoomList(IF full THEN p ELSE hdrPage.firstFreePage, f2, numPages)
    <3>1. CASE full
      <4>1. p \notin Room(pages, numPages) /\ e.nextPage = hdrPage.firstFreePage
        BY <1>2, <1>5, <3>1 DEF Room
      <4> QED BY <2>1, <2>2, <2>4, <2>6, <3>1, <4>1, RoomPush
    <3>2. CASE ~full
      <4>1. /\ Room(f2, numPages) = Room(pages, numPages)
            /\ \A q \in Room(pages, numPages) : f2[q].nextPage = pages[q].nextPage
        BY <1>2, <1>5, <2>2, <2>4, <2>6, <3>2 DEF Room
      <4> QED BY <2>1, <3>2, <4>1, RoomSame
    <3> QED BY <3>1, <3>2
  <2> QED BY <1>1, <1>8, <1>11, <2>1, <2>3, <2>5, <2>7 DEF Exact
<1>15. ExactUntilCrash'
  BY <1>1, <1>14 DEF ExactUntilCrash
<1> QED BY <1>10, <1>12, <1>13, <1>15 DEF RecordInv

(* updateRec: the bitmap, and so the list and the count, stay. *)
LEMMA UpdateRecInv ==
  ASSUME RecordInv, NEW p \in Pages, NEW s \in Slots, NEW v \in Values, UpdateRec(p, s, v)
  PROVE  RecordInv'
<1>1. /\ bFileOpen /\ Gettable(p) /\ s <= NumberRecords
      /\ UNCHANGED <<hdrPage, bHdrPageChanged, bFileOpen, numPages, page0, disk0, diskPages,
                     diskNumPages, pins, crashed>>
  BY DEF UpdateRec, onDisk, handle
<1>2. PICK page, w : page = pages[p] /\ w = IF s \in page.bitmap THEN v ELSE live[<<p, s>>]
  OBVIOUS
<1>3. page \in RecordPage /\ page # Absent /\ p < numPages
  BY <1>1, <1>2, StateFacts DEF Gettable
<1>4. PICK e : e = [nextPage |-> page.nextPage, bitmap |-> page.bitmap,
                    rec |-> [page.rec EXCEPT ![s] = v]]
  OBVIOUS
<1>5. /\ e \in RecordPage /\ e.bitmap = page.bitmap /\ e.nextPage = page.nextPage
      /\ e.rec[s] = v /\ \A t \in Slots : t # s => e.rec[t] = page.rec[t]
  BY <1>3, <1>4, PageFacts
<1>6. /\ pages' = Put(pages, p, e)
      /\ live' = [live EXCEPT ![<<p, s>>] = w] /\ forced' = [forced EXCEPT ![<<p, s>>] = Blank]
  <2>1. page \in [nextPage : PageNum, bitmap : SUBSET Slots, rec : [Slots -> Values \cup {Blank}]]
    BY <1>3 DEF RecordPage
  <2>2. pages' = [pages EXCEPT ![p].rec[s] = v]
    BY DEF UpdateRec
  <2>3. e = [page EXCEPT !.rec = [page.rec EXCEPT ![s] = v]]
    BY <1>4, <2>1
  <2>4. pages' = [pages EXCEPT ![p] = e]
    BY <1>2, <2>2, <2>3, StateFacts
  <2>5. live' = [live EXCEPT ![<<p, s>>] = w]
    BY <1>2, StateFacts DEF UpdateRec
  <2> QED BY <2>4, <2>5 DEF UpdateRec, Put
<1>7. \A t \in Slots : /\ t \in page.bitmap <=> live[<<p, t>>] # Blank
                       /\ t \in page.bitmap => page.rec[t] = live[<<p, t>>]
  BY <1>2, <1>3 DEF RecordInv, LiveExact, There
<1>8. /\ live' \in Records /\ live'[<<p, s>>] = w
      /\ \A q \in Pages, t \in Slots : q # p \/ t # s => live'[<<q, t>>] = live[<<q, t>>]
      /\ Count(live') = Count(live)
  <2>1. w \in Values \cup {Blank} /\ (w # Blank <=> live[<<p, s>>] # Blank)
    BY <1>2, <1>7, RidFacts, RecordAssumption, StateFacts DEF Records
  <2>2. PICK l2 : l2 = live'
    OBVIOUS
  <2>3. l2 = Set(live, p, s, w)
    BY <1>6, <2>2 DEF Set
  <2>4. CASE w # Blank
    BY <2>1, <2>2, <2>3, <2>4, StateFacts, CountFacts
  <2>5. CASE w = Blank
    <3>1. w = live[<<p, s>>]
      BY <2>1, <2>5
    <3>2. l2 = live
      BY <2>3, <3>1, StateFacts, RidFacts DEF Set, Records
    <3> QED BY <2>2, <3>1, <3>2, StateFacts
  <2> QED BY <2>4, <2>5
<1>9. /\ forced' \in Records /\ forced'[<<p, s>>] = Blank
      /\ \A q \in Pages, t \in Slots : q # p \/ t # s => forced'[<<q, t>>] = forced[<<q, t>>]
  <2>1. PICK l2 : l2 = forced'
    OBVIOUS
  <2>2. l2 = Set(forced, p, s, Blank)
    BY <1>6, <2>1 DEF Set
  <2> QED BY <2>1, <2>2, StateFacts, CountFacts
<1>10. /\ pages' \in [Pages -> RecordPage \cup {Absent}]
       /\ pages'[p] = e /\ \A q \in Pages : q # p => pages'[q] = pages[q]
       /\ LiveExact' /\ ForcedKept'
  <2>1. pages' = Put(pages, p, e) /\ UNCHANGED <<diskPages, diskNumPages>>
    BY <1>1, <1>6
  <2>2. \A t \in Slots : /\ t \in e.bitmap <=> live'[<<p, t>>] # Blank
                         /\ t \in e.bitmap => e.rec[t] = live'[<<p, t>>]
    BY <1>2, <1>5, <1>7, <1>8, RecordAssumption
  <2> HIDE <1>6
  <2> QED BY <1>5, <1>8, <1>9, <2>1, <2>2, OnePage
<1>12. Typed'
  BY <1>1, <1>8, <1>9, <1>10 DEF RecordInv, Typed, TypeOK
<1>13. NoneBeyond'
  BY <1>1, <1>3, <1>10, StateFacts, RidFacts DEF RecordInv, NoneBeyond
<1>14. ASSUME ~crashed PROVE Exact(hdrPage)'
  <2>1. /\ PagesSound(pages, numPages) /\ RoomList(hdrPage.firstFreePage, pages, numPages)
        /\ hdrPage.totalNumberRecords = Count(live)
    BY <1>1, <1>14 DEF RecordInv, ExactUntilCrash, Exact
  <2>2. p \in InFile(numPages) /\ InFile(numPages) \subseteq Pages
    BY <1>3, StateFacts
  <2>3. PICK f2 : f2 = pages'
    OBVIOUS
  <2>4. f2[p] = e /\ \A q \in InFile(numPages) : q # p => f2[q] = pages[q]
    BY <1>10, <2>2, <2>3
  <2>5. PagesSound(f2, numPages)
    BY <1>2, <1>5, <2>1, <2>2, <2>4, PageFacts DEF PagesSound
  <2>6. /\ Room(f2, numPages) = Room(pages, numPages)
        /\ \A q \in Room(pages, numPages) : f2[q].nextPage = pages[q].nextPage
    BY <1>2, <1>5, <2>2, <2>4 DEF Room
  <2>7. RoomList(hdrPage.firstFreePage, f2, numPages)
    BY <2>1, <2>6, RoomSame
  <2> QED BY <1>1, <1>8, <2>1, <2>3, <2>5, <2>7 DEF Exact
<1>15. ExactUntilCrash'
  BY <1>1, <1>14 DEF RecordInv, ExactUntilCrash
<1> QED BY <1>10, <1>12, <1>13, <1>15 DEF RecordInv
-----------------------------------------------------------------------------
(* Pages that go to the file, or stay as the file has them. *)
LEMMA WriteKeeps ==
  ASSUME RecordInv, UNCHANGED live, diskNumPages' \in {diskNumPages, numPages},
         \A p \in Pages : diskPages'[p] \in {pages[p], diskPages[p]},
         \/ forced' = forced
         \/ forced' = live /\ diskPages' = pages /\ diskNumPages' = numPages
  PROVE  ForcedKept'
<1>1. ASSUME NEW p \in Pages, NEW s \in Slots, There(diskPages, p, s)'
      PROVE  diskPages'[p].rec[s] # Blank
  <2>1. diskPages'[p] \in {pages[p], diskPages[p]}
    OBVIOUS
  <2>2. diskPages'[p] # Absent /\ s \in diskPages'[p].bitmap
    BY <1>1 DEF There
  <2>3. /\ There(pages, p, s) => pages[p].rec[s] # Blank
        /\ There(diskPages, p, s) => diskPages[p].rec[s] # Blank
    BY DEF RecordInv, LiveExact, ForcedKept
  <2> QED BY <2>1, <2>2, <2>3 DEF There
<1>2. ASSUME NEW p \in Pages, NEW s \in Slots, forced'[<<p, s>>] # Blank
      PROVE  /\ live'[<<p, s>>] = forced'[<<p, s>>]
             /\ p < diskNumPages' /\ There(diskPages, p, s)'
             /\ diskPages'[p].rec[s] = forced'[<<p, s>>]
  <2>1. live[<<p, s>>] = forced'[<<p, s>>] /\ live[<<p, s>>] # Blank
    BY <1>2 DEF RecordInv, ForcedKept
  <2>2. There(pages, p, s) /\ pages[p].rec[s] = live[<<p, s>>] /\ p < numPages
    BY <2>1, StateFacts DEF RecordInv, LiveExact, There
  <2>3. CASE forced' = forced
    <3>1. p < diskNumPages /\ There(diskPages, p, s) /\ diskPages[p].rec[s] = forced[<<p, s>>]
      BY <1>2, <2>3 DEF RecordInv, ForcedKept
    <3>2. diskPages'[p] \in {pages[p], diskPages[p]}
      OBVIOUS
    <3> QED BY <2>1, <2>2, <2>3, <3>1, <3>2 DEF There
  <2>4. CASE forced' = live /\ diskPages' = pages /\ diskNumPages' = numPages
    BY <2>1, <2>2, <2>4 DEF There
  <2> QED BY <2>3, <2>4
<1> QED BY <1>1, <1>2 DEF ForcedKept

(* Written takes each page from the pool or leaves it. *)
LEMMA WrittenFacts ==
  ASSUME RecordInv, NEW S \in SUBSET Pages
  PROVE  /\ Written(S) \in [Pages -> RecordPage \cup {Absent}]
         /\ \A p \in Pages : Written(S)[p] \in {pages[p], diskPages[p]}
         /\ S = Pages => Written(S) = pages
BY StateFacts DEF Written

(* The pool writes a page, or all of them. *)
LEMMA EvictInv ==
  ASSUME RecordInv, NEW p \in Pages, Evict(p)
  PROVE  RecordInv'
<1>1. /\ diskPages[p] # pages[p] /\ diskPages' = [diskPages EXCEPT ![p] = pages[p]]
      /\ UNCHANGED <<hdrPage, bHdrPageChanged, bFileOpen, numPages, page0, pages, disk0,
                     diskNumPages, pins, live, forced, crashed>>
  BY DEF Evict, handle, history
<1>2. /\ diskPages' \in [Pages -> RecordPage \cup {Absent}]
      /\ \A q \in Pages : diskPages'[q] \in {pages[q], diskPages[q]}
  BY <1>1, StateFacts
<1>3. diskNumPages' \in {diskNumPages, numPages} /\ forced' = forced /\ UNCHANGED live
  BY <1>1
<1>4. ForcedKept'
  BY <1>2, <1>3, WriteKeeps
<1>5. Typed'
  BY <1>1, <1>2 DEF RecordInv, Typed, TypeOK
<1>6. NoneBeyond' /\ LiveExact'
  BY <1>1 DEF RecordInv, NoneBeyond, LiveExact, There
<1>7. ~crashed => bFileOpen
  BY <1>1 DEF RecordInv, ExactUntilCrash
<1>8. ExactUntilCrash'
  BY <1>1, <1>7 DEF RecordInv, ExactUntilCrash, Exact
<1> QED BY <1>4, <1>5, <1>6, <1>8 DEF RecordInv

LEMMA ForcePagesInv ==
  ASSUME RecordInv, ForcePages
  PROVE  RecordInv'
<1>1. /\ bFileOpen /\ diskNumPages' = numPages
      /\ UNCHANGED <<hdrPage, bHdrPageChanged, bFileOpen, numPages, page0, pages, pins, live, crashed>>
  BY DEF ForcePages, handle
<1>2. /\ diskPages' \in [Pages -> RecordPage \cup {Absent}]
      /\ \A q \in Pages : diskPages'[q] \in {pages[q], diskPages[q]}
      /\ disk0' \in {disk0, page0}
      /\ \/ forced' = forced
         \/ forced' = live /\ diskPages' = pages
  <2>1. CASE diskPages' = pages /\ disk0' = page0 /\ forced' = live
    BY <2>1, StateFacts
  <2>2. CASE (\E S \in SUBSET Pages : diskPages' = Written(S)) /\ UNCHANGED <<disk0, forced>>
    BY <2>2, WrittenFacts
  <2> QED BY <2>1, <2>2 DEF ForcePages
<1>3. ForcedKept'
  BY <1>1, <1>2, WriteKeeps
<1>4. Typed'
  BY <1>1, <1>2 DEF RecordInv, Typed, TypeOK
<1>5. NoneBeyond' /\ LiveExact'
  BY <1>1 DEF RecordInv, NoneBeyond, LiveExact, There
<1>6. ExactUntilCrash'
  BY <1>1 DEF RecordInv, ExactUntilCrash, Exact
<1> QED BY <1>3, <1>4, <1>5, <1>6 DEF RecordInv

(* The file is opened and closed. *)
LEMMA OpenFileInv ==
  ASSUME RecordInv, OpenFile
  PROVE  RecordInv'
<1>1. /\ ~bFileOpen /\ hdrPage' = page0 /\ bHdrPageChanged' = FALSE /\ bFileOpen' = TRUE
      /\ UNCHANGED <<numPages, page0, pages, disk0, diskPages, diskNumPages, pins, live, forced,
                     crashed>>
  BY DEF OpenFile, onDisk, history
<1>2. Typed'
  BY <1>1 DEF RecordInv, Typed, TypeOK
<1>3. NoneBeyond' /\ LiveExact' /\ ForcedKept'
  BY <1>1 DEF RecordInv, NoneBeyond, LiveExact, ForcedKept, There
<1>4. ExactUntilCrash'
  BY <1>1 DEF RecordInv, ExactUntilCrash, Exact
<1> QED BY <1>2, <1>3, <1>4 DEF RecordInv

LEMMA CloseFileInv ==
  ASSUME RecordInv, CloseFile
  PROVE  RecordInv'
<1>1. /\ bFileOpen /\ diskNumPages' = numPages
      /\ page0' = IF bHdrPageChanged THEN hdrPage ELSE page0
      /\ UNCHANGED <<hdrPage, numPages, pages, pins, live, crashed>>
  BY DEF CloseFile
<1>2. /\ diskPages' \in [Pages -> RecordPage \cup {Absent}]
      /\ \A q \in Pages : diskPages'[q] \in {pages[q], diskPages[q]}
      /\ disk0' \in {disk0, page0'}
      /\ \/ UNCHANGED <<bFileOpen, bHdrPageChanged, forced>>
         \/ /\ diskPages' = pages /\ disk0' = page0' /\ forced' = live
            /\ bFileOpen' = FALSE /\ bHdrPageChanged' = FALSE
  <2>1. Unpinned \in SUBSET Pages
    BY DEF Unpinned
  <2>2. CASE /\ diskPages' = Written(Unpinned) /\ disk0' = page0'
             /\ IF Unpinned = Pages
                THEN /\ bFileOpen' = FALSE /\ bHdrPageChanged' = FALSE
                     /\ forced' = live
                ELSE UNCHANGED <<bFileOpen, bHdrPageChanged, forced>>
    BY <2>1, <2>2, WrittenFacts
  <2>3. CASE /\ \E S \in SUBSET Unpinned : diskPages' = Written(S)
             /\ disk0' \in {disk0, page0'}
             /\ UNCHANGED <<bFileOpen, bHdrPageChanged, forced>>
    BY <2>1, <2>3, WrittenFacts
  <2> QED BY <2>2, <2>3 DEF CloseFile
<1>3. ForcedKept'
  BY <1>1, <1>2, WriteKeeps
<1>4. Typed'
  BY <1>1, <1>2 DEF RecordInv, Typed, TypeOK
<1>5. NoneBeyond' /\ LiveExact'
  BY <1>1 DEF RecordInv, NoneBeyond, LiveExact, There
<1>6. ExactUntilCrash'
  <2> SUFFICES ASSUME ~crashed PROVE ExactUntilCrash'
    BY <1>1 DEF ExactUntilCrash
  <2>1. Exact(hdrPage) /\ (~bHdrPageChanged => page0 = hdrPage) /\ page0' = hdrPage
    BY <1>1 DEF RecordInv, ExactUntilCrash
  <2>2. Exact(hdrPage)'
    BY <1>1, <2>1 DEF Exact
  <2>3. CASE UNCHANGED <<bFileOpen, bHdrPageChanged, forced>>
    BY <1>1, <2>1, <2>2, <2>3 DEF ExactUntilCrash
  <2>4. CASE diskPages' = pages /\ disk0' = page0' /\ bFileOpen' = FALSE
    BY <1>1, <2>1, <2>2, <2>4 DEF ExactUntilCrash, Exact
  <2> QED BY <1>2, <2>3, <2>4
<1> QED BY <1>3, <1>4, <1>5, <1>6 DEF RecordInv

(* After a crash the records are those the pages on disk have. *)
LEMMA CrashInv ==
  ASSUME RecordInv, Crash
  PROVE  RecordInv'
<1>1. /\ bFileOpen' = FALSE /\ bHdrPageChanged' = FALSE /\ crashed' = TRUE
      /\ numPages' = diskNumPages /\ page0' = disk0
      /\ pages' = [p \in Pages |-> IF p < diskNumPages THEN diskPages[p] ELSE Absent]
      /\ pins' = [p \in Pages |-> 0]
      /\ UNCHANGED <<hdrPage, disk0, diskPages, diskNumPages, forced>>
  BY DEF Crash, onDisk
<1>2. live' = [r \in Rids |-> IF Found(r[1], r[2]) THEN diskPages[r[1]].rec[r[2]] ELSE Blank]
  BY DEF Crash
<1>3. \A p \in Pages, s \in Slots :
        /\ Found(p, s) <=> p < diskNumPages /\ There(diskPages, p, s)
        /\ live'[<<p, s>>] = IF Found(p, s) THEN diskPages[p].rec[s] ELSE Blank
  BY <1>2, RidFacts DEF Found, There
<1>4. live' \in Records
  <2>1. ASSUME NEW r \in Rids, Found(r[1], r[2])
        PROVE  diskPages[r[1]].rec[r[2]] \in Values \cup {Blank}
    <3>1. r[1] \in Pages /\ r[2] \in Slots /\ diskPages[r[1]] # Absent
      BY <2>1, RidFacts DEF Found
    <3> QED BY <3>1, StateFacts, PageFacts
  <2> QED BY <1>2, <2>1 DEF Records
<1>5. pages' \in [Pages -> RecordPage \cup {Absent}]
  BY <1>1, StateFacts
<1>6. Typed'
  <2>1. 0 \in 0 .. MaxPins
    BY RecordAssumption
  <2>2. pins' \in [Pages -> 0 .. MaxPins]
    BY <1>1, <2>1
  <2>3. {hdrPage, page0, disk0}' \subseteq Header /\ {numPages, diskNumPages}' \subseteq 1 .. MaxPages + 1
    BY <1>1, StateFacts
  <2>4. diskPages' \in [Pages -> RecordPage \cup {Absent}] /\ forced' \in Records
    BY <1>1, StateFacts
  <2> QED BY <1>1, <1>4, <1>5, <2>2, <2>3, <2>4 DEF Typed, TypeOK
<1>7. NoneBeyond'
  BY <1>1, StateFacts, RidFacts DEF NoneBeyond
<1>8. LiveExact'
  <2>1. ASSUME NEW p \in Pages, NEW s \in Slots
        PROVE  /\ There(pages, p, s)' <=> live'[<<p, s>>] # Blank
               /\ There(pages, p, s)' => pages'[p].rec[s] = live'[<<p, s>>]
    <3>1. There(pages, p, s)' <=> Found(p, s)
      BY <1>1, <1>3 DEF There
    <3>2. Found(p, s) => pages'[p] = diskPages[p] /\ diskPages[p].rec[s] # Blank
      BY <1>1, <1>3 DEF RecordInv, ForcedKept
    <3> QED BY <1>3, <3>1, <3>2
  <2> QED BY <2>1 DEF LiveExact
<1>9. ForcedKept'
  <2>1. ASSUME NEW p \in Pages, NEW s \in Slots
        PROVE  /\ There(diskPages, p, s) => diskPages[p].rec[s] # Blank
               /\ forced[<<p, s>>] # Blank =>
                    /\ p < diskNumPages /\ There(diskPages, p, s)
                    /\ diskPages[p].rec[s] = forced[<<p, s>>]
    BY DEF RecordInv, ForcedKept
  <2>2. ASSUME NEW p \in Pages, NEW s \in Slots
        PROVE  /\ There(diskPages, p, s)' => diskPages'[p].rec[s] # Blank
               /\ forced'[<<p, s>>] # Blank =>
                    /\ live'[<<p, s>>] = forced'[<<p, s>>]
                    /\ p < diskNumPages' /\ There(diskPages, p, s)'
                    /\ diskPages'[p].rec[s] = forced'[<<p, s>>]
    <3>1. There(diskPages, p, s)' <=> There(diskPages, p, s)
      BY <1>1 DEF There
    <3>2. forced'[<<p, s>>] # Blank => live'[<<p, s>>] = forced[<<p, s>>]
      BY <1>1, <1>3, <2>1
    <3> QED BY <1>1, <2>1, <3>1, <3>2
  <2> QED BY <2>2 DEF ForcedKept
<1> QED BY <1>1, <1>6, <1>7, <1>8, <1>9 DEF RecordInv, ExactUntilCrash

(* RecordInv is inductive. *)
LEMMA InitInv == Init => RecordInv
<1> SUFFICES ASSUME Init PROVE RecordInv
  OBVIOUS
<1>1. /\ hdrPage = NoRecords /\ page0 = NoRecords /\ disk0 = NoRecords
      /\ bHdrPageChanged = FALSE /\ bFileOpen = FALSE /\ crashed = FALSE
      /\ numPages = 1 /\ diskNumPages = 1
      /\ pages = [p \in Pages |-> Absent] /\ diskPages = pages
      /\ pins = [p \in Pages |-> 0]
      /\ live = [r \in Rids |-> Blank] /\ forced = live
  BY DEF Init
<1>2. NoRecords \in Header /\ NoRecords.firstFreePage = RM_NO_FREE_PAGE
      /\ NoRecords.totalNumberRecords = 0
  BY PageFacts, RecordAssumption DEF NoRecords, Header
<1>3. Typed
  <2>1. 0 \in 0 .. MaxPins /\ 1 \in 1 .. MaxPages + 1
    BY RecordAssumption
  <2>2. live \in Records
    BY <1>1 DEF Records
  <2> QED BY <1>1, <1>2, <2>1, <2>2 DEF Typed, TypeOK
<1>4. NoneBeyond /\ LiveExact /\ ForcedKept
  BY <1>1, RidFacts DEF NoneBeyond, LiveExact, ForcedKept, There
<1>5. InFile(1) = {} /\ Room(pages, 1) = {}
  BY DEF InFile, Room
<1>6. RoomList(RM_NO_FREE_PAGE, pages, 1)
  BY <1>5, LinkedEmpty DEF RoomList
<1>7. Count(live) = 0
  <2>1. {r \in Rids : live[r] # Blank} = {}
    BY <1>1
  <2> QED BY <2>1, FS_EmptySet DEF Count
<1>8. Exact(page0)
  BY <1>1, <1>2, <1>5, <1>6, <1>7 DEF Exact, PagesSound
<1> QED BY <1>1, <1>3, <1>4, <1>8 DEF RecordInv, ExactUntilCrash

LEMMA InsertInconsistentInv ==
  ASSUME RecordInv, InsertInconsistent
  PROVE  RecordInv'
BY TargetFacts, ReturnPinnedInv DEF InsertInconsistent

(* insertRec past the end of a page takes a bitmap with spare bits, and a  *)
(* header that names a page without room, which only a crash leaves.       *)
LEMMA PastPageMeans ==
  ASSUME RecordInv, InsertPastPage
  PROVE  crashed /\ BitmapBits > NumberRecords
<1>1. CanInsert /\ Target.page # Absent /\ ZeroBits(Target.page.bitmap) # {}
  BY DEF InsertPastPage
<1>2. PICK b, s : b = Target.page.bitmap /\ s = Min(ZeroBits(b)) /\ s > NumberRecords
  BY DEF InsertPastPage
<1>3. b \in SUBSET Slots
  BY <1>1, <1>2, TargetFacts, PageFacts
<1>4. s \in Slots /\ \A t \in ZeroBits(b) : s <= t
  BY <1>1, <1>2, <1>3, FirstZero
<1>5. BitmapBits > NumberRecords
  BY <1>2, <1>4, RecordAssumption DEF Slots
<1>6. ASSUME ~crashed PROVE FALSE
  <2>1. PICK t \in 1 .. NumberRecords : t \notin b
    BY <1>1, <1>2, <1>6, InsertPlace DEF isBitmapFull
  <2>2. t \in ZeroBits(b) /\ t <= NumberRecords
    BY <2>1, BitFacts, RecordAssumption DEF ZeroBits
  <2> QED BY <1>2, <1>4, <2>2, RidFacts, RecordAssumption
<1> QED BY <1>5, <1>6
-----------------------------------------------------------------------------
(* The types alone, which hold whatever was written past a page. *)
LEMMA TypeFacts ==
  ASSUME Typed
  PROVE  /\ {numPages, diskNumPages} \subseteq 1 .. MaxPages + 1
         /\ pages \in [Pages -> RecordPage \cup {Absent}]
         /\ diskPages \in [Pages -> RecordPage \cup {Absent}]
         /\ {hdrPage, page0, disk0} \subseteq Header
         /\ live \in Records /\ forced \in Records
         /\ pins \in [Pages -> 0 .. MaxPins]
         /\ {bFileOpen, bHdrPageChanged, crashed} \subseteq BOOLEAN
BY DEF Typed, TypeOK

(* The page an insert goes to. *)
LEMMA TargetTyped ==
  ASSUME Typed, CanInsert, Target.page # Absent
  PROVE  /\ Target.num \in Pages /\ Target.page \in RecordPage
         /\ Target.end \in 1 .. MaxPages + 1
<1>1. CASE hdrPage.firstFreePage = RM_NO_FREE_PAGE
  <2>1. Target.num = numPages /\ Target.page = EmptyPage /\ Target.end = numPages + 1
    BY <1>1 DEF Target
  <2>2. numPages \in Pages /\ numPages + 1 \in 1 .. MaxPages + 1
    BY <1>1, RecordAssumption DEF CanInsert, Pages
  <2> QED BY <2>1, <2>2, PageFacts
<1>2. CASE hdrPage.firstFreePage # RM_NO_FREE_PAGE
  <2>1. PICK p : p = hdrPage.firstFreePage
    OBVIOUS
  <2>2. Target.num = p /\ Target.page = pages[p] /\ Target.end = numPages
    BY <1>2, <2>1 DEF Target
  <2>3. p \in Pages
    BY <1>2, <2>1, TypeFacts DEF Header, PageNum
  <2> QED BY <2>2, <2>3, TypeFacts
<1> QED BY <1>1, <1>2

(* What an insert makes of the header, a page and the records. *)
LEMMA InsertTyped ==
  ASSUME Typed, \E v \in Values : InsertRec(v)
  PROVE  Typed'
<1>1. PICK v \in Values : InsertRec(v)
  OBVIOUS
<1>2. PICK p, s, page, b :
        /\ p = Target.num /\ page = Target.page /\ s = Min(ZeroBits(page.bitmap))
        /\ b = page.bitmap \cup {s}
  OBVIOUS
<1>3. PICK rec, full : rec = [page.rec EXCEPT ![s] = v] /\ full = isBitmapFull(b)
  OBVIOUS
<1>4. /\ CanInsert /\ page # Absent /\ ZeroBits(page.bitmap) # {}
      /\ hdrPage.totalNumberRecords < MaxTotal /\ numPages' = Target.end
      /\ bHdrPageChanged' = TRUE
      /\ UNCHANGED <<bFileOpen, page0, disk0, diskPages, diskNumPages, pins, crashed>>
  BY <1>1, <1>2 DEF InsertRec, onDisk
<1>5. /\ pages' = [pages EXCEPT ![p] =
                     [nextPage |-> IF full THEN RM_NO_FREE_PAGE ELSE page.nextPage,
                      bitmap |-> b, rec |-> rec]]
      /\ hdrPage' = [firstFreePage |-> IF full THEN page.nextPage ELSE p,
                     totalNumberRecords |-> hdrPage.totalNumberRecords + 1]
      /\ live' = [live EXCEPT ![<<p, s>>] = v] /\ forced' = [forced EXCEPT ![<<p, s>>] = Blank]
  BY <1>1, <1>2, <1>3 DEF InsertRec
<1>6. p \in Pages /\ page \in RecordPage /\ numPages' \in 1 .. MaxPages + 1
  BY <1>2, <1>4, TargetTyped
<1>7. page.nextPage \in PageNum /\ page.bitmap \in SUBSET Slots
      /\ page.rec \in [Slots -> Values \cup {Blank}]
  BY <1>6, PageFacts
<1>8. s \in Slots
  BY <1>2, <1>4, <1>7, FirstZero
<1>9. b \in SUBSET Slots /\ rec \in [Slots -> Values \cup {Blank}]
  BY <1>2, <1>3, <1>7, <1>8
<1>10. pages' \in [Pages -> RecordPage \cup {Absent}]
  BY <1>5, <1>6, <1>7, <1>9, PageFacts, TypeFacts
<1>11. hdrPage' \in Header
  <2>1. hdrPage.totalNumberRecords + 1 \in -MaxTotal .. MaxTotal
    BY <1>4, TypeFacts, RecordAssumption DEF Header
  <2> QED BY <1>5, <1>6, <1>7, <2>1, PageFacts DEF Header
<1>12. live' \in Records /\ forced' \in Records
  BY <1>5, TypeFacts DEF Records
<1> QED BY <1>4, <1>6, <1>10, <1>11, <1>12, TypeFacts DEF Typed, TypeOK

LEMMA InsertPastTyped ==
  ASSUME Typed, InsertPastPage
  PROVE  Typed'
<1>1. PICK p, s, page : p = Target.num /\ page = Target.page /\ s = Min(ZeroBits(page.bitmap))
  OBVIOUS
<1>2. PICK own : own = [nextPage |-> RM_NO_FREE_PAGE, bitmap |-> page.bitmap \cup {s},
                        rec |-> page.rec]
  OBVIOUS
<1>3. /\ CanInsert /\ page # Absent /\ ZeroBits(page.bitmap) # {} /\ Overwrites(p, own)
      /\ hdrPage.totalNumberRecords < MaxTotal /\ bHdrPageChanged' = TRUE
      /\ hdrPage' = [firstFreePage |-> page.nextPage,
                     totalNumberRecords |-> hdrPage.totalNumberRecords + 1]
      /\ UNCHANGED <<bFileOpen, numPages, disk0, diskPages, diskNumPages, pins, live, forced,
                     crashed>>
  BY <1>1, <1>2 DEF InsertPastPage, onDisk
<1>4. p \in Pages /\ page \in RecordPage
  BY <1>1, <1>3, TargetTyped
<1>5. page.nextPage \in PageNum /\ page.bitmap \in SUBSET Slots
      /\ page.rec \in [Slots -> Values \cup {Blank}]
  BY <1>4, PageFacts
<1>6. s \in Slots
  BY <1>1, <1>3, <1>5, FirstZero
<1>7. own \in RecordPage
  <2>1. page.bitmap \cup {s} \in SUBSET Slots
    BY <1>5, <1>6
  <2> QED BY <1>2, <1>5, <2>1, PageFacts
<1>8. pages' \in [Pages -> RecordPage \cup {Absent}] /\ page0' \in Header
  <2>1. PICK inserted : inserted = [pages EXCEPT ![p] = own]
    OBVIOUS
  <2>2. inserted \in [Pages -> RecordPage \cup {Absent}]
    BY <1>7, <2>1, TypeFacts
  <2>3. \/ pages' = inserted /\ page0' \in Header
        \/ /\ \E q \in Pages \ {p}, e \in RecordPage : pages' = [inserted EXCEPT ![q] = e]
           /\ UNCHANGED page0
    BY <1>3, <2>1 DEF Overwrites
  <2> QED BY <2>2, <2>3, TypeFacts
<1>9. hdrPage' \in Header
  <2>1. hdrPage.totalNumberRecords + 1 \in -MaxTotal .. MaxTotal
    BY <1>3, TypeFacts, RecordAssumption DEF Header
  <2> QED BY <1>3, <1>5, <2>1 DEF Header
<1> QED BY <1>3, <1>8, <1>9, TypeFacts DEF Typed, TypeOK

LEMMA InsertFailsTyped ==
  ASSUME Typed, InsertFails
  PROVE  Typed'
<1>1. /\ numPages \in Pages /\ bHdrPageChanged' = TRUE /\ numPages' = numPages + 1
      /\ pages' = [pages EXCEPT ![numPages] = EmptyPage]
      /\ hdrPage' = [hdrPage EXCEPT !.firstFreePage = numPages]
      /\ UNCHANGED <<bFileOpen, page0, disk0, diskPages, diskNumPages, pins, live, forced, crashed>>
  BY DEF InsertFails, CanInsert, onDisk, history
<1>2. numPages' \in 1 .. MaxPages + 1
  BY <1>1, RecordAssumption DEF Pages
<1>3. pages' \in [Pages -> RecordPage \cup {Absent}] /\ hdrPage' \in Header
  BY <1>1, PageFacts, TypeFacts DEF Header
<1> QED BY <1>1, <1>2, <1>3, TypeFacts DEF Typed, TypeOK

LEMMA PinnedTyped ==
  ASSUME Typed, NEW p, ReturnPinned(p)
  PROVE  Typed'
<1>1. /\ pins' = [pins EXCEPT ![p] = @ + 1] /\ pins[p] < MaxPins
      /\ UNCHANGED <<hdrPage, bHdrPageChanged, bFileOpen, numPages, page0, pages, disk0, diskPages,
                     diskNumPages, live, forced, crashed>>
  BY DEF ReturnPinned, handle, onDisk, history
<1>2. pins' \in [Pages -> 0 .. MaxPins]
  <2>1. p \in Pages => pins[p] + 1 \in 0 .. MaxPins
    BY <1>1, TypeFacts, RecordAssumption
  <2> QED BY <1>1, <2>1, TypeFacts
<1> QED BY <1>1, <1>2, TypeFacts DEF Typed, TypeOK

LEMMA DeleteTyped ==
  ASSUME Typed, NEW p \in Pages, NEW s \in Slots, DeleteRec(p, s)
  PROVE  Typed'
<1>1. /\ pages[p] # Absent /\ hdrPage.totalNumberRecords > -MaxTotal /\ bHdrPageChanged' = TRUE
      /\ UNCHANGED <<bFileOpen, numPages, page0, disk0, diskPages, diskNumPages, pins, crashed>>
      /\ live' = [live EXCEPT ![<<p, s>>] = Blank] /\ forced' = [forced EXCEPT ![<<p, s>>] = Blank]
  BY DEF DeleteRec, Gettable, onDisk
<1>2. PICK page, full, link : /\ page = pages[p] /\ full = isBitmapFull(pages[p].bitmap)
                              /\ link = IF full THEN hdrPage.firstFreePage ELSE page.nextPage
  OBVIOUS
<1>3. page \in RecordPage
  BY <1>1, <1>2, TypeFacts
<1>4. /\ page.nextPage \in PageNum /\ page.bitmap \ {s} \in SUBSET Slots
      /\ page.rec \in [Slots -> Values \cup {Blank}]
      /\ hdrPage.firstFreePage \in PageNum
  BY <1>3, PageFacts, TypeFacts DEF Header
<1>5. [nextPage |-> link, bitmap |-> page.bitmap \ {s}, rec |-> page.rec] \in RecordPage
  BY <1>2, <1>4, PageFacts
<1>6. pages' = [pages EXCEPT ![p] = [page EXCEPT !.bitmap = page.bitmap \ {s}, !.nextPage = link]]
  BY <1>2, TypeFacts DEF DeleteRec
<1>7. pages' \in [Pages -> RecordPage \cup {Absent}]
  BY <1>3, <1>5, <1>6, TwoFields, TypeFacts
<1>8. hdrPage' \in Header
  <2>1. hdrPage.totalNumberRecords - 1 \in -MaxTotal .. MaxTotal
    BY <1>1, TypeFacts, RecordAssumption DEF Header
  <2>2. hdrPage' = [firstFreePage |-> IF full THEN p ELSE hdrPage.firstFreePage,
                    totalNumberRecords |-> hdrPage.totalNumberRecords - 1]
    BY <1>2 DEF DeleteRec
  <2> QED BY <1>4, <2>1, <2>2, PageFacts DEF Header
<1>9. live' \in Records /\ forced' \in Records
  BY <1>1, TypeFacts DEF Records
<1> QED BY <1>1, <1>7, <1>8, <1>9, TypeFacts DEF Typed, TypeOK

LEMMA UpdateTyped ==
  ASSUME Typed, NEW p \in Pages, NEW s \in Slots, NEW v \in Values, UpdateRec(p, s, v)
  PROVE  Typed'
<1>1. /\ pages[p] # Absent
      /\ UNCHANGED <<hdrPage, bHdrPageChanged, bFileOpen, numPages, page0, disk0, diskPages,
                     diskNumPages, pins, crashed>>
      /\ pages' = [pages EXCEPT ![p].rec[s] = v] /\ forced' = [forced EXCEPT ![<<p, s>>] = Blank]
      /\ live' = [live EXCEPT ![<<p, s>>] = IF s \in pages[p].bitmap THEN v ELSE @]
  BY DEF UpdateRec, Gettable, handle, onDisk
<1>2. pages[p] \in [nextPage : PageNum, bitmap : SUBSET Slots, rec : [Slots -> Values \cup {Blank}]]
  BY <1>1, TypeFacts DEF RecordPage
<1>3. [pages[p] EXCEPT !.rec[s] = v] \in RecordPage
  BY <1>2 DEF RecordPage
<1>4. pages' \in [Pages -> RecordPage \cup {Absent}]
  BY <1>1, <1>3, TypeFacts
<1>5. live' \in Records /\ forced' \in Records
  <2>1. \A r \in Rids : live[r] \in Values \cup {Blank} /\ forced[r] \in Values \cup {Blank}
    BY TypeFacts DEF Records
  <2> QED BY <1>1, <2>1, TypeFacts DEF Records
<1> QED BY <1>1, <1>4, <1>5, TypeFacts DEF Typed, TypeOK

(* Pages that go to the file, and a crash. *)
LEMMA FileTyped ==
  ASSUME Typed, OpenFile \/ CloseFile \/ ForcePages \/ Crash \/ \E p \in Pages : Evict(p)
  PROVE  Typed'
<1>1. \A S : Written(S) \in [Pages -> RecordPage \cup {Absent}]
  BY TypeFacts DEF Written
<1>2. CASE OpenFile
  BY <1>2, TypeFacts DEF OpenFile, onDisk, history, Typed, TypeOK
<1>3. CASE CloseFile
  <2>1. /\ diskNumPages' = numPages /\ page0' \in {hdrPage, page0}
        /\ UNCHANGED <<hdrPage, numPages, pages, pins, live, crashed>>
    BY <1>3 DEF CloseFile
  <2>2. /\ diskPages' \in [Pages -> RecordPage \cup {Absent}] /\ disk0' \in {disk0, page0'}
        /\ {bFileOpen, bHdrPageChanged}' \subseteq BOOLEAN /\ forced' \in {forced, live}
    BY <1>1, <1>3, TypeFacts DEF CloseFile
  <2> QED BY <2>1, <2>2, TypeFacts DEF Typed, TypeOK
<1>4. CASE ForcePages
  <2>1. /\ diskNumPages' = numPages
        /\ UNCHANGED <<hdrPage, bHdrPageChanged, bFileOpen, numPages, page0, pages, pins, live,
                       crashed>>
    BY <1>4 DEF ForcePages, handle
  <2>2. /\ diskPages' \in [Pages -> RecordPage \cup {Absent}] /\ disk0' \in {disk0, page0}
        /\ forced' \in {forced, live}
    BY <1>1, <1>4, TypeFacts DEF ForcePages
  <2> QED BY <2>1, <2>2, TypeFacts DEF Typed, TypeOK
<1>5. CASE Crash
  <2>1. /\ bFileOpen' = FALSE /\ bHdrPageChanged' = FALSE /\ crashed' = TRUE
        /\ numPages' = diskNumPages /\ page0' = disk0
        /\ pages' = [p \in Pages |-> IF p < diskNumPages THEN diskPages[p] ELSE Absent]
        /\ pins' = [p \in Pages |-> 0]
        /\ UNCHANGED <<hdrPage, disk0, diskPages, diskNumPages, forced>>
    BY <1>5 DEF Crash, onDisk
  <2>2. live' \in Records
    <3>1. ASSUME NEW r \in Rids, Found(r[1], r[2])
          PROVE  diskPages[r[1]].rec[r[2]] \in Values \cup {Blank}
      <4>1. r[1] \in Pages /\ r[2] \in Slots /\ diskPages[r[1]] # Absent
        BY <3>1, RidFacts DEF Found
      <4> QED BY <4>1, TypeFacts, PageFacts
    <3> QED BY <1>5, <3>1 DEF Crash, Records
  <2>3. pages' \in [Pages -> RecordPage \cup {Absent}] /\ pins' \in [Pages -> 0 .. MaxPins]
    BY <2>1, TypeFacts, RecordAssumption
  <2> QED BY <2>1, <2>2, <2>3, TypeFacts DEF Typed, TypeOK
<1>6. CASE \E p \in Pages : Evict(p)
  BY <1>6, TypeFacts DEF Evict, handle, history, Typed, TypeOK
<1> QED BY <1>2, <1>3, <1>4, <1>5, <1>6

LEMMA TypedInv == Typed /\ [Next]_vars => Typed'
<1> SUFFICES ASSUME Typed, [Next]_vars PROVE Typed'
  OBVIOUS
<1>1. CASE UNCHANGED vars
  BY <1>1 DEF vars, handle, onDisk, history, Typed, TypeOK
<1>2. CASE OpenFile \/ CloseFile \/ ForcePages \/ Crash \/ \E p \in Pages : Evict(p)
  BY <1>2, FileTyped
<1>3. CASE (\E v \in Values : InsertRec(v)) \/ InsertPastPage \/ InsertFails
  BY <1>3, InsertTyped, InsertPastTyped, InsertFailsTyped
<1>4. CASE InsertInconsistent
  BY <1>4, PinnedTyped DEF InsertInconsistent
<1>5. ASSUME NEW p \in Pages, NEW s \in Slots,
             DeleteRec(p, s) \/ DeleteEmpty(p, s) \/ \E v \in Values : UpdateRec(p, s, v)
      PROVE  Typed'
  BY <1>5, DeleteTyped, PinnedTyped, UpdateTyped DEF DeleteEmpty
<1> QED BY <1>1, <1>2, <1>3, <1>4, <1>5 DEF Next
-----------------------------------------------------------------------------
(* Every other call keeps RecordInv and overrun. *)
LEMMA NextKeeps ==
  RecordInv /\ [Next]_vars => InsertPastPage \/ (RecordInv' /\ overrun' = overrun)
<1> SUFFICES ASSUME RecordInv, [Next]_vars
             PROVE  InsertPastPage \/ (RecordInv' /\ overrun' = overrun)
  OBVIOUS
<1>1. CASE UNCHANGED vars
  BY <1>1, StateFacts, PinnedInv DEF vars, history
<1>2. CASE OpenFile \/ CloseFile \/ ForcePages \/ Crash
  <2>1. RecordInv'
    BY <1>2, OpenFileInv, CloseFileInv, ForcePagesInv, CrashInv
  <2>2. overrun' = overrun
    BY <1>2 DEF OpenFile, CloseFile, ForcePages, Crash, history
  <2> QED BY <2>1, <2>2
<1>3. CASE (\E v \in Values : InsertRec(v)) \/ InsertFails \/ InsertInconsistent
  <2>1. RecordInv'
    BY <1>3, InsertRecInv, InsertFailsInv, InsertInconsistentInv
  <2>2. overrun' = overrun
    BY <1>3 DEF InsertRec, InsertFails, InsertInconsistent, ReturnPinned, history
  <2> QED BY <2>1, <2>2
<1>4. CASE \E p \in Pages : Evict(p)
  BY <1>4, EvictInv DEF Evict, history
<1>5. ASSUME NEW p \in Pages, NEW s \in Slots,
             DeleteRec(p, s) \/ DeleteEmpty(p, s) \/ \E v \in Values : UpdateRec(p, s, v)
      PROVE  RecordInv' /\ overrun' = overrun
  <2>1. RecordInv'
    BY <1>5, DeleteRecInv, ReturnPinnedInv, UpdateRecInv DEF DeleteEmpty
  <2>2. overrun' = overrun
    BY <1>5 DEF DeleteRec, DeleteEmpty, UpdateRec, ReturnPinned, history
  <2> QED BY <2>1, <2>2
<1> QED BY <1>1, <1>2, <1>3, <1>4, <1>5 DEF Next

(* RecordInv is inductive as long as there is no crash. *)
LEMMA NextInv == RecordInv /\ ~crashed /\ [Next]_vars => RecordInv'
BY NextKeeps, PastPageMeans

(* A crash, and a write past a page, are never forgotten. *)
LEMMA CrashStays == [Next]_vars => (crashed => crashed') /\ (overrun => overrun')
<1> SUFFICES ASSUME [Next]_vars PROVE (crashed => crashed') /\ (overrun => overrun')
  OBVIOUS
<1>1. CASE UNCHANGED vars
  BY <1>1 DEF vars, history
<1>2. CASE OpenFile \/ CloseFile \/ ForcePages \/ Crash
  BY <1>2 DEF OpenFile, CloseFile, ForcePages, Crash, history
<1>3. CASE (\E v \in Values : InsertRec(v)) \/ InsertPastPage \/ InsertFails \/ InsertInconsistent
  <2>1. \A v : InsertRec(v) => UNCHANGED <<crashed, overrun>>
    BY DEF InsertRec
  <2>2. InsertPastPage => crashed' = crashed /\ overrun'
    BY DEF InsertPastPage
  <2>3. InsertFails \/ InsertInconsistent => UNCHANGED <<crashed, overrun>>
    BY DEF InsertFails, InsertInconsistent, ReturnPinned, history
  <2> QED BY <1>3, <2>1, <2>2, <2>3
<1>4. CASE \E p \in Pages : Evict(p)
  BY <1>4 DEF Evict, history
<1>5. ASSUME NEW p \in Pages, NEW s \in Slots,
             DeleteRec(p, s) \/ DeleteEmpty(p, s) \/ \E v \in Values : UpdateRec(p, s, v)
      PROVE  (crashed => crashed') /\ (overrun => overrun')
  BY <1>5 DEF DeleteRec, DeleteEmpty, UpdateRec, ReturnPinned, history
<1> QED BY <1>1, <1>2, <1>3, <1>4, <1>5 DEF Next

(* FileInv is inductive. *)
LEMMA AlwaysInv == Spec => []FileInv
<1>1. Init => FileInv
  BY InitInv DEF Init, FileInv, RecordInv
<1>2. FileInv /\ [Next]_vars => FileInv'
  <2> SUFFICES ASSUME FileInv, [Next]_vars PROVE FileInv'
    OBVIOUS
  <2>1. Typed'
    BY TypedInv DEF FileInv
  <2>2. CASE InsertPastPage
    <3>1. crashed /\ BitmapBits > NumberRecords
      BY <2>2, PastPageMeans DEF FileInv
    <3>2. overrun' = TRUE /\ crashed' = crashed
      BY <2>2 DEF InsertPastPage
    <3> QED BY <2>1, <3>1, <3>2 DEF FileInv
  <2>3. CASE ~overrun /\ ~InsertPastPage
    <3>1. RecordInv' /\ ~overrun'
      BY <2>3, NextKeeps DEF FileInv
    <3> QED BY <2>1, <3>1 DEF FileInv
  <2>4. CASE overrun /\ ~InsertPastPage
    <3>1. (crashed => crashed') /\ overrun'
      BY <2>4, CrashStays DEF FileInv
    <3> QED BY <2>1, <2>4, <3>1 DEF FileInv
  <2> QED BY <2>2, <2>3, <2>4
<1> QED BY <1>1, <1>2, PTL DEF Spec

(* What Exact says, in the words of the model's invariants. *)
LEMMA ExactMeans ==
  ASSUME RecordInv, NEW h, Exact(h)
  PROVE  HoldsRecords(h, pages, numPages) /\ ListsRoom(h, pages, numPages)
<1>1. ASSUME NEW r \in Rids
      PROVE  LET there == r[1] < numPages /\ r[2] \in pages[r[1]].bitmap
             IN  /\ there <=> live[r] # Blank
                 /\ there => pages[r[1]].rec[r[2]] = live[r]
  <2>1. r[1] \in Pages /\ r[2] \in Slots /\ r = <<r[1], r[2]>>
    BY RidFacts
  <2>2. PICK p \in Pages, s \in Slots : p = r[1] /\ s = r[2] /\ r = <<p, s>>
    BY <2>1
  <2>3. p < numPages <=> pages[p] # Absent
    BY StateFacts DEF Exact, PagesSound
  <2>4. /\ There(pages, p, s) <=> live[<<p, s>>] # Blank
        /\ There(pages, p, s) => pages[p].rec[s] = live[<<p, s>>]
    BY DEF RecordInv, LiveExact
  <2> QED BY <2>2, <2>3, <2>4 DEF There
<1>2. HoldsRecords(h, pages, numPages)
  BY <1>1 DEF HoldsRecords, Exact, Count
<1>3. ListsRoom(h, pages, numPages)
  BY LinkedIsChain DEF Exact, RoomList, ListsRoom, Links, Room, InFile
<1> QED BY <1>2, <1>3

(* Type correctness: the handle's header, every page and the file keep     *)
(* their ranges, after crashes too.                                        *)
THEOREM RecordsTypeCorrect == Spec => []TypeOK
<1>1. FileInv => TypeOK
  BY DEF FileInv, Typed
<1> QED BY <1>1, AlwaysInv, PTL

(* Until the first crash an open file's pages hold exactly the records     *)
(* inserted and not deleted, its count is theirs, and the list of pages    *)
(* with room, which insertRec follows, is exact.                           *)
THEOREM RecordsExactUntilCrash ==
  Spec => [](~crashed => RecordsKept /\ FreeListExact)
<1>1. RecordInv => (~crashed => RecordsKept /\ FreeListExact)
  BY ExactMeans DEF RecordInv, ExactUntilCrash, RecordsKept, FreeListExact
<1>2. FileInv => (~crashed => RecordsKept /\ FreeListExact)
  BY <1>1 DEF FileInv
<1> QED BY <1>2, AlwaysInv, PTL

(* closeFile leaves the whole file on disk: its pages, its records, its    *)
(* count and its list.                                                     *)
THEOREM RecordsClosedExact == Spec => []ClosedFileExact
<1>1. ASSUME RecordInv, ~bFileOpen, ~crashed
      PROVE  /\ \A p \in 1 .. diskNumPages - 1 : diskPages[p] # Absent
             /\ HoldsRecords(disk0, diskPages, diskNumPages)
             /\ ListsRoom(disk0, diskPages, diskNumPages)
  <2>1. /\ Exact(page0) /\ disk0 = page0 /\ diskPages = pages /\ diskNumPages = numPages
    BY <1>1 DEF RecordInv, ExactUntilCrash
  <2>2. HoldsRecords(page0, pages, numPages) /\ ListsRoom(page0, pages, numPages)
    BY <1>1, <2>1, ExactMeans
  <2>3. \A p \in 1 .. numPages - 1 : pages[p] # Absent
    BY <2>1 DEF Exact, PagesSound, InFile
  <2> QED BY <2>1, <2>2, <2>3
<1>2. FileInv => ClosedFileExact
  BY <1>1 DEF ClosedFileExact, FileInv
<1> QED BY <1>2, AlwaysInv, PTL

(* Every record that was forced is on disk. *)
LEMMA ForcedFound == RecordInv => ForcedOnDisk
<1> SUFFICES ASSUME RecordInv, NEW r \in Rids, forced[r] # Blank
             PROVE  Found(r[1], r[2]) /\ diskPages[r[1]].rec[r[2]] = forced[r]
  BY DEF ForcedOnDisk
<1>1. PICK p \in Pages, s \in Slots : p = r[1] /\ s = r[2] /\ r = <<p, s>>
  BY RidFacts
<1>2. /\ p < diskNumPages /\ There(diskPages, p, s)
      /\ diskPages[p].rec[s] = forced[<<p, s>>]
  BY <1>1 DEF RecordInv, ForcedKept
<1> QED BY <1>1, <1>2 DEF Found, There

(* What a forcePages or closeFile has put on disk stays there, through any *)
(* number of crashes, evictions and inserts into the stale file a crash    *)
(* leaves, until insertRec writes past the end of a page; and it does so   *)
(* only after a crash, and only if the bitmap has spare bits.              *)
THEOREM RecordsForcedSurvive == Spec => []ForcedRecordsSurvive
<1>1. FileInv => ForcedRecordsSurvive
  BY ForcedFound DEF FileInv, ForcedRecordsSurvive
<1> QED BY <1>1, AlwaysInv, PTL

(* Where the records of a page fill its bitmap, that is for good. *)
THEOREM ForcedNeverLost ==
  ASSUME BitmapBits = NumberRecords
  PROVE  Spec => []ForcedOnDisk
<1>1. FileInv => ForcedOnDisk
  BY ForcedFound, RecordAssumption DEF FileInv
<1> QED BY <1>1, AlwaysInv, PTL
-----------------------------------------------------------------------------
(* The scan.  Slots in the order it visits them. *)
Place == Nat \X Nat
LEMMA OrderFacts ==
  /\ \A a \in Place : ~Before(a, a)
  /\ \A a, b, c \in Place : Before(a, b) /\ Before(b, c) => Before(a, c)
  /\ \A a, b \in Place : a = b \/ Before(a, b) \/ Before(b, a)
<1>1. \A a \in Place : a[1] \in Nat /\ a[2] \in Nat /\ a = <<a[1], a[2]>>
  BY DEF Place
<1>2. \A a \in Place : ~Before(a, a)
  BY <1>1 DEF Before
<1>3. \A a, b, c \in Place : Before(a, b) /\ Before(b, c) => Before(a, c)
  BY <1>1 DEF Before
<1>4. ASSUME NEW a \in Place, NEW b \in Place, ~Before(a, b), ~Before(b, a)
      PROVE  a = b
  BY <1>1, <1>4 DEF Before
<1> QED BY <1>2, <1>3, <1>4

(* A scan stands on slots, or at the end. *)
LEMMA SlotFacts ==
  /\ Slot \subseteq Rids /\ Slot \subseteq Place /\ AtEnd \notin Slot
  /\ \A r \in Slot : r[1] \in Pages /\ r[2] \in 1 .. NumberRecords /\ r = <<r[1], r[2]>>
<1>1. 1 .. NumberRecords \subseteq Slots
  BY BitFacts
<1>2. Pages \subseteq Nat /\ Slots \subseteq Nat
  BY RidFacts
<1>3. RM_NO_FREE_PAGE \notin Pages
  BY PageFacts
<1>4. \A r \in Slot : r[1] \in Pages /\ r[2] \in 1 .. NumberRecords /\ r = <<r[1], r[2]>>
  BY DEF Slot
<1>5. Slot \subseteq Rids
  BY <1>1 DEF Slot, Rids
<1>6. Slot \subseteq Place
  BY <1>2, <1>5 DEF Rids, Place
<1>7. AtEnd \notin Slot
  BY <1>3, <1>4 DEF AtEnd
<1> QED BY <1>4, <1>5, <1>6, <1>7

(* What is ahead of a position, on the first n - 1 pages. *)
Beyond(a, n) == IF a = AtEnd THEN {} ELSE {r \in Slot : r[1] < n /\ ~Before(r, a)}

(* Ahead, for any position. *)
LEMMA AheadIsBeyond == Ahead = Beyond(at, scanPages)
BY DEF Ahead, Beyond, Slot

(* What is ahead of a slot that is itself ahead. *)
LEMMA BeyondFacts ==
  ASSUME NEW n \in 1 .. MaxPages + 1, NEW a, a = AtEnd \/ (a \in Slot /\ a[1] < n),
         NEW r \in Beyond(a, n)
  PROVE  /\ r \in Slot /\ r[1] < n /\ a \in Slot
         /\ Beyond(r, n) = {q \in Beyond(a, n) : ~Before(q, r)}
<1>1. r \in Slot /\ r[1] < n /\ a \in Slot /\ ~Before(r, a) /\ a # AtEnd /\ r # AtEnd
  BY SlotFacts DEF Beyond
<1>2. \A q \in Slot : ~Before(q, r) => ~Before(q, a)
  BY <1>1, OrderFacts, SlotFacts
<1> QED BY <1>1, <1>2 DEF Beyond

(* Advance goes to the next slot: it leaves out r and nothing else. *)
LEMMA AdvanceFacts ==
  ASSUME NEW r \in Slot, r[1] < scanPages, scanPages \in 1 .. MaxPages + 1
  PROVE  /\ Advance(r) = AtEnd \/ (Advance(r) \in Slot /\ Advance(r)[1] < scanPages)
         /\ Beyond(Advance(r), scanPages) = {q \in Beyond(r, scanPages) : q # r}
<1>1. /\ r[1] \in Pages /\ r[2] \in 1 .. NumberRecords
      /\ NumberRecords \in Nat \ {0} /\ scanPages \in Nat /\ MaxPages \in Nat
  BY SlotFacts, RecordAssumption
<1>2. \A q \in Slot : q[1] \in Nat /\ q[2] \in 1 .. NumberRecords /\ q[1] > 0
  BY SlotFacts, RidFacts
<1>3. r # AtEnd
  BY SlotFacts
<1>4. \A q \in Slot : ~Before(q, r) /\ q # r <=> Before(r, q)
  BY OrderFacts, SlotFacts
<1>5. Advance(r) = AtEnd \/ (Advance(r) \in Slot /\ Advance(r)[1] < scanPages)
  <2>1. CASE r[2] < NumberRecords
    <3>1. r[2] + 1 \in 1 .. NumberRecords
      BY <1>1, <2>1
    <3> QED BY <1>1, <2>1, <3>1 DEF Advance, Slot
  <2>2. CASE ~(r[2] < NumberRecords) /\ r[1] + 1 < scanPages
    <3>1. r[1] + 1 \in Pages
      BY <1>1, <2>2 DEF Pages
    <3>2. <<r[1] + 1, 1>> \in Slot
      BY <3>1, BitFacts DEF Slot
    <3> QED BY <2>2, <3>2 DEF Advance
  <2>3. CASE ~(r[2] < NumberRecords) /\ ~(r[1] + 1 < scanPages)
    BY <2>3 DEF Advance
  <2> QED BY <2>1, <2>2, <2>3
<1>6. ASSUME NEW q \in Slot
      PROVE  q \in Beyond(Advance(r), scanPages) <=> q[1] < scanPages /\ Before(r, q)
  <2>1. CASE r[2] < NumberRecords
    <3>1. Advance(r) = <<r[1], r[2] + 1>> /\ Advance(r) # AtEnd
      BY <1>1, <2>1, RidFacts DEF Advance, AtEnd, RM_NO_FREE_PAGE
    <3>2. ~Before(q, <<r[1], r[2] + 1>>) <=> Before(r, q)
      BY <1>1, <1>2, RidFacts DEF Before
    <3> QED BY <3>1, <3>2 DEF Beyond
  <2>2. CASE ~(r[2] < NumberRecords) /\ r[1] + 1 < scanPages
    <3>1. Advance(r) = <<r[1] + 1, 1>> /\ Advance(r) # AtEnd
      BY <1>1, <2>2, RidFacts DEF Advance, AtEnd, RM_NO_FREE_PAGE
    <3>2. ~Before(q, <<r[1] + 1, 1>>) <=> Before(r, q)
      BY <1>1, <1>2, <2>2, RidFacts DEF Before
    <3> QED BY <3>1, <3>2 DEF Beyond
  <2>3. CASE ~(r[2] < NumberRecords) /\ ~(r[1] + 1 < scanPages)
    <3>1. Advance(r) = AtEnd
      BY <2>3 DEF Advance
    <3>2. ~(q[1] < scanPages /\ Before(r, q))
      BY <1>1, <1>2, <2>3, RidFacts DEF Before
    <3> QED BY <3>1, <3>2 DEF Beyond
  <2> QED BY <2>1, <2>2, <2>3
<1>7. Beyond(Advance(r), scanPages) \subseteq Slot
  BY DEF Beyond
<1>8. Beyond(Advance(r), scanPages) = {q \in Slot : q[1] < scanPages /\ Before(r, q)}
  BY <1>6, <1>7
<1>9. {q \in Beyond(r, scanPages) : q # r} = {q \in Slot : q[1] < scanPages /\ Before(r, q)}
  BY <1>3, <1>4 DEF Beyond
<1> QED BY <1>5, <1>8, <1>9

(* Between two calls of the scan. *)
LEMMA ScanFacts ==
  ASSUME ScanInv, bScanOpen
  PROVE  /\ scanPages \in 1 .. MaxPages + 1 /\ scanPages <= numPages
         /\ Ahead = Beyond(at, scanPages)
         /\ at = AtEnd \/ (at \in Slot /\ at[1] < scanPages)
         /\ \A r \in Ahead : r \in Slot /\ r[1] < scanPages
         /\ \A r \in Ahead : isBitFilled(r) => pages[r[1]].rec[r[2]] = live[r]
         /\ due \subseteq Hits
<1>1. /\ RecordInv /\ ~crashed /\ ScanTyped /\ bFileOpen
      /\ due \subseteq Ahead /\ \A r \in due : live[r] \in Matching
  BY DEF ScanInv
<1>2. scanPages \in 1 .. MaxPages + 1 /\ scanPages <= numPages
  BY <1>1, StateFacts, RecordAssumption DEF ScanTyped
<1>3. Ahead = Beyond(at, scanPages) /\ \A r \in Ahead : r \in Slot /\ r[1] < scanPages
  BY AheadIsBeyond DEF Beyond
<1>4. PagesSound(pages, numPages)
  BY <1>1 DEF RecordInv, ExactUntilCrash, Exact
<1>5. ASSUME NEW r \in Ahead
      PROVE  /\ isBitFilled(r) => pages[r[1]].rec[r[2]] = live[r]
             /\ live[r] # Blank => isBitFilled(r)
  <2>1. PICK p \in Pages, s \in Slots : p = r[1] /\ s = r[2] /\ r = <<p, s>>
    BY <1>3, SlotFacts, RidFacts
  <2>2. pages[p] # Absent
    <3>1. p < scanPages /\ p \in Nat /\ numPages \in Nat
      BY <1>1, <1>3, <2>1, RidFacts, StateFacts
    <3>2. p < numPages
      BY <1>2, <3>1
    <3> QED BY <1>1, <1>4, <3>2, StateFacts DEF PagesSound
  <2>3. /\ There(pages, p, s) <=> live[<<p, s>>] # Blank
        /\ There(pages, p, s) => pages[p].rec[s] = live[<<p, s>>]
    BY <1>1 DEF RecordInv, LiveExact
  <2> QED BY <2>1, <2>2, <2>3 DEF There, isBitFilled
<1>6. due \subseteq Hits
  BY <1>1, <1>5, MatchingAssumption, RecordAssumption DEF Hits, matchRecord
<1> QED BY <1>1, <1>2, <1>3, <1>5, <1>6 DEF ScanTyped

(* openScan owes every matching record, and all are ahead. *)
LEMMA OpenScanInv ==
  ASSUME ScanInv, OpenScan
  PROVE  ScanInv'
<1>1. /\ bFileOpen /\ bScanOpen' = TRUE /\ scanPages' = numPages
      /\ at' = IF numPages > 1 THEN <<1, 1>> ELSE AtEnd
      /\ due' = {r \in Rids : live[r] \in Matching} /\ returned' = Nothing
      /\ RecordInv /\ ~crashed
  BY DEF OpenScan, ScanInv
<1>2. UNCHANGED vars
  BY DEF OpenScan
<1>3. RecordInv' /\ ~crashed' /\ bFileOpen' /\ numPages' = numPages /\ live' = live
  BY <1>1, <1>2, NextInv DEF vars, handle, history
<1>4. numPages \in 1 .. MaxPages + 1
  BY <1>1, StateFacts, RecordAssumption
<1>5. <<1, 1>> \in Slot
  BY RecordAssumption, BitFacts DEF Slot, Pages
<1>6. ScanTyped'
  BY <1>1, <1>3, <1>4, <1>5 DEF ScanTyped
<1>7. Ahead' = Beyond(at', numPages)
  BY <1>1 DEF Ahead, Beyond, Slot, AtEnd, Before
<1>8. \A r \in Slot : ~Before(r, <<1, 1>>) /\ Before(<<0, 0>>, r)
  BY SlotFacts, RidFacts, RecordAssumption DEF Before
<1>9. <<1, 1>> # AtEnd
  BY <1>5, SlotFacts
<1>10. \A r \in Slot : r[1] < numPages => r \in Ahead'
  <2>1. ASSUME NEW r \in Slot, r[1] < numPages PROVE numPages > 1
    BY <1>4, <2>1, SlotFacts, RidFacts, RecordAssumption
  <2> QED BY <1>1, <1>7, <1>8, <1>9, <2>1 DEF Beyond
<1>11. due' \subseteq Ahead'
  <2> SUFFICES ASSUME NEW r \in Rids, live[r] \in Matching PROVE r \in Ahead'
    BY <1>1
  <2>1. PICK p \in Pages, s \in Slots : p = r[1] /\ s = r[2] /\ r = <<p, s>>
    BY RidFacts
  <2>2. live[r] # Blank
    BY MatchingAssumption, RecordAssumption
  <2>3. There(pages, p, s)
    BY <1>1, <2>1, <2>2 DEF RecordInv, LiveExact
  <2>4. p < numPages /\ p \in InFile(numPages)
    BY <1>1, <2>3, StateFacts DEF There
  <2>5. s \in 1 .. NumberRecords
    BY <1>1, <2>3, <2>4 DEF RecordInv, ExactUntilCrash, Exact, PagesSound, There
  <2>6. r \in Slot
    BY <2>1, <2>5 DEF Slot
  <2> QED BY <1>10, <2>1, <2>4, <2>6
<1>12. \A r \in due' : live'[r] \in Matching
  BY <1>1, <1>3
<1>13. \A r \in Ahead' : Before(returned'.rid, r)
  <2>1. Ahead' \subseteq Slot
    BY <1>7 DEF Beyond
  <2>2. returned'.rid = <<0, 0>>
    BY <1>1 DEF Nothing
  <2> QED BY <1>8, <2>1, <2>2
<1> QED BY <1>3, <1>6, <1>11, <1>12, <1>13 DEF ScanInv, Before

(* getNextRec returns the first hit, so all others are behind it. *)
LEMMA GetNextRecInv ==
  ASSUME ScanInv, GetNextRec
  PROVE  /\ ScanInv' /\ Before(returned.rid, returned'.rid)
         /\ returned'.rec = live[returned'.rid]
<1>1. /\ bScanOpen /\ UNCHANGED <<bScanOpen, scanPages>> /\ UNCHANGED vars
      /\ ScanInv /\ RecordInv /\ ~crashed /\ bFileOpen /\ ScanTyped
  BY DEF GetNextRec, ScanInv
<1>2. PICK r \in Hits :
        /\ \A q \in Hits : ~Before(q, r)
        /\ at' = Advance(r)
        /\ returned' = [rid |-> r, rec |-> pages[r[1]].rec[r[2]]]
        /\ due' = due \ {r}
  BY DEF GetNextRec
<1>3. r \in Ahead /\ isBitFilled(r) /\ r \in Beyond(at, scanPages) /\ r \in Slot /\ r[1] < scanPages
  BY <1>1, <1>2, ScanFacts DEF Hits
<1>4. /\ RecordInv' /\ ~crashed' /\ bFileOpen' /\ numPages' = numPages /\ live' = live
  BY <1>1, NextInv DEF vars, handle, history
<1>5. PICK a : a = Advance(r)
  OBVIOUS
<1>6. /\ a = AtEnd \/ (a \in Slot /\ a[1] < scanPages)
      /\ Beyond(a, scanPages) = {q \in Beyond(r, scanPages) : q # r}
  BY <1>1, <1>3, <1>5, ScanFacts, AdvanceFacts
<1>7. Beyond(r, scanPages) = {q \in Ahead : ~Before(q, r)}
  BY <1>1, <1>3, ScanFacts, BeyondFacts
<1>8. at' = a /\ scanPages' = scanPages
  BY <1>1, <1>2, <1>5
<1>9. Ahead' = Beyond(at', scanPages')
  BY DEF Ahead, Beyond, Slot, AtEnd, Before
<1>10. Ahead' = {q \in Ahead : ~Before(q, r) /\ q # r}
  BY <1>6, <1>7, <1>8, <1>9
<1>11. due' \subseteq Ahead'
  BY <1>1, <1>2, <1>10, ScanFacts DEF Hits
<1>12. \A q \in Ahead' : Before(r, q)
  BY <1>1, <1>3, <1>10, ScanFacts, OrderFacts, SlotFacts
<1>13. ScanTyped'
  BY <1>1, <1>4, <1>6, <1>8 DEF ScanTyped
<1>14. \A q \in due' : live'[q] \in Matching
  BY <1>1, <1>2, <1>4 DEF ScanInv
<1>15. ScanInv'
  BY <1>2, <1>4, <1>11, <1>12, <1>13, <1>14 DEF ScanInv, Before
<1>16. Before(returned.rid, r) /\ pages[r[1]].rec[r[2]] = live[r]
  BY <1>1, <1>3, ScanFacts DEF ScanInv
<1> QED BY <1>2, <1>15, <1>16

(* Calls of the scan that return no record. *)
LEMMA QuietScanInv ==
  ASSUME ScanInv, GetNextRecEOF \/ GetNextRecFails \/ CloseScan
  PROVE  ScanInv'
<1>1. /\ bScanOpen /\ UNCHANGED <<scanPages, returned>> /\ UNCHANGED vars
      /\ RecordInv /\ ~crashed /\ bFileOpen /\ ScanTyped
  BY DEF GetNextRecEOF, GetNextRecFails, CloseScan, ScanInv
<1>2. RecordInv' /\ ~crashed' /\ bFileOpen' /\ numPages' = numPages /\ live' = live
  BY <1>1, NextInv DEF vars, handle, history
<1>3. Ahead' = Beyond(at', scanPages')
  BY DEF Ahead, Beyond, Slot, AtEnd, Before
<1>4. \A q \in due : live[q] \in Matching
  BY <1>1 DEF ScanInv
<1>5. CASE GetNextRecEOF
  <2>1. at' = AtEnd /\ due' = due /\ bScanOpen' = bScanOpen /\ due = {}
    BY <1>1, <1>5, ScanFacts DEF GetNextRecEOF
  <2>2. Ahead' = {}
    BY <1>3, <2>1 DEF Beyond
  <2>3. ScanTyped'
    BY <1>1, <1>2, <2>1 DEF ScanTyped, AtEnd
  <2> QED BY <1>2, <2>1, <2>2, <2>3 DEF ScanInv
<1>6. CASE GetNextRecFails
  <2>1. PICK r \in Ahead : at' = r /\ \A q \in Hits : ~Before(q, r)
    BY <1>6 DEF GetNextRecFails
  <2>2. due' = due /\ bScanOpen' = bScanOpen
    BY <1>6 DEF GetNextRecFails
  <2>3. Ahead' = {q \in Ahead : ~Before(q, r)} /\ r \in Slot /\ r[1] < scanPages
    BY <1>1, <1>3, <2>1, ScanFacts, BeyondFacts
  <2>4. due' \subseteq Ahead'
    BY <1>1, <2>1, <2>2, <2>3, ScanFacts DEF Hits
  <2>5. ScanTyped'
    BY <1>1, <1>2, <2>1, <2>2, <2>3 DEF ScanTyped
  <2> QED BY <1>1, <1>2, <1>4, <2>2, <2>3, <2>4, <2>5 DEF ScanInv, Before
<1>7. CASE CloseScan
  <2>1. bScanOpen' = FALSE /\ UNCHANGED at
    BY <1>7 DEF CloseScan
  <2>2. ScanTyped'
    BY <1>1, <1>2, <2>1 DEF ScanTyped, AtEnd
  <2> QED BY <1>2, <2>1, <2>2 DEF ScanInv
<1> QED BY <1>5, <1>6, <1>7

(* Calls on the file, which are steps of RM_FileHandle. *)
LEMMA FileCallInv ==
  ASSUME ScanInv, FileCall
  PROVE  ScanInv'
<1>1. RecordInv /\ ~crashed /\ ScanTyped /\ numPages \in Nat
  BY StateFacts DEF ScanInv
<1>2. due' = Owed /\ UNCHANGED <<bScanOpen, at, scanPages, returned>>
  BY DEF FileCall
<1>3. RecordInv'
  <2>1. Next
    BY DEF FileCall, Next
  <2> QED BY <1>1, <2>1, NextInv
<1>4. crashed' = crashed /\ (bFileOpen => bFileOpen') /\ numPages' \in {numPages, numPages + 1}
  <2>1. CASE OpenFile
    BY <2>1 DEF OpenFile, history
  <2>2. CASE InsertFails
    BY <2>2 DEF InsertFails, history
  <2>3. ASSUME NEW v \in Values, InsertRec(v)
        PROVE  crashed' = crashed /\ bFileOpen' = bFileOpen /\ numPages' \in {numPages, numPages + 1}
    <3>1. Target.end \in {numPages, numPages + 1}
      BY DEF Target
    <3> QED BY <2>3, <3>1 DEF InsertRec
  <2>4. ASSUME NEW p \in Pages, NEW s \in Slots,
               DeleteRec(p, s) \/ \E v \in Values : UpdateRec(p, s, v)
        PROVE  UNCHANGED <<crashed, bFileOpen, numPages>>
    BY <2>4 DEF DeleteRec, UpdateRec, handle
  <2> QED BY <2>1, <2>2, <2>3, <2>4 DEF FileCall
<1>5. ScanTyped'
  <2>1. scanPages \in 1 .. numPages'
    BY <1>1, <1>4 DEF ScanTyped
  <2> QED BY <1>1, <1>2, <2>1 DEF ScanTyped, AtEnd
<1>6. Ahead' = Ahead
  BY <1>2 DEF Ahead, AtEnd, Before
<1>7. due' \subseteq due /\ \A r \in due' : live'[r] = live[r]
  BY <1>2 DEF Owed
<1> QED BY <1>1, <1>2, <1>3, <1>4, <1>5, <1>6, <1>7 DEF ScanInv, Before

(* ScanInv is inductive. *)
LEMMA ScanAlwaysInv == ScanSpec => []ScanInv
<1>1. ScanInit => ScanInv
  <2> SUFFICES ASSUME ScanInit PROVE ScanInv
    OBVIOUS
  <2>1. RecordInv
    BY InitInv DEF ScanInit
  <2>2. crashed = FALSE /\ numPages = 1
    BY DEF ScanInit, Init
  <2>3. bScanOpen = FALSE /\ at = AtEnd /\ scanPages = 1
    BY DEF ScanInit
  <2>4. bScanOpen \in BOOLEAN
    BY <2>3
  <2>5. scanPages \in 1 .. numPages
    BY <2>2, <2>3
  <2>6. ScanTyped
    BY <2>3, <2>4, <2>5 DEF ScanTyped
  <2> QED BY <2>1, <2>2, <2>3, <2>6 DEF ScanInv
<1>2. ScanInv /\ [ScanNext]_allVars => ScanInv'
  <2> SUFFICES ASSUME ScanInv, [ScanNext]_allVars PROVE ScanInv'
    OBVIOUS
  <2>1. CASE ScanNext
    BY <2>1, FileCallInv, OpenScanInv, GetNextRecInv, QuietScanInv DEF ScanNext
  <2>2. CASE UNCHANGED allVars
    <3>1. UNCHANGED vars /\ UNCHANGED scanVars
      BY <2>2 DEF allVars
    <3>2. RecordInv' /\ UNCHANGED <<crashed, numPages, bFileOpen, live>>
      BY <3>1, NextInv DEF vars, handle, history, ScanInv
    <3>3. Ahead' = Ahead
      BY <3>1 DEF scanVars, Ahead, AtEnd, Before
    <3> QED BY <3>1, <3>2, <3>3 DEF scanVars, ScanInv, ScanTyped, AtEnd, Before
  <2> QED BY <2>1, <2>2
<1> QED BY <1>1, <1>2, PTL DEF ScanSpec

(* Every record the scan owes is ahead of its position, with its bit set   *)
(* and its bytes in place, whatever calls on the file come between.        *)
THEOREM ScanSkipsNothing == ScanSpec => []NothingSkipped
<1>1. ScanInv => NothingSkipped
  BY ScanFacts DEF NothingSkipped
<1> QED BY <1>1, ScanAlwaysInv, PTL

(* The slots returned ascend, so none comes twice, and each comes with the *)
(* record that is live there.                                              *)
THEOREM ScanReturnsEachOnce == ScanSpec => ReturnsEachOnce
<1>1. ScanInv /\ [ScanNext]_allVars =>
        [GetNextRec => /\ Before(returned.rid, returned'.rid)
                       /\ returned'.rec = live[returned'.rid]]_allVars
  BY GetNextRecInv
<1> QED BY <1>1, ScanAlwaysInv, PTL DEF ScanSpec, ReturnsEachOnce

(* Nothing inserted is lost and nothing deleted comes back, and the count  *)
(* is right, while a scan is open on the file.                             *)
THEOREM ScannedRecordsKept == ScanSpec => []RecordsKept
<1>1. ScanInv => RecordsKept
  BY ExactMeans DEF ScanInv, RecordInv, ExactUntilCrash, RecordsKept
<1> QED BY <1>1, ScanAlwaysInv, PTL

(* The list insertRec takes its page from has every page with room, once.  *)
THEOREM ScannedFreeListExact == ScanSpec => []FreeListExact
<1>1. ScanInv => FreeListExact
  BY ExactMeans DEF ScanInv, RecordInv, ExactUntilCrash, FreeListExact
<1> QED BY <1>1, ScanAlwaysInv, PTL
=============================================================================
