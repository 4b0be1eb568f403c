---------------------- MODULE RM_AttrFileHandleProofs -----------------------
(***************************************************************************)
(* Files of variable-length values, for any number of pages, of size       *)
(* classes and of places that hold a value: storage/attrfilehandle.cpp.    *)
(*                                                                         *)
(* AttrInv says what a page of a class holds, that the list of each class  *)
(* is a path (Lemmas) through pages of the class with room, through all of *)
(* them for the classes whose head closeFile writes, also while the file   *)
(* is closed and the heads are those of page 0, that a descriptor is of    *)
(* its page's class, that every place that was not robbed finds its value  *)
(* at a slot no other such place keeps, and that nobody is robbed as long  *)
(* as every descriptor in a record has its value.                          *)
(***************************************************************************)
EXTENDS RM_AttrFileHandle, Lemmas

(* Page numbers, pages and the header with the head of each list. *)
PageNum == {RM_NO_FREE_PAGE} \cup Pages
SlotFns == UNION {[D -> Values] : D \in SUBSET Nat}
PageRec == [class : Classes \cup {None}, nextPage : PageNum, slots : SlotFns]
Heads == [Classes -> PageNum]
FileRec == [heads : Heads, pages : [Pages -> PageRec], numPages : 1 .. MaxPages + 1]
Descriptor == [page : Pages, slot : Nat, class : Classes]

(* A page has a class and slots of that class, or was never allocated. *)
PagesOk(f) ==
  \A p \in Pages :
    IF p < f.numPages
    THEN /\ f.pages[p].class \in Classes
         /\ DOMAIN f.pages[p].slots \subseteq 1 .. NumRecords[f.pages[p].class]
    ELSE f.pages[p] = NoPage

(* The pages of class k that can take a value, and their list. *)
RoomIn(pg, k) == {p \in Pages : pg[p].class = k /\ ~isBitmapFull(k, pg[p].slots)}
Links(pg) == [p \in Pages |-> pg[p].nextPage]
ListOk(head, pg, k) ==
  \E S \in SUBSET RoomIn(pg, k) :
    Linked(Links(pg), head, S, RM_NO_FREE_PAGE) /\ (k \in KeptClasses => S = RoomIn(pg, k))
ListsOk(heads, pg) == \A k \in Classes : ListOk(heads[k], pg, k)

(* Descriptor a leads to value v. *)
Holds(f, a, v) ==
  /\ f.pages[a.page].class = a.class
  /\ a.slot \in DOMAIN f.pages[a.page].slots /\ f.pages[a.page].slots[a.slot] = v
(* Every place finds its own value, in a slot of its own. *)
Own ==
  /\ \A o \in Keeping : attr[o] \in Descriptor /\ Holds(file, attr[o], stored[o])
  /\ \A o, q \in Keeping : attr[o].page = attr[q].page /\ attr[o].slot = attr[q].slot => o = q

(* Every descriptor has the class of its page, for good. *)
Named ==
  \A o \in Places : attr[o] # NoAttr =>
    attr[o] \in Descriptor /\ file.pages[attr[o].page].class = attr[o].class
ClassesKept(f, g) ==
  \A p \in Pages : f.pages[p].class \in Classes => g.pages[p].class = f.pages[p].class

(* Until a call leaves a descriptor of a freed slot, there is none. *)
Strays ==
  ~strayed => robbed = {} /\ \A o \in Places : attr[o] # NoAttr => stored[o] # None

(* The invariant. *)
AttrInv ==
  /\ file \in FileRec /\ PagesOk(file)
  /\ page0 \in Heads /\ \A k \in Classes \ KeptClasses : page0[k] = RM_NO_FREE_PAGE
  /\ ListsOk(IF bFileOpen THEN file.heads ELSE page0, file.pages)
  /\ bFileOpen /\ ~bHdrPageChanged => \A k \in KeptClasses : page0[k] = file.heads[k]
  /\ attr \in [Places -> Descriptor \cup {NoAttr}] /\ stored \in [Places -> Values \cup {None}]
  /\ Own /\ Named /\ Strays
-----------------------------------------------------------------------------
(* What the assumptions say of the constants. *)
LEMMA Numbers ==
  /\ MaxPages \in Nat \ {0} /\ Pages \subseteq Nat \ {0}
  /\ RM_NO_FREE_PAGE \notin Pages /\ RM_NO_FREE_PAGE \in PageNum
  /\ \A p \in Pages : p \in PageNum
  /\ None \notin Classes /\ None \notin Values /\ KeptClasses \subseteq Classes
  /\ \A k \in Classes : NumRecords[k] \in Nat \ {0} /\ BitmapBits[k] \in Nat
                        /\ BitmapBits[k] >= NumRecords[k]
BY AttrAssumption DEF Pages, PageNum, RM_NO_FREE_PAGE

(* What the slots of a page are. *)
LEMMA Slots ==
  /\ \A s \in SlotFns : /\ DOMAIN s \subseteq Nat /\ s = [t \in DOMAIN s |-> s[t]]
                        /\ \A t \in DOMAIN s : s[t] \in Values
  /\ \A D \in SUBSET Nat : \A s \in [D -> Values] : s \in SlotFns
  /\ << >> \in SlotFns /\ DOMAIN << >> = {}
<1>1. << >> \in [{} -> Values] /\ DOMAIN << >> = {}
  OBVIOUS
<1>2. \A D \in SUBSET Nat : \A s \in [D -> Values] : s \in SlotFns
  BY DEF SlotFns
<1>3. << >> \in SlotFns
  BY <1>1, <1>2
<1>4. ASSUME NEW s \in SlotFns
      PROVE  /\ DOMAIN s \subseteq Nat /\ s = [t \in DOMAIN s |-> s[t]]
             /\ \A t \in DOMAIN s : s[t] \in Values
  <2>1. PICK D \in SUBSET Nat : s \in [D -> Values]
    BY DEF SlotFns
  <2> QED BY <2>1
<1> QED BY <1>1, <1>2, <1>3, <1>4

(* A page that was never allocated. *)
LEMMA NoPageFacts ==
  /\ NoPage \in PageRec /\ NoPage.class = None /\ NoPage.nextPage = RM_NO_FREE_PAGE
  /\ NoPage.slots = << >>
BY Slots, Numbers DEF NoPage, PageRec

(* The first zero bit of a page that has room. *)
LEMMA FirstZero ==
  ASSUME NEW k \in Classes, NEW s \in SlotFns, DOMAIN s \subseteq 1 .. NumRecords[k],
         ~isBitmapFull(k, s)
  PROVE  calcFirstZeroBit(k, s) \in 1 .. NumRecords[k] /\ calcFirstZeroBit(k, s) \notin DOMAIN s
<1> DEFINE Z == (1 .. BitmapBits[k]) \ DOMAIN s
<1>1. Z \in SUBSET Nat
  OBVIOUS
<1>2. PICK t \in 1 .. NumRecords[k] : t \notin DOMAIN s
  BY DEF isBitmapFull
<1>3. t \in Z
  BY <1>2, Numbers
<1>4. \E m \in Z : \A n \in Z : m <= n
  BY <1>1, <1>3, LeastNatural
<1>5. Min(Z) \in Z /\ \A n \in Z : Min(Z) <= n
  BY <1>4 DEF Min
<1>6. Min(Z) \in 1 .. NumRecords[k]
  BY <1>1, <1>3, <1>5, Numbers
<1> QED BY <1>5, <1>6 DEF calcFirstZeroBit
-----------------------------------------------------------------------------
(* The list of a class is empty or starts at a page with room. *)
LEMMA ListHead ==
  ASSUME NEW head, NEW pg, NEW k, ListOk(head, pg, k)
  PROVE  head # RM_NO_FREE_PAGE => head \in RoomIn(pg, k)
<1>1. PICK S \in SUBSET RoomIn(pg, k) : Linked(Links(pg), head, S, RM_NO_FREE_PAGE)
  BY DEF ListOk
<1>2. RM_NO_FREE_PAGE \notin S
  BY Numbers DEF RoomIn
<1> QED BY <1>1, <1>2, LinkedHead

(* The list of a class after a step that leaves its pages alone. *)
LEMMA ListSame ==
  ASSUME NEW head, NEW pg, NEW k, ListOk(head, pg, k),
         NEW pg2, RoomIn(pg2, k) = RoomIn(pg, k),
         \A q \in RoomIn(pg, k) : pg2[q].nextPage = pg[q].nextPage
  PROVE  ListOk(head, pg2, k)
<1>1. PICK S \in SUBSET RoomIn(pg, k) : /\ Linked(Links(pg), head, S, RM_NO_FREE_PAGE)
                                        /\ k \in KeptClasses => S = RoomIn(pg, k)
  BY DEF ListOk
<1>2. PICK l, l2 : l = Links(pg) /\ l2 = Links(pg2)
  OBVIOUS
<1>3. S \subseteq DOMAIN l2 /\ \A q \in S : l2[q] = l[q]
  BY <1>2 DEF Links, RoomIn
<1>4. Linked(l2, head, S, RM_NO_FREE_PAGE)
  <2>1. Linked(l, head, S, RM_NO_FREE_PAGE)
    BY <1>1, <1>2
  <2> QED BY <1>3, <2>1, LinkedSame
<1> QED BY <1>1, <1>2, <1>4 DEF ListOk

(* A page with room is put in front of its list. *)
LEMMA ListPush ==
  ASSUME NEW head, NEW pg, NEW k, ListOk(head, pg, k),
         NEW p \in Pages, p \notin RoomIn(pg, k),
         NEW pg2, RoomIn(pg2, k) = RoomIn(pg, k) \cup {p}, pg2[p].nextPage = head,
         \A q \in RoomIn(pg, k) : pg2[q].nextPage = pg[q].nextPage
  PROVE  ListOk(p, pg2, k)
<1>1. PICK S \in SUBSET RoomIn(pg, k) : /\ Linked(Links(pg), head, S, RM_NO_FREE_PAGE)
                                        /\ k \in KeptClasses => S = RoomIn(pg, k)
  BY DEF ListOk
<1>2. PICK l, l2 : l = Links(pg) /\ l2 = Links(pg2)
  OBVIOUS
<1>3. /\ p \notin S /\ p \in DOMAIN l2 /\ l2[p] = head
      /\ S \subseteq DOMAIN l2 /\ \A q \in S : l2[q] = l[q]
  BY <1>2 DEF Links, RoomIn
<1>4. Linked(l2, p, S \cup {p}, RM_NO_FREE_PAGE)
  <2>1. Linked(l, head, S, RM_NO_FREE_PAGE)
    BY <1>1, <1>2
  <2> QED BY <1>3, <2>1, LinkedPush
<1>5. S \cup {p} \in SUBSET RoomIn(pg2, k) /\ (k \in KeptClasses => S \cup {p} = RoomIn(pg2, k))
  BY <1>1
<1> QED BY <1>2, <1>4, <1>5 DEF ListOk

(* The first page fills up and is taken off its list. *)
LEMMA ListPop ==
  ASSUME NEW p, NEW pg, NEW k, ListOk(p, pg, k), p # RM_NO_FREE_PAGE,
         NEW pg2, RoomIn(pg2, k) = RoomIn(pg, k) \ {p},
         \A q \in RoomIn(pg, k) \ {p} : pg2[q].nextPage = pg[q].nextPage
  PROVE  ListOk(pg[p].nextPage, pg2, k)
<1>1. PICK S \in SUBSET RoomIn(pg, k) : /\ Linked(Links(pg), p, S, RM_NO_FREE_PAGE)
                                        /\ k \in KeptClasses => S = RoomIn(pg, k)
  BY DEF ListOk
<1>2. PICK l, l2 : l = Links(pg) /\ l2 = Links(pg2)
  OBVIOUS
<1>3. RM_NO_FREE_PAGE \notin S
  BY Numbers DEF RoomIn
<1>4. Linked(l, p, S, RM_NO_FREE_PAGE)
  BY <1>1, <1>2
<1>5. p \in S /\ Linked(l, l[p], S \ {p}, RM_NO_FREE_PAGE)
  BY <1>3, <1>4, LinkedPop
<1>6. l[p] = pg[p].nextPage /\ S \ {p} \subseteq DOMAIN l2 /\ \A q \in S \ {p} : l2[q] = l[q]
  BY <1>2, <1>5 DEF Links, RoomIn
<1>7. Linked(l2, l[p], S \ {p}, RM_NO_FREE_PAGE)
  BY <1>5, <1>6, LinkedSame
<1>8. S \ {p} \in SUBSET RoomIn(pg2, k) /\ (k \in KeptClasses => S \ {p} = RoomIn(pg2, k))
  BY <1>1
<1> QED BY <1>2, <1>6, <1>7, <1>8 DEF ListOk

(* A class whose pages a step leaves alone. *)
LEMMA OtherClass ==
  ASSUME NEW pg, NEW p, NEW pg2, \A q \in Pages : q # p => pg2[q] = pg[q],
         NEW j, pg[p].class # j, pg2[p].class # j, NEW head, ListOk(head, pg, j)
  PROVE  ListOk(head, pg2, j)
<1>1. RoomIn(pg2, j) = RoomIn(pg, j) /\ \A q \in RoomIn(pg, j) : pg2[q].nextPage = pg[q].nextPage
  BY DEF RoomIn
<1> QED BY <1>1, ListSame
-----------------------------------------------------------------------------
(* Where insertVarValue goes. *)
LEMMA TargetFacts ==
  ASSUME NEW f \in FileRec, PagesOk(f), NEW k \in Classes, ListOk(f.heads[k], f.pages, k),
         CanInsert(f, k), NEW page, page = TargetPage(f, k), NEW p, p = Target(f, k)
  PROVE  /\ p \in Pages /\ page \in PageRec /\ page.class = k
         /\ DOMAIN page.slots \subseteq 1 .. NumRecords[k] /\ ~isBitmapFull(k, page.slots)
         /\ p <= f.numPages /\ f.heads[k] \in PageNum /\ f.numPages \in Nat
         /\ f.heads[k] = RM_NO_FREE_PAGE =>
              /\ p = f.numPages /\ f.pages[p].class = None
              /\ page.slots = << >> /\ page.nextPage = RM_NO_FREE_PAGE
              /\ DOMAIN f.pages[p].slots = {}
         /\ f.heads[k] # RM_NO_FREE_PAGE =>
              p = f.heads[k] /\ page = f.pages[p] /\ p \in RoomIn(f.pages, k) /\ p < f.numPages
<1>1. p \in Pages /\ f.heads \in Heads /\ f.pages \in [Pages -> PageRec] /\ f.numPages \in Nat
  BY Numbers DEF CanInsert, FileRec
<1>2. f.heads[k] \in PageNum
  BY <1>1 DEF Heads
<1>3. CASE f.heads[k] = RM_NO_FREE_PAGE
  <2>1. p = f.numPages /\ page = [NoPage EXCEPT !.class = k]
    BY <1>3 DEF Target, TargetPage
  <2>2. page = [class |-> k, nextPage |-> RM_NO_FREE_PAGE, slots |-> << >>]
    BY <2>1 DEF NoPage
  <2>3. page \in PageRec
    BY <2>2, Slots, Numbers DEF PageRec
  <2>4. f.pages[p] = NoPage
    BY <1>1, <2>1, Numbers DEF PagesOk
  <2>5. ~isBitmapFull(k, page.slots)
    <3>1. 1 \in 1 .. NumRecords[k]
      BY Numbers
    <3> QED BY <2>2, <3>1, Slots DEF isBitmapFull
  <2> QED BY <1>1, <1>2, <1>3, <2>1, <2>2, <2>3, <2>4, <2>5, Slots, NoPageFacts
<1>4. CASE f.heads[k] # RM_NO_FREE_PAGE
  <2>1. p = f.heads[k] /\ page = f.pages[p]
    BY <1>4 DEF Target, TargetPage
  <2>2. p \in RoomIn(f.pages, k)
    BY <1>4, <2>1, ListHead
  <2>3. page.class = k /\ ~isBitmapFull(k, page.slots) /\ page \in PageRec
    BY <1>1, <2>1, <2>2 DEF RoomIn
  <2>4. p < f.numPages
    BY <1>1, <2>1, <2>3, NoPageFacts, Numbers DEF PagesOk
  <2>5. DOMAIN page.slots \subseteq 1 .. NumRecords[k]
    BY <1>1, <2>1, <2>3, <2>4 DEF PagesOk
  <2>6. p <= f.numPages
    BY <1>1, <2>4, Numbers
  <2> QED BY <1>1, <1>2, <1>4, <2>1, <2>2, <2>3, <2>4, <2>5, <2>6
<1> QED BY <1>3, <1>4

(* The page that gets the value. *)
LEMMA FilledFacts ==
  ASSUME NEW f \in FileRec, PagesOk(f), NEW k \in Classes, ListOk(f.heads[k], f.pages, k),
         CanInsert(f, k), NEW v \in Values,
         NEW page, page = TargetPage(f, k), NEW s, s = Spot(f, k).slot, NEW w, w = Filled(f, k, v)
  PROVE  /\ s \in 1 .. NumRecords[k] /\ s \notin DOMAIN page.slots /\ s \in Nat
         /\ w \in SlotFns /\ DOMAIN w = DOMAIN page.slots \cup {s}
         /\ w[s] = v /\ \A t \in DOMAIN page.slots : w[t] = page.slots[t]
         /\ DOMAIN w \subseteq 1 .. NumRecords[k]
         /\ Spot(f, k).page = Target(f, k) /\ Spot(f, k).class = k
<1>1. page.slots \in SlotFns /\ DOMAIN page.slots \subseteq 1 .. NumRecords[k]
      /\ ~isBitmapFull(k, page.slots)
  BY TargetFacts DEF PageRec
<1>2. s = calcFirstZeroBit(k, page.slots) /\ Spot(f, k).page = Target(f, k) /\ Spot(f, k).class = k
  BY DEF Spot
<1>3. s \in 1 .. NumRecords[k] /\ s \notin DOMAIN page.slots
  BY <1>1, <1>2, FirstZero
<1>4. w = [t \in DOMAIN page.slots \cup {s} |-> IF t = s THEN v ELSE page.slots[t]]
  BY DEF Filled
<1>5. DOMAIN page.slots \subseteq Nat /\ \A t \in DOMAIN page.slots : page.slots[t] \in Values
  BY <1>1, Slots
<1>6. DOMAIN page.slots \cup {s} \in SUBSET Nat /\ w \in [DOMAIN page.slots \cup {s} -> Values]
  BY <1>3, <1>4, <1>5, Numbers
<1>7. w \in SlotFns
  BY <1>6, Slots
<1> QED BY <1>1, <1>2, <1>3, <1>4, <1>6, <1>7

(* A file with one page and one list head changed. *)
Changed(f, k, h, p, e, n) ==
  [heads |-> [f.heads EXCEPT ![k] = h], pages |-> [f.pages EXCEPT ![p] = e], numPages |-> n]

(* What such a file is, and what it keeps of the old one. *)
LEMMA ChangedFacts ==
  ASSUME NEW f \in FileRec, PagesOk(f), ListsOk(f.heads, f.pages),
         NEW k \in Classes, NEW h \in PageNum, NEW p \in Pages, NEW e \in PageRec,
         NEW n \in {f.numPages, f.numPages + 1}, p < n, n # f.numPages => p = f.numPages,
         e.class = k, f.pages[p].class \in {k, None},
         DOMAIN e.slots \subseteq 1 .. NumRecords[k],
         NEW g, g = Changed(f, k, h, p, e, n), ListOk(h, g.pages, k)
  PROVE  /\ g \in FileRec /\ PagesOk(g) /\ ListsOk(g.heads, g.pages)
         /\ g.heads[k] = h /\ g.pages[p] = e /\ g.numPages = n
         /\ \A q \in Pages : q # p => g.pages[q] = f.pages[q]
<1>1. /\ f.heads \in Heads /\ f.pages \in [Pages -> PageRec] /\ f.numPages \in 1 .. MaxPages + 1
  BY DEF FileRec
<1>2. g.heads = [f.heads EXCEPT ![k] = h] /\ g.pages = [f.pages EXCEPT ![p] = e] /\ g.numPages = n
  BY DEF Changed
<1>3. /\ g.heads \in Heads /\ g.heads[k] = h /\ \A j \in Classes : j # k => g.heads[j] = f.heads[j]
      /\ g.pages \in [Pages -> PageRec] /\ g.pages[p] = e
      /\ \A q \in Pages : q # p => g.pages[q] = f.pages[q]
  BY <1>1, <1>2 DEF Heads
<1>4. n \in 1 .. MaxPages + 1
  BY <1>1, Numbers DEF Pages
<1>5. g \in FileRec
  BY <1>2, <1>3, <1>4 DEF FileRec, Changed
<1>6. PagesOk(g)
  <2> SUFFICES ASSUME NEW q \in Pages
               PROVE  IF q < n
                      THEN /\ g.pages[q].class \in Classes
                           /\ DOMAIN g.pages[q].slots \subseteq 1 .. NumRecords[g.pages[q].class]
                      ELSE g.pages[q] = NoPage
    BY <1>2 DEF PagesOk
  <2>1. CASE q = p
    BY <1>3, <2>1
  <2>2. CASE q # p
    <3>1. q \in Nat /\ f.numPages \in Nat
      <4>1. q \in Nat
        BY Numbers
      <4>2. f.numPages \in Nat
        BY <1>1
      <4> QED BY <4>1, <4>2
    <3>2. n = f.numPages \/ (n = f.numPages + 1 /\ q # f.numPages)
      BY <2>2
    <3>3. q < n <=> q < f.numPages
      BY <3>1, <3>2
    <3> QED BY <1>3, <2>2, <3>3 DEF PagesOk
  <2> QED BY <2>1, <2>2
<1>7. ASSUME NEW j \in Classes PROVE ListOk(g.heads[j], g.pages, j)
  <2>1. CASE j = k
    BY <1>3, <2>1
  <2>2. CASE j # k
    <3>1. f.pages[p].class # j /\ g.pages[p].class # j
      BY <1>3, <2>2, Numbers
    <3>2. ListOk(f.heads[j], f.pages, j)
      BY DEF ListsOk
    <3> QED BY <1>3, <2>2, <3>1, <3>2, OtherClass
  <2> QED BY <2>1, <2>2
<1> QED BY <1>2, <1>3, <1>5, <1>6, <1>7 DEF ListsOk

(* insertVarValue puts the value in an empty slot and keeps the lists. *)
LEMMA InsertedFacts ==
  ASSUME NEW f \in FileRec, PagesOk(f), ListsOk(f.heads, f.pages), NEW k \in Classes,
         NEW v \in Values, CanInsert(f, k), NEW g, g = Inserted(f, k, v), NEW a, a = Spot(f, k)
  PROVE  /\ g \in FileRec /\ PagesOk(g) /\ ListsOk(g.heads, g.pages) /\ ClassesKept(f, g)
         /\ a \in Descriptor /\ Holds(g, a, v) /\ a.slot \notin DOMAIN f.pages[a.page].slots
         /\ \A b \in Descriptor : \A w : Holds(f, b, w) => Holds(g, b, w)
         /\ ~InsertTouchesHdr(f, k, v) => g.heads = f.heads
<1>1. PICK page, p, s, w : /\ page = TargetPage(f, k) /\ p = Target(f, k)
                           /\ s = Spot(f, k).slot /\ w = Filled(f, k, v)
  OBVIOUS
<1>2. ListOk(f.heads[k], f.pages, k)
  BY DEF ListsOk
<1>3. /\ p \in Pages /\ page \in PageRec /\ page.class = k
      /\ ~isBitmapFull(k, page.slots)
      /\ p <= f.numPages /\ f.heads[k] \in PageNum /\ f.numPages \in Nat
      /\ f.heads[k] = RM_NO_FREE_PAGE =>
           /\ p = f.numPages /\ f.pages[p].class = None
           /\ page.slots = << >> /\ page.nextPage = RM_NO_FREE_PAGE
           /\ DOMAIN f.pages[p].slots = {}
      /\ f.heads[k] # RM_NO_FREE_PAGE =>
           p = f.heads[k] /\ page = f.pages[p] /\ p \in RoomIn(f.pages, k) /\ p < f.numPages
  BY <1>1, <1>2, TargetFacts
<1>4. /\ s \in 1 .. NumRecords[k] /\ s \notin DOMAIN page.slots /\ s \in Nat
      /\ w \in SlotFns /\ DOMAIN w = DOMAIN page.slots \cup {s}
      /\ w[s] = v /\ \A t \in DOMAIN page.slots : w[t] = page.slots[t]
      /\ DOMAIN w \subseteq 1 .. NumRecords[k]
      /\ Spot(f, k).page = p /\ Spot(f, k).class = k
  BY <1>1, <1>2, FilledFacts
<1>5. PICK full, h, e, n :
        /\ full = isBitmapFull(k, w) /\ h = (IF full THEN page.nextPage ELSE p)
        /\ e = [class |-> page.class, slots |-> w,
                nextPage |-> IF full THEN RM_NO_FREE_PAGE ELSE page.nextPage]
        /\ n = IF p = f.numPages THEN p + 1 ELSE f.numPages
  OBVIOUS
<1>6. g = Changed(f, k, h, p, e, n)
  BY <1>1, <1>5 DEF Inserted, Changed
<1>7. page.nextPage \in PageNum
  BY <1>3 DEF PageRec
<1>8. /\ e \in PageRec /\ e.class = k /\ e.slots = w
      /\ e.nextPage = IF full THEN RM_NO_FREE_PAGE ELSE page.nextPage
  BY <1>3, <1>4, <1>5, <1>7, Numbers DEF PageRec
<1>9. h \in PageNum
  BY <1>3, <1>5, <1>7, Numbers
<1>10. n \in {f.numPages, f.numPages + 1} /\ p < n /\ (n # f.numPages => p = f.numPages)
  BY <1>3, <1>5, Numbers
<1>11. f.pages[p].class \in {k, None}
  BY <1>3
<1>12. PICK pg : pg = g.pages
  OBVIOUS
<1>13. pg[p] = e /\ \A q \in Pages : q # p => pg[q] = f.pages[q]
  BY <1>3, <1>6, <1>12 DEF Changed, FileRec
<1>14. ListOk(h, pg, k)
  <2>1. CASE f.heads[k] = RM_NO_FREE_PAGE /\ ~full
    <3>1. p \notin RoomIn(f.pages, k) /\ RoomIn(pg, k) = RoomIn(f.pages, k) \cup {p}
      BY <1>3, <1>5, <1>8, <1>13, <2>1, Numbers DEF RoomIn
    <3>2. pg[p].nextPage = f.heads[k] /\ \A q \in RoomIn(f.pages, k) : pg[q].nextPage = f.pages[q].nextPage
      BY <1>3, <1>8, <1>13, <2>1, <3>1 DEF RoomIn
    <3> QED BY <1>2, <1>3, <1>5, <2>1, <3>1, <3>2, ListPush
  <2>2. CASE f.heads[k] = RM_NO_FREE_PAGE /\ full
    <3>0. f.pages[p].class # k /\ isBitmapFull(k, pg[p].slots)
      BY <1>3, <1>5, <1>8, <1>13, <2>2, Numbers
    <3>1. p \notin RoomIn(f.pages, k) /\ RoomIn(pg, k) = RoomIn(f.pages, k)
      BY <1>13, <3>0 DEF RoomIn
    <3>2. \A q \in RoomIn(f.pages, k) : pg[q].nextPage = f.pages[q].nextPage
      BY <1>13, <3>1 DEF RoomIn
    <3>3. h = f.heads[k]
      BY <1>3, <1>5, <2>2
    <3> QED BY <1>2, <3>1, <3>2, <3>3, ListSame
  <2>3. CASE f.heads[k] # RM_NO_FREE_PAGE /\ ~full
    <3>1. RoomIn(pg, k) = RoomIn(f.pages, k)
      BY <1>3, <1>5, <1>8, <1>13, <2>3 DEF RoomIn
    <3>2. \A q \in RoomIn(f.pages, k) : pg[q].nextPage = f.pages[q].nextPage
      BY <1>3, <1>8, <1>13, <2>3 DEF RoomIn
    <3>3. h = f.heads[k]
      BY <1>3, <1>5, <2>3
    <3> QED BY <1>2, <3>1, <3>2, <3>3, ListSame
  <2>4. CASE f.heads[k] # RM_NO_FREE_PAGE /\ full
    <3>1. RoomIn(pg, k) = RoomIn(f.pages, k) \ {p}
      BY <1>3, <1>5, <1>8, <1>13, <2>4 DEF RoomIn
    <3>2. \A q \in RoomIn(f.pages, k) \ {p} : pg[q].nextPage = f.pages[q].nextPage
      BY <1>13 DEF RoomIn
    <3>3. h = f.pages[p].nextPage /\ ListOk(p, f.pages, k) /\ p # RM_NO_FREE_PAGE
      BY <1>2, <1>3, <1>5, <2>4
    <3> QED BY <3>1, <3>2, <3>3, ListPop
  <2>5. full \in BOOLEAN
    BY <1>5 DEF isBitmapFull
  <2> QED BY <2>1, <2>2, <2>3, <2>4, <2>5
<1>15. /\ g \in FileRec /\ PagesOk(g) /\ ListsOk(g.heads, g.pages)
       /\ g.pages[p] = e /\ \A q \in Pages : q # p => g.pages[q] = f.pages[q]
  <2>1. ListOk(h, g.pages, k)
    BY <1>12, <1>14
  <2>2. DOMAIN e.slots \subseteq 1 .. NumRecords[k]
    BY <1>4, <1>8
  <2> QED BY <1>3, <1>6, <1>8, <1>9, <1>10, <1>11, <2>1, <2>2, ChangedFacts
<1>16. a \in Descriptor /\ Holds(g, a, v) /\ a.slot \notin DOMAIN f.pages[a.page].slots
  <2>1. a.page = p /\ a.slot = s /\ a.class = k
    BY <1>1, <1>4
  <2>2. a \in Descriptor
    BY <1>3, <1>4, <2>1 DEF Spot, Descriptor
  <2>3. s \notin DOMAIN f.pages[p].slots
    BY <1>3, <1>4
  <2> QED BY <1>4, <1>8, <1>15, <2>1, <2>2, <2>3 DEF Holds
<1>17. ASSUME NEW b \in Descriptor, NEW x, Holds(f, b, x)
       PROVE  Holds(g, b, x)
  <2>1. b.page \in Pages /\ b.class \in Classes
    BY DEF Descriptor
  <2>2. CASE b.page # p
    BY <1>15, <1>17, <2>1, <2>2 DEF Holds
  <2>3. CASE b.page = p
    <3>1. f.heads[k] # RM_NO_FREE_PAGE
      BY <1>3, <1>17, <2>3 DEF Holds
    <3>2. page = f.pages[p]
      BY <1>3, <3>1
    <3> QED BY <1>3, <1>4, <1>8, <1>15, <1>17, <2>3, <3>2 DEF Holds
  <2> QED BY <2>2, <2>3
<1>18. ASSUME ~InsertTouchesHdr(f, k, v) PROVE g.heads = f.heads
  <2>1. f.heads[k] # RM_NO_FREE_PAGE /\ ~full
    BY <1>1, <1>5, <1>18 DEF InsertTouchesHdr
  <2>2. h = f.heads[k] /\ g.heads = [f.heads EXCEPT ![k] = h]
    BY <1>3, <1>5, <1>6, <2>1 DEF Changed
  <2> QED BY <2>2 DEF FileRec, Heads
<1>19. ClassesKept(f, g)
  BY <1>8, <1>11, <1>15, Numbers DEF ClassesKept
<1> QED BY <1>15, <1>16, <1>17, <1>18, <1>19

(* deleteVarValue empties a slot and keeps the lists. *)
LEMMA DeletedFacts ==
  ASSUME NEW f \in FileRec, PagesOk(f), ListsOk(f.heads, f.pages),
         NEW a \in Descriptor, NEW v, Holds(f, a, v), NEW g, g = Deleted(f, a)
  PROVE  /\ g \in FileRec /\ PagesOk(g) /\ ListsOk(g.heads, g.pages) /\ ClassesKept(f, g)
         /\ \A b \in Descriptor : \A w :
              /\ Holds(f, b, w) /\ (b.page # a.page \/ b.slot # a.slot)
              => Holds(g, b, w)
         /\ ~DeleteTouchesHdr(f, a) => g.heads = f.heads
<1>1. PICK page, p, k, s : /\ p = a.page /\ page = f.pages[p] /\ k = a.class /\ s = a.slot
  OBVIOUS
<1>2. /\ p \in Pages /\ k \in Classes /\ s \in Nat /\ page \in PageRec
      /\ f.heads \in Heads /\ f.heads[k] \in PageNum /\ f.numPages \in Nat
  <2>1. p \in Pages /\ k \in Classes /\ s \in Nat
    BY <1>1 DEF Descriptor
  <2>2. f.heads \in Heads /\ f.pages \in [Pages -> PageRec] /\ f.numPages \in Nat
    BY Numbers DEF FileRec
  <2> QED BY <1>1, <2>1, <2>2 DEF Heads
<1>3. page.class = k /\ s \in DOMAIN page.slots
  BY <1>1 DEF Holds
<1>4. p < f.numPages /\ DOMAIN page.slots \subseteq 1 .. NumRecords[k]
  <2>1. p < f.numPages
    BY <1>1, <1>2, <1>3, NoPageFacts, Numbers DEF PagesOk
  <2> QED BY <1>1, <1>2, <1>3, <2>1 DEF PagesOk
<1>5. PICK left, full : /\ left = Restrict(page.slots, DOMAIN page.slots \ {s})
                        /\ full = isBitmapFull(k, page.slots)
  OBVIOUS
<1>6. PICK h, e : /\ h = IF full THEN p ELSE f.heads[k]
                  /\ e = [class |-> page.class, slots |-> left,
                          nextPage |-> IF full THEN f.heads[k] ELSE page.nextPage]
  OBVIOUS
<1>7. g = Changed(f, k, h, p, e, f.numPages)
  BY <1>1, <1>5, <1>6 DEF Deleted, Changed
<1>8. /\ left \in SlotFns /\ DOMAIN left = DOMAIN page.slots \ {s}
      /\ \A t \in DOMAIN left : left[t] = page.slots[t]
  <2>1. page.slots \in SlotFns
    BY <1>2 DEF PageRec
  <2>2. DOMAIN page.slots \subseteq Nat /\ \A t \in DOMAIN page.slots : page.slots[t] \in Values
    BY <2>1, Slots
  <2>3. left = [t \in DOMAIN page.slots \ {s} |-> page.slots[t]]
    BY <1>5 DEF Restrict
  <2>4. DOMAIN page.slots \ {s} \in SUBSET Nat /\ left \in [DOMAIN page.slots \ {s} -> Values]
    BY <2>2, <2>3
  <2> QED BY <2>3, <2>4, Slots
<1>9. ~isBitmapFull(k, left)
  BY <1>3, <1>4, <1>8 DEF isBitmapFull
<1>10. page.nextPage \in PageNum
  BY <1>2 DEF PageRec
<1>11. /\ e \in PageRec /\ e.class = k /\ e.slots = left
       /\ e.nextPage = IF full THEN f.heads[k] ELSE page.nextPage
  BY <1>2, <1>3, <1>6, <1>8, <1>10 DEF PageRec
<1>12. h \in PageNum
  BY <1>2, <1>6, Numbers
<1>13. PICK pg : pg = g.pages
  OBVIOUS
<1>14. pg[p] = e /\ \A q \in Pages : q # p => pg[q] = f.pages[q]
  BY <1>2, <1>7, <1>13 DEF Changed, FileRec
<1>15. ListOk(h, pg, k)
  <2>1. ListOk(f.heads[k], f.pages, k)
    BY <1>2 DEF ListsOk
  <2>2. CASE full
    <3>1. p \notin RoomIn(f.pages, k) /\ RoomIn(pg, k) = RoomIn(f.pages, k) \cup {p}
      BY <1>1, <1>2, <1>5, <1>9, <1>11, <1>14, <2>2 DEF RoomIn
    <3>2. pg[p].nextPage = f.heads[k] /\ \A q \in RoomIn(f.pages, k) : pg[q].nextPage = f.pages[q].nextPage
      BY <1>11, <1>14, <2>2, <3>1 DEF RoomIn
    <3>3. h = p
      BY <1>6, <2>2
    <3> QED BY <1>2, <2>1, <3>1, <3>2, <3>3, ListPush
  <2>3. CASE ~full
    <3>1. RoomIn(pg, k) = RoomIn(f.pages, k)
      BY <1>1, <1>3, <1>5, <1>9, <1>11, <1>14, <2>3 DEF RoomIn
    <3>2. \A q \in RoomIn(f.pages, k) : pg[q].nextPage = f.pages[q].nextPage
      BY <1>1, <1>11, <1>14, <2>3 DEF RoomIn
    <3>3. h = f.heads[k]
      BY <1>6, <2>3
    <3> QED BY <2>1, <3>1, <3>2, <3>3, ListSame
  <2> QED BY <2>2, <2>3
<1>16. /\ g \in FileRec /\ PagesOk(g) /\ ListsOk(g.heads, g.pages)
       /\ g.pages[p] = e /\ \A q \in Pages : q # p => g.pages[q] = f.pages[q]
  <2>1. ListOk(h, g.pages, k)
    BY <1>13, <1>15
  <2>2. DOMAIN e.slots \subseteq 1 .. NumRecords[k]
    BY <1>4, <1>8, <1>11
  <2>3. f.pages[p].class \in {k, None}
    BY <1>1, <1>3
  <2> QED BY <1>2, <1>4, <1>7, <1>11, <1>12, <2>1, <2>2, <2>3, ChangedFacts
<1>17. ASSUME NEW b \in Descriptor, NEW x, Holds(f, b, x), b.page # p \/ b.slot # s
       PROVE  Holds(g, b, x)
  <2>1. b.page \in Pages
    BY DEF Descriptor
  <2>2. CASE b.page # p
    BY <1>16, <1>17, <2>1, <2>2 DEF Holds
  <2>3. CASE b.page = p
    BY <1>1, <1>3, <1>8, <1>11, <1>16, <1>17, <2>3 DEF Holds
  <2> QED BY <2>2, <2>3
<1>18. ASSUME ~DeleteTouchesHdr(f, a) PROVE g.heads = f.heads
  <2>1. ~full
    BY <1>1, <1>5, <1>18 DEF DeleteTouchesHdr
  <2>2. h = f.heads[k] /\ g.heads = [f.heads EXCEPT ![k] = h]
    BY <1>6, <1>7, <2>1 DEF Changed
  <2> QED BY <1>2, <2>2 DEF Heads
<1>19. ClassesKept(f, g)
  BY <1>1, <1>3, <1>11, <1>16 DEF ClassesKept
<1> QED BY <1>1, <1>16, <1>17, <1>18, <1>19
-----------------------------------------------------------------------------
(* What the calls on a place may rely on. *)
LEMMA PlaceFacts ==
  ASSUME AttrInv
  PROVE  /\ file \in FileRec /\ PagesOk(file) /\ page0 \in Heads
         /\ \A k \in Classes \ KeptClasses : page0[k] = RM_NO_FREE_PAGE
         /\ bFileOpen => ListsOk(file.heads, file.pages)
         /\ bFileOpen /\ ~bHdrPageChanged => \A k \in KeptClasses : page0[k] = file.heads[k]
         /\ attr \in [Places -> Descriptor \cup {NoAttr}]
         /\ stored \in [Places -> Values \cup {None}]
         /\ \A q \in Keeping : /\ q \in Places /\ attr[q] \in Descriptor
                               /\ Holds(file, attr[q], stored[q])
         /\ \A o \in Places : Taken(o) =>
              bFileOpen /\ attr[o] \in Descriptor /\ Holds(file, attr[o], Seen(o))
<1>1. \A o \in Places : Taken(o) =>
        bFileOpen /\ attr[o] \in Descriptor /\ Holds(file, attr[o], Seen(o))
  BY DEF AttrInv, Named, Taken, Holds, Seen
<1> QED BY <1>1 DEF AttrInv, Own, Keeping

(* A step of an open file: the new file is sound, and so is what the       *)
(* places have of it.                                                      *)
LEMMA StepInv ==
  ASSUME AttrInv, bFileOpen, UNCHANGED <<bFileOpen, page0>>,
         file' \in FileRec, PagesOk(file'), ListsOk(file'.heads, file'.pages),
         bHdrPageChanged' \/ (~bHdrPageChanged /\ file'.heads = file.heads),
         attr' \in [Places -> Descriptor \cup {NoAttr}], stored' \in [Places -> Values \cup {None}],
         Own', Named', Strays'
  PROVE  AttrInv'
<1>1. PICK g : g = file'
  OBVIOUS
<1>2. ListsOk(IF bFileOpen' THEN g.heads ELSE page0', g.pages)
  BY <1>1
<1>3. bFileOpen' /\ ~bHdrPageChanged' => \A k \in KeptClasses : page0'[k] = g.heads[k]
  BY <1>1, PlaceFacts
<1>4. page0' \in Heads /\ \A k \in Classes \ KeptClasses : page0'[k] = RM_NO_FREE_PAGE
  BY PlaceFacts
<1> QED BY <1>1, <1>2, <1>3, <1>4 DEF AttrInv

(* A place that is given a slot nobody has, or none, and all others that   *)
(* keep a value.                                                           *)
LEMMA OwnStep ==
  ASSUME AttrInv, NEW o \in Places,
         \A q \in Keeping' : q # o => /\ q \in Keeping /\ attr'[q] = attr[q]
                                      /\ stored'[q] = stored[q]
                                      /\ Holds(file', attr[q], stored[q]),
         o \in Keeping' =>
           /\ attr'[o] \in Descriptor /\ Holds(file', attr'[o], stored'[o])
           /\ \A q \in Keeping' : q # o =>
                attr[q].page # attr'[o].page \/ attr[q].slot # attr'[o].slot
  PROVE  Own'
<1>1. PICK g, at, st, kept : g = file' /\ at = attr' /\ st = stored' /\ kept = Keeping'
  OBVIOUS
<1>2. ASSUME NEW q \in kept
      PROVE  at[q] \in Descriptor /\ Holds(g, at[q], st[q])
  <2>1. CASE q = o
    BY <1>1, <1>2, <2>1
  <2>2. CASE q # o
    <3>1. q \in Keeping /\ at[q] = attr[q] /\ st[q] = stored[q] /\ Holds(g, attr[q], stored[q])
      BY <1>1, <1>2, <2>2
    <3> QED BY <3>1, PlaceFacts
  <2> QED BY <2>1, <2>2
<1>3. ASSUME NEW q \in kept, NEW r \in kept, at[q].page = at[r].page, at[q].slot = at[r].slot
      PROVE  q = r
  <2>1. CASE q # o /\ r # o
    <3>1. q \in Keeping /\ r \in Keeping /\ at[q] = attr[q] /\ at[r] = attr[r]
      BY <1>1, <1>3, <2>1
    <3> QED BY <1>3, <3>1 DEF AttrInv, Own
  <2>2. CASE q = o \/ r = o
    BY <1>1, <1>3, <2>2
  <2> QED BY <2>1, <2>2
<1> QED BY <1>1, <1>2, <1>3 DEF Own

(* A descriptor that is new, or none, and all others on pages that keep    *)
(* their class.                                                            *)
LEMMA NamedStep ==
  ASSUME AttrInv, NEW o \in Places, ClassesKept(file, file'),
         \A q \in Places : q # o => attr'[q] = attr[q],
         \/ attr'[o] \in {attr[o], NoAttr}
         \/ attr'[o] \in Descriptor /\ file'.pages[attr'[o].page].class = attr'[o].class
  PROVE  Named'
<1>1. PICK g, at : g = file' /\ at = attr'
  OBVIOUS
<1>2. ASSUME NEW q \in Places, at[q] # NoAttr
      PROVE  at[q] \in Descriptor /\ g.pages[at[q].page].class = at[q].class
  <2>1. CASE at[q] = attr[q]
    <3>1. attr[q] \in Descriptor /\ file.pages[attr[q].page].class = attr[q].class
      BY <1>2, <2>1 DEF AttrInv, Named
    <3>2. attr[q].page \in Pages /\ attr[q].class \in Classes
      BY <3>1 DEF Descriptor
    <3> QED BY <1>1, <2>1, <3>1, <3>2 DEF ClassesKept
  <2>2. CASE at[q] # attr[q]
    BY <1>1, <1>2, <2>2
  <2> QED BY <2>1, <2>2
<1> QED BY <1>1, <1>2 DEF Named
-----------------------------------------------------------------------------
(* insertVarValue. *)
LEMMA InsertInv ==
  ASSUME AttrInv, NEW o \in Places, NEW k \in Classes, NEW v \in Values, InsertVarValue(o, k, v)
  PROVE  AttrInv'
<1>1. /\ bFileOpen /\ CanInsert(file, k) /\ UNCHANGED <<bFileOpen, page0, strayed>>
      /\ bHdrPageChanged' = (bHdrPageChanged \/ InsertTouchesHdr(file, k, v))
  BY DEF InsertVarValue
<1>2. PICK g, a : g = Inserted(file, k, v) /\ a = Spot(file, k)
  OBVIOUS
<1>3. file' = g /\ file \in FileRec /\ PagesOk(file) /\ ListsOk(file.heads, file.pages)
  BY <1>1, <1>2, PlaceFacts DEF InsertVarValue
<1>4. /\ g \in FileRec /\ PagesOk(g) /\ ListsOk(g.heads, g.pages) /\ ClassesKept(file, g)
      /\ a \in Descriptor /\ Holds(g, a, v) /\ a.slot \notin DOMAIN file.pages[a.page].slots
      /\ \A b \in Descriptor : \A w : Holds(file, b, w) => Holds(g, b, w)
      /\ ~InsertTouchesHdr(file, k, v) => g.heads = file.heads
  BY <1>1, <1>2, <1>3, InsertedFacts
<1>5. \A q \in Keeping :
        /\ Holds(g, attr[q], stored[q]) /\ attr[q] \in Descriptor
        /\ attr[q].page # a.page \/ attr[q].slot # a.slot
  BY <1>4, PlaceFacts DEF Holds
<1>6. \/ /\ attr' = [attr EXCEPT ![o] = a] /\ stored' = [stored EXCEPT ![o] = v]
         /\ robbed' = robbed \ {o}
      \/ UNCHANGED <<attr, stored, robbed>>
  BY <1>2 DEF InsertVarValue
<1>7. attr \in [Places -> Descriptor \cup {NoAttr}] /\ stored \in [Places -> Values \cup {None}]
  BY DEF AttrInv
<1>8. Own' /\ Named' /\ Strays'
  <2>1. CASE /\ attr' = [attr EXCEPT ![o] = a] /\ stored' = [stored EXCEPT ![o] = v]
             /\ robbed' = robbed \ {o}
    <3>1. /\ attr'[o] = a /\ stored'[o] = v /\ v # None
          /\ \A q \in Places : q # o => attr'[q] = attr[q] /\ stored'[q] = stored[q]
      BY <1>7, <2>1, Numbers
    <3>2. \A q \in Keeping' : q # o => q \in Keeping /\ attr'[q] = attr[q] /\ stored'[q] = stored[q]
      BY <2>1, <3>1 DEF Keeping
    <3>3. Own'
      BY <1>3, <1>4, <1>5, <3>1, <3>2, OwnStep
    <3>4. Named'
      BY <1>3, <1>4, <3>1, NamedStep DEF Holds
    <3>5. Strays'
      BY <1>1, <2>1, <3>1 DEF AttrInv, Strays
    <3> QED BY <3>3, <3>4, <3>5
  <2>2. CASE UNCHANGED <<attr, stored, robbed>>
    <3>1. Keeping' = Keeping
      BY <2>2 DEF Keeping
    <3>2. o \in Keeping => \A q \in Keeping : q # o =>
            attr[q].page # attr[o].page \/ attr[q].slot # attr[o].slot
      BY DEF AttrInv, Own
    <3>3. Own'
      BY <1>3, <1>5, <2>2, <3>1, <3>2, OwnStep
    <3>4. Named'
      BY <1>3, <1>4, <2>2, NamedStep
    <3>5. Strays'
      BY <1>1, <2>2 DEF AttrInv, Strays
    <3> QED BY <3>3, <3>4, <3>5
  <2> QED BY <1>6, <2>1, <2>2
<1>9. attr' \in [Places -> Descriptor \cup {NoAttr}] /\ stored' \in [Places -> Values \cup {None}]
  BY <1>4, <1>6, <1>7
<1> QED BY <1>1, <1>3, <1>4, <1>8, <1>9, StepInv

(* A descriptor is forgotten, and the slot with it. *)
LEMMA ForgetInv ==
  ASSUME AttrInv, NEW o \in Places, ForgetValue(o)
  PROVE  AttrInv'
<1>1. /\ bFileOpen /\ UNCHANGED <<file, bHdrPageChanged, bFileOpen, page0, strayed>>
      /\ attr' = [attr EXCEPT ![o] = NoAttr] /\ stored' = [stored EXCEPT ![o] = None]
      /\ robbed' = robbed \ {o}
  BY DEF ForgetValue
<1>2. attr' \in [Places -> Descriptor \cup {NoAttr}] /\ stored' \in [Places -> Values \cup {None}]
  BY <1>1, PlaceFacts
<1>3. /\ attr'[o] = NoAttr /\ stored'[o] = None
      /\ \A q \in Places : q # o => attr'[q] = attr[q] /\ stored'[q] = stored[q]
  BY <1>1, PlaceFacts
<1>4. \A q \in Keeping' : q # o /\ q \in Keeping /\ attr'[q] = attr[q] /\ stored'[q] = stored[q]
  BY <1>1, <1>3 DEF Keeping
<1>5. Own'
  BY <1>1, <1>4, PlaceFacts, OwnStep
<1>6. Named'
  <2>1. ClassesKept(file, file')
    BY <1>1 DEF ClassesKept
  <2> QED BY <1>3, <2>1, NamedStep
<1>7. Strays'
  BY <1>1, <1>3 DEF AttrInv, Strays
<1>8. bHdrPageChanged' \/ (~bHdrPageChanged /\ file'.heads = file.heads)
  BY <1>1
<1>9. file' \in FileRec /\ PagesOk(file') /\ ListsOk(file'.heads, file'.pages)
  BY <1>1, PlaceFacts
<1> QED BY <1>1, <1>2, <1>5, <1>6, <1>7, <1>8, <1>9, StepInv

(* The slot a descriptor names is freed: whoever keeps a value after it    *)
(* has it in another slot.                                                 *)
LEMMA DropFacts ==
  ASSUME AttrInv, NEW o \in Places, Taken(o), NEW g, g = Deleted(file, attr[o]), Robs(o),
         \A q \in Places : q # o => stored'[q] = stored[q]
  PROVE  /\ g \in FileRec /\ PagesOk(g) /\ ListsOk(g.heads, g.pages) /\ ClassesKept(file, g)
         /\ ~DeleteTouchesHdr(file, attr[o]) => g.heads = file.heads
         /\ \A q \in Keeping' : q # o =>
              q \in Keeping /\ attr[q] \in Descriptor /\ Holds(g, attr[q], stored[q])
         /\ ~strayed => robbed' = {}
<1>1. PICK a, v : a = attr[o] /\ v = Seen(o)
  OBVIOUS
<1>2. a \in Descriptor /\ Holds(file, a, v) /\ bFileOpen
  BY <1>1, PlaceFacts
<1>3. file \in FileRec /\ PagesOk(file) /\ ListsOk(file.heads, file.pages)
  BY <1>2, PlaceFacts
<1>4. /\ g \in FileRec /\ PagesOk(g) /\ ListsOk(g.heads, g.pages) /\ ClassesKept(file, g)
      /\ \A b \in Descriptor : \A w :
           Holds(file, b, w) /\ (b.page # a.page \/ b.slot # a.slot) => Holds(g, b, w)
      /\ ~DeleteTouchesHdr(file, a) => g.heads = file.heads
  BY <1>1, <1>2, <1>3, DeletedFacts
<1>5. PICK gone : gone = {q \in Places \ {o} : stored[q] # None /\ attr[q] = a}
  OBVIOUS
<1>6. robbed' = (robbed \ {o}) \cup gone
  BY <1>1, <1>5 DEF Robs
<1>7. ASSUME NEW q \in Keeping', q # o
      PROVE  q \in Keeping /\ attr[q] \in Descriptor /\ Holds(g, attr[q], stored[q])
  <2>1. q \in Keeping /\ attr[q] # a
    BY <1>5, <1>6, <1>7 DEF Keeping
  <2>2. attr[q] \in Descriptor /\ Holds(file, attr[q], stored[q])
    BY <2>1, PlaceFacts
  <2>3. attr[q].page # a.page \/ attr[q].slot # a.slot
    BY <1>2, <2>1, <2>2 DEF Holds, Descriptor
  <2> QED BY <1>4, <2>1, <2>2, <2>3
<1>8. ASSUME ~strayed PROVE robbed' = {}
  <2>1. robbed = {} /\ stored[o] # None
    BY <1>8 DEF AttrInv, Strays, Taken
  <2>2. gone = {}
    BY <1>1, <1>5, <2>1 DEF AttrInv, Own, Keeping
  <2> QED BY <1>6, <2>1, <2>2
<1> QED BY <1>1, <1>4, <1>7, <1>8

(* deleteVarValue, and an updateVarValue that stores no new value. *)
LEMMA DeleteInv ==
  ASSUME AttrInv, NEW o \in Places, DeleteVarValue(o) \/ UpdateLosesValue(o)
  PROVE  AttrInv'
<1>1. /\ Taken(o) /\ bFileOpen /\ UNCHANGED <<bFileOpen, page0>>
      /\ bHdrPageChanged' = (bHdrPageChanged \/ DeleteTouchesHdr(file, attr[o]))
      /\ stored' = [stored EXCEPT ![o] = None] /\ Robs(o)
      /\ \/ attr' = [attr EXCEPT ![o] = NoAttr] /\ strayed' = strayed
         \/ attr' = attr /\ strayed' = TRUE
  BY DEF DeleteVarValue, UpdateLosesValue, Taken
<1>2. PICK g : g = Deleted(file, attr[o])
  OBVIOUS
<1>3. file' = g
  BY <1>2 DEF DeleteVarValue, UpdateLosesValue
<1>4. attr \in [Places -> Descriptor \cup {NoAttr}] /\ stored \in [Places -> Values \cup {None}]
  BY DEF AttrInv
<1>5. /\ stored'[o] = None
      /\ \A q \in Places : q # o => attr'[q] = attr[q] /\ stored'[q] = stored[q]
  BY <1>1, <1>4
<1>6. /\ g \in FileRec /\ PagesOk(g) /\ ListsOk(g.heads, g.pages) /\ ClassesKept(file, g)
      /\ ~DeleteTouchesHdr(file, attr[o]) => g.heads = file.heads
      /\ \A q \in Keeping' : q # o =>
           q \in Keeping /\ attr[q] \in Descriptor /\ Holds(g, attr[q], stored[q])
      /\ ~strayed => robbed' = {}
  BY <1>1, <1>2, <1>5, DropFacts
<1>7. o \notin Keeping' /\ \A q \in Keeping' : q \in Places
  BY <1>5 DEF Keeping
<1>8. Own'
  BY <1>3, <1>5, <1>6, <1>7, OwnStep
<1>9. attr'[o] \in {attr[o], NoAttr}
  BY <1>1, <1>4
<1>10. Named'
  BY <1>3, <1>5, <1>6, <1>9, NamedStep
<1>11. Strays'
  <2>1. CASE attr' = [attr EXCEPT ![o] = NoAttr] /\ strayed' = strayed
    <3>1. attr'[o] = NoAttr
      BY <1>4, <2>1
    <3> QED BY <1>5, <1>6, <2>1, <3>1 DEF AttrInv, Strays
  <2>2. CASE attr' = attr /\ strayed' = TRUE
    BY <2>2 DEF Strays
  <2> QED BY <1>1, <2>1, <2>2
<1>12. attr' \in [Places -> Descriptor \cup {NoAttr}] /\ stored' \in [Places -> Values \cup {None}]
  BY <1>1, <1>4
<1> QED BY <1>1, <1>3, <1>6, <1>8, <1>10, <1>11, <1>12, StepInv

(* updateVarValue: a delete, and an insert in the class of the new length. *)
LEMMA UpdateInv ==
  ASSUME AttrInv, NEW o \in Places, NEW k \in Classes, NEW v \in Values, UpdateVarValue(o, k, v)
  PROVE  AttrInv'
<1>1. PICK f, g, a : f = Deleted(file, attr[o]) /\ g = Inserted(f, k, v) /\ a = Spot(f, k)
  OBVIOUS
<1>2. /\ Taken(o) /\ bFileOpen /\ UNCHANGED <<bFileOpen, page0>> /\ Robs(o)
      /\ CanInsert(f, k) /\ file' = g
      /\ bHdrPageChanged' = (\/ bHdrPageChanged \/ DeleteTouchesHdr(file, attr[o])
                             \/ InsertTouchesHdr(f, k, v))
      /\ \/ /\ attr' = [attr EXCEPT ![o] = a] /\ stored' = [stored EXCEPT ![o] = v]
            /\ strayed' = strayed
         \/ /\ attr' = attr /\ stored' = [stored EXCEPT ![o] = None] /\ strayed' = TRUE
  BY <1>1 DEF UpdateVarValue, Taken
<1>3. attr \in [Places -> Descriptor \cup {NoAttr}] /\ stored \in [Places -> Values \cup {None}]
  BY DEF AttrInv
<1>4. \A q \in Places : q # o => attr'[q] = attr[q] /\ stored'[q] = stored[q]
  BY <1>2, <1>3
<1>5. /\ f \in FileRec /\ PagesOk(f) /\ ListsOk(f.heads, f.pages) /\ ClassesKept(file, f)
      /\ ~DeleteTouchesHdr(file, attr[o]) => f.heads = file.heads
      /\ \A q \in Keeping' : q # o =>
           q \in Keeping /\ attr[q] \in Descriptor /\ Holds(f, attr[q], stored[q])
      /\ ~strayed => robbed' = {}
  BY <1>1, <1>2, <1>4, DropFacts
<1>6. /\ g \in FileRec /\ PagesOk(g) /\ ListsOk(g.heads, g.pages) /\ ClassesKept(f, g)
      /\ a \in Descriptor /\ Holds(g, a, v) /\ a.slot \notin DOMAIN f.pages[a.page].slots
      /\ \A b \in Descriptor : \A w : Holds(f, b, w) => Holds(g, b, w)
      /\ ~InsertTouchesHdr(f, k, v) => g.heads = f.heads
  BY <1>1, <1>2, <1>5, InsertedFacts
<1>7. \A q \in Keeping' : q # o =>
        /\ q \in Keeping /\ attr'[q] = attr[q] /\ stored'[q] = stored[q]
        /\ Holds(g, attr[q], stored[q])
        /\ attr[q].page # a.page \/ attr[q].slot # a.slot
  BY <1>4, <1>5, <1>6 DEF Holds, Keeping
<1>8. ClassesKept(file, g)
  BY <1>5, <1>6 DEF ClassesKept
<1>9. Own' /\ Named' /\ Strays'
  <2>1. CASE attr' = [attr EXCEPT ![o] = a] /\ stored' = [stored EXCEPT ![o] = v]
             /\ strayed' = strayed
    <3>1. attr'[o] = a /\ stored'[o] = v /\ v # None
      BY <1>3, <2>1, Numbers
    <3>2. Own'
      BY <1>2, <1>6, <1>7, <3>1, OwnStep
    <3>3. Named'
      BY <1>2, <1>4, <1>6, <1>8, <3>1, NamedStep DEF Holds
    <3>4. Strays'
      BY <1>4, <1>5, <2>1, <3>1 DEF AttrInv, Strays
    <3> QED BY <3>2, <3>3, <3>4
  <2>2. CASE attr' = attr /\ stored' = [stored EXCEPT ![o] = None] /\ strayed' = TRUE
    <3>1. o \notin Keeping'
      BY <1>3, <2>2 DEF Keeping
    <3>2. Own'
      BY <1>2, <1>7, <3>1, OwnStep
    <3>3. Named'
      BY <1>2, <1>8, <2>2, NamedStep
    <3>4. Strays'
      BY <2>2 DEF Strays
    <3> QED BY <3>2, <3>3, <3>4
  <2> QED BY <1>2, <2>1, <2>2
<1>10. attr' \in [Places -> Descriptor \cup {NoAttr}] /\ stored' \in [Places -> Values \cup {None}]
  BY <1>2, <1>3, <1>6
<1>11. bHdrPageChanged' \/ (~bHdrPageChanged /\ g.heads = file.heads)
  BY <1>2, <1>5, <1>6
<1> QED BY <1>2, <1>6, <1>9, <1>10, <1>11, StepInv

(* The handle takes the heads of page 0. *)
LEMMA OpenFileInv ==
  ASSUME AttrInv, OpenFile
  PROVE  AttrInv'
<1>1. /\ ~bFileOpen /\ file' = [file EXCEPT !.heads = page0]
      /\ bFileOpen' = TRUE /\ UNCHANGED <<page0, attr, stored, robbed, strayed>>
      /\ file \in FileRec /\ page0 \in Heads /\ ListsOk(page0, file.pages)
  BY DEF OpenFile, AttrInv, history
<1>2. PICK g : g = file'
  OBVIOUS
<1>3. /\ g \in FileRec /\ g.heads = page0 /\ g.pages = file.pages /\ g.numPages = file.numPages
  BY <1>1, <1>2 DEF FileRec
<1>4. PagesOk(g) /\ \A a, v : Holds(file, a, v) => Holds(g, a, v)
  BY <1>3 DEF AttrInv, PagesOk, Holds
<1>5. \A o \in Keeping : attr[o] \in Descriptor /\ Holds(g, attr[o], stored[o])
  BY <1>4, PlaceFacts
<1>6. Own'
  BY <1>1, <1>2, <1>5 DEF AttrInv, Own, Keeping
<1>7. Named' /\ Strays'
  BY <1>1, <1>2, <1>3 DEF AttrInv, Named, Strays
<1> QED BY <1>1, <1>2, <1>3, <1>4, <1>6, <1>7 DEF AttrInv

(* closeFile writes the heads of some classes to page 0 and forgets the    *)
(* others.                                                                 *)
LEMMA CloseFileInv ==
  ASSUME AttrInv, CloseFile
  PROVE  AttrInv'
<1>1. /\ bFileOpen /\ page0' = HeadsWritten /\ UNCHANGED <<file, attr, stored, robbed, strayed>>
      /\ \/ bFileOpen' = FALSE
         \/ UNCHANGED <<bFileOpen, bHdrPageChanged>>
  BY DEF CloseFile, history
<1>2. PICK z : z = page0'
  OBVIOUS
<1>3. /\ z \in Heads
      /\ \A k \in KeptClasses : z[k] = file.heads[k]
      /\ \A k \in Classes \ KeptClasses : z[k] = RM_NO_FREE_PAGE
  <2>1. z = [k \in Classes |-> IF bHdrPageChanged /\ k \in KeptClasses
                               THEN file.heads[k] ELSE page0[k]]
    BY <1>1, <1>2 DEF HeadsWritten
  <2>2. file.heads \in Heads /\ page0 \in Heads
    BY PlaceFacts DEF FileRec
  <2>3. z \in Heads
    BY <2>1, <2>2 DEF Heads
  <2>4. \A k \in KeptClasses : z[k] = file.heads[k]
    BY <1>1, <2>1, PlaceFacts, Numbers
  <2> QED BY <2>1, <2>3, <2>4, PlaceFacts
<1>4. ListsOk(file.heads, file.pages)
  BY <1>1, PlaceFacts
<1>5. ListsOk(z, file.pages)
  <2>1. ASSUME NEW k \in Classes PROVE ListOk(z[k], file.pages, k)
    <3>1. CASE k \in KeptClasses
      BY <1>3, <1>4, <3>1 DEF ListsOk
    <3>2. CASE k \notin KeptClasses
      <4>1. Linked(Links(file.pages), RM_NO_FREE_PAGE, {}, RM_NO_FREE_PAGE)
        BY LinkedEmpty
      <4> QED BY <1>3, <3>2, <4>1 DEF ListOk
    <3> QED BY <3>1, <3>2
  <2> QED BY <2>1 DEF ListsOk
<1>6. Own' /\ Named' /\ Strays'
  BY <1>1 DEF AttrInv, Own, Keeping, Holds, Named, Strays
<1>7. file' \in FileRec /\ PagesOk(file')
  BY <1>1 DEF AttrInv
<1> QED BY <1>1, <1>2, <1>3, <1>4, <1>5, <1>6, <1>7 DEF AttrInv

(* A file just created. *)
LEMMA InitInv == Init => AttrInv
<1> SUFFICES ASSUME Init PROVE AttrInv
  OBVIOUS
<1>1. /\ file = [heads |-> NoHeads, pages |-> [p \in Pages |-> NoPage], numPages |-> 1]
      /\ bFileOpen = FALSE /\ page0 = NoHeads
      /\ attr = [o \in Places |-> NoAttr] /\ stored = [o \in Places |-> None] /\ robbed = {}
  BY DEF Init
<1>2. NoHeads \in Heads /\ \A k \in Classes : NoHeads[k] = RM_NO_FREE_PAGE
  BY Numbers DEF NoHeads, Heads
<1>3. file \in FileRec
  <2>1. 1 \in 1 .. MaxPages + 1 /\ [p \in Pages |-> NoPage] \in [Pages -> PageRec]
    BY Numbers, NoPageFacts
  <2> QED BY <1>1, <1>2, <2>1 DEF FileRec
<1>4. PagesOk(file)
  BY <1>1, Numbers DEF PagesOk
<1>5. ListsOk(page0, file.pages)
  <2>1. ASSUME NEW k \in Classes PROVE ListOk(RM_NO_FREE_PAGE, file.pages, k)
    <3>1. RoomIn(file.pages, k) = {}
      BY <1>1, NoPageFacts, Numbers DEF RoomIn
    <3>2. Linked(Links(file.pages), RM_NO_FREE_PAGE, {}, RM_NO_FREE_PAGE)
      BY LinkedEmpty
    <3> QED BY <3>1, <3>2 DEF ListOk
  <2> QED BY <1>1, <1>2, <2>1 DEF ListsOk
<1>6. Own /\ Named /\ Strays
  BY <1>1 DEF Own, Keeping, Named, Strays
<1> QED BY <1>1, <1>2, <1>3, <1>4, <1>5, <1>6 DEF AttrInv

(* AttrInv is inductive. *)
LEMMA NextInv == AttrInv /\ [Next]_vars => AttrInv'
<1> SUFFICES ASSUME AttrInv, [Next]_vars PROVE AttrInv'
  OBVIOUS
<1>1. CASE UNCHANGED vars
  BY <1>1 DEF vars, history, AttrInv, Own, Keeping, PagesOk, Holds, Named, Strays
<1>2. CASE OpenFile \/ CloseFile
  BY <1>2, OpenFileInv, CloseFileInv
<1>3. ASSUME NEW o \in Places,
             \/ DeleteVarValue(o) \/ UpdateLosesValue(o) \/ FreedBefore(o) \/ ForgetValue(o)
             \/ \E k \in Classes, v \in Values : InsertVarValue(o, k, v) \/ UpdateVarValue(o, k, v)
      PROVE  AttrInv'
  <2>1. CASE FreedBefore(o)
    BY <2>1 DEF FreedBefore, history, AttrInv, Own, Keeping, PagesOk, Holds, Named, Strays
  <2>2. CASE ~FreedBefore(o)
    BY <1>3, <2>2, DeleteInv, ForgetInv, InsertInv, UpdateInv
  <2> QED BY <2>1, <2>2
<1> QED BY <1>1, <1>2, <1>3 DEF Next

LEMMA AlwaysInv == Spec => []AttrInv
<1>1. Init => AttrInv
  BY InitInv
<1>2. AttrInv /\ [Next]_vars => AttrInv'
  BY NextInv
<1> QED BY <1>1, <1>2, PTL DEF Spec

(* A value whose insert or update returned 0 is where its record says, in  *)
(* a slot that no other record names, however values move between classes, *)
(* pages fill and come back, and calls fail, until it is given up or a     *)
(* call on another record's descriptor of the same slot frees it; and that *)
(* takes an earlier call that left its record the descriptor of a freed    *)
(* slot, which the code does not clear and no caller can tell.             *)
THEOREM AttrValuesKept == Spec => []ValuesKept
<1>1. ASSUME AttrInv, NEW o \in Keeping
      PROVE  LET page == file.pages[attr[o].page]
             IN  /\ page.class = attr[o].class
                 /\ attr[o].slot \in DOMAIN page.slots /\ attr[o].slot <= NumRecords[page.class]
                 /\ Seen(o) = stored[o]
  <2>1. PICK a, page : a = attr[o] /\ page = file.pages[a.page]
    OBVIOUS
  <2>2. /\ a \in Descriptor /\ page.class = a.class /\ a.slot \in DOMAIN page.slots
        /\ page.slots[a.slot] = stored[o]
    BY <1>1, <2>1 DEF AttrInv, Own, Holds
  <2>3. a.class \in Classes /\ a.page \in Pages
    BY <2>2 DEF Descriptor
  <2>4. DOMAIN page.slots \subseteq 1 .. NumRecords[page.class]
    BY <1>1, <2>1, <2>2, <2>3, NoPageFacts, Numbers DEF AttrInv, PagesOk
  <2> QED BY <2>1, <2>2, <2>3, <2>4, Numbers DEF Seen
<1>2. ASSUME AttrInv, NEW o \in Keeping, NEW q \in Keeping, attr[o] = attr[q]
      PROVE  o = q
  BY <1>2 DEF AttrInv, Own
<1>3. AttrInv => (robbed # {} => strayed)
  BY DEF AttrInv, Strays
<1>4. AttrInv => ValuesKept
  BY <1>1, <1>2, <1>3 DEF ValuesKept
<1> QED BY <1>4, AlwaysInv, PTL

(* The list of every size class has pages of that class with room, each    *)
(* once, and all of them if closeFile writes the head of that list.        *)
THEOREM AttrRoomListsSound == Spec => []RoomListsSound
<1>1. ASSUME AttrInv, bFileOpen, NEW k \in Classes
      PROVE  \E on \in SUBSET WithRoom(k) :
               /\ ChainIs([p \in Pages |-> file.pages[p].nextPage], file.heads[k], on, RM_NO_FREE_PAGE)
               /\ k \in KeptClasses => on = WithRoom(k)
  <2>1. PICK S \in SUBSET RoomIn(file.pages, k) :
          /\ Linked(Links(file.pages), file.heads[k], S, RM_NO_FREE_PAGE)
          /\ k \in KeptClasses => S = RoomIn(file.pages, k)
    BY <1>1, PlaceFacts DEF ListsOk, ListOk
  <2>2. RoomIn(file.pages, k) = WithRoom(k)
    BY DEF RoomIn, WithRoom
  <2>3. ChainIs(Links(file.pages), file.heads[k], S, RM_NO_FREE_PAGE)
    BY <2>1, LinkedIsChain
  <2> QED BY <2>1, <2>2, <2>3 DEF Links
<1>2. AttrInv => RoomListsSound
  BY <1>1 DEF RoomListsSound
<1> QED BY <1>2, AlwaysInv, PTL
=============================================================================
