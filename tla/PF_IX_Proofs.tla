---------------------------- MODULE PF_IX_Proofs -----------------------------
(***************************************************************************)
(* Proofs about paged files, and about the index, whose nodes are pages of *)
(* such a file.                                                            *)
(*                                                                         *)
(* The paged file of storage/pf_filehandle.cpp is sound, for any number of *)
(* pages, whatever data they hold: its free list, a list through the links *)
(* of disposed pages, has the pages that are not in use, each once.        *)
(* FreeListExact is not inductive.  FileInv adds the soundness of the file *)
(* while it is closed, that an unchanged header in the handle is the one in *)
(* the file, that only pages in use are pinned, and that a page the pool   *)
(* lacks is not on the disk either.  The list is said by a path (Lemmas).  *)
(*                                                                         *)
(* A search of the index of storage/ix_indexhandle.cpp finds the rows that *)
(* were inserted and not deleted, for any rows, keys, degree and number of *)
(* pages.  SearchExact is not inductive.  IndexInv says what a tree of one *)
(* level of inner nodes looks like (Holds): leaves that each have rows     *)
(* with their keys in order, fewer than the degree, and separators that    *)
(* lead to each leaf for its keys (Tiled); and that the header in the file *)
(* is the handle's unless that is marked as changed.  Links between leaves *)
(* are no part of it: splits leave some of them wrong.                     *)
(*                                                                         *)
(* A scan needs other facts, which hold at any height as long as no leaf   *)
(* was emptied (GrownInv): each row is in one leaf, the links lead through *)
(* all leaves from the one that the first children lead to, and while      *)
(* there is one level of inner nodes that is the order of their keys.      *)
(* That the split of a node keeps this is the longest proof: it goes up    *)
(* through nodes of which only the lowest is a leaf.                       *)
(***************************************************************************)
EXTENDS PF_FileHandle, IX_IndexScan, Lemmas, SequenceTheorems

InFile(h) == 0 .. h.numPages - 1
Links(h, f) == [p \in InFile(h) |-> f[p].nextFree]
Free(h, f) == {p \in InFile(h) : f[p].nextFree # PF_PAGE_USED}

(* Header h and pages f make a file, the free list said by a path along it. *)
Sound(h, f) ==
  /\ \A p \in Pages : p < h.numPages <=> f[p] # Absent
  /\ Linked(Links(h, f), h.firstFree, Free(h, f), PF_PAGE_LIST_END)

(* A client pins pages in use only. *)
PinsOnUsed == \A p \in Pages : pins[p] > 0 => content[p] # Absent /\ IsUsed(p)

(* What the file lacks is what was not written yet. *)
FileInv ==
  /\ TypeOK /\ PinsOnUsed
  /\ \A p \in Pages : content[p] = Absent => disk[p] = Absent
  /\ IF bFileOpen
     THEN Sound(hdr, content) /\ (~bHdrChanged => fileHdr = hdr)
     ELSE Sound(fileHdr, content) /\ disk = content
-----------------------------------------------------------------------------
(* What Sound says, in the words of the model. *)
LEMMA SoundIsFile ==
  ASSUME NEW h, NEW f, Sound(h, f)
  PROVE  FileSound(h, f)
BY LinkedIsChain DEF Sound, FileSound, Links, Free, InFile

(* Pages, links and holes. *)
LEMMA PageFacts ==
  /\ \A l \in Link, d \in Data : Page(l, d) \in PageOrAbsent /\ Page(l, d) # Absent
  /\ \A q \in PageOrAbsent : q # Absent => q.nextFree \in Link /\ q.data \in Data
  /\ PF_PAGE_USED \in Link /\ PF_PAGE_LIST_END \in Link /\ PF_PAGE_LIST_END # PF_PAGE_USED
  /\ PF_PAGE_LIST_END \notin Pages /\ Hole \in PageOrAbsent /\ Absent \in PageOrAbsent
<1>1. Link \subseteq Int /\ 0 \in Link
  BY FileAssumption DEF Link, PF_PAGE_USED, PF_PAGE_LIST_END, Pages
<1>2. \A l \in Link, d \in Data :
        /\ [nextFree |-> l, data |-> d] \in [nextFree : Link, data : Data]
        /\ [nextFree |-> l, data |-> d] \in [nextFree : Int, data : Data]
  BY <1>1
<1>3. \A l \in Link, d \in Data : Page(l, d) \in PageOrAbsent /\ Page(l, d) # Absent
  BY <1>2, FileAssumption DEF Page, PageOrAbsent
<1>4. Hole \in PageOrAbsent
  BY <1>1, <1>3, FileAssumption DEF Hole
<1>5. /\ PF_PAGE_USED \in Link /\ PF_PAGE_LIST_END \in Link
      /\ PF_PAGE_LIST_END # PF_PAGE_USED /\ PF_PAGE_LIST_END \notin Pages
  BY DEF Link, PF_PAGE_USED, PF_PAGE_LIST_END, Pages
<1>6. \A q \in PageOrAbsent : q # Absent => q.nextFree \in Link /\ q.data \in Data
  BY DEF PageOrAbsent
<1> QED BY <1>3, <1>4, <1>5, <1>6 DEF PageOrAbsent

(* A sound file: which pages it has, and where its links lead. *)
LEMMA FileFacts ==
  ASSUME NEW h \in Header, NEW f \in [Pages -> PageOrAbsent], Sound(h, f)
  PROVE  /\ InFile(h) \subseteq Pages /\ h.numPages \in 0 .. MaxPages
         /\ \A p \in Pages : p \in InFile(h) <=> f[p] # Absent
         /\ h.firstFree \in Free(h, f) \cup {PF_PAGE_LIST_END}
         /\ \A p \in Free(h, f) : f[p].nextFree \in Free(h, f) \cup {PF_PAGE_LIST_END}
         /\ PF_PAGE_LIST_END \notin Free(h, f)
<1>1. h.numPages \in 0 .. MaxPages
  BY DEF Header
<1>2. InFile(h) \subseteq Pages
  BY <1>1, FileAssumption DEF InFile, Pages
<1>3. PF_PAGE_LIST_END \notin Free(h, f)
  BY <1>2, PageFacts DEF Free
<1>4. Linked(Links(h, f), h.firstFree, Free(h, f), PF_PAGE_LIST_END)
  BY DEF Sound
<1>5. \A p \in Free(h, f) : Links(h, f)[p] = f[p].nextFree
  BY DEF Free, Links
<1>6. \A p \in Pages : p \in InFile(h) <=> f[p] # Absent
  BY <1>1 DEF InFile, Pages, Sound
<1> QED BY <1>1, <1>2, <1>3, <1>4, <1>5, <1>6, LinkedHead

(* allocatePage takes the head of the free list. *)
LEMMA ReuseSound ==
  ASSUME NEW h \in Header, NEW f \in [Pages -> PageOrAbsent], Sound(h, f),
         h.firstFree # PF_PAGE_LIST_END,
         NEW h2, h2 = [h EXCEPT !.firstFree = f[@].nextFree],
         NEW f2, f2 = [f EXCEPT ![h.firstFree] = Page(PF_PAGE_USED, Zero)]
  PROVE  /\ h.firstFree \in Free(h, f) /\ h.firstFree \in Pages
         /\ h2 \in Header /\ f2 \in [Pages -> PageOrAbsent] /\ Sound(h2, f2)
<1> DEFINE p == h.firstFree
<1>1. p \in Free(h, f) /\ p \in Pages /\ f[p] # Absent
  BY FileFacts DEF Free
<1>2. f[p].nextFree \in Link
  BY <1>1, PageFacts
<1>3. h2 \in Header /\ h2.firstFree = f[p].nextFree /\ h2.numPages = h.numPages
  BY <1>2 DEF Header
<1>4. /\ f2 \in [Pages -> PageOrAbsent] /\ f2[p] = Page(PF_PAGE_USED, Zero)
      /\ \A q \in Pages : q # p => f2[q] = f[q]
  BY <1>1, PageFacts, FileAssumption
<1>5. f2[p] # Absent /\ f2[p].nextFree = PF_PAGE_USED
  BY <1>4, PageFacts, FileAssumption DEF Page
<1> HIDE DEF p
<1>6. Free(h2, f2) = Free(h, f) \ {p}
  BY <1>3, <1>4, <1>5, FileFacts DEF Free, InFile
<1>7. Linked(Links(h, f), Links(h, f)[p], Free(h, f) \ {p}, PF_PAGE_LIST_END)
  BY FileFacts, LinkedPop DEF Sound, p
<1>8. /\ DOMAIN Links(h2, f2) = InFile(h) /\ Free(h, f) \ {p} \subseteq InFile(h)
      /\ \A q \in Free(h, f) \ {p} : Links(h2, f2)[q] = Links(h, f)[q]
      /\ Links(h, f)[p] = h2.firstFree
  BY <1>1, <1>3, <1>4, FileFacts DEF Links, Free, InFile
<1>9. Linked(Links(h2, f2), h2.firstFree, Free(h2, f2), PF_PAGE_LIST_END)
  <2>1. Linked(Links(h2, f2), Links(h, f)[p], Free(h, f) \ {p}, PF_PAGE_LIST_END)
    <3>1. Free(h, f) \ {p} \subseteq DOMAIN Links(h2, f2)
      BY <1>8
    <3> QED BY <1>7, <1>8, <3>1, LinkedSame
  <2> QED BY <1>6, <1>8, <2>1
<1> QED BY <1>1, <1>3, <1>4, <1>5, <1>9 DEF Sound, p

Longer(h) == [h EXCEPT !.numPages = @ + 1]
(* allocatePage puts a page behind the last. *)
LEMMA NewSound ==
  ASSUME NEW h \in Header, NEW f \in [Pages -> PageOrAbsent], Sound(h, f),
         h.firstFree = PF_PAGE_LIST_END, h.numPages < MaxPages,
         NEW h2, h2 = Longer(h),
         NEW f2, f2 = [f EXCEPT ![h.numPages] = Page(PF_PAGE_USED, Zero)]
  PROVE  /\ h.numPages \in Pages /\ f[h.numPages] = Absent
         /\ h2 \in Header /\ f2 \in [Pages -> PageOrAbsent] /\ Sound(h2, f2)
<1> DEFINE p == h.numPages
<1>1. p \in Pages /\ p \in Nat /\ f[p] = Absent
  BY FileFacts, FileAssumption DEF Pages, Sound
<1>3. h2 \in Header /\ h2.firstFree = h.firstFree /\ h2.numPages = p + 1
  BY <1>1, FileAssumption DEF Header, Pages, Longer
<1>4. /\ f2 \in [Pages -> PageOrAbsent] /\ f2[p] = Page(PF_PAGE_USED, Zero)
      /\ \A q \in Pages : q # p => f2[q] = f[q]
  BY <1>1, PageFacts, FileAssumption
<1>5. f2[p] # Absent /\ f2[p].nextFree = PF_PAGE_USED
  BY <1>4, PageFacts, FileAssumption DEF Page
<1>6. InFile(h) = 0 .. p - 1 /\ InFile(h2) = InFile(h) \cup {p} /\ p \notin InFile(h)
  BY <1>1, <1>3 DEF InFile
<1>7. Free(h2, f2) = Free(h, f)
  BY <1>4, <1>5, <1>6, FileFacts DEF Free
<1>8. \A q \in Free(h, f) : q \in InFile(h2) /\ Links(h2, f2)[q] = Links(h, f)[q]
  BY <1>4, <1>6, FileFacts DEF Links, Free
<1>9. Linked(Links(h2, f2), h2.firstFree, Free(h2, f2), PF_PAGE_LIST_END)
  <2>1. Linked(Links(h, f), h.firstFree, Free(h, f), PF_PAGE_LIST_END)
    BY DEF Sound
  <2>2. DOMAIN Links(h2, f2) = InFile(h2)
    BY DEF Links
  <2>3. Free(h, f) \subseteq DOMAIN Links(h2, f2)
    BY <1>8, <2>2
  <2>4. PICK s, s2 : s = Links(h, f) /\ s2 = Links(h2, f2)
    OBVIOUS
  <2>5. \A q \in Free(h, f) : s2[q] = s[q]
    BY <1>8, <2>4
  <2>6. Linked(s2, h.firstFree, Free(h, f), PF_PAGE_LIST_END)
    BY <2>1, <2>3, <2>4, <2>5, LinkedSame
  <2> QED BY <1>3, <1>7, <2>4, <2>6
<1>10. \A q \in Pages : q < h2.numPages <=> f2[q] # Absent
  BY <1>1, <1>3, <1>4, <1>5 DEF Sound, Pages
<1> QED BY <1>1, <1>3, <1>4, <1>9, <1>10 DEF Sound

(* disposePage puts a page in front of the free list. *)
LEMMA DisposeSound ==
  ASSUME NEW h \in Header, NEW f \in [Pages -> PageOrAbsent], Sound(h, f),
         NEW p \in InFile(h), f[p].nextFree = PF_PAGE_USED,
         NEW h2, h2 = [h EXCEPT !.firstFree = p],
         NEW f2, f2 = [f EXCEPT ![p].nextFree = h.firstFree]
  PROVE  h2 \in Header /\ f2 \in [Pages -> PageOrAbsent] /\ Sound(h2, f2)
<1>1. p \in Pages /\ f[p] # Absent /\ h.firstFree \in Link
  BY FileFacts DEF Header
<1>2. f[p] \in [nextFree : Link, data : Data]
  BY <1>1 DEF PageOrAbsent
<1>3. h2 \in Header /\ h2.firstFree = p /\ h2.numPages = h.numPages
  BY <1>1 DEF Header, Link
<1>4. PICK e : e = [f[p] EXCEPT !.nextFree = h.firstFree]
  OBVIOUS
<1>5. e \in PageOrAbsent /\ e # Absent /\ e.nextFree = h.firstFree
  <2>1. e = Page(h.firstFree, f[p].data)
    BY <1>2, <1>4 DEF Page
  <2> QED BY <1>1, <1>2, <1>4, <2>1, PageFacts
<1>6. f2 = [f EXCEPT ![p] = e]
  BY <1>4
<1>7. /\ f2 \in [Pages -> PageOrAbsent] /\ f2[p] = e
      /\ \A q \in Pages : q # p => f2[q] = f[q]
  BY <1>1, <1>5, <1>6
<1>8. h.firstFree # PF_PAGE_USED /\ p \notin Free(h, f)
  BY FileFacts, PageFacts DEF Free, Pages, PF_PAGE_USED
<1>9. InFile(h2) = InFile(h) /\ Free(h2, f2) = Free(h, f) \cup {p}
  BY <1>3, <1>5, <1>7, <1>8, FileFacts DEF Free, InFile
<1>10. /\ Links(h2, f2)[p] = h.firstFree /\ DOMAIN Links(h2, f2) = InFile(h)
       /\ Free(h, f) \subseteq InFile(h)
       /\ \A q \in Free(h, f) : Links(h2, f2)[q] = Links(h, f)[q]
  BY <1>5, <1>7, <1>8, <1>9, FileFacts DEF Links, Free
<1>11. Linked(Links(h2, f2), p, Free(h2, f2), PF_PAGE_LIST_END)
  <2>1. Linked(Links(h, f), h.firstFree, Free(h, f), PF_PAGE_LIST_END)
    BY DEF Sound
  <2>2. p \in DOMAIN Links(h2, f2) /\ Free(h, f) \subseteq DOMAIN Links(h2, f2)
    BY <1>10
  <2>3. PICK s, s2 : s = Links(h, f) /\ s2 = Links(h2, f2)
    OBVIOUS
  <2>4. s2[p] = h.firstFree /\ \A q \in Free(h, f) : s2[q] = s[q]
    BY <1>10, <2>3
  <2>5. Linked(s2, p, Free(h, f) \cup {p}, PF_PAGE_LIST_END)
    BY <1>8, <2>1, <2>2, <2>3, <2>4, LinkedPush
  <2> QED BY <1>9, <2>3, <2>5
<1>12. \A q \in Pages : q < h2.numPages <=> f2[q] # Absent
  BY <1>1, <1>3, <1>5, <1>7 DEF Sound
<1> QED BY <1>3, <1>7, <1>11, <1>12 DEF Sound

(* A store into a page that leaves its link alone. *)
Store(f, p, d) == [f EXCEPT ![p].data = d]
LEMMA StoreSound ==
  ASSUME NEW h \in Header, NEW f \in [Pages -> PageOrAbsent], Sound(h, f),
         NEW p \in InFile(h), NEW d \in Data, NEW f2, f2 = Store(f, p, d)
  PROVE  /\ f2 \in [Pages -> PageOrAbsent] /\ Sound(h, f2)
         /\ f2[p] # Absent /\ f2[p].nextFree = f[p].nextFree
         /\ \A q \in Pages : q # p => f2[q] = f[q]
<1>1. p \in Pages /\ f[p] # Absent
  BY FileFacts
<1>2. f[p] \in [nextFree : Link, data : Data]
  BY <1>1 DEF PageOrAbsent
<1>4. PICK e : e = [f[p] EXCEPT !.data = d]
  OBVIOUS
<1>5. e \in PageOrAbsent /\ e # Absent /\ e.nextFree = f[p].nextFree
  <2>1. e = Page(f[p].nextFree, d)
    BY <1>2, <1>4 DEF Page
  <2> QED BY <1>1, <1>2, <1>4, <2>1, PageFacts
<1>6. f2 = [f EXCEPT ![p] = e]
  BY <1>4 DEF Store
<1>7. /\ f2 \in [Pages -> PageOrAbsent] /\ f2[p] = e
      /\ \A q \in Pages : q # p => f2[q] = f[q]
  BY <1>1, <1>5, <1>6
<1>8. Free(h, f2) = Free(h, f) /\ Links(h, f2) = Links(h, f)
  BY <1>5, <1>7, FileFacts DEF Free, Links
<1> QED BY <1>1, <1>5, <1>7, <1>8 DEF Sound

-----------------------------------------------------------------------------
(* Pages written to the file. *)
LEMMA LoadedFacts ==
  ASSUME FileInv
  PROVE  /\ \A p \in Loaded, q \in Pages : q < p => q \in Loaded
         /\ \A p \in Pages : p \notin Loaded => disk[p] = Absent
<1> DEFINE h == IF bFileOpen THEN hdr ELSE fileHdr
<1>1. h \in Header /\ Sound(h, content)
  BY DEF FileInv, TypeOK
<1>2. h.numPages \in 0 .. MaxPages
  BY <1>1 DEF Header
<1> HIDE DEF h
<1>3. ASSUME NEW p \in Loaded, NEW q \in Pages, q < p PROVE q \in Loaded
  BY <1>1, <1>2, <1>3 DEF Loaded, Sound, Pages
<1>4. \A p \in Pages : p \notin Loaded => disk[p] = Absent
  BY DEF FileInv, Loaded
<1> QED BY <1>3, <1>4

LEMMA WrittenFacts ==
  ASSUME FileInv, NEW S \in SUBSET Loaded
  PROVE  /\ Written(S) \in [Pages -> PageOrAbsent]
         /\ \A p \in Pages : content[p] = Absent => Written(S)[p] = Absent
         /\ S = Loaded => Written(S) = content
<1>1. S \subseteq Pages /\ content \in [Pages -> PageOrAbsent] /\ disk \in [Pages -> PageOrAbsent]
  BY DEF Loaded, FileInv, TypeOK
<1>2. Written(S) \in [Pages -> PageOrAbsent]
  BY <1>1, PageFacts DEF Written
<1>3. ASSUME NEW p \in Pages, content[p] = Absent PROVE Written(S)[p] = Absent
  <2>1. p \notin Loaded /\ disk[p] = Absent /\ p \notin S
    BY <1>3 DEF Loaded, FileInv
  <2>2. ~ \E q \in S : p < q
    BY <2>1, LoadedFacts
  <2> QED BY <1>3, <2>1, <2>2 DEF Written
<1>4. ASSUME S = Loaded PROVE Written(S) = content
  <2>1. ASSUME NEW p \in Pages PROVE Written(S)[p] = content[p]
    BY <1>3, <1>4 DEF Written, Loaded
  <2>2. DOMAIN Written(S) = Pages /\ DOMAIN content = Pages
    BY <1>1, <1>2
  <2> QED BY <1>1, <1>2, <2>1
<1> QED BY <1>2, <1>3, <1>4

(* The handle, in terms of the pages that are there. *)
LEMMA OpenFacts ==
  ASSUME FileInv, bFileOpen
  PROVE  /\ hdr \in Header /\ content \in [Pages -> PageOrAbsent] /\ Sound(hdr, content)
         /\ \A p \in Pages : isValidPageNum(p) <=> p \in InFile(hdr)
         /\ \A p \in Pages : p \in InFile(hdr) => content[p] # Absent
<1>1. hdr \in Header /\ content \in [Pages -> PageOrAbsent] /\ Sound(hdr, content)
  BY DEF FileInv, TypeOK
<1>2. \A p \in Pages : isValidPageNum(p) <=> p \in InFile(hdr)
  BY <1>1 DEF isValidPageNum, InFile, Pages, Header
<1> QED BY <1>1, <1>2, FileFacts

(* A page that is handed out is nobody's: not in use, and not pinned. *)
LEMMA HandOutInv ==
  ASSUME FileInv, bFileOpen, NEW p \in Pages, HandOut(p), content[p] # Absent => ~IsUsed(p),
         hdr' \in Header, content' \in [Pages -> PageOrAbsent], Sound(hdr', content')
  PROVE  FileInv'
<1>1. pins[p] = 0
  BY DEF FileInv, PinsOnUsed, TypeOK
<1>2. /\ content' = [content EXCEPT ![p] = Page(PF_PAGE_USED, Zero)]
      /\ pins' = [pins EXCEPT ![p] = @ + 1]
      /\ bHdrChanged' = TRUE /\ UNCHANGED <<bFileOpen, fileHdr, disk>>
  BY DEF HandOut
<1>3. content \in [Pages -> PageOrAbsent] /\ pins \in [Pages -> 0 .. MaxPins]
  BY DEF FileInv, TypeOK
<1>4. TypeOK'
  <2>1. 0 + 1 \in 0 .. MaxPins
    BY FileAssumption
  <2>2. pins' \in [Pages -> 0 .. MaxPins]
    BY <1>1, <1>2, <1>3, <2>1
  <2> QED BY <1>2, <2>2 DEF FileInv, TypeOK
<1>5. /\ content'[p] # Absent /\ content'[p].nextFree = PF_PAGE_USED
      /\ \A q \in Pages : q # p => content'[q] = content[q] /\ pins'[q] = pins[q]
  <2>1. content'[p] = Page(PF_PAGE_USED, Zero)
    BY <1>2, <1>3
  <2>2. content'[p] # Absent /\ content'[p].nextFree = PF_PAGE_USED
    BY <2>1, PageFacts, FileAssumption DEF Page
  <2> QED BY <1>2, <1>3, <2>2
<1>6. PinsOnUsed'
  BY <1>5 DEF FileInv, PinsOnUsed, IsUsed
<1>7. \A q \in Pages : content'[q] = Absent => disk'[q] = Absent
  BY <1>2, <1>5 DEF FileInv
<1> QED BY <1>2, <1>4, <1>6, <1>7 DEF FileInv

(* Each action keeps FileInv. *)
LEMMA AllocateInv ==
  ASSUME FileInv, AllocateReuse \/ AllocateNew
  PROVE  FileInv'
<1>1. CASE AllocateReuse
  <2>1. /\ bFileOpen /\ hdr.firstFree # PF_PAGE_LIST_END /\ HandOut(hdr.firstFree)
        /\ hdr' = [hdr EXCEPT !.firstFree = content[@].nextFree]
    BY <1>1 DEF AllocateReuse
  <2>2. content' = [content EXCEPT ![hdr.firstFree] = Page(PF_PAGE_USED, Zero)]
    BY <2>1 DEF HandOut
  <2>3. /\ hdr.firstFree \in Free(hdr, content) /\ hdr.firstFree \in Pages
        /\ hdr' \in Header /\ content' \in [Pages -> PageOrAbsent] /\ Sound(hdr', content')
    BY <2>1, <2>2, OpenFacts, ReuseSound
  <2>4. ~IsUsed(hdr.firstFree)
    BY <2>3 DEF Free, IsUsed
  <2> QED BY <2>1, <2>3, <2>4, HandOutInv
<1>2. CASE AllocateNew
  <2>1. /\ bFileOpen /\ hdr.firstFree = PF_PAGE_LIST_END /\ hdr.numPages < MaxPages
        /\ HandOut(hdr.numPages) /\ hdr' = [hdr EXCEPT !.numPages = @ + 1]
    BY <1>2 DEF AllocateNew
  <2>2. content' = [content EXCEPT ![hdr.numPages] = Page(PF_PAGE_USED, Zero)]
    BY <2>1 DEF HandOut
  <2>3. /\ hdr.numPages \in Pages /\ content[hdr.numPages] = Absent
        /\ hdr' \in Header /\ content' \in [Pages -> PageOrAbsent] /\ Sound(hdr', content')
    <3>1. hdr \in Header /\ content \in [Pages -> PageOrAbsent] /\ Sound(hdr, content)
      BY <2>1, OpenFacts
    <3>2. PICK h2, f2 : h2 = hdr' /\ f2 = content'
      OBVIOUS
    <3>3. h2 = Longer(hdr)
      BY <2>1, <3>2 DEF Longer
    <3>4. f2 = [content EXCEPT ![hdr.numPages] = Page(PF_PAGE_USED, Zero)]
      BY <2>2, <3>2
    <3>5. hdr.firstFree = PF_PAGE_LIST_END /\ hdr.numPages < MaxPages
      BY <2>1
    <3>6. /\ hdr.numPages \in Pages /\ content[hdr.numPages] = Absent
          /\ h2 \in Header /\ f2 \in [Pages -> PageOrAbsent] /\ Sound(h2, f2)
      BY <3>1, <3>3, <3>4, <3>5, NewSound
    <3> QED BY <3>2, <3>6
  <2> QED BY <2>1, <2>3, HandOutInv
<1> QED BY <1>1, <1>2

(* The calls that only pin, unpin or return. *)
LEMMA PinsInv ==
  ASSUME FileInv, UNCHANGED <<handle, fileHdr, content, disk>>,
         pins' \in [Pages -> 0 .. MaxPins],
         \A p \in Pages : pins'[p] > pins[p] => content[p] # Absent /\ IsUsed(p)
  PROVE  FileInv'
<1>1. UNCHANGED <<hdr, bHdrChanged, bFileOpen, fileHdr, content, disk>>
  BY DEF handle
<1>2. TypeOK'
  BY <1>1 DEF FileInv, TypeOK
<1>3. ASSUME NEW p \in Pages, pins'[p] > 0
      PROVE  content'[p] # Absent /\ content'[p].nextFree = PF_PAGE_USED
  <2>1. pins[p] \in 0 .. MaxPins /\ pins'[p] \in 0 .. MaxPins
    BY DEF FileInv, TypeOK
  <2>2. pins[p] > 0 \/ pins'[p] > pins[p]
    BY <1>3, <2>1
  <2> QED BY <1>1, <2>2 DEF FileInv, PinsOnUsed, IsUsed
<1>4. PinsOnUsed'
  BY <1>3 DEF PinsOnUsed, IsUsed
<1> QED BY <1>1, <1>2, <1>4 DEF FileInv

LEMMA ReturnInv ==
  ASSUME FileInv, NEW code, Return(code)
  PROVE  FileInv'
<1>1. UNCHANGED <<handle, fileHdr, content, disk, pins>> /\ pins \in [Pages -> 0 .. MaxPins]
  BY DEF Return, FileInv, TypeOK
<1> QED BY <1>1, PinsInv

LEMMA PinInv ==
  ASSUME FileInv, bFileOpen, NEW p \in Pages, Pin(p), p \in InFile(hdr), IsUsed(p)
  PROVE  FileInv'
<1>1. /\ pins[p] < MaxPins /\ pins' = [pins EXCEPT ![p] = @ + 1]
      /\ UNCHANGED <<handle, fileHdr, content, disk>> /\ pins \in [Pages -> 0 .. MaxPins]
      /\ content[p] # Absent
  BY OpenFacts DEF Pin, FileInv, TypeOK
<1>2. pins[p] \in 0 .. MaxPins /\ pins[p] + 1 \in 0 .. MaxPins
  BY <1>1, FileAssumption
<1>3. pins' \in [Pages -> 0 .. MaxPins] /\ \A q \in Pages : q # p => pins'[q] = pins[q]
  BY <1>1, <1>2
<1>4. \A q \in Pages : ~(pins[q] > pins[q])
  BY <1>1
<1>5. \A q \in Pages : pins'[q] > pins[q] => content[q] # Absent /\ IsUsed(q)
  BY <1>1, <1>3, <1>4
<1> QED BY <1>1, <1>3, <1>5, PinsInv

(* Calls that change a page or write to the file. *)
LEMMA DisposeInv ==
  ASSUME FileInv, NEW p \in Pages, DisposePage(p)
  PROVE  FileInv'
<1>1. CASE \E code \in {"PF_INVALIDPAGE", "PF_PAGEPINNED", "PF_PAGEFREE"} : Return(code)
  BY <1>1, ReturnInv
<1>2. CASE /\ bFileOpen /\ isValidPageNum(p) /\ pins[p] = 0 /\ IsUsed(p)
           /\ content' = [content EXCEPT ![p].nextFree = hdr.firstFree]
           /\ hdr' = [hdr EXCEPT !.firstFree = p]
           /\ bHdrChanged' = TRUE
           /\ UNCHANGED <<bFileOpen, fileHdr, disk, pins>>
  <2>1. p \in InFile(hdr) /\ content[p] # Absent /\ content[p].nextFree = PF_PAGE_USED
    BY <1>2, OpenFacts DEF IsUsed
  <2>2. hdr' \in Header /\ content' \in [Pages -> PageOrAbsent] /\ Sound(hdr', content')
    BY <1>2, <2>1, OpenFacts, DisposeSound
  <2>3. TypeOK'
    BY <1>2, <2>2 DEF FileInv, TypeOK
  <2>4. \A q \in Pages : q # p => content'[q] = content[q]
    BY <1>2, OpenFacts
  <2>5. PinsOnUsed'
    BY <1>2, <2>4 DEF FileInv, PinsOnUsed, IsUsed
  <2>6. \A q \in Pages : content'[q] = Absent => disk'[q] = Absent
    <3>1. content'[p] # Absent
      BY <2>1, <2>2, <1>2, OpenFacts DEF Sound, InFile, Header
    <3> QED BY <1>2, <2>4, <3>1 DEF FileInv
  <2> QED BY <1>2, <2>2, <2>3, <2>5, <2>6 DEF FileInv
<1> QED BY <1>1, <1>2 DEF DisposePage

LEMMA MarkDirtyInv ==
  ASSUME FileInv, NEW p \in Pages, NEW d \in Data, MarkDirty(p, d)
  PROVE  FileInv'
<1>1. /\ bFileOpen /\ isValidPageNum(p) /\ pins[p] > 0
      /\ content' = [content EXCEPT ![p].data = d]
      /\ UNCHANGED <<hdr, bHdrChanged, bFileOpen, fileHdr, disk, pins>>
  BY DEF MarkDirty, handle
<1>2. p \in InFile(hdr)
  BY <1>1, OpenFacts
<1>3. /\ content' \in [Pages -> PageOrAbsent] /\ Sound(hdr, content')
      /\ content'[p] # Absent /\ content'[p].nextFree = content[p].nextFree
      /\ \A q \in Pages : q # p => content'[q] = content[q]
  <2>1. hdr \in Header /\ content \in [Pages -> PageOrAbsent] /\ Sound(hdr, content)
    BY <1>1, OpenFacts
  <2>2. PICK f2 : f2 = content'
    OBVIOUS
  <2>3. f2 = Store(content, p, d)
    BY <1>1, <2>2 DEF Store
  <2>4. /\ f2 \in [Pages -> PageOrAbsent] /\ Sound(hdr, f2)
        /\ f2[p] # Absent /\ f2[p].nextFree = content[p].nextFree
        /\ \A q \in Pages : q # p => f2[q] = content[q]
    BY <1>2, <2>1, <2>3, StoreSound
  <2> QED BY <2>2, <2>4
<1>4. TypeOK'
  BY <1>1, <1>3 DEF FileInv, TypeOK
<1>5. PinsOnUsed'
  BY <1>1, <1>3 DEF FileInv, PinsOnUsed, IsUsed
<1>6. \A q \in Pages : content'[q] = Absent => disk'[q] = Absent
  BY <1>1, <1>3 DEF FileInv
<1> QED BY <1>1, <1>3, <1>4, <1>5, <1>6 DEF FileInv

(* The header may go out, and some pages. *)
LEMMA WriteInv ==
  ASSUME FileInv, bFileOpen, WriteHdr, UNCHANGED <<content, pins>>,
         NEW S \in SUBSET Loaded, disk' \in {disk, Written(S)}, bFileOpen' \in BOOLEAN,
         ~bFileOpen' => disk' = content
  PROVE  FileInv' /\ fileHdr' = hdr
<1>1. fileHdr' = hdr /\ hdr' = hdr /\ bHdrChanged' = FALSE
  BY DEF WriteHdr, FileInv, TypeOK
<1>2. disk' \in [Pages -> PageOrAbsent] /\ \A q \in Pages : content[q] = Absent => disk'[q] = Absent
  BY WrittenFacts DEF FileInv, TypeOK
<1>3. TypeOK'
  BY <1>1, <1>2 DEF FileInv, TypeOK
<1>4. PinsOnUsed'
  BY DEF FileInv, PinsOnUsed, IsUsed
<1> QED BY <1>1, <1>2, <1>3, <1>4, OpenFacts DEF FileInv

LEMMA EvictInv ==
  ASSUME FileInv, NEW p \in Pages, Evict(p)
  PROVE  FileInv'
<1>1. /\ p \in Loaded /\ disk[p] # content[p] /\ disk' = Written({p})
      /\ UNCHANGED <<hdr, bHdrChanged, bFileOpen, fileHdr, content, pins>>
  BY DEF Evict, handle
<1>2. bFileOpen
  BY <1>1 DEF FileInv
<1>3. disk' \in [Pages -> PageOrAbsent] /\ \A q \in Pages : content[q] = Absent => disk'[q] = Absent
  BY <1>1, WrittenFacts
<1>4. TypeOK'
  BY <1>1, <1>3 DEF FileInv, TypeOK
<1>5. PinsOnUsed'
  BY <1>1 DEF FileInv, PinsOnUsed, IsUsed
<1> QED BY <1>1, <1>2, <1>3, <1>4, <1>5 DEF FileInv

LEMMA FlushedInv ==
  ASSUME FileInv, Flushed, bFileOpen' = bFileOpen \/ bFileOpen' = (rc' # "OK")
  PROVE  FileInv'
<1>1. bFileOpen /\ WriteHdr /\ UNCHANGED <<content, pins>>
  BY DEF Flushed
<1>2. PICK S \in SUBSET Loaded : disk' = Written(S) /\ (rc' = "OK" => S = Loaded)
  BY DEF Flushed, Unpinned
<1>3. ~bFileOpen' => disk' = content
  BY <1>1, <1>2, WrittenFacts
<1>4. bFileOpen' \in BOOLEAN
  BY <1>1
<1> QED BY <1>1, <1>2, <1>3, <1>4, WriteInv

LEMMA ForcedInv ==
  ASSUME FileInv, ForcePages
  PROVE  /\ FileInv'
         /\ rc' = "OK" => fileHdr' = hdr /\ disk' = content /\ content' = content
<1>1. bFileOpen /\ WriteHdr /\ UNCHANGED <<bFileOpen, content, pins>>
  BY DEF ForcePages
<1>2. PICK S \in SUBSET Loaded : disk' = Written(S) /\ (rc' = "OK" => S = Loaded)
  BY DEF ForcePages
<1>3. FileInv' /\ fileHdr' = hdr
  BY <1>1, <1>2, WriteInv DEF FileInv, TypeOK
<1> QED BY <1>1, <1>2, <1>3, WrittenFacts

LEMMA ForceSingleInv ==
  ASSUME FileInv, NEW p \in Pages, ForceSinglePage(p)
  PROVE  FileInv'
<1>1. /\ bFileOpen /\ WriteHdr /\ UNCHANGED <<bFileOpen, content, pins>>
      /\ {p} \in SUBSET Loaded /\ disk' \in {disk, Written({p})}
  BY DEF ForceSinglePage
<1>2. bFileOpen' \in BOOLEAN /\ bFileOpen'
  BY <1>1 DEF FileInv, TypeOK
<1> QED BY <1>1, <1>2, WriteInv

(* Calls that change the handle or the pins only. *)
LEMMA OpenFileInv ==
  ASSUME FileInv, OpenFile
  PROVE  FileInv'
<1>1. /\ ~bFileOpen /\ hdr' = fileHdr /\ bHdrChanged' = FALSE /\ bFileOpen' = TRUE
      /\ UNCHANGED <<fileHdr, content, disk, pins>>
  BY DEF OpenFile
<1>2. TypeOK'
  BY <1>1 DEF FileInv, TypeOK
<1>3. PinsOnUsed'
  BY <1>1 DEF FileInv, PinsOnUsed, IsUsed
<1> QED BY <1>1, <1>2, <1>3 DEF FileInv

LEMMA GetThisPageInv ==
  ASSUME FileInv, NEW p \in Pages, GetThisPage(p)
  PROVE  FileInv'
<1>1. CASE isValidPageNum(p) /\ IsUsed(p)
  BY <1>1, OpenFacts, PinInv DEF GetThisPage
<1>2. CASE ~(isValidPageNum(p) /\ IsUsed(p))
  BY <1>2, ReturnInv DEF GetThisPage
<1> QED BY <1>1, <1>2

LEMMA NearestInv ==
  ASSUME FileInv, NEW p, GetNextPage(p) \/ GetPrevPage(p)
  PROVE  FileInv'
<1>1. bFileOpen /\ ((\E code : Return(code)) \/ \E q \in UsedPages : Pin(q))
  BY DEF GetNextPage, GetPrevPage
<1>2. ASSUME NEW q \in UsedPages, Pin(q) PROVE FileInv'
  <2>1. q \in InFile(hdr) /\ IsUsed(q)
    BY DEF UsedPages, InFile
  <2>2. q \in Pages
    BY <1>1, <2>1, OpenFacts, FileFacts
  <2> QED BY <1>1, <1>2, <2>1, <2>2, PinInv
<1> QED BY <1>1, <1>2, ReturnInv

LEMMA UnpinInv ==
  ASSUME FileInv, NEW p \in Pages, UnpinPage(p)
  PROVE  FileInv'
<1>1. CASE \E code : Return(code)
  BY <1>1, ReturnInv
<1>2. CASE /\ pins[p] > 0 /\ pins' = [pins EXCEPT ![p] = @ - 1]
           /\ UNCHANGED <<handle, fileHdr, content, disk>>
  <2>1. pins \in [Pages -> 0 .. MaxPins] /\ pins[p] \in 0 .. MaxPins
    BY DEF FileInv, TypeOK
  <2>2. pins[p] - 1 \in 0 .. MaxPins /\ ~(pins[p] - 1 > pins[p])
    BY <1>2, <2>1, FileAssumption
  <2>3. pins' \in [Pages -> 0 .. MaxPins] /\ \A q \in Pages : ~(pins'[q] > pins[q])
    BY <1>2, <2>1, <2>2
  <2> QED BY <1>2, <2>3, PinsInv
<1> QED BY <1>1, <1>2 DEF UnpinPage

(* FileInv is inductive. *)
LEMMA InitInv == Init => FileInv
<1> SUFFICES ASSUME Init PROVE FileInv
  OBVIOUS
<1>1. NoPages \in Header /\ NoPages.numPages = 0 /\ NoPages.firstFree = PF_PAGE_LIST_END
  BY FileAssumption DEF NoPages, Header, Link
<1>2. content = [p \in Pages |-> Absent] /\ disk = content /\ pins = [p \in Pages |-> 0]
      /\ hdr = NoPages /\ fileHdr = NoPages /\ bHdrChanged = FALSE /\ bFileOpen = FALSE
  BY DEF Init
<1>3. TypeOK
  <2>1. 0 \in 0 .. MaxPins
    BY FileAssumption
  <2> QED BY <1>1, <1>2, <2>1, PageFacts DEF TypeOK
<1>4. Free(NoPages, content) = {}
  BY <1>1 DEF Free, InFile
<1>5. Linked(Links(NoPages, content), NoPages.firstFree, Free(NoPages, content), PF_PAGE_LIST_END)
  BY <1>1, <1>4, LinkedEmpty
<1>6. Sound(NoPages, content)
  BY <1>1, <1>2, <1>5 DEF Sound, Pages
<1> QED BY <1>2, <1>3, <1>6 DEF FileInv, PinsOnUsed

LEMMA NextInv == FileInv /\ [Next]_vars => FileInv'
<1> SUFFICES ASSUME FileInv, [Next]_vars PROVE FileInv'
  OBVIOUS
<1>1. CASE UNCHANGED vars
  <2>1. UNCHANGED <<handle, fileHdr, content, disk, pins>>
    BY <1>1 DEF vars
  <2> QED BY <2>1, PinsInv DEF FileInv, TypeOK
<1>2. CASE OpenFile \/ AllocateReuse \/ AllocateNew \/ PoolFails
  BY <1>2, OpenFileInv, AllocateInv, ReturnInv DEF PoolFails
<1>3. CASE ForcePages \/ FlushPages \/ CloseFile
  BY <1>3, ForcedInv, FlushedInv DEF FlushPages, CloseFile
<1>4. ASSUME NEW p \in -1 .. MaxPages, GetNextPage(p) \/ GetPrevPage(p) PROVE FileInv'
  BY <1>4, NearestInv
<1>5. ASSUME NEW p \in Pages,
             \/ DisposePage(p) \/ GetThisPage(p) \/ UnpinPage(p)
             \/ ForceSinglePage(p) \/ Evict(p)
             \/ \E d \in Data : MarkDirty(p, d)
      PROVE  FileInv'
  BY <1>5, DisposeInv, GetThisPageInv, UnpinInv, ForceSingleInv, EvictInv, MarkDirtyInv
<1> QED BY <1>1, <1>2, <1>3, <1>4, <1>5 DEF Next
-----------------------------------------------------------------------------
(* The handle, the pages and the pins keep their types. *)
THEOREM FileTypeCorrect == Spec => []TypeOK
<1>1. FileInv => TypeOK
  BY DEF FileInv
<1> QED BY <1>1, InitInv, NextInv, PTL DEF Spec

(* The handle and the pool make a sound file at all times: the free list   *)
(* has every page that is not in use, each once, whatever was allocated,   *)
(* disposed of, evicted, flushed or reopened and whatever call failed.     *)
THEOREM FileFreeListExact == Spec => []FreeListExact
<1>1. FileInv => FreeListExact
  BY SoundIsFile DEF FileInv, FreeListExact
<1> QED BY <1>1, InitInv, NextInv, PTL DEF Spec

(* A file that has been closed is sound as it lies on the disk, and has    *)
(* the bytes its clients stored.                                           *)
THEOREM FileClosedSound == Spec => []ClosedFileSound
<1>1. FileInv => ClosedFileSound
  BY SoundIsFile DEF FileInv, ClosedFileSound
<1> QED BY <1>1, InitInv, NextInv, PTL DEF Spec

(* When forcePages returns 0 the file on the disk is sound by itself. *)
THEOREM FileForcedSound == Spec => ForcedFileSound
<1>1. FileInv /\ [Next]_vars =>
        [ForcePages /\ rc' = "OK" => FileSound(fileHdr', disk') /\ disk' = content']_vars
  <2> SUFFICES ASSUME FileInv, ForcePages, rc' = "OK"
               PROVE  FileSound(fileHdr', disk') /\ disk' = content'
    OBVIOUS
  <2>1. fileHdr' = hdr /\ disk' = content /\ content' = content
    BY ForcedInv
  <2>2. FileSound(hdr, content)
    BY SoundIsFile DEF FileInv, ForcePages
  <2> QED BY <2>1, <2>2
<1> QED BY <1>1, InitInv, NextInv, PTL DEF Spec, ForcedFileSound

(* No step of another client takes a page in use away or changes its data: *)
(* allocatePage hands out free pages only, and disposePage refuses a page  *)
(* that is pinned.                                                         *)
LEMMA UsedPageStep ==
  ASSUME FileInv, Next, NEW p \in Pages, content[p] # Absent, IsUsed(p), content'[p] # content[p]
  PROVE  IF content'[p].nextFree = PF_PAGE_USED THEN pins[p] > 0 ELSE pins[p] = 0
<1>1. CASE AllocateReuse
  <2>1. /\ bFileOpen /\ hdr.firstFree # PF_PAGE_LIST_END
        /\ content' = [content EXCEPT ![hdr.firstFree] = Page(PF_PAGE_USED, Zero)]
    BY <1>1 DEF AllocateReuse, HandOut
  <2>2. hdr.firstFree \in Free(hdr, content)
    BY <2>1, OpenFacts, FileFacts
  <2>3. hdr.firstFree # p
    BY <2>2 DEF Free, IsUsed
  <2> QED BY <2>1, <2>3, OpenFacts
<1>2. CASE AllocateNew
  <2>1. /\ bFileOpen /\ content' = [content EXCEPT ![hdr.numPages] = Page(PF_PAGE_USED, Zero)]
    BY <1>2 DEF AllocateNew, HandOut
  <2>2. p \in InFile(hdr)
    BY <2>1, OpenFacts, FileFacts
  <2>3. hdr.numPages # p
    BY <2>2, <2>1, OpenFacts DEF InFile, Header
  <2> QED BY <2>1, <2>3, OpenFacts
<1>3. ASSUME NEW q \in Pages, DisposePage(q)
      PROVE  IF content'[p].nextFree = PF_PAGE_USED THEN pins[p] > 0 ELSE pins[p] = 0
  <2>1. /\ bFileOpen /\ isValidPageNum(q) /\ pins[q] = 0
        /\ content' = [content EXCEPT ![q].nextFree = hdr.firstFree]
    BY <1>3 DEF DisposePage, Return
  <2>2. content \in [Pages -> PageOrAbsent] /\ q = p
    BY <2>1, OpenFacts
  <2>3. content[p] \in [nextFree : Link, data : Data]
    BY <2>2 DEF PageOrAbsent
  <2>4. content'[p].nextFree = hdr.firstFree
    BY <2>1, <2>2, <2>3
  <2>5. hdr.firstFree # PF_PAGE_USED
    BY <2>1, OpenFacts, FileFacts, PageFacts DEF Free, Pages, PF_PAGE_USED
  <2> QED BY <2>1, <2>2, <2>4, <2>5
<1>4. ASSUME NEW q \in Pages, NEW d \in Data, MarkDirty(q, d)
      PROVE  IF content'[p].nextFree = PF_PAGE_USED THEN pins[p] > 0 ELSE pins[p] = 0
  <2>1. /\ bFileOpen /\ pins[q] > 0 /\ content' = [content EXCEPT ![q].data = d]
    BY <1>4 DEF MarkDirty
  <2>2. content \in [Pages -> PageOrAbsent] /\ q = p
    BY <2>1, OpenFacts
  <2>3. content[p] \in [nextFree : Link, data : Data]
    BY <2>2 DEF PageOrAbsent
  <2>4. content'[p].nextFree = PF_PAGE_USED
    BY <2>1, <2>2, <2>3 DEF IsUsed
  <2> QED BY <2>1, <2>2, <2>4
<1>5. CASE UNCHANGED content
  BY <1>5
<1> QED BY <1>1, <1>2, <1>3, <1>4, <1>5
        DEF Next, OpenFile, PoolFails, Return, GetThisPage, Pin, UnpinPage, ForceSinglePage,
            Evict, GetNextPage, GetPrevPage, ForcePages, FlushPages, CloseFile, Flushed

(* The data of a page in use changes only while a client has it pinned,    *)
(* and only disposePage of an unpinned page takes it out of use.           *)
THEOREM FileUsedPageKept == Spec => UsedPageKept
<1>1. FileInv /\ [Next]_vars =>
        [\A p \in Pages :
           content[p] # Absent /\ IsUsed(p) /\ content'[p] # content[p] =>
             IF content'[p].nextFree = PF_PAGE_USED THEN pins[p] > 0 ELSE pins[p] = 0]_vars
  BY UsedPageStep
<1> QED BY <1>1, InitInv, NextInv, PTL DEF Spec, UsedPageKept
-----------------------------------------------------------------------------
(* Sequences: what one element more or less does to the places.            *)
LEMMA InsertFacts ==
  ASSUME NEW S, NEW s \in Seq(S), NEW k \in 1 .. Len(s) + 1, NEW e \in S
  PROVE  /\ InsertAt(s, k, e) \in Seq(S) /\ Len(InsertAt(s, k, e)) = Len(s) + 1
         /\ \A i \in 1 .. Len(s) + 1 :
              InsertAt(s, k, e)[i] = IF i < k THEN s[i] ELSE IF i = k THEN e ELSE s[i - 1]
<1>1. PICK n \in Nat : n = Len(s)
  OBVIOUS
<1>2. PICK a : a = SubSeq(s, 1, k - 1)
  OBVIOUS
<1>3. PICK b : b = SubSeq(s, k, n)
  OBVIOUS
<1>4. PICK r : r = InsertAt(s, k, e)
  OBVIOUS
<1>5. r = (a \o <<e>>) \o b
  BY <1>1, <1>2, <1>3, <1>4 DEF InsertAt
<1>6. \A i \in 1 .. n : s[i] \in S
  BY <1>1
<1>7. a \in Seq(S) /\ Len(a) = k - 1 /\ \A i \in 1 .. k - 1 : a[i] = s[i]
  <2>1. k - 1 \in 0 .. n /\ 1 \in 1 .. n + 1
    BY <1>1
  <2>2. \A i \in 1 .. k - 1 : s[i] \in S
    BY <1>1, <1>6
  <2> QED BY <1>1, <1>2, <2>1, <2>2, SubSeqProperties
<1>8. b \in Seq(S) /\ Len(b) = n + 1 - k /\ \A i \in 1 .. n + 1 - k : b[i] = s[i + k - 1]
  <2>1. k \in 1 .. n + 1 /\ n \in 0 .. n /\ \A i \in k .. n : s[i] \in S
    BY <1>1, <1>6
  <2>2. /\ b \in Seq(S) /\ Len(b) = IF k <= n THEN n - k + 1 ELSE 0
        /\ \A i \in 1 .. n - k + 1 : b[i] = s[k + i - 1]
    BY <1>1, <1>3, <2>1, SubSeqProperties
  <2>3. Len(b) = n + 1 - k
    BY <1>1, <2>2
  <2>4. \A i \in 1 .. n + 1 - k : i \in 1 .. n - k + 1 /\ k + i - 1 = i + k - 1
    BY <1>1
  <2> QED BY <2>2, <2>3, <2>4
<1>9. PICK c : c = a \o <<e>>
  OBVIOUS
<1>10. c \in Seq(S) /\ Len(c) = k /\ \A i \in 1 .. k : c[i] = IF i < k THEN s[i] ELSE e
  BY <1>7, <1>9
<1>11. /\ r \in Seq(S) /\ Len(r) = n + 1
       /\ \A i \in 1 .. n + 1 : r[i] = IF i <= k THEN c[i] ELSE b[i - k]
  <2>1. r = c \o b
    BY <1>5, <1>9, Zenon
  <2>2. /\ r \in Seq(S) /\ Len(r) = Len(c) + Len(b)
        /\ \A i \in 1 .. Len(c) + Len(b) :
             r[i] = IF i <= Len(c) THEN c[i] ELSE b[i - Len(c)]
    <3>1. c \in Seq(S) /\ b \in Seq(S)
      BY <1>8, <1>10
    <3>2. /\ c \o b \in Seq(S) /\ Len(c \o b) = Len(c) + Len(b)
          /\ \A i \in 1 .. Len(c) + Len(b) :
               (c \o b)[i] = IF i <= Len(c) THEN c[i] ELSE b[i - Len(c)]
      BY <3>1, ConcatProperties
    <3> QED BY <2>1, <3>2
  <2>3. Len(c) = k /\ Len(c) + Len(b) = n + 1
    <3>1. Len(c) = k
      BY <1>10
    <3>2. Len(b) = n + 1 - k
      BY <1>8
    <3>3. k \in Int /\ k + (n + 1 - k) = n + 1
      BY <1>1
    <3> QED BY <3>1, <3>2, <3>3
  <2>4. r \in Seq(S) /\ Len(r) = n + 1
    BY <2>2, <2>3
  <2>5. \A i \in 1 .. n + 1 : r[i] = IF i <= k THEN c[i] ELSE b[i - k]
    BY <2>2, <2>3
  <2> QED BY <2>4, <2>5
<1>12. ASSUME NEW i \in 1 .. n + 1
       PROVE  r[i] = IF i < k THEN s[i] ELSE IF i = k THEN e ELSE s[i - 1]
  <2>1. CASE i <= k
    <3>1. i \in 1 .. k
      BY <1>1, <2>1
    <3> QED BY <1>10, <1>11, <2>1, <3>1
  <2>2. CASE ~(i <= k)
    <3>1. i - k \in 1 .. n + 1 - k /\ (i - k) + k - 1 = i - 1 /\ ~(i < k) /\ i # k
      BY <1>1, <2>2
    <3>2. b[i - k] = s[i - 1]
      BY <1>8, <3>1
    <3> QED BY <1>11, <2>2, <3>1, <3>2
  <2> QED BY <2>1, <2>2
<1> QED BY <1>1, <1>4, <1>11, <1>12

(* s2 is s with e at place k. *)
WithOne(s, k, e, s2) ==
  /\ Len(s2) = Len(s) + 1
  /\ \A i \in 1 .. Len(s) + 1 : s2[i] = IF i < k THEN s[i] ELSE IF i = k THEN e ELSE s[i - 1]
(* InsertAt, said with WithOne. *)
LEMMA InsertIs ==
  ASSUME NEW S, NEW s \in Seq(S), NEW k \in 1 .. Len(s) + 1, NEW e \in S
  PROVE  InsertAt(s, k, e) \in Seq(S) /\ WithOne(s, k, e, InsertAt(s, k, e))
  BY InsertFacts DEF WithOne

(* RemoveAt closes the gap. *)
LEMMA RemoveFacts ==
  ASSUME NEW S, NEW s \in Seq(S), NEW k \in 1 .. Len(s)
  PROVE  /\ RemoveAt(s, k) \in Seq(S) /\ Len(RemoveAt(s, k)) = Len(s) - 1
         /\ \A i \in 1 .. Len(s) - 1 : RemoveAt(s, k)[i] = IF i < k THEN s[i] ELSE s[i + 1]
<1>1. PICK n \in Nat : n = Len(s)
  OBVIOUS
<1>2. PICK a : a = SubSeq(s, 1, k - 1)
  OBVIOUS
<1>3. PICK b : b = SubSeq(s, k + 1, n)
  OBVIOUS
<1>4. PICK r : r = RemoveAt(s, k)
  OBVIOUS
<1>5. r = a \o b
  BY <1>1, <1>2, <1>3, <1>4 DEF RemoveAt
<1>6. \A i \in 1 .. n : s[i] \in S
  BY <1>1
<1>7. a \in Seq(S) /\ Len(a) = k - 1 /\ \A i \in 1 .. k - 1 : a[i] = s[i]
  <2>1. k - 1 \in 0 .. n /\ 1 \in 1 .. n + 1
    BY <1>1
  <2>2. \A i \in 1 .. k - 1 : s[i] \in S
    BY <1>1, <1>6
  <2> QED BY <1>1, <1>2, <2>1, <2>2, SubSeqProperties
<1>8. b \in Seq(S) /\ Len(b) = n - k /\ \A i \in 1 .. n - k : b[i] = s[i + k]
  <2>1. k + 1 \in 1 .. n + 1 /\ n \in 0 .. n /\ \A i \in k + 1 .. n : s[i] \in S
    BY <1>1, <1>6
  <2>2. /\ b \in Seq(S) /\ Len(b) = IF k + 1 <= n THEN n - (k + 1) + 1 ELSE 0
        /\ \A i \in 1 .. n - (k + 1) + 1 : b[i] = s[k + 1 + i - 1]
    BY <1>1, <1>3, <2>1, SubSeqProperties
  <2>3. Len(b) = n - k
    BY <1>1, <2>2
  <2>4. \A i \in 1 .. n - k : i \in 1 .. n - (k + 1) + 1 /\ k + 1 + i - 1 = i + k
    BY <1>1
  <2> QED BY <2>2, <2>3, <2>4
<1>9. /\ r \in Seq(S) /\ Len(r) = n - 1
      /\ \A i \in 1 .. n - 1 : r[i] = IF i <= k - 1 THEN a[i] ELSE b[i - (k - 1)]
  <2>1. /\ r \in Seq(S) /\ Len(r) = Len(a) + Len(b)
        /\ \A i \in 1 .. Len(a) + Len(b) :
             r[i] = IF i <= Len(a) THEN a[i] ELSE b[i - Len(a)]
    BY <1>5, <1>7, <1>8, ConcatProperties
  <2>2. Len(a) = k - 1 /\ Len(a) + Len(b) = n - 1
    BY <1>1, <1>7, <1>8
  <2>3. r \in Seq(S) /\ Len(r) = n - 1
    BY <2>1, <2>2
  <2>4. \A i \in 1 .. n - 1 : r[i] = IF i <= k - 1 THEN a[i] ELSE b[i - (k - 1)]
    BY <2>1, <2>2
  <2> QED BY <2>3, <2>4
<1>10. ASSUME NEW i \in 1 .. n - 1 PROVE r[i] = IF i < k THEN s[i] ELSE s[i + 1]
  <2>1. CASE i < k
    <3>1. i \in 1 .. k - 1 /\ i <= k - 1
      BY <1>1, <2>1
    <3> QED BY <1>7, <1>9, <2>1, <3>1
  <2>2. CASE ~(i < k)
    <3>1. i - (k - 1) \in 1 .. n - k /\ i - (k - 1) + k = i + 1 /\ ~(i <= k - 1)
      BY <1>1, <2>2
    <3>2. b[i - (k - 1)] = s[i + 1]
      BY <1>8, <3>1
    <3> QED BY <1>9, <2>2, <3>1, <3>2
  <2> QED BY <2>1, <2>2
<1> QED BY <1>1, <1>4, <1>9, <1>10

(* What is behind the first k elements.                                    *)
LEMMA RestFrom ==
  ASSUME NEW S, NEW s \in Seq(S), NEW k \in 0 .. Len(s)
  PROVE  /\ SubSeq(s, k + 1, Len(s)) \in Seq(S) /\ Len(SubSeq(s, k + 1, Len(s))) = Len(s) - k
         /\ \A i \in 1 .. Len(s) - k : SubSeq(s, k + 1, Len(s))[i] = s[i + k]
<1>1. PICK n \in Nat : n = Len(s)
  OBVIOUS
<1>2. PICK b : b = SubSeq(s, k + 1, n)
  OBVIOUS
<1>3. k + 1 \in 1 .. n + 1 /\ n \in 0 .. n /\ \A i \in k + 1 .. n : s[i] \in S
  BY <1>1
<1>4. /\ b \in Seq(S) /\ Len(b) = IF k + 1 <= n THEN n - (k + 1) + 1 ELSE 0
      /\ \A i \in 1 .. n - (k + 1) + 1 : b[i] = s[k + 1 + i - 1]
  BY <1>1, <1>2, <1>3, SubSeqProperties
<1>5. Len(b) = n - k
  BY <1>1, <1>4
<1>6. \A i \in 1 .. n - k : i \in 1 .. n - (k + 1) + 1 /\ k + 1 + i - 1 = i + k
  BY <1>1
<1> QED BY <1>1, <1>2, <1>4, <1>5, <1>6

(* The first k elements.                                                   *)
LEMMA FirstOf ==
  ASSUME NEW S, NEW s \in Seq(S), NEW k \in 0 .. Len(s)
  PROVE  /\ SubSeq(s, 1, k) \in Seq(S) /\ Len(SubSeq(s, 1, k)) = k
         /\ \A i \in 1 .. k : SubSeq(s, 1, k)[i] = s[i]
<1>1. PICK n \in Nat : n = Len(s)
  OBVIOUS
<1>2. k \in 0 .. n /\ 1 \in 1 .. n + 1 /\ \A i \in 1 .. k : s[i] \in S
  BY <1>1
<1> QED BY <1>1, <1>2, SubSeqProperties

-----------------------------------------------------------------------------
(* The keys of a node, in order. *)
Sorted(keys) ==
  keys \in Seq(Nat) /\ \A i, j \in 1 .. Len(keys) : i < j => keys[i] < keys[j]

(* In a sorted sequence places and keys are in the same order. *)
LEMMA SortedFacts ==
  ASSUME NEW keys, Sorted(keys)
  PROVE  /\ Len(keys) \in Nat /\ DOMAIN keys = 1 .. Len(keys)
         /\ \A i \in 1 .. Len(keys) : keys[i] \in Nat
         /\ \A i, j \in 1 .. Len(keys) : i < j => keys[i] < keys[j]
         /\ \A i, j \in 1 .. Len(keys) : keys[i] < keys[j] => i < j
         /\ \A i, j \in 1 .. Len(keys) : keys[i] = keys[j] => i = j
<1>1. /\ Len(keys) \in Nat /\ DOMAIN keys = 1 .. Len(keys)
      /\ \A i \in 1 .. Len(keys) : keys[i] \in Nat
      /\ \A i, j \in 1 .. Len(keys) : i < j => keys[i] < keys[j]
  BY DEF Sorted
<1>2. ASSUME NEW i \in 1 .. Len(keys), NEW j \in 1 .. Len(keys)
      PROVE  (keys[i] < keys[j] => i < j) /\ (keys[i] = keys[j] => i = j)
  <2>1. keys[i] \in Nat /\ keys[j] \in Nat /\ (j < i => keys[j] < keys[i])
        /\ (i < j => keys[i] < keys[j])
    BY <1>1
  <2> QED BY <2>1
<1> QED BY <1>1, <1>2

(* A position that has the keys up to k before it, and the others behind   *)
(* it, is the one the search goes to.                                      *)
LEMMA SearchPosIs ==
  ASSUME NEW keys, Sorted(keys), NEW k \in Nat, NEW p \in 1 .. Len(keys) + 1,
         \A i \in 1 .. Len(keys) : keys[i] <= k <=> i < p
  PROVE  SearchPos(keys, k) = p
<1>1. {i \in DOMAIN keys : keys[i] <= k} = 1 .. p - 1
  <2>1. DOMAIN keys = 1 .. Len(keys) /\ Len(keys) \in Nat
    BY SortedFacts
  <2> QED BY <2>1
<1>2. Cardinality(1 .. p - 1) = p - 1
  <2>1. 1 \in Int /\ p - 1 \in Int /\ (1 > p - 1 => p - 1 = 0) /\ (p - 1) - 1 + 1 = p - 1
    BY SortedFacts
  <2> QED BY <2>1, FS_Interval
<1>3. SearchPos(keys, k) = 1 + (p - 1)
  BY <1>1, <1>2 DEF SearchPos
<1>4. p \in Int
  BY SortedFacts
<1> QED BY <1>3, <1>4

(* The place of insertion is the one that the keys below k come before. *)
LEMMA InsertPosIs ==
  ASSUME NEW keys, Sorted(keys), NEW k \in Nat, NEW p \in 1 .. Len(keys) + 1,
         \A i \in 1 .. Len(keys) : keys[i] < k <=> i < p
  PROVE  InsertPos(keys, k) = p
<1>1. {i \in DOMAIN keys : keys[i] < k} = 1 .. p - 1
  <2>1. DOMAIN keys = 1 .. Len(keys) /\ Len(keys) \in Nat
    BY SortedFacts
  <2> QED BY <2>1
<1>2. Cardinality(1 .. p - 1) = p - 1
  <2>1. 1 \in Int /\ p - 1 \in Int /\ (1 > p - 1 => p - 1 = 0) /\ (p - 1) - 1 + 1 = p - 1
    BY SortedFacts
  <2> QED BY <2>1, FS_Interval
<1>3. InsertPos(keys, k) = 1 + (p - 1)
  BY <1>1, <1>2 DEF InsertPos
<1>4. p \in Int
  BY SortedFacts
<1> QED BY <1>3, <1>4

(* There is such a position.                                               *)
LEMMA SearchPosFacts ==
  ASSUME NEW keys, Sorted(keys), NEW k \in Nat
  PROVE  /\ SearchPos(keys, k) \in 1 .. Len(keys) + 1
         /\ \A i \in 1 .. Len(keys) : keys[i] <= k <=> i < SearchPos(keys, k)
<1>1. PICK n \in Nat : n = Len(keys)
  BY SortedFacts
<1> DEFINE T == {p \in 1 .. n + 1 : \A i \in 1 .. n : i >= p => ~(keys[i] <= k)}
<1>2. n + 1 \in T
  <2>1. \A i \in 1 .. n : ~(i >= n + 1)
    OBVIOUS
  <2> QED BY <2>1
<1>3. PICK p \in T : \A q \in T : p <= q
  <2>1. T \in SUBSET Nat
    OBVIOUS
  <2> HIDE DEF T
  <2> QED BY <1>2, <2>1, LeastNatural
<1>4. p \in 1 .. n + 1
  BY <1>3
<1>5. ASSUME NEW i \in 1 .. n PROVE keys[i] <= k <=> i < p
  <2>1. CASE i >= p
    BY <1>3, <1>4, <2>1
  <2>2. CASE i < p
    <3>1. p - 1 \in 1 .. n + 1 /\ p - 1 \in 1 .. n /\ ~(p <= p - 1)
      BY <1>4, <2>2
    <3>2. p - 1 \notin T
      BY <1>3, <3>1
    <3>3. PICK j \in 1 .. n : j >= p - 1 /\ keys[j] <= k
      BY <3>1, <3>2
    <3>4. ~(j >= p)
      BY <1>3, <3>3
    <3>5. j = p - 1
      BY <1>4, <3>3, <3>4
    <3>6. i = j \/ i < j
      BY <1>4, <2>2, <3>5
    <3>7. keys[i] \in Nat /\ keys[j] \in Nat /\ (i < j => keys[i] < keys[j])
      BY <1>1, SortedFacts
    <3> QED BY <2>2, <3>3, <3>6, <3>7
  <2> QED BY <1>4, <2>1, <2>2
<1>6. SearchPos(keys, k) = p
  BY <1>1, <1>4, <1>5, SearchPosIs
<1> QED BY <1>1, <1>4, <1>5, <1>6

(* For a key the node does not have, both positions are the same.          *)
LEMMA InsertPosFacts ==
  ASSUME NEW keys, Sorted(keys), NEW k \in Nat, k \notin ToSet(keys)
  PROVE  InsertPos(keys, k) = SearchPos(keys, k)
<1>1. PICK p : p = SearchPos(keys, k)
  OBVIOUS
<1>2. p \in 1 .. Len(keys) + 1 /\ \A i \in 1 .. Len(keys) : keys[i] <= k <=> i < p
  BY <1>1, SearchPosFacts
<1>3. \A i \in 1 .. Len(keys) : keys[i] \in Nat /\ keys[i] # k
  BY SortedFacts DEF ToSet
<1>4. \A i \in 1 .. Len(keys) : keys[i] < k <=> i < p
  BY <1>2, <1>3
<1> QED BY <1>1, <1>2, <1>4, InsertPosIs
-----------------------------------------------------------------------------
(* Splits from the leaf up are a recursive function, which there is.       *)
SplitsTo(t, up, m, e) ==
  e = [n \in 0 .. m |-> IF n = 0 THEN t ELSE SplitIfFull(e[n - 1], up[n], n)]

(* The splits can be counted up to any number of ancestors: by a least     *)
(* number that has none.                                                   *)
LEMMA SplitsExist ==
  ASSUME NEW t, NEW up, NEW m \in Nat
  PROVE  \E e : SplitsTo(t, up, m, e)
<1> DEFINE T == {k \in Nat : ~\E e : SplitsTo(t, up, k, e)}
<1>1. SUFFICES ASSUME T # {} PROVE FALSE
  OBVIOUS
<1>2. PICK k \in T : \A j \in T : k <= j
  <2>1. T \in SUBSET Nat
    OBVIOUS
  <2> HIDE DEF T
  <2> QED BY <1>1, <2>1, LeastNatural
<1>3. k # 0
  <2>1. PICK e : e = [n \in 0 .. 0 |-> t]
    OBVIOUS
  <2>2. \A n \in 0 .. 0 : n = 0 /\ e[n] = t
    BY <2>1
  <2>3. e = [n \in 0 .. 0 |-> IF n = 0 THEN t ELSE SplitIfFull(e[n - 1], up[n], n)]
    BY <2>1, <2>2
  <2>4. SplitsTo(t, up, 0, e)
    BY <2>3 DEF SplitsTo
  <2> QED BY <2>4
<1>4. k \in Nat /\ k - 1 \in Nat /\ ~(k <= k - 1)
  BY <1>3
<1>5. PICK e : SplitsTo(t, up, k - 1, e)
  BY <1>2, <1>4
<1>6. PICK x : x = SplitIfFull(e[k - 1], up[k], k)
  OBVIOUS
<1>7. PICK d : d = [n \in 0 .. k |-> IF n = k THEN x ELSE e[n]]
  OBVIOUS
<1>8. \A n \in 0 .. k - 1 : e[n] = IF n = 0 THEN t ELSE SplitIfFull(e[n - 1], up[n], n)
  <2>1. PICK r : r = [n \in 0 .. k - 1 |->
                       IF n = 0 THEN t ELSE SplitIfFull(e[n - 1], up[n], n)]
    OBVIOUS
  <2>2. e = r
    BY <1>5, <2>1 DEF SplitsTo
  <2> QED BY <2>1, <2>2
<1>9. ASSUME NEW n \in 0 .. k
      PROVE  d[n] = IF n = 0 THEN t ELSE SplitIfFull(d[n - 1], up[n], n)
  <2>1. CASE n = k
    <3>1. d[n] = x /\ d[n - 1] = e[k - 1] /\ n # 0
      BY <1>3, <1>4, <1>7, <2>1
    <3> QED BY <1>6, <3>1, <2>1
  <2>2. CASE n # k
    <3>1. n \in 0 .. k - 1 /\ d[n] = e[n]
      BY <1>4, <1>7, <2>2
    <3>2. n # 0 => d[n - 1] = e[n - 1]
      BY <1>4, <1>7, <3>1
    <3> QED BY <1>8, <3>1, <3>2
  <2> QED BY <2>1, <2>2
<1>10. d = [n \in 0 .. k |-> d[n]]
  BY <1>7
<1>11. SplitsTo(t, up, k, d)
  BY <1>9, <1>10 DEF SplitsTo
<1> QED BY <1>2, <1>11

(* The recursive function SplitUp is what its definition says. *)
LEMMA SplitUpIs ==
  ASSUME NEW t, NEW up, Len(up) \in Nat
  PROVE  /\ SplitUp(t, up)[0] = t
         /\ \A n \in 1 .. Len(up) :
              SplitUp(t, up)[n] = SplitIfFull(SplitUp(t, up)[n - 1], up[n], n)
<1>1. PICK m \in Nat : m = Len(up)
  OBVIOUS
<1> DEFINE F(f) == [n \in 0 .. m |-> IF n = 0 THEN t ELSE SplitIfFull(f[n - 1], up[n], n)]
<1>2. PICK e : SplitsTo(t, up, m, e)
  BY SplitsExist
<1>3. e = F(e)
  BY <1>2 DEF SplitsTo
<1>4. PICK w : w = SplitUp(t, up)
  OBVIOUS
<1>5. w = F(w)
  BY <1>1, <1>3, <1>4 DEF SplitUp
<1>6. \A n \in 0 .. m : w[n] = IF n = 0 THEN t ELSE SplitIfFull(w[n - 1], up[n], n)
  <2>1. PICK r : r = F(w)
    OBVIOUS
  <2>2. w = r
    BY <1>5, <2>1
  <2> QED BY <2>1, <2>2
<1>7. 0 \in 0 .. m /\ \A n \in 1 .. m : n \in 0 .. m /\ n # 0
  OBVIOUS
<1> QED BY <1>1, <1>4, <1>6, <1>7

-----------------------------------------------------------------------------
(* A node has its six fields, a tree its four; what PF has got back is     *)
(* free, and has been got back once.                                       *)
IsNode(x) == x = Node(x.type, x.keys, x.vals, x.next, x.prePage, x.parent)
Framed(t) ==
  /\ t = [rootPage |-> t.rootPage, modified |-> t.modified, node |-> t.node,
          disposed |-> t.disposed]
  /\ t.node = [p \in IndexPages |-> t.node[p]] /\ \A p \in IndexPages : IsNode(t.node[p])
  /\ t.disposed \in Seq(FreePages(t)) /\ IsInjective(t.disposed)

(* The fields of a node. *)
LEMMA NodeFacts ==
  ASSUME NEW type, NEW keys, NEW vals, NEW next, NEW prePage, NEW parent
  PROVE  LET x == Node(type, keys, vals, next, prePage, parent)
         IN /\ IsNode(x) /\ x.type = type /\ x.keys = keys /\ x.vals = vals /\ x.next = next
            /\ x.prePage = prePage /\ x.parent = parent
  BY DEF Node, IsNode

(* One field of a node changed. *)
SetKeys(x, v) == [x EXCEPT !.keys = v]
SetVals(x, v) == [x EXCEPT !.vals = v]
SetNext(x, v) == [x EXCEPT !.next = v]
SetPrePage(x, v) == [x EXCEPT !.prePage = v]
SetParent(x, v) == [x EXCEPT !.parent = v]

(* A node with one field changed, written out. *)
LEMMA FieldFacts ==
  ASSUME NEW x, IsNode(x), NEW v
  PROVE  /\ SetKeys(x, v) = Node(x.type, v, x.vals, x.next, x.prePage, x.parent)
         /\ SetVals(x, v) = Node(x.type, x.keys, v, x.next, x.prePage, x.parent)
         /\ SetNext(x, v) = Node(x.type, x.keys, x.vals, v, x.prePage, x.parent)
         /\ SetPrePage(x, v) = Node(x.type, x.keys, x.vals, x.next, v, x.parent)
         /\ SetParent(x, v) = Node(x.type, x.keys, x.vals, x.next, x.prePage, v)
<1>1. PICK y : y = Node(x.type, x.keys, x.vals, x.next, x.prePage, x.parent)
  OBVIOUS
<1>2. x = y
  BY <1>1 DEF IsNode
<1> QED BY <1>1, <1>2 DEF Node, SetKeys, SetVals, SetNext, SetPrePage, SetParent

(* One node changed, which stays or stays none. *)
Put(t, p, x) == [t EXCEPT !.node[p] = x]
(* A node put in the place of another, both there or both gone, disturbs   *)
(* nothing else.                                                           *)
LEMMA PutFacts ==
  ASSUME NEW t, Framed(t), NEW p, NEW x,
         p \in IndexPages => IsNode(x) /\ (x.type = "NONE" <=> Gone(t, p)),
         NEW u, u = Put(t, p, x)
  PROVE  /\ Framed(u) /\ u.rootPage = t.rootPage /\ u.modified = t.modified
         /\ u.disposed = t.disposed /\ FreePages(u) = FreePages(t)
         /\ \A q \in IndexPages : u.node[q] = IF q = p THEN x ELSE t.node[q]
<1>1. PICK r, m, n, d : r = t.rootPage /\ m = t.modified /\ n = t.node /\ d = t.disposed
  OBVIOUS
<1>2. t = [rootPage |-> r, modified |-> m, node |-> n, disposed |-> d]
  BY <1>1 DEF Framed
<1>3. n = [q \in IndexPages |-> n[q]]
  BY <1>1 DEF Framed
<1>4. PICK n2 : n2 = [n EXCEPT ![p] = x]
  OBVIOUS
<1>5. n2 = [q \in IndexPages |-> IF q = p THEN x ELSE n[q]]
  BY <1>3, <1>4
<1>6. u = [rootPage |-> r, modified |-> m, node |-> n2, disposed |-> d]
  BY <1>1, <1>2, <1>4 DEF Put
<1>7. u.rootPage = r /\ u.modified = m /\ u.node = n2 /\ u.disposed = d
  BY <1>6
<1>8. \A q \in IndexPages : u.node[q] = IF q = p THEN x ELSE t.node[q]
  BY <1>1, <1>5, <1>7
<1>9. FreePages(u) = FreePages(t)
  BY <1>8 DEF FreePages, Gone
<1>10. n2 = [q \in IndexPages |-> n2[q]]
  BY <1>5
<1>11. \A q \in IndexPages : IsNode(u.node[q])
  BY <1>8 DEF Framed
<1>12. Framed(u)
  BY <1>1, <1>6, <1>7, <1>9, <1>10, <1>11 DEF Framed
<1> QED BY <1>1, <1>7, <1>8, <1>9, <1>12

(* The page a node gets is a free one, and free no longer. *)
LEMMA NewPageFree ==
  ASSUME NEW t, Framed(t), FreePages(t) # {}
  PROVE  NewPage(t) \in FreePages(t)
<1>1. CASE t.disposed = << >>
  <2>1. FreePages(t) \in SUBSET Nat
    BY DEF FreePages, IndexPages
  <2>2. PICK m \in FreePages(t) : \A n \in FreePages(t) : m <= n
    BY <2>1, LeastNatural
  <2>3. Min(FreePages(t)) \in FreePages(t)
    BY <2>2 DEF Min
  <2> QED BY <1>1, <2>3 DEF NewPage
<1>2. CASE t.disposed # << >>
  <2>1. t.disposed \in Seq(FreePages(t))
    BY DEF Framed
  <2>2. Head(t.disposed) \in FreePages(t)
    BY <1>2, <2>1
  <2> QED BY <1>2, <2>2 DEF NewPage
<1> QED BY <1>1, <1>2

(* A new node takes one free page and touches no other. *)
LEMMA WithPageFacts ==
  ASSUME NEW t, Framed(t), FreePages(t) # {}, NEW x, IsNode(x), x.type # "NONE",
         NEW u, u = WithPage(t, x)
  PROVE  /\ Framed(u) /\ u.rootPage = t.rootPage /\ u.modified = t.modified
         /\ NewPage(t) \in FreePages(t) /\ FreePages(u) = FreePages(t) \ {NewPage(t)}
         /\ \A q \in IndexPages : u.node[q] = IF q = NewPage(t) THEN x ELSE t.node[q]
<1>1. PICK p : p = NewPage(t)
  OBVIOUS
<1>2. p \in FreePages(t)
  BY <1>1, NewPageFree
<1>3. PICK r, m, n, d : r = t.rootPage /\ m = t.modified /\ n = t.node /\ d = t.disposed
  OBVIOUS
<1>4. t = [rootPage |-> r, modified |-> m, node |-> n, disposed |-> d]
  BY <1>3 DEF Framed
<1>5. n = [q \in IndexPages |-> n[q]]
  BY <1>3 DEF Framed
<1>6. PICK n2, d2 : n2 = [n EXCEPT ![p] = x] /\ d2 = IF d = << >> THEN d ELSE Tail(d)
  OBVIOUS
<1>7. n2 = [q \in IndexPages |-> IF q = p THEN x ELSE n[q]]
  BY <1>5, <1>6
<1>8. u = [rootPage |-> r, modified |-> m, node |-> n2, disposed |-> d2]
  BY <1>1, <1>3, <1>4, <1>6 DEF WithPage
<1>9. u.rootPage = r /\ u.modified = m /\ u.node = n2 /\ u.disposed = d2
  BY <1>8
<1>10. \A q \in IndexPages : u.node[q] = IF q = p THEN x ELSE t.node[q]
  BY <1>3, <1>7, <1>9
<1>11. FreePages(u) = FreePages(t) \ {p}
  BY <1>10 DEF FreePages, Gone
<1>12. n2 = [q \in IndexPages |-> n2[q]]
  BY <1>7
<1>13. \A q \in IndexPages : IsNode(u.node[q])
  BY <1>10 DEF Framed
<1>14. d2 \in Seq(FreePages(u)) /\ IsInjective(d2)
  <2>1. d \in Seq(FreePages(t)) /\ IsInjective(d)
    BY <1>3 DEF Framed
  <2>2. CASE d = << >>
    <3>1. << >> \in Seq(FreePages(u))
      OBVIOUS
    <3> QED BY <1>6, <2>1, <2>2, <3>1
  <2>3. CASE d # << >>
    <3>1. p = d[1] /\ d2 = Tail(d)
      BY <1>1, <1>3, <1>6, <2>1, <2>3 DEF NewPage
    <3>2. PICK k \in Nat : k = Len(d) /\ DOMAIN d = 1 .. k /\ k # 0
      BY <2>1, <2>3
    <3>3. d2 \in Seq(FreePages(t)) /\ Len(d2) = k - 1 /\ DOMAIN d2 = 1 .. k - 1
          /\ \A i \in 1 .. k - 1 : d2[i] = d[i + 1]
      BY <2>1, <2>3, <3>1, <3>2
    <3>4. \A i \in 1 .. k - 1 : i + 1 \in 1 .. k /\ i + 1 # 1
      BY <3>2
    <3>5. \A i, j \in 1 .. k : d[i] = d[j] => i = j
      BY <2>1, <3>2 DEF IsInjective
    <3>6. 1 \in 1 .. k
      BY <3>2
    <3>7. \A i \in 1 .. k - 1 : d2[i] \in FreePages(u)
      <4> TAKE i \in 1 .. k - 1
      <4>1. d2[i] \in FreePages(t)
        BY <3>3
      <4>2. d2[i] # p
        BY <3>1, <3>3, <3>4, <3>5, <3>6
      <4> QED BY <1>11, <4>1, <4>2
    <3>8. d2 \in Seq(FreePages(u))
      <4>1. d2 = [i \in 1 .. k - 1 |-> d2[i]] /\ k - 1 \in Nat
        BY <3>2, <3>3
      <4> QED BY <3>7, <4>1
    <3>9. IsInjective(d2)
      <4> SUFFICES ASSUME NEW i \in 1 .. k - 1, NEW j \in 1 .. k - 1, d2[i] = d2[j]
                   PROVE  i = j
        BY <3>3 DEF IsInjective
      <4>1. i + 1 = j + 1
        BY <3>3, <3>4, <3>5
      <4> QED BY <4>1
    <3> QED BY <3>8, <3>9
  <2> QED BY <2>2, <2>3
<1>15. Framed(u)
  BY <1>8, <1>9, <1>12, <1>13, <1>14 DEF Framed
<1> QED BY <1>1, <1>2, <1>3, <1>9, <1>10, <1>11, <1>15

(* Moving the root changes the header only. *)
LEMMA RootMovedFacts ==
  ASSUME NEW t, Framed(t), NEW p, NEW u, u = RootMoved(t, p)
  PROVE  /\ Framed(u) /\ u.rootPage = p /\ u.modified /\ u.node = t.node
         /\ u.disposed = t.disposed /\ FreePages(u) = FreePages(t)
<1>1. PICK r, m, n, d : r = t.rootPage /\ m = t.modified /\ n = t.node /\ d = t.disposed
  OBVIOUS
<1>2. t = [rootPage |-> r, modified |-> m, node |-> n, disposed |-> d]
  BY <1>1 DEF Framed
<1>3. u = [rootPage |-> p, modified |-> TRUE, node |-> n, disposed |-> d]
  BY <1>2 DEF RootMoved
<1>4. u.rootPage = p /\ u.modified /\ u.node = n /\ u.disposed = d
  BY <1>3
<1>5. FreePages(u) = FreePages(t)
  BY <1>1, <1>4 DEF FreePages, Gone
<1> QED BY <1>1, <1>3, <1>4, <1>5 DEF Framed

(* The header as it is in the file. *)
WithHeader(t, p) == [t EXCEPT !.rootPage = p, !.modified = FALSE]

(* So does reading the header of the file. *)
LEMMA WithHeaderFacts ==
  ASSUME NEW t, Framed(t), NEW p, NEW u, u = WithHeader(t, p)
  PROVE  /\ Framed(u) /\ u.rootPage = p /\ ~u.modified /\ u.node = t.node
         /\ u.disposed = t.disposed /\ FreePages(u) = FreePages(t)
<1>1. PICK r, m, n, d : r = t.rootPage /\ m = t.modified /\ n = t.node /\ d = t.disposed
  OBVIOUS
<1>2. t = [rootPage |-> r, modified |-> m, node |-> n, disposed |-> d]
  BY <1>1 DEF Framed
<1>3. u = [rootPage |-> p, modified |-> FALSE, node |-> n, disposed |-> d]
  BY <1>2 DEF WithHeader
<1>4. u.rootPage = p /\ ~u.modified /\ u.node = n /\ u.disposed = d
  BY <1>3
<1>5. FreePages(u) = FreePages(t)
  BY <1>1, <1>4 DEF FreePages, Gone
<1> QED BY <1>1, <1>3, <1>4, <1>5 DEF Framed

(* A page has a node, of type NONE where it is free. *)
LEMMA NodeOf ==
  ASSUME NEW t, Framed(t), NEW p \in IndexPages
  PROVE  IsNode(t.node[p]) /\ (p \in FreePages(t) <=> t.node[p].type = "NONE")
  BY DEF Framed, FreePages, Gone

(* The halves of a node. *)
LEMMA LeftNodeFacts ==
  ASSUME NEW t, NEW left, IsNode(t.node[left]), NEW right, NEW type,
         NEW y, y = LeftNode(t, left, right, type)
  PROVE  IsNode(y) /\ y.type = type /\ y.parent = t.node[left].parent
<1>1. PICK x : x = t.node[left]
  OBVIOUS
<1>2. PICK z : z = Node(x.type, x.keys, x.vals, x.next, x.prePage, x.parent)
  OBVIOUS
<1>3. x = z
  BY <1>1, <1>2 DEF IsNode
<1>4. PICK half : half = Len(x.keys) \div 2
  OBVIOUS
<1>5. PICK keys : keys = SubSeq(x.keys, 1, half)
  OBVIOUS
<1>6. CASE type = "LEAF"
  <2>1. PICK vals : vals = SubSeq(x.vals, 1, half)
    OBVIOUS
  <2>2. y = Node(type, keys, vals, right, x.prePage, x.parent)
    BY <1>1, <1>2, <1>3, <1>4, <1>5, <1>6, <2>1 DEF LeftNode, Node
  <2> QED BY <1>1, <2>2, NodeFacts
<1>7. CASE type # "LEAF"
  <2>1. PICK vals : vals = SubSeq(x.vals, 1, half + 1)
    OBVIOUS
  <2>2. y = Node(type, keys, vals, x.next, x.prePage, x.parent)
    BY <1>1, <1>2, <1>3, <1>4, <1>5, <1>7, <2>1 DEF LeftNode, Node
  <2> QED BY <1>1, <2>2, NodeFacts
<1> QED BY <1>6, <1>7

(* Halving a node takes one free page. *)
LEMMA HalvedFacts ==
  ASSUME NEW t, Framed(t), FreePages(t) # {}, NEW left \in IndexPages, ~Gone(t, left),
         NEW type, type # "NONE", NEW right, right = NewPage(t),
         NEW u, u = Halved(t, left, right, type)
  PROVE  /\ Framed(u) /\ u.rootPage = t.rootPage /\ u.modified = t.modified
         /\ right \in FreePages(t) /\ right # left /\ FreePages(u) = FreePages(t) \ {right}
         /\ \A q \in IndexPages :
              u.node[q] = IF q = left THEN LeftNode(t, left, right, type)
                          ELSE IF q = right THEN RightNode(t, left, type) ELSE t.node[q]
<1>1. PICK x, y : x = RightNode(t, left, type) /\ y = LeftNode(t, left, right, type)
  OBVIOUS
<1>2. IsNode(x) /\ x.type = type /\ type # "NONE"
  BY <1>1, NodeFacts DEF RightNode
<1>3. IsNode(y) /\ y.type = type
  <2>1. IsNode(t.node[left])
    BY NodeOf
  <2> QED BY <1>1, <2>1, LeftNodeFacts
<1>4. PICK w : w = WithPage(t, x)
  OBVIOUS
<1>5. /\ Framed(w) /\ w.rootPage = t.rootPage /\ w.modified = t.modified
      /\ right \in FreePages(t) /\ FreePages(w) = FreePages(t) \ {right}
      /\ \A q \in IndexPages : w.node[q] = IF q = right THEN x ELSE t.node[q]
  BY <1>2, <1>4, WithPageFacts
<1>6. left # right
  BY <1>5 DEF FreePages
<1>7. ~Gone(w, left)
  BY <1>5, <1>6 DEF Gone
<1>8. u = Put(w, left, y)
  BY <1>1, <1>4 DEF Halved, Put
<1>9. /\ Framed(u) /\ u.rootPage = w.rootPage /\ u.modified = w.modified
      /\ FreePages(u) = FreePages(w)
      /\ \A q \in IndexPages : u.node[q] = IF q = left THEN y ELSE w.node[q]
  BY <1>2, <1>3, <1>5, <1>7, <1>8, PutFacts
<1> QED BY <1>1, <1>5, <1>6, <1>9

(* A root above two nodes takes one free page and becomes their parent. *)
LEMMA WithNewRootFacts ==
  ASSUME NEW t, Framed(t), FreePages(t) # {},
         NEW left \in IndexPages, ~Gone(t, left), NEW right \in IndexPages, ~Gone(t, right),
         NEW root, root = NewPage(t), NEW u, u = WithNewRoot(t, left, right)
  PROVE  /\ Framed(u) /\ u.rootPage = root /\ u.modified
         /\ root \in FreePages(t) /\ FreePages(u) = FreePages(t) \ {root}
         /\ \A q \in IndexPages :
              u.node[q] =
                IF q = root THEN Node("ROOT", <<t.node[right].keys[1]>>, <<left, right>>,
                                      IX_NO_PAGE, IX_NO_PAGE, IX_NO_PAGE)
                ELSE IF q \in {left, right} THEN SetParent(t.node[q], root)
                ELSE t.node[q]
<1>1. PICK x : x = Node("ROOT", <<t.node[right].keys[1]>>, <<left, right>>,
                        IX_NO_PAGE, IX_NO_PAGE, IX_NO_PAGE)
  OBVIOUS
<1>2. IsNode(x) /\ x.type = "ROOT"
  BY <1>1, NodeFacts
<1>3. PICK a : a = WithPage(t, x)
  OBVIOUS
<1>4. /\ Framed(a) /\ root \in FreePages(t) /\ FreePages(a) = FreePages(t) \ {root}
      /\ \A q \in IndexPages : a.node[q] = IF q = root THEN x ELSE t.node[q]
  BY <1>2, <1>3, WithPageFacts
<1>5. left # root /\ right # root
  BY <1>4 DEF FreePages
<1>6. PICK b : b = RootMoved(a, root)
  OBVIOUS
<1>7. /\ Framed(b) /\ b.rootPage = root /\ b.modified /\ FreePages(b) = FreePages(a)
      /\ b.node = a.node
  BY <1>4, <1>6, RootMovedFacts
<1>8. PICK v, y : v = t.node[left] /\ y = SetParent(v, root)
  OBVIOUS
<1>9. b.node[left] = v /\ IsNode(v) /\ IsNode(y) /\ y.type = v.type
      /\ y = Node(v.type, v.keys, v.vals, v.next, v.prePage, root)
  <2>1. b.node[left] = v /\ IsNode(v)
    BY <1>4, <1>5, <1>7, <1>8, NodeOf
  <2>2. y = Node(v.type, v.keys, v.vals, v.next, v.prePage, root)
    BY <1>8, <2>1, FieldFacts
  <2> QED BY <2>1, <2>2, NodeFacts
<1>10. PICK c : c = Put(b, left, y)
  OBVIOUS
<1>11. /\ Framed(c) /\ c.rootPage = root /\ c.modified /\ FreePages(c) = FreePages(b)
       /\ \A q \in IndexPages : c.node[q] = IF q = left THEN y ELSE b.node[q]
  <2>1. y.type = "NONE" <=> Gone(b, left)
    BY <1>9 DEF Gone
  <2>2. IsNode(y) /\ Framed(b)
    BY <1>7, <1>9
  <2>3. /\ Framed(c) /\ c.rootPage = b.rootPage /\ c.modified = b.modified
        /\ FreePages(c) = FreePages(b)
        /\ \A q \in IndexPages : c.node[q] = IF q = left THEN y ELSE b.node[q]
    BY <1>10, <2>1, <2>2, PutFacts
  <2> QED BY <1>7, <2>3
<1>12. PICK x2, z : x2 = c.node[right] /\ z = SetParent(x2, root)
  OBVIOUS
<1>13. IsNode(x2) /\ IsNode(z) /\ z.type = x2.type /\ z = SetParent(t.node[right], root)
  <2>1. IsNode(x2)
    BY <1>11, <1>12, NodeOf
  <2>2. z = Node(x2.type, x2.keys, x2.vals, x2.next, x2.prePage, root)
    BY <1>12, <2>1, FieldFacts
  <2>3. IsNode(z) /\ z.type = x2.type
    BY <2>2, NodeFacts
  <2>4. CASE right # left
    <3>1. x2 = t.node[right]
      BY <1>4, <1>5, <1>7, <1>11, <1>12, <2>4
    <3> QED BY <1>12, <2>1, <2>3, <3>1
  <2>5. CASE right = left
    <3>1. x2 = y
      BY <1>11, <1>12, <2>5
    <3>2. z = Node(v.type, v.keys, v.vals, v.next, v.prePage, root)
      BY <1>9, <2>2, <3>1, NodeFacts
    <3>3. z = SetParent(v, root)
      BY <1>8, <1>9, <3>2
    <3> QED BY <1>8, <2>1, <2>3, <2>5, <3>3
  <2> QED BY <2>4, <2>5
<1>14. u = Put(c, right, z)
  <2>1. c = [b EXCEPT !.node[left].parent = root]
    BY <1>8, <1>9, <1>10 DEF Put, SetParent
  <2>2. u = [[b EXCEPT !.node[left].parent = root] EXCEPT !.node[right].parent = root]
    BY <1>1, <1>3, <1>6 DEF WithNewRoot
  <2> QED BY <1>12, <2>1, <2>2 DEF Put, SetParent
<1>15. /\ Framed(u) /\ u.rootPage = root /\ u.modified /\ FreePages(u) = FreePages(c)
       /\ \A q \in IndexPages : u.node[q] = IF q = right THEN z ELSE c.node[q]
  <2>1. z.type = "NONE" <=> Gone(c, right)
    BY <1>12, <1>13 DEF Gone
  <2>2. IsNode(z) /\ Framed(c)
    BY <1>11, <1>13
  <2>3. /\ Framed(u) /\ u.rootPage = c.rootPage /\ u.modified = c.modified
        /\ FreePages(u) = FreePages(c)
        /\ \A q \in IndexPages : u.node[q] = IF q = right THEN z ELSE c.node[q]
    BY <1>14, <2>1, <2>2, PutFacts
  <2> QED BY <1>11, <2>3
<1>16. ASSUME NEW q \in IndexPages
       PROVE  u.node[q] = IF q = root THEN x
                ELSE IF q \in {left, right} THEN SetParent(t.node[q], root)
                ELSE t.node[q]
  <2>1. u.node[q] = IF q = right THEN z ELSE IF q = left THEN y
                    ELSE IF q = root THEN x ELSE t.node[q]
    BY <1>4, <1>7, <1>11, <1>15
  <2>2. y = SetParent(t.node[left], root)
    BY <1>8
  <2> QED BY <1>5, <1>13, <2>1, <2>2
<1> QED BY <1>1, <1>4, <1>7, <1>11, <1>15, <1>16

(* A child entered into its parent changes the parent only. *)
LEMMA WithChildFacts ==
  ASSUME NEW t, Framed(t), NEW parent, NEW right, NEW key, key = t.node[right].keys[1],
         NEW pos, pos = InsertPos(t.node[parent].keys, key),
         NEW u, u = WithChild(t, parent, right)
  PROVE  /\ Framed(u) /\ u.rootPage = t.rootPage /\ u.modified = t.modified
         /\ FreePages(u) = FreePages(t)
         /\ \A q \in IndexPages :
              u.node[q] = IF q # parent THEN t.node[q]
                ELSE Node(t.node[q].type, InsertAt(t.node[q].keys, pos, key),
                          InsertAt(t.node[q].vals, pos + 1, right), t.node[q].next,
                          t.node[q].prePage, t.node[q].parent)
<1>1. PICK x : x = t.node[parent]
  OBVIOUS
<1>2. PICK y : y = SetKeys(x, InsertAt(x.keys, pos, key))
  OBVIOUS
<1>3. parent \in IndexPages =>
        /\ IsNode(x) /\ IsNode(y) /\ y.type = x.type /\ y.vals = x.vals
        /\ y = Node(x.type, InsertAt(x.keys, pos, key), x.vals, x.next, x.prePage, x.parent)
  <2> SUFFICES ASSUME parent \in IndexPages
               PROVE  /\ IsNode(x) /\ IsNode(y) /\ y.type = x.type /\ y.vals = x.vals
                      /\ y = Node(x.type, InsertAt(x.keys, pos, key), x.vals, x.next,
                                  x.prePage, x.parent)
    OBVIOUS
  <2>1. IsNode(x)
    BY <1>1, NodeOf
  <2>2. y = Node(x.type, InsertAt(x.keys, pos, key), x.vals, x.next, x.prePage, x.parent)
    BY <1>2, <2>1, FieldFacts
  <2> QED BY <2>1, <2>2, NodeFacts
<1>4. PICK a : a = Put(t, parent, y)
  OBVIOUS
<1>5. /\ Framed(a) /\ a.rootPage = t.rootPage /\ a.modified = t.modified
      /\ FreePages(a) = FreePages(t)
      /\ \A q \in IndexPages : a.node[q] = IF q = parent THEN y ELSE t.node[q]
  <2>1. parent \in IndexPages => IsNode(y) /\ (y.type = "NONE" <=> Gone(t, parent))
    BY <1>1, <1>3 DEF Gone
  <2> QED BY <1>4, <2>1, PutFacts
<1>6. PICK z : z = SetVals(a.node[parent], InsertAt(a.node[parent].vals, pos + 1, right))
  OBVIOUS
<1>7. parent \in IndexPages =>
        /\ IsNode(z) /\ z.type = x.type
        /\ z = Node(x.type, InsertAt(x.keys, pos, key), InsertAt(x.vals, pos + 1, right),
                    x.next, x.prePage, x.parent)
  <2> SUFFICES ASSUME parent \in IndexPages
               PROVE  /\ IsNode(z) /\ z.type = x.type
                      /\ z = Node(x.type, InsertAt(x.keys, pos, key),
                                  InsertAt(x.vals, pos + 1, right), x.next, x.prePage, x.parent)
    OBVIOUS
  <2>1. a.node[parent] = y
    BY <1>5
  <2>2. y.type = x.type /\ y.keys = InsertAt(x.keys, pos, key) /\ y.vals = x.vals
        /\ y.next = x.next /\ y.prePage = x.prePage /\ y.parent = x.parent /\ IsNode(y)
    BY <1>3, NodeFacts
  <2>3. z = SetVals(y, InsertAt(x.vals, pos + 1, right))
    BY <1>6, <2>1, <2>2
  <2>4. z = Node(y.type, y.keys, InsertAt(x.vals, pos + 1, right), y.next, y.prePage, y.parent)
    BY <2>2, <2>3, FieldFacts
  <2> QED BY <2>2, <2>4, NodeFacts
<1>8. u = Put(a, parent, z)
  <2>1. a = [t EXCEPT !.node[parent].keys = InsertAt(@, pos, key)]
    BY <1>1, <1>2, <1>4 DEF Put, SetKeys
  <2>2. u = [[t EXCEPT !.node[parent].keys = InsertAt(@, pos, key)]
               EXCEPT !.node[parent].vals = InsertAt(@, pos + 1, right)]
    BY DEF WithChild
  <2> QED BY <1>6, <2>1, <2>2 DEF Put, SetVals
<1>9. /\ Framed(u) /\ u.rootPage = a.rootPage /\ u.modified = a.modified
      /\ FreePages(u) = FreePages(a)
      /\ \A q \in IndexPages : u.node[q] = IF q = parent THEN z ELSE a.node[q]
  <2>1. parent \in IndexPages => IsNode(z) /\ (z.type = "NONE" <=> Gone(a, parent))
    BY <1>1, <1>3, <1>5, <1>7 DEF Gone
  <2> QED BY <1>5, <1>8, <2>1, PutFacts
<1>10. ASSUME NEW q \in IndexPages
       PROVE  u.node[q] = IF q # parent THEN t.node[q]
                ELSE Node(t.node[q].type, InsertAt(t.node[q].keys, pos, key),
                          InsertAt(t.node[q].vals, pos + 1, right), t.node[q].next,
                          t.node[q].prePage, t.node[q].parent)
  BY <1>1, <1>5, <1>7, <1>9
<1> QED BY <1>5, <1>9, <1>10

(* A page taken is a free page less. *)
LEMMA FreeCount ==
  ASSUME NEW t, NEW u, NEW p \in FreePages(t), FreePages(u) = FreePages(t) \ {p}
  PROVE  /\ Cardinality(FreePages(t)) \in Nat /\ Cardinality(FreePages(u)) \in Nat
         /\ Cardinality(FreePages(u)) = Cardinality(FreePages(t)) - 1
<1>1. IsFiniteSet(IndexPages)
  BY IndexAssumption, FS_Interval DEF IndexPages
<1>2. FreePages(t) \subseteq IndexPages
  BY DEF FreePages
<1>3. IsFiniteSet(FreePages(t))
  BY <1>1, <1>2, FS_Subset
<1>4. /\ IsFiniteSet(FreePages(t) \ {p})
      /\ Cardinality(FreePages(t) \ {p}) = Cardinality(FreePages(t)) - 1
  BY <1>3, FS_RemoveElement
<1> QED BY <1>3, <1>4, FS_CardinalityType

(* The free pages can be counted. *)
LEMMA FreeCountType ==
  ASSUME NEW t
  PROVE  /\ IsFiniteSet(FreePages(t)) /\ Cardinality(FreePages(t)) \in Nat
         /\ Cardinality(FreePages(t)) > 0 => FreePages(t) # {}
<1>1. IsFiniteSet(IndexPages)
  BY IndexAssumption, FS_Interval DEF IndexPages
<1>2. FreePages(t) \subseteq IndexPages
  BY DEF FreePages
<1> QED BY <1>1, <1>2, FS_Subset, FS_CardinalityType, FS_EmptySet

(* A header that is not to be written has the root it had.                 *)
HeaderKept(t, u) ==
  /\ t.modified => u.modified
  /\ ~u.modified => u.rootPage = t.rootPage

(* A split takes at most two pages, and says of one page only what it is.  *)
LEMMA SplitNodeKeeps ==
  ASSUME NEW t, Framed(t), NEW left \in IndexPages, ~Gone(t, left), NEW type, type # "NONE",
         Cardinality(FreePages(t)) >= 2, NEW u, u = SplitNode(t, left, type)
  PROVE  /\ Framed(u) /\ Cardinality(FreePages(u)) >= Cardinality(FreePages(t)) - 2
         /\ HeaderKept(t, u)
         /\ \A q \in IndexPages : ~Gone(t, q) => ~Gone(u, q)
         /\ u.node[left].type = type
         /\ \A q \in IndexPages : ~Gone(t, q) /\ q # left => u.node[q].type = t.node[q].type
<1>1. PICK right : right = NewPage(t)
  OBVIOUS
<1>2. PICK h : h = Halved(t, left, right, type)
  OBVIOUS
<1>3. PICK n \in Nat : n = Cardinality(FreePages(t))
  BY FreeCountType
<1>4. FreePages(t) # {}
  BY <1>3, FreeCountType
<1>5. PICK x, y : x = RightNode(t, left, type) /\ y = LeftNode(t, left, right, type)
  OBVIOUS
<1>6. /\ Framed(h) /\ h.rootPage = t.rootPage /\ h.modified = t.modified
      /\ right \in FreePages(t) /\ right # left
      /\ FreePages(h) = FreePages(t) \ {right}
      /\ \A q \in IndexPages :
           h.node[q] = IF q = left THEN y ELSE IF q = right THEN x ELSE t.node[q]
  BY <1>1, <1>2, <1>4, <1>5, HalvedFacts
<1>7. right \in IndexPages /\ Gone(t, right)
  BY <1>6 DEF FreePages
<1>8. x.type = type
  BY <1>5, NodeFacts DEF RightNode
<1>9. y.type = type
  BY <1>5, NodeOf, LeftNodeFacts
<1>10. Cardinality(FreePages(h)) = n - 1
  BY <1>3, <1>6, FreeCount
<1>11. h.node[left].type = type /\ h.node[right].type = type
       /\ \A q \in IndexPages : ~Gone(t, q) /\ q # left => h.node[q].type = t.node[q].type
  BY <1>6, <1>7, <1>8, <1>9
<1>12. CASE t.node[left].parent = IX_NO_PAGE
  <2>1. u = WithNewRoot(h, left, right)
    BY <1>1, <1>2, <1>12 DEF SplitNode
  <2>2. ~Gone(h, left) /\ ~Gone(h, right)
    BY <1>11 DEF Gone
  <2>3. n - 1 > 0
    BY <1>3
  <2>4. FreePages(h) # {}
    BY <1>10, <2>3, FreeCountType
  <2>5. PICK root : root = NewPage(h)
    OBVIOUS
  <2>6. PICK z : z = Node("ROOT", <<h.node[right].keys[1]>>, <<left, right>>,
                          IX_NO_PAGE, IX_NO_PAGE, IX_NO_PAGE)
    OBVIOUS
  <2>7. /\ Framed(u) /\ u.modified
        /\ root \in FreePages(h) /\ FreePages(u) = FreePages(h) \ {root}
        /\ \A q \in IndexPages :
             u.node[q] = IF q = root THEN z
                ELSE IF q \in {left, right} THEN SetParent(h.node[q], root)
                ELSE h.node[q]
    BY <1>6, <1>7, <2>1, <2>2, <2>4, <2>5, <2>6, WithNewRootFacts
  <2>8. Cardinality(FreePages(u)) = n - 2
    <3>1. Cardinality(FreePages(u)) = Cardinality(FreePages(h)) - 1
      BY <2>7, FreeCount
    <3> QED BY <1>3, <1>10, <3>1
  <2>9. \A q \in IndexPages : q # root => u.node[q].type = h.node[q].type
    <3> SUFFICES ASSUME NEW q \in IndexPages, q # root PROVE u.node[q].type = h.node[q].type
      OBVIOUS
    <3>1. CASE q \in {left, right}
      <4>1. PICK v : v = h.node[q]
        OBVIOUS
      <4>2. IsNode(v)
        BY <1>6, <4>1, NodeOf
      <4>3. u.node[q] = SetParent(v, root)
        BY <2>7, <3>1, <4>1
      <4>4. u.node[q] = Node(v.type, v.keys, v.vals, v.next, v.prePage, root)
        BY <4>2, <4>3, FieldFacts
      <4> QED BY <4>1, <4>4, NodeFacts
    <3>2. CASE q \notin {left, right}
      BY <2>7, <3>2
    <3> QED BY <3>1, <3>2
  <2>10. \A q \in IndexPages : ~Gone(t, q) => q # root
    BY <1>6, <2>7 DEF FreePages
  <2>11. left # root
    BY <2>10
  <2>12. u.node[left].type = type
         /\ \A q \in IndexPages : ~Gone(t, q) /\ q # left => u.node[q].type = t.node[q].type
    BY <1>11, <2>9, <2>10, <2>11
  <2>13. \A q \in IndexPages : ~Gone(t, q) => ~Gone(u, q)
    BY <2>12 DEF Gone
  <2>14. HeaderKept(t, u)
    BY <2>7 DEF HeaderKept
  <2>15. Cardinality(FreePages(u)) >= Cardinality(FreePages(t)) - 2
    BY <1>3, <2>8
  <2> QED BY <2>7, <2>12, <2>13, <2>14, <2>15
<1>13. CASE t.node[left].parent # IX_NO_PAGE
  <2>1. PICK p : p = h.node[left].parent
    OBVIOUS
  <2>2. p = t.node[left].parent
    BY <1>5, <1>6, <2>1, NodeOf, LeftNodeFacts
  <2>3. u = WithChild(h, p, right)
    BY <1>1, <1>2, <1>13, <2>2 DEF SplitNode
  <2>4. PICK key : key = h.node[right].keys[1]
    OBVIOUS
  <2>5. PICK pos : pos = InsertPos(h.node[p].keys, key)
    OBVIOUS
  <2>6. /\ Framed(u) /\ u.rootPage = h.rootPage /\ u.modified = h.modified
        /\ FreePages(u) = FreePages(h)
        /\ \A q \in IndexPages :
             u.node[q] = IF q # p THEN h.node[q]
                ELSE Node(h.node[q].type, InsertAt(h.node[q].keys, pos, key),
                          InsertAt(h.node[q].vals, pos + 1, right), h.node[q].next,
                          h.node[q].prePage, h.node[q].parent)
    BY <1>6, <2>3, <2>4, <2>5, WithChildFacts
  <2>7. \A q \in IndexPages : u.node[q].type = h.node[q].type
    <3> SUFFICES ASSUME NEW q \in IndexPages PROVE u.node[q].type = h.node[q].type
      OBVIOUS
    <3>1. CASE q # p
      BY <2>6, <3>1
    <3>2. CASE q = p
      BY <2>6, <3>2, NodeFacts
    <3> QED BY <3>1, <3>2
  <2>8. u.node[left].type = type
        /\ \A q \in IndexPages : ~Gone(t, q) /\ q # left => u.node[q].type = t.node[q].type
    BY <1>11, <2>7
  <2>9. \A q \in IndexPages : ~Gone(t, q) => ~Gone(u, q)
    BY <2>8 DEF Gone
  <2>10. Cardinality(FreePages(u)) = n - 1
    BY <1>10, <2>6
  <2>11. HeaderKept(t, u)
    BY <1>6, <2>6 DEF HeaderKept
  <2>12. Cardinality(FreePages(u)) >= Cardinality(FreePages(t)) - 2
    BY <1>3, <2>10
  <2> QED BY <2>6, <2>8, <2>9, <2>11, <2>12
<1> QED BY <1>12, <1>13

(* A page that is an inner node below the root stays one.                  *)
LEMMA SplitUpKeeps ==
  ASSUME NEW t, Framed(t), NEW up, Len(up) \in Nat,
         \A n \in 1 .. Len(up) : up[n] \in IndexPages /\ ~Gone(t, up[n]),
         Cardinality(FreePages(t)) > 2 * Len(up),
         NEW u, u = SplitUp(t, up)[Len(up)]
  PROVE  /\ Framed(u) /\ HeaderKept(t, u)
         /\ \A d \in IndexPages : t.node[d].type = "NODE" /\ (Len(up) > 0 => up[1] # d)
                                 => u.node[d].type = "NODE"
<1>1. PICK m \in Nat : m = Len(up)
  OBVIOUS
<1>2. PICK c \in Nat : c = Cardinality(FreePages(t))
  BY FreeCountType
<1>3. PICK w : w = SplitUp(t, up)
  OBVIOUS
<1>4. w[0] = t /\ \A n \in 1 .. m : w[n] = SplitIfFull(w[n - 1], up[n], n)
  BY <1>1, <1>3, SplitUpIs
<1> DEFINE Inner == {d \in IndexPages : t.node[d].type = "NODE" /\ (m > 0 => up[1] # d)}
           P(n) == /\ Framed(w[n]) /\ Cardinality(FreePages(w[n])) >= c - 2 * n
                   /\ HeaderKept(t, w[n])
                   /\ \A d \in Inner : w[n].node[d].type = "NODE"
                   /\ \A q \in IndexPages : ~Gone(t, q) => ~Gone(w[n], q)
           T == {n \in 0 .. m : ~P(n)}
<1>5. SUFFICES ASSUME T # {} PROVE FALSE
  BY <1>1, <1>3
<1>6. PICK n \in T : \A j \in T : n <= j
  <2>1. T \in SUBSET Nat
    OBVIOUS
  <2> HIDE DEF T
  <2> QED BY <1>5, <2>1, LeastNatural
<1>7. n \in 0 .. m /\ ~P(n)
  BY <1>6
<1>8. P(0)
  <2>1. HeaderKept(t, t)
    BY DEF HeaderKept
  <2> QED BY <1>2, <1>4, <2>1
<1>9. n # 0
  BY <1>7, <1>8
<1>10. n - 1 \in 0 .. m /\ n \in 1 .. m /\ ~(n <= n - 1)
  BY <1>7, <1>9
<1>11. P(n - 1)
  BY <1>6, <1>10
<1>12. PICK v : v = w[n - 1]
  OBVIOUS
<1>13. /\ Framed(v) /\ Cardinality(FreePages(v)) >= c - 2 * (n - 1)
       /\ HeaderKept(t, v)
       /\ \A d \in Inner : v.node[d].type = "NODE"
       /\ \A q \in IndexPages : ~Gone(t, q) => ~Gone(v, q)
  BY <1>11, <1>12
<1>14. w[n] = SplitIfFull(v, up[n], n)
  BY <1>4, <1>10, <1>12
<1>15. Cardinality(FreePages(v)) \in Nat
  BY FreeCountType
<1>16. CASE Len(v.node[up[n]].keys) < degree
  <2>1. w[n] = v
    BY <1>14, <1>16 DEF SplitIfFull
  <2>2. Cardinality(FreePages(v)) >= c - 2 * n
    BY <1>2, <1>10, <1>13, <1>15
  <2> QED BY <1>7, <1>13, <2>1, <2>2
<1>17. CASE ~(Len(v.node[up[n]].keys) < degree)
  <2>1. PICK type : type = IF n = 1 THEN "LEAF" ELSE "NODE"
    OBVIOUS
  <2>2. type # "NONE" /\ (n # 1 => type = "NODE")
    BY <2>1
  <2>3. w[n] = SplitNode(v, up[n], type)
    BY <1>14, <1>17, <2>1 DEF SplitIfFull
  <2>4. up[n] \in IndexPages /\ ~Gone(v, up[n])
    BY <1>1, <1>10, <1>13
  <2>5. Cardinality(FreePages(v)) >= 2
    BY <1>1, <1>2, <1>10, <1>13, <1>15
  <2>6. /\ Framed(w[n]) /\ Cardinality(FreePages(w[n])) >= Cardinality(FreePages(v)) - 2
        /\ HeaderKept(v, w[n])
        /\ \A q \in IndexPages : ~Gone(v, q) => ~Gone(w[n], q)
        /\ w[n].node[up[n]].type = type
        /\ \A q \in IndexPages : ~Gone(v, q) /\ q # up[n] => w[n].node[q].type = v.node[q].type
    BY <1>13, <2>2, <2>3, <2>4, <2>5, SplitNodeKeeps
  <2>7. Cardinality(FreePages(w[n])) \in Nat
    BY FreeCountType
  <2>8. Cardinality(FreePages(w[n])) >= c - 2 * n
    BY <1>2, <1>10, <1>13, <1>15, <2>6, <2>7
  <2>9. ASSUME NEW d \in Inner PROVE w[n].node[d].type = "NODE"
    <3>1. d \in IndexPages /\ v.node[d].type = "NODE" /\ (m > 0 => up[1] # d)
      BY <1>13
    <3>2. ~Gone(v, d)
      BY <3>1 DEF Gone
    <3>3. CASE up[n] = d
      <4>1. n # 1
        BY <1>10, <3>1, <3>3
      <4> QED BY <2>2, <2>6, <3>3, <4>1
    <3>4. CASE up[n] # d
      BY <2>6, <3>1, <3>2, <3>4
    <3> QED BY <3>3, <3>4
  <2>10. \A q \in IndexPages : ~Gone(t, q) => ~Gone(w[n], q)
    BY <1>13, <2>6
  <2>11. HeaderKept(t, w[n])
    BY <1>13, <2>6 DEF HeaderKept
  <2> QED BY <1>7, <2>6, <2>8, <2>9, <2>10, <2>11
<1> QED BY <1>16, <1>17

-----------------------------------------------------------------------------
(* A tree of one leaf, or of a root above leaves: its separators and its   *)
(* leaves, from left to right.                                             *)
IsRoot(t) == t.node[t.rootPage].type = "ROOT"
Seps(t) == IF IsRoot(t) THEN t.node[t.rootPage].keys ELSE << >>
Kids(t) == IF IsRoot(t) THEN t.node[t.rootPage].vals ELSE <<t.rootPage>>

(* Each row of a leaf is with its key, and the keys are in order.          *)
LeafHas(keys, vals) ==
  /\ Sorted(keys) /\ vals \in Seq(Rows) /\ Len(vals) = Len(keys)
  /\ \A i \in 1 .. Len(keys) : Key[vals[i]] = keys[i]

(* The separators lead to each leaf for its keys.                          *)
Tiled(seps, kids, node) ==
  /\ Sorted(seps) /\ kids \in Seq(IndexPages) /\ IsInjective(kids) /\ Len(kids) = Len(seps) + 1
  /\ \A i \in 1 .. Len(kids) :
       /\ LeafHas(node[kids[i]].keys, node[kids[i]].vals)
       /\ \A k \in ToSet(node[kids[i]].keys) : SearchPos(seps, k) = i
RowsIn(kids, node) == UNION {ToSet(node[kids[i]].vals) : i \in 1 .. Len(kids)}

Rooted(t) ==
  /\ t.rootPage \in IndexPages /\ t.node[t.rootPage].parent = IX_NO_PAGE
  /\ IF IsRoot(t)
     THEN \A i \in 1 .. Len(Kids(t)) : /\ t.node[Kids(t)[i]].type = "LEAF"
                                       /\ t.node[Kids(t)[i]].parent = t.rootPage
     ELSE t.node[t.rootPage].type = "ROOT_LEAF"
NotFull(t) == \A i \in 1 .. Len(Kids(t)) : Len(t.node[Kids(t)[i]].keys) < degree

(* The tree holds these rows.                                              *)
Holds(t, rows) ==
  IF t.rootPage = IX_NO_PAGE THEN rows = {}
  ELSE /\ Rooted(t) /\ NotFull(t) /\ Tiled(Seps(t), Kids(t), t.node)
       /\ rows = RowsIn(Kids(t), t.node)

(* In a tree without trouble that has one level of inner nodes at most the *)
(* rows are the entries; the header that is not to be written is in the    *)
(* file.                                                                   *)
IndexInv ==
  trouble \subseteq {"leafGone"} =>
    /\ Framed(tree)
    /\ ~tree.modified => page0 = tree.rootPage
    /\ ~isOpen => ~tree.modified
    /\ Shallow(tree) => Holds(tree, entries)
(* The keys up to k come before its place, one more or one less.           *)
LEMMA SepsInsert ==
  ASSUME NEW s, Sorted(s), NEW key \in Nat, key \notin ToSet(s),
         NEW pos, pos = InsertPos(s, key), NEW s2, s2 = InsertAt(s, pos, key)
  PROVE  /\ Sorted(s2) /\ Len(s2) = Len(s) + 1 /\ pos \in 1 .. Len(s) + 1
         /\ ToSet(s2) = ToSet(s) \cup {key}
         /\ \A k \in Nat : SearchPos(s2, k) = SearchPos(s, k) + (IF key <= k THEN 1 ELSE 0)
<1>1. PICK n \in Nat : n = Len(s)
  BY SortedFacts
<1>2. /\ pos \in 1 .. n + 1 /\ \A i \in 1 .. n : s[i] <= key <=> i < pos
  BY <1>1, InsertPosFacts, SearchPosFacts
<1>3. /\ DOMAIN s = 1 .. n /\ \A i \in 1 .. n : s[i] \in Nat /\ s[i] # key
      /\ \A i, j \in 1 .. n : i < j => s[i] < s[j]
  BY <1>1, SortedFacts DEF ToSet
<1>4. /\ s2 \in Seq(Nat) /\ Len(s2) = n + 1
      /\ \A i \in 1 .. n + 1 : s2[i] = IF i < pos THEN s[i] ELSE IF i = pos THEN key ELSE s[i - 1]
  <2>1. s \in Seq(Nat) /\ pos \in 1 .. Len(s) + 1
    BY <1>1, <1>2 DEF Sorted
  <2>2. PICK S, e : S = Nat /\ e = key
    OBVIOUS
  <2>3. s \in Seq(S) /\ e \in S
    BY <2>1, <2>2
  <2>4. /\ InsertAt(s, pos, e) \in Seq(S) /\ Len(InsertAt(s, pos, e)) = Len(s) + 1
        /\ \A i \in 1 .. Len(s) + 1 :
             InsertAt(s, pos, e)[i] = IF i < pos THEN s[i] ELSE IF i = pos THEN e ELSE s[i - 1]
    BY <2>1, <2>3, InsertFacts
  <2> QED BY <1>1, <2>2, <2>4
<1>5. ASSUME NEW i \in 1 .. n + 1, NEW j \in 1 .. n + 1, i < j PROVE s2[i] < s2[j]
  <2>1. CASE j < pos
    <3>1. i \in 1 .. n /\ j \in 1 .. n /\ i < pos
      BY <1>2, <1>5, <2>1
    <3> QED BY <1>3, <1>4, <1>5, <2>1, <3>1
  <2>2. CASE j = pos
    <3>1. i \in 1 .. n /\ i < pos
      BY <1>2, <1>5, <2>2
    <3>2. s[i] <= key /\ s[i] \in Nat /\ s[i] # key
      BY <1>2, <1>3, <3>1
    <3>3. s2[i] = s[i] /\ s2[j] = key
      BY <1>4, <2>2, <3>1
    <3> QED BY <3>2, <3>3
  <2>3. CASE j > pos
    <3>1. j - 1 \in 1 .. n /\ ~(j - 1 < pos) /\ ~(j < pos) /\ j # pos
      BY <1>2, <1>5, <2>3
    <3>2. s2[j] = s[j - 1] /\ s[j - 1] \in Nat /\ key < s[j - 1]
      BY <1>2, <1>3, <1>4, <3>1
    <3>3. CASE i < pos
      <4>1. i \in 1 .. n /\ i < j - 1
        BY <1>2, <3>1, <3>3
      <4> QED BY <1>3, <1>4, <3>1, <3>2, <3>3, <4>1
    <3>4. CASE i = pos
      BY <1>4, <3>2, <3>4
    <3>5. CASE i > pos
      <4>1. i - 1 \in 1 .. n /\ i - 1 < j - 1 /\ ~(i < pos) /\ i # pos
        BY <1>2, <1>5, <3>5
      <4> QED BY <1>3, <1>4, <3>1, <3>2, <4>1
    <3> QED BY <1>2, <3>3, <3>4, <3>5
  <2> QED BY <1>2, <2>1, <2>2, <2>3
<1>6. Sorted(s2)
  BY <1>4, <1>5 DEF Sorted
<1>7. ToSet(s2) = ToSet(s) \cup {key}
  <2>1. DOMAIN s2 = 1 .. n + 1
    BY <1>4
  <2>2. \A i \in 1 .. n + 1 : s2[i] = key \/ \E j \in 1 .. n : s2[i] = s[j]
    <3> TAKE i \in 1 .. n + 1
    <3>1. i < pos => i \in 1 .. n
      BY <1>2
    <3>2. ~(i < pos) /\ i # pos => i - 1 \in 1 .. n
      BY <1>2
    <3> QED BY <1>4, <3>1, <3>2
  <2>3. \E i \in 1 .. n + 1 : s2[i] = key
    BY <1>2, <1>4
  <2>4. \A j \in 1 .. n : \E i \in 1 .. n + 1 : s2[i] = s[j]
    <3> TAKE j \in 1 .. n
    <3>1. CASE j < pos
      BY <1>4, <3>1
    <3>2. CASE ~(j < pos)
      <4>1. j + 1 \in 1 .. n + 1 /\ ~(j + 1 < pos) /\ j + 1 # pos /\ (j + 1) - 1 = j
        BY <1>2, <3>2
      <4> QED BY <1>4, <4>1
    <3> QED BY <3>1, <3>2
  <2>5. ToSet(s) = {s[i] : i \in 1 .. n} /\ ToSet(s2) = {s2[i] : i \in 1 .. n + 1}
    BY <1>3, <2>1 DEF ToSet
  <2> QED BY <2>2, <2>3, <2>4, <2>5
<1>8. ASSUME NEW k \in Nat
      PROVE  SearchPos(s2, k) = SearchPos(s, k) + (IF key <= k THEN 1 ELSE 0)
  <2>1. PICK p : p = SearchPos(s, k)
    OBVIOUS
  <2>2. p \in 1 .. n + 1 /\ \A i \in 1 .. n : s[i] <= k <=> i < p
    BY <1>1, <2>1, SearchPosFacts
  <2>3. CASE key <= k
    <3>1. pos <= p
      <4>1. SUFFICES ASSUME p < pos PROVE FALSE
        BY <1>2, <2>2
      <4>2. p \in 1 .. n /\ ~(p < p)
        BY <1>2, <2>2, <4>1
      <4>3. s[p] <= key /\ ~(s[p] <= k) /\ s[p] \in Nat
        BY <1>2, <1>3, <2>2, <4>1, <4>2
      <4> QED BY <2>3, <4>3
    <3>2. ASSUME NEW i \in 1 .. n + 1 PROVE s2[i] <= k <=> i < p + 1
      <4>1. CASE i < pos
        <5>1. i \in 1 .. n /\ i < p
          BY <1>2, <2>2, <3>1, <4>1
        <5> QED BY <1>4, <2>2, <4>1, <5>1
      <4>2. CASE i = pos
        BY <1>2, <1>4, <2>2, <2>3, <3>1, <4>2
      <4>3. CASE i > pos
        <5>1. i - 1 \in 1 .. n /\ ~(i < pos) /\ i # pos /\ (i - 1 < p <=> i < p + 1)
          BY <1>2, <2>2, <4>3
        <5> QED BY <1>4, <2>2, <5>1
      <4> QED BY <1>2, <4>1, <4>2, <4>3
    <3>3. p + 1 \in 1 .. Len(s2) + 1 /\ \A i \in 1 .. Len(s2) : s2[i] <= k <=> i < p + 1
      BY <1>4, <2>2, <3>2
    <3>4. SearchPos(s2, k) = p + 1
      BY <1>6, <3>3, SearchPosIs
    <3> QED BY <2>1, <2>3, <3>4
  <2>4. CASE ~(key <= k)
    <3>1. p <= pos
      <4>1. SUFFICES ASSUME pos < p PROVE FALSE
        BY <1>2, <2>2
      <4>2. pos \in 1 .. n /\ ~(pos < pos)
        BY <1>2, <2>2, <4>1
      <4>3. ~(s[pos] <= key) /\ s[pos] <= k /\ s[pos] \in Nat
        BY <1>2, <1>3, <2>2, <4>1, <4>2
      <4> QED BY <2>4, <4>3
    <3>2. ASSUME NEW i \in 1 .. n + 1 PROVE s2[i] <= k <=> i < p
      <4>1. CASE i < pos
        <5>1. i \in 1 .. n
          BY <1>2, <4>1
        <5> QED BY <1>4, <2>2, <4>1, <5>1
      <4>2. CASE i = pos
        BY <1>2, <1>4, <2>2, <2>4, <3>1, <4>2
      <4>3. CASE i > pos
        <5>1. i - 1 \in 1 .. n /\ ~(i < pos) /\ i # pos /\ ~(i - 1 < p) /\ ~(i < p)
          BY <1>2, <2>2, <3>1, <4>3
        <5> QED BY <1>4, <2>2, <5>1
      <4> QED BY <1>2, <4>1, <4>2, <4>3
    <3>3. p \in 1 .. Len(s2) + 1 /\ \A i \in 1 .. Len(s2) : s2[i] <= k <=> i < p
      BY <1>4, <2>2, <3>2
    <3>4. SearchPos(s2, k) = p
      BY <1>6, <3>3, SearchPosIs
    <3>5. p + 0 = p
      BY <2>2
    <3> QED BY <2>1, <2>4, <3>4, <3>5
  <2> QED BY <2>3, <2>4
<1> QED BY <1>1, <1>2, <1>4, <1>6, <1>7, <1>8

(* One key less: the search of the keys behind it moves one place to the   *)
(* left.                                                                   *)
LEMMA SepsRemove ==
  ASSUME NEW s, Sorted(s), NEW d \in 1 .. Len(s), NEW s2, s2 = RemoveAt(s, d)
  PROVE  /\ Sorted(s2) /\ Len(s2) = Len(s) - 1
         /\ ToSet(s2) = ToSet(s) \ {s[d]}
         /\ \A k \in Nat : SearchPos(s2, k) = IF d < SearchPos(s, k) THEN SearchPos(s, k) - 1
                                              ELSE SearchPos(s, k)
<1>1. PICK n \in Nat : n = Len(s)
  BY SortedFacts
<1>2. d \in 1 .. n /\ n - 1 \in Nat
  BY <1>1
<1>3. /\ DOMAIN s = 1 .. n /\ \A i \in 1 .. n : s[i] \in Nat
      /\ \A i, j \in 1 .. n : i < j => s[i] < s[j]
      /\ \A i, j \in 1 .. n : s[i] = s[j] => i = j
  BY <1>1, SortedFacts
<1>4. /\ s2 \in Seq(Nat) /\ Len(s2) = n - 1
      /\ \A i \in 1 .. n - 1 : s2[i] = IF i < d THEN s[i] ELSE s[i + 1]
  <2>1. s \in Seq(Nat)
    BY DEF Sorted
  <2> QED BY <1>1, <2>1, RemoveFacts
<1>5. ASSUME NEW i \in 1 .. n - 1, NEW j \in 1 .. n - 1, i < j PROVE s2[i] < s2[j]
  <2>1. PICK a, b : a = (IF i < d THEN i ELSE i + 1) /\ b = (IF j < d THEN j ELSE j + 1)
    OBVIOUS
  <2>2. a \in 1 .. n /\ b \in 1 .. n /\ a < b
    BY <1>2, <1>5, <2>1
  <2>3. s2[i] = s[a] /\ s2[j] = s[b]
    BY <1>4, <2>1
  <2> QED BY <1>3, <2>2, <2>3
<1>6. Sorted(s2)
  BY <1>4, <1>5 DEF Sorted
<1>7. ToSet(s2) = ToSet(s) \ {s[d]}
  <2>1. DOMAIN s2 = 1 .. n - 1
    BY <1>4
  <2>2. \A i \in 1 .. n - 1 : \E j \in 1 .. n : j # d /\ s2[i] = s[j]
    <3> TAKE i \in 1 .. n - 1
    <3>1. CASE i < d
      BY <1>2, <1>4, <3>1
    <3>2. CASE ~(i < d)
      <4>1. i + 1 \in 1 .. n /\ i + 1 # d
        BY <1>2, <3>2
      <4> QED BY <1>4, <3>2, <4>1
    <3> QED BY <3>1, <3>2
  <2>3. \A j \in 1 .. n : j # d => \E i \in 1 .. n - 1 : s2[i] = s[j]
    <3> SUFFICES ASSUME NEW j \in 1 .. n, j # d PROVE \E i \in 1 .. n - 1 : s2[i] = s[j]
      OBVIOUS
    <3>1. CASE j < d
      <4>1. j \in 1 .. n - 1
        BY <1>2, <3>1
      <4> QED BY <1>4, <3>1, <4>1
    <3>2. CASE ~(j < d)
      <4>1. j - 1 \in 1 .. n - 1 /\ ~(j - 1 < d) /\ (j - 1) + 1 = j
        BY <1>2, <3>2
      <4> QED BY <1>4, <4>1
    <3> QED BY <3>1, <3>2
  <2>4. \A j \in 1 .. n : j # d <=> s[j] # s[d]
    BY <1>2, <1>3
  <2>5. ToSet(s) = {s[i] : i \in 1 .. n} /\ ToSet(s2) = {s2[i] : i \in 1 .. n - 1}
    BY <1>3, <2>1 DEF ToSet
  <2>6. ToSet(s2) \subseteq ToSet(s) \ {s[d]}
    BY <2>2, <2>4, <2>5
  <2>7. ToSet(s) \ {s[d]} \subseteq ToSet(s2)
    BY <2>3, <2>4, <2>5
  <2> QED BY <2>6, <2>7
<1>8. ASSUME NEW k \in Nat
      PROVE  SearchPos(s2, k) = IF d < SearchPos(s, k) THEN SearchPos(s, k) - 1
                                ELSE SearchPos(s, k)
  <2>1. PICK p : p = SearchPos(s, k)
    OBVIOUS
  <2>2. p \in 1 .. n + 1 /\ \A i \in 1 .. n : s[i] <= k <=> i < p
    BY <1>1, <2>1, SearchPosFacts
  <2>3. PICK q : q = IF d < p THEN p - 1 ELSE p
    OBVIOUS
  <2>4. q \in 1 .. n
    BY <1>2, <2>2, <2>3
  <2>5. ASSUME NEW i \in 1 .. n - 1 PROVE s2[i] <= k <=> i < q
    <3>1. PICK a : a = IF i < d THEN i ELSE i + 1
      OBVIOUS
    <3>2. a \in 1 .. n /\ (a < p <=> i < q)
      BY <1>2, <2>2, <2>3, <3>1
    <3>3. s2[i] = s[a]
      BY <1>4, <3>1
    <3> QED BY <2>2, <3>2, <3>3
  <2>6. q \in 1 .. Len(s2) + 1 /\ \A i \in 1 .. Len(s2) : s2[i] <= k <=> i < q
    BY <1>2, <1>4, <2>4, <2>5
  <2>7. SearchPos(s2, k) = q
    BY <1>6, <2>6, SearchPosIs
  <2> QED BY <2>1, <2>3, <2>7
<1> QED BY <1>1, <1>4, <1>6, <1>7, <1>8

(* What a leaf has with a row more, with one less, and in halves.          *)
LEMMA LeafFacts ==
  ASSUME NEW keys, NEW vals, LeafHas(keys, vals)
  PROVE  /\ Len(keys) \in Nat /\ DOMAIN keys = 1 .. Len(keys) /\ DOMAIN vals = 1 .. Len(keys)
         /\ \A i \in 1 .. Len(keys) : keys[i] \in Nat /\ vals[i] \in Rows /\ Key[vals[i]] = keys[i]
         /\ \A i, j \in 1 .. Len(keys) : i < j => keys[i] < keys[j]
         /\ \A i, j \in 1 .. Len(keys) : keys[i] = keys[j] => i = j
         /\ ToSet(keys) = {keys[i] : i \in 1 .. Len(keys)}
         /\ ToSet(vals) = {vals[i] : i \in 1 .. Len(keys)}
<1>1. Sorted(keys) /\ vals \in Seq(Rows) /\ Len(vals) = Len(keys)
      /\ \A i \in 1 .. Len(keys) : Key[vals[i]] = keys[i]
  BY DEF LeafHas
<1>2. DOMAIN keys = 1 .. Len(keys) /\ DOMAIN vals = 1 .. Len(keys)
  BY <1>1, SortedFacts
<1>3. ToSet(keys) = {keys[i] : i \in 1 .. Len(keys)}
      /\ ToSet(vals) = {vals[i] : i \in 1 .. Len(keys)}
  BY <1>2 DEF ToSet
<1> QED BY <1>1, <1>2, <1>3, SortedFacts

(* A leaf with one row more, whose key it did not have. *)
LEMMA LeafInsert ==
  ASSUME NEW keys, NEW vals, LeafHas(keys, vals), NEW r \in Rows, Key[r] \notin ToSet(keys),
         NEW pos, pos = InsertPos(keys, Key[r]),
         NEW keys2, keys2 = InsertAt(keys, pos, Key[r]), NEW vals2, vals2 = InsertAt(vals, pos, r)
  PROVE  /\ LeafHas(keys2, vals2) /\ Len(keys2) = Len(keys) + 1
         /\ ToSet(keys2) = ToSet(keys) \cup {Key[r]} /\ ToSet(vals2) = ToSet(vals) \cup {r}
<1>1. PICK n \in Nat : n = Len(keys)
  BY LeafFacts
<1>2. PICK k \in Nat : k = Key[r]
  BY IndexAssumption
<1>3. Sorted(keys) /\ vals \in Seq(Rows) /\ Len(vals) = n
  BY <1>1 DEF LeafHas
<1>4. /\ Sorted(keys2) /\ Len(keys2) = n + 1 /\ pos \in 1 .. n + 1
      /\ ToSet(keys2) = ToSet(keys) \cup {k}
  BY <1>1, <1>2, <1>3, SepsInsert
<1>5. /\ vals2 \in Seq(Rows) /\ Len(vals2) = n + 1
      /\ \A i \in 1 .. n + 1 :
           vals2[i] = IF i < pos THEN vals[i] ELSE IF i = pos THEN r ELSE vals[i - 1]
  <2>1. PICK p : p = pos
    OBVIOUS
  <2>2. vals \in Seq(Rows) /\ p \in 1 .. Len(vals) + 1
    BY <1>3, <1>4, <2>1
  <2>3. /\ InsertAt(vals, p, r) \in Seq(Rows) /\ Len(InsertAt(vals, p, r)) = Len(vals) + 1
        /\ \A i \in 1 .. Len(vals) + 1 :
             InsertAt(vals, p, r)[i] =
               IF i < p THEN vals[i] ELSE IF i = p THEN r ELSE vals[i - 1]
    BY <2>2, InsertFacts
  <2> QED BY <1>3, <2>1, <2>3
<1>6. \A i \in 1 .. n + 1 :
        keys2[i] = IF i < pos THEN keys[i] ELSE IF i = pos THEN k ELSE keys[i - 1]
  <2>1. PICK S, e, p : S = Nat /\ e = k /\ p = pos
    OBVIOUS
  <2>2. keys \in Seq(S) /\ e \in S /\ p \in 1 .. Len(keys) + 1
    BY <1>1, <1>3, <1>4, <2>1 DEF Sorted
  <2>3. InsertAt(keys, p, e) \in Seq(S) /\ WithOne(keys, p, e, InsertAt(keys, p, e))
    BY <2>2, InsertIs
  <2>4. WithOne(keys, pos, k, keys2)
    BY <1>2, <2>1, <2>3
  <2> QED BY <1>1, <2>4 DEF WithOne
<1>7. \A i \in 1 .. n + 1 : Key[vals2[i]] = keys2[i]
  <2> TAKE i \in 1 .. n + 1
  <2>1. CASE i < pos
    <3>1. i \in 1 .. n
      BY <1>4, <2>1
    <3>2. Key[vals[i]] = keys[i]
      BY <1>1, <3>1, LeafFacts
    <3> QED BY <1>5, <1>6, <2>1, <3>2
  <2>2. CASE i = pos
    BY <1>2, <1>5, <1>6, <2>2
  <2>3. CASE ~(i < pos) /\ i # pos
    <3>1. i - 1 \in 1 .. n
      BY <1>4, <2>3
    <3>2. Key[vals[i - 1]] = keys[i - 1]
      BY <1>1, <3>1, LeafFacts
    <3> QED BY <1>5, <1>6, <2>3, <3>2
  <2> QED BY <2>1, <2>2, <2>3
<1>8. LeafHas(keys2, vals2)
  BY <1>4, <1>5, <1>7 DEF LeafHas
<1>9. ToSet(vals2) = ToSet(vals) \cup {r}
  <2>1. ToSet(vals2) = {vals2[i] : i \in 1 .. n + 1} /\ ToSet(vals) = {vals[i] : i \in 1 .. n}
    BY <1>1, <1>4, <1>8, LeafFacts
  <2>2. \A i \in 1 .. n + 1 : vals2[i] = r \/ \E j \in 1 .. n : vals2[i] = vals[j]
    <3> TAKE i \in 1 .. n + 1
    <3>1. i < pos => i \in 1 .. n
      BY <1>4
    <3>2. ~(i < pos) /\ i # pos => i - 1 \in 1 .. n
      BY <1>4
    <3> QED BY <1>5, <3>1, <3>2
  <2>3. \E i \in 1 .. n + 1 : vals2[i] = r
    BY <1>4, <1>5
  <2>4. \A j \in 1 .. n : \E i \in 1 .. n + 1 : vals2[i] = vals[j]
    <3> TAKE j \in 1 .. n
    <3>1. CASE j < pos
      BY <1>5, <3>1
    <3>2. CASE ~(j < pos)
      <4>1. j + 1 \in 1 .. n + 1 /\ ~(j + 1 < pos) /\ j + 1 # pos /\ (j + 1) - 1 = j
        BY <1>4, <3>2
      <4> QED BY <1>5, <4>1
    <3> QED BY <3>1, <3>2
  <2>5. ToSet(vals2) \subseteq ToSet(vals) \cup {r}
    BY <2>1, <2>2
  <2>6. ToSet(vals) \cup {r} \subseteq ToSet(vals2)
    BY <2>1, <2>3, <2>4
  <2> QED BY <2>5, <2>6
<1> QED BY <1>1, <1>2, <1>4, <1>8, <1>9

(* A leaf with one row less. *)
LEMMA LeafRemove ==
  ASSUME NEW keys, NEW vals, LeafHas(keys, vals), NEW pos \in 1 .. Len(keys),
         NEW keys2, keys2 = RemoveAt(keys, pos), NEW vals2, vals2 = RemoveAt(vals, pos)
  PROVE  /\ LeafHas(keys2, vals2) /\ Len(keys2) = Len(keys) - 1
         /\ ToSet(keys2) = ToSet(keys) \ {keys[pos]} /\ ToSet(vals2) = ToSet(vals) \ {vals[pos]}
<1>1. PICK n \in Nat : n = Len(keys)
  BY LeafFacts
<1>2. Sorted(keys) /\ vals \in Seq(Rows) /\ Len(vals) = n
  BY <1>1 DEF LeafHas
<1>3. /\ Sorted(keys2) /\ Len(keys2) = n - 1 /\ ToSet(keys2) = ToSet(keys) \ {keys[pos]}
      /\ pos \in 1 .. n
  BY <1>1, <1>2, SepsRemove
<1>4. /\ vals2 \in Seq(Rows) /\ Len(vals2) = n - 1
      /\ \A i \in 1 .. n - 1 : vals2[i] = IF i < pos THEN vals[i] ELSE vals[i + 1]
  <2>1. pos \in 1 .. Len(vals)
    BY <1>2, <1>3
  <2> QED BY <1>2, <2>1, RemoveFacts
<1>5. \A i \in 1 .. n - 1 : keys2[i] = IF i < pos THEN keys[i] ELSE keys[i + 1]
  <2>1. PICK S : S = Nat
    OBVIOUS
  <2>2. keys \in Seq(S)
    BY <1>2, <2>1 DEF Sorted
  <2> QED BY <1>1, <2>2, RemoveFacts
<1>6. \A i \in 1 .. n - 1 : Key[vals2[i]] = keys2[i]
  <2> TAKE i \in 1 .. n - 1
  <2>1. i \in 1 .. n /\ i + 1 \in 1 .. n
    BY <1>1
  <2>2. Key[vals[i]] = keys[i] /\ Key[vals[i + 1]] = keys[i + 1]
    BY <1>1, <2>1, LeafFacts
  <2> QED BY <1>4, <1>5, <2>2
<1>7. LeafHas(keys2, vals2)
  BY <1>3, <1>4, <1>6 DEF LeafHas
<1>8. ToSet(vals2) = ToSet(vals) \ {vals[pos]}
  <2>1. ToSet(vals2) = {vals2[i] : i \in 1 .. n - 1} /\ ToSet(vals) = {vals[i] : i \in 1 .. n}
    BY <1>1, <1>3, <1>7, LeafFacts
  <2>2. \A i \in 1 .. n - 1 : \E j \in 1 .. n : j # pos /\ vals2[i] = vals[j]
    <3> TAKE i \in 1 .. n - 1
    <3>1. CASE i < pos
      BY <1>3, <1>4, <3>1
    <3>2. CASE ~(i < pos)
      <4>1. i + 1 \in 1 .. n /\ i + 1 # pos
        BY <1>3, <3>2
      <4> QED BY <1>4, <3>2, <4>1
    <3> QED BY <3>1, <3>2
  <2>3. \A j \in 1 .. n : j # pos => \E i \in 1 .. n - 1 : vals2[i] = vals[j]
    <3> SUFFICES ASSUME NEW j \in 1 .. n, j # pos PROVE \E i \in 1 .. n - 1 : vals2[i] = vals[j]
      OBVIOUS
    <3>1. CASE j < pos
      <4>1. j \in 1 .. n - 1
        BY <1>3, <3>1
      <4> QED BY <1>4, <3>1, <4>1
    <3>2. CASE ~(j < pos)
      <4>1. j - 1 \in 1 .. n - 1 /\ ~(j - 1 < pos) /\ (j - 1) + 1 = j
        BY <1>3, <3>2
      <4> QED BY <1>4, <4>1
    <3> QED BY <3>1, <3>2
  <2>4. \A j \in 1 .. n : j # pos <=> vals[j] # vals[pos]
    <3> TAKE j \in 1 .. n
    <3>1. Key[vals[j]] = keys[j] /\ Key[vals[pos]] = keys[pos] /\ (keys[j] = keys[pos] => j = pos)
      BY <1>1, LeafFacts
    <3> QED BY <3>1
  <2>5. ToSet(vals2) \subseteq ToSet(vals) \ {vals[pos]}
    BY <2>1, <2>2, <2>4
  <2>6. ToSet(vals) \ {vals[pos]} \subseteq ToSet(vals2)
    BY <2>1, <2>3, <2>4
  <2> QED BY <2>5, <2>6
<1> QED BY <1>1, <1>3, <1>7, <1>8

(* The left and the right half of a leaf. *)
Halves(keys, vals, lk, lv, rk, rv) ==
  /\ LeafHas(lk, lv) /\ LeafHas(rk, rv)
  /\ Len(lk) < Len(keys) /\ Len(rk) < Len(keys) /\ rk[1] \in ToSet(keys)
  /\ ToSet(lk) \subseteq ToSet(keys) /\ ToSet(rk) \subseteq ToSet(keys)
  /\ ToSet(lv) \cup ToSet(rv) = ToSet(vals)
  /\ \A k \in ToSet(lk) : k < rk[1]
  /\ \A k \in ToSet(rk) : rk[1] <= k
  /\ \E k \in ToSet(keys) : k < rk[1]

(* The two halves of a leaf. *)
LEMMA LeafHalves ==
  ASSUME NEW keys, NEW vals, LeafHas(keys, vals), NEW h \in Nat, 0 < h, h < Len(keys),
         NEW lk, lk = SubSeq(keys, 1, h), NEW lv, lv = SubSeq(vals, 1, h),
         NEW rk, rk = SubSeq(keys, h + 1, Len(keys)), NEW rv, rv = SubSeq(vals, h + 1, Len(keys))
  PROVE  Halves(keys, vals, lk, lv, rk, rv)
<1>1. PICK n \in Nat : n = Len(keys)
  BY LeafFacts
<1>2. h \in 1 .. n - 1 /\ h \in 0 .. n /\ h + 1 \in 1 .. n
  BY <1>1
<1>3. vals \in Seq(Rows) /\ Len(vals) = n /\ Sorted(keys)
  BY <1>1 DEF LeafHas
<1>4. /\ DOMAIN keys = 1 .. n /\ DOMAIN vals = 1 .. n
      /\ \A i \in 1 .. n : keys[i] \in Nat /\ vals[i] \in Rows /\ Key[vals[i]] = keys[i]
      /\ \A i, j \in 1 .. n : i < j => keys[i] < keys[j]
      /\ ToSet(keys) = {keys[i] : i \in 1 .. n} /\ ToSet(vals) = {vals[i] : i \in 1 .. n}
  <2>1. /\ DOMAIN keys = 1 .. n /\ DOMAIN vals = 1 .. n
        /\ \A i \in 1 .. n : keys[i] \in Nat /\ vals[i] \in Rows /\ Key[vals[i]] = keys[i]
        /\ \A i, j \in 1 .. n : i < j => keys[i] < keys[j]
    <3>1. DOMAIN keys = 1 .. n /\ DOMAIN vals = 1 .. n
      BY <1>1, LeafFacts
    <3>2. \A i \in 1 .. n : keys[i] \in Nat /\ vals[i] \in Rows /\ Key[vals[i]] = keys[i]
      BY <1>1, LeafFacts
    <3>3. \A i, j \in 1 .. n : i < j => keys[i] < keys[j]
      BY <1>1, LeafFacts
    <3> QED BY <3>1, <3>2, <3>3
  <2>2. ToSet(keys) = {keys[i] : i \in 1 .. n} /\ ToSet(vals) = {vals[i] : i \in 1 .. n}
    BY <2>1 DEF ToSet
  <2> QED BY <2>1, <2>2
<1>5. PICK S : S = Nat
  OBVIOUS
<1>6. keys \in Seq(S)
  BY <1>3, <1>5 DEF Sorted
<1>7. /\ lk \in Seq(S) /\ Len(lk) = h /\ \A i \in 1 .. h : lk[i] = keys[i]
  BY <1>1, <1>2, <1>6, FirstOf
<1>8. /\ lv \in Seq(Rows) /\ Len(lv) = h /\ \A i \in 1 .. h : lv[i] = vals[i]
  <2>1. h \in 0 .. Len(vals)
    BY <1>2, <1>3
  <2> QED BY <1>3, <2>1, FirstOf
<1>9. /\ rk \in Seq(S) /\ Len(rk) = n - h /\ \A i \in 1 .. n - h : rk[i] = keys[i + h]
  BY <1>1, <1>2, <1>6, RestFrom
<1>10. /\ rv \in Seq(Rows) /\ Len(rv) = n - h /\ \A i \in 1 .. n - h : rv[i] = vals[i + h]
  <2>1. h \in 0 .. Len(vals) /\ rv = SubSeq(vals, h + 1, Len(vals))
    BY <1>1, <1>2, <1>3
  <2> QED BY <1>3, <2>1, RestFrom
<1>11. \A i \in 1 .. h : i \in 1 .. n
  BY <1>2
<1>12. \A i \in 1 .. n - h : i + h \in 1 .. n
  BY <1>2
<1>13. LeafHas(lk, lv)
  <2>1. \A i \in 1 .. h : Key[lv[i]] = lk[i]
    BY <1>4, <1>7, <1>8, <1>11
  <2>2. \A i, j \in 1 .. h : i < j => lk[i] < lk[j]
    BY <1>4, <1>7, <1>11
  <2>3. Sorted(lk)
    BY <1>5, <1>7, <2>2 DEF Sorted
  <2> QED BY <1>7, <1>8, <2>1, <2>3 DEF LeafHas
<1>14. LeafHas(rk, rv)
  <2>1. \A i \in 1 .. n - h : Key[rv[i]] = rk[i]
    BY <1>4, <1>9, <1>10, <1>12
  <2>2. ASSUME NEW i \in 1 .. n - h, NEW j \in 1 .. n - h, i < j PROVE rk[i] < rk[j]
    <3>1. i + h \in 1 .. n /\ j + h \in 1 .. n /\ i + h < j + h
      BY <1>12, <2>2
    <3> QED BY <1>4, <1>9, <3>1
  <2>3. Sorted(rk)
    BY <1>5, <1>9, <2>2 DEF Sorted
  <2> QED BY <1>9, <1>10, <2>1, <2>3 DEF LeafHas
<1>15. rk[1] = keys[h + 1]
  <2>1. 1 \in 1 .. n - h /\ 1 + h = h + 1
    BY <1>2
  <2> QED BY <1>9, <2>1
<1>16. /\ ToSet(lk) = {lk[i] : i \in 1 .. h} /\ ToSet(lv) = {lv[i] : i \in 1 .. h}
       /\ ToSet(rk) = {rk[i] : i \in 1 .. n - h} /\ ToSet(rv) = {rv[i] : i \in 1 .. n - h}
  <2>1. DOMAIN lk = 1 .. h /\ DOMAIN lv = 1 .. h
    BY <1>7, <1>8
  <2>2. DOMAIN rk = 1 .. n - h /\ DOMAIN rv = 1 .. n - h
    BY <1>9, <1>10
  <2> QED BY <2>1, <2>2 DEF ToSet
<1>17. ToSet(lk) \subseteq ToSet(keys) /\ ToSet(rk) \subseteq ToSet(keys)
  <2>1. ToSet(lk) \subseteq ToSet(keys)
    BY <1>4, <1>7, <1>11, <1>16
  <2>2. ToSet(rk) \subseteq ToSet(keys)
    BY <1>4, <1>9, <1>12, <1>16
  <2> QED BY <2>1, <2>2
<1>18. ToSet(lv) \cup ToSet(rv) = ToSet(vals)
  <2>1. ToSet(lv) \subseteq ToSet(vals)
    BY <1>4, <1>8, <1>11, <1>16
  <2>2. ToSet(rv) \subseteq ToSet(vals)
    BY <1>4, <1>10, <1>12, <1>16
  <2>3. ASSUME NEW i \in 1 .. n PROVE vals[i] \in ToSet(lv) \cup ToSet(rv)
    <3>1. CASE i <= h
      <4>1. i \in 1 .. h
        BY <3>1
      <4> QED BY <1>8, <1>16, <4>1
    <3>2. CASE ~(i <= h)
      <4>1. i - h \in 1 .. n - h /\ (i - h) + h = i
        BY <1>2, <3>2
      <4> QED BY <1>10, <1>16, <4>1
    <3> QED BY <3>1, <3>2
  <2>4. ToSet(vals) \subseteq ToSet(lv) \cup ToSet(rv)
    BY <1>4, <2>3
  <2> QED BY <2>1, <2>2, <2>4
<1>19. \A k \in ToSet(lk) : k < keys[h + 1]
  <2>1. \A i \in 1 .. h : i < h + 1
    OBVIOUS
  <2>2. \A i \in 1 .. h : lk[i] < keys[h + 1]
    BY <1>2, <1>4, <1>7, <1>11, <2>1
  <2> QED BY <1>16, <2>2
<1>20. \A k \in ToSet(rk) : keys[h + 1] <= k
  <2>1. ASSUME NEW i \in 1 .. n - h PROVE keys[h + 1] <= rk[i]
    <3>1. i + h \in 1 .. n /\ (i + h = h + 1 \/ h + 1 < i + h)
      BY <1>12
    <3>2. rk[i] = keys[i + h] /\ keys[h + 1] \in Nat
      BY <1>2, <1>4, <1>9
    <3>3. CASE i + h = h + 1
      BY <3>2, <3>3
    <3>4. CASE h + 1 < i + h
      <4>1. PICK a, b : a = h + 1 /\ b = i + h
        OBVIOUS
      <4>2. a \in 1 .. n /\ b \in 1 .. n /\ a < b
        BY <1>2, <3>1, <3>4, <4>1
      <4>3. keys[a] < keys[b] /\ keys[a] \in Nat /\ keys[b] \in Nat
        BY <1>4, <4>2
      <4>4. keys[a] <= keys[b]
        BY <4>3
      <4> QED BY <3>2, <4>1, <4>4
    <3> QED BY <3>1, <3>3, <3>4
  <2> QED BY <1>16, <2>1
<1>21. Len(lk) < Len(keys) /\ Len(rk) < Len(keys)
  BY <1>1, <1>2, <1>7, <1>9
<1>22. rk[1] \in ToSet(keys) /\ \E k \in ToSet(keys) : k < rk[1]
  <2>1. 1 \in 1 .. n /\ 1 < h + 1
    BY <1>2
  <2>2. keys[1] < keys[h + 1] /\ keys[1] \in ToSet(keys) /\ keys[h + 1] \in ToSet(keys)
    BY <1>2, <1>4, <2>1
  <2> QED BY <1>15, <2>2
<1>23. (\A k \in ToSet(lk) : k < rk[1]) /\ \A k \in ToSet(rk) : rk[1] <= k
  BY <1>15, <1>19, <1>20
<1> QED BY <1>13, <1>14, <1>17, <1>18, <1>21, <1>22, <1>23 DEF Halves

-----------------------------------------------------------------------------
(* A leaf's content changed, a leaf split and a leaf gone: what the        *)
(* separators then lead to.                                                *)
SameRows(x, y) == x.keys = y.keys /\ x.vals = y.vals

(* What Tiled says of the children and of their keys. *)
LEMMA TiledFacts ==
  ASSUME NEW seps, NEW kids, NEW node, Tiled(seps, kids, node)
  PROVE  /\ Sorted(seps) /\ kids \in Seq(IndexPages) /\ IsInjective(kids)
         /\ Len(seps) \in Nat /\ Len(kids) = Len(seps) + 1 /\ DOMAIN kids = 1 .. Len(kids)
         /\ \A i \in 1 .. Len(kids) : kids[i] \in IndexPages
         /\ \A i, j \in 1 .. Len(kids) : kids[i] = kids[j] => i = j
         /\ \A i \in 1 .. Len(kids) : LeafHas(node[kids[i]].keys, node[kids[i]].vals)
         /\ \A i \in 1 .. Len(kids) : \A k \in ToSet(node[kids[i]].keys) :
              k \in Nat /\ SearchPos(seps, k) = i
<1>1. /\ Sorted(seps) /\ kids \in Seq(IndexPages) /\ IsInjective(kids)
      /\ Len(kids) = Len(seps) + 1
  BY DEF Tiled
<1>2. \A i \in 1 .. Len(kids) : LeafHas(node[kids[i]].keys, node[kids[i]].vals)
  BY DEF Tiled
<1>3. \A i \in 1 .. Len(kids) : \A k \in ToSet(node[kids[i]].keys) : SearchPos(seps, k) = i
  BY DEF Tiled
<1>4. \A i \in 1 .. Len(kids) : \A k \in ToSet(node[kids[i]].keys) : k \in Nat
  BY <1>2, LeafFacts
<1>5. DOMAIN kids = 1 .. Len(kids) /\ \A i \in 1 .. Len(kids) : kids[i] \in IndexPages
  BY <1>1
<1>6. \A i, j \in 1 .. Len(kids) : kids[i] = kids[j] => i = j
  BY <1>1, <1>5 DEF IsInjective
<1> QED BY <1>1, <1>2, <1>3, <1>4, <1>5, <1>6, SortedFacts

(* No row is in two leaves. *)
LEMMA TiledOnce ==
  ASSUME NEW seps, NEW kids, NEW node, Tiled(seps, kids, node),
         NEW i \in 1 .. Len(kids), NEW j \in 1 .. Len(kids),
         NEW r \in ToSet(node[kids[i]].vals), r \in ToSet(node[kids[j]].vals)
  PROVE  i = j
<1>1. PICK x, y : x = node[kids[i]] /\ y = node[kids[j]]
  OBVIOUS
<1>2. LeafHas(x.keys, x.vals) /\ LeafHas(y.keys, y.vals)
  BY <1>1, TiledFacts
<1>3. r \in ToSet(x.vals) /\ r \in ToSet(y.vals)
  BY <1>1
<1>4. Key[r] \in ToSet(x.keys)
  BY <1>2, <1>3, LeafFacts
<1>5. Key[r] \in ToSet(y.keys)
  BY <1>2, <1>3, LeafFacts
<1>6. SearchPos(seps, Key[r]) = i
  BY <1>1, <1>4, TiledFacts
<1>7. SearchPos(seps, Key[r]) = j
  BY <1>1, <1>5, TiledFacts
<1> QED BY <1>6, <1>7

(* One leaf changed: what matters is that its keys still lead to it. *)
LEMMA TiledPut ==
  ASSUME NEW seps, NEW kids, NEW node, Tiled(seps, kids, node), NEW i \in 1 .. Len(kids),
         NEW node2, \A j \in 1 .. Len(kids) : j # i => SameRows(node2[kids[j]], node[kids[j]]),
         LeafHas(node2[kids[i]].keys, node2[kids[i]].vals),
         \A k \in ToSet(node2[kids[i]].keys) : SearchPos(seps, k) = i
  PROVE  /\ Tiled(seps, kids, node2)
         /\ RowsIn(kids, node2) = (RowsIn(kids, node) \ ToSet(node[kids[i]].vals))
                                    \cup ToSet(node2[kids[i]].vals)
<1>1. \A j \in 1 .. Len(kids) : LeafHas(node2[kids[j]].keys, node2[kids[j]].vals)
  <2> TAKE j \in 1 .. Len(kids)
  <2>1. CASE j # i
    <3>1. LeafHas(node[kids[j]].keys, node[kids[j]].vals)
      BY TiledFacts
    <3> QED BY <2>1, <3>1 DEF SameRows
  <2> QED BY <2>1
<1>2. \A j \in 1 .. Len(kids) : \A k \in ToSet(node2[kids[j]].keys) : SearchPos(seps, k) = j
  <2> TAKE j \in 1 .. Len(kids)
  <2>1. CASE j # i
    <3>1. \A k \in ToSet(node[kids[j]].keys) : SearchPos(seps, k) = j
      BY TiledFacts
    <3> QED BY <2>1, <3>1 DEF SameRows
  <2> QED BY <2>1
<1>3. Tiled(seps, kids, node2)
  <2>1. /\ Sorted(seps) /\ kids \in Seq(IndexPages) /\ IsInjective(kids)
        /\ Len(kids) = Len(seps) + 1
    BY TiledFacts
  <2> QED BY <1>1, <1>2, <2>1 DEF Tiled
<1>4. RowsIn(kids, node2) = (RowsIn(kids, node) \ ToSet(node[kids[i]].vals))
                              \cup ToSet(node2[kids[i]].vals)
  <2>1. \A j \in 1 .. Len(kids) : j # i =>
          /\ ToSet(node2[kids[j]].vals) = ToSet(node[kids[j]].vals)
          /\ ToSet(node[kids[j]].vals) \cap ToSet(node[kids[i]].vals) = {}
    <3> SUFFICES ASSUME NEW j \in 1 .. Len(kids), j # i
                 PROVE  /\ ToSet(node2[kids[j]].vals) = ToSet(node[kids[j]].vals)
                        /\ ToSet(node[kids[j]].vals) \cap ToSet(node[kids[i]].vals) = {}
      OBVIOUS
    <3>1. \A r \in ToSet(node[kids[j]].vals) : r \notin ToSet(node[kids[i]].vals)
      BY TiledOnce
    <3> QED BY <3>1 DEF SameRows
  <2> QED BY <2>1 DEF RowsIn
<1> QED BY <1>3, <1>4

(* A leaf alone. *)
LEMMA TiledOne ==
  ASSUME NEW p \in IndexPages, NEW node, LeafHas(node[p].keys, node[p].vals)
  PROVE  Tiled(<< >>, <<p>>, node) /\ RowsIn(<<p>>, node) = ToSet(node[p].vals)
<1>1. PICK s, q : s = << >> /\ q = <<p>>
  OBVIOUS
<1>2. Len(s) = 0 /\ Len(q) = 1 /\ q[1] = p /\ q \in Seq(IndexPages) /\ DOMAIN q = {1}
      /\ s \in Seq(Nat)
  BY <1>1
<1>3. \A i \in 1 .. 1 : i = 1
  OBVIOUS
<1>4. Sorted(s)
  BY <1>2 DEF Sorted
<1>5. IsInjective(q)
  BY <1>2 DEF IsInjective
<1>6. \A k \in Nat : SearchPos(s, k) = 1
  <2> TAKE k \in Nat
  <2>1. SearchPos(s, k) \in 1 .. Len(s) + 1
    BY <1>4, SearchPosFacts
  <2> QED BY <1>2, <2>1
<1>7. \A k \in ToSet(node[p].keys) : SearchPos(s, k) = 1
  BY <1>6, LeafFacts
<1>8. Tiled(s, q, node)
  BY <1>2, <1>3, <1>4, <1>5, <1>7 DEF Tiled
<1>9. RowsIn(q, node) = ToSet(node[p].vals)
  BY <1>2, <1>3 DEF RowsIn
<1> QED BY <1>1, <1>8, <1>9

(* A leaf halved, the right half entered behind it with its first key as   *)
(* separator: the same rows.                                               *)
LEMMA TiledSplit ==
  ASSUME NEW seps, NEW kids, NEW node, Tiled(seps, kids, node), NEW i \in 1 .. Len(kids),
         NEW right \in IndexPages, right \notin ToSet(kids),
         NEW keys, keys = node[kids[i]].keys, NEW vals, vals = node[kids[i]].vals,
         NEW node2,
         \A j \in 1 .. Len(kids) : j # i => SameRows(node2[kids[j]], node[kids[j]]),
         Halves(keys, vals, node2[kids[i]].keys, node2[kids[i]].vals,
                node2[right].keys, node2[right].vals),
         NEW key, key = node2[right].keys[1]
  PROVE  /\ InsertPos(seps, key) = i
         /\ Tiled(InsertAt(seps, i, key), InsertAt(kids, i + 1, right), node2)
         /\ RowsIn(InsertAt(kids, i + 1, right), node2) = RowsIn(kids, node)
<1>1. PICK n \in Nat : n = Len(kids) /\ n = Len(seps) + 1
  BY TiledFacts
<1>2. /\ Sorted(seps) /\ kids \in Seq(IndexPages) /\ DOMAIN kids = 1 .. n
      /\ \A j \in 1 .. n : kids[j] \in IndexPages
      /\ \A a, b \in 1 .. n : kids[a] = kids[b] => a = b
  BY <1>1, TiledFacts
<1>3. \A j \in 1 .. n : LeafHas(node[kids[j]].keys, node[kids[j]].vals)
  BY <1>1, TiledFacts
<1>4. \A j \in 1 .. n : \A k \in ToSet(node[kids[j]].keys) : k \in Nat /\ SearchPos(seps, k) = j
  BY <1>1, TiledFacts
<1>5. i \in 1 .. n
  BY <1>1
<1>6. PICK lk, lv, rk, rv : /\ lk = node2[kids[i]].keys /\ lv = node2[kids[i]].vals
                            /\ rk = node2[right].keys /\ rv = node2[right].vals
  OBVIOUS
<1>7. LeafHas(keys, vals)
  BY <1>3, <1>5
<1>8. /\ LeafHas(lk, lv) /\ LeafHas(rk, rv) /\ key \in ToSet(keys)
      /\ ToSet(lk) \subseteq ToSet(keys) /\ ToSet(rk) \subseteq ToSet(keys)
      /\ ToSet(lv) \cup ToSet(rv) = ToSet(vals)
      /\ \A k \in ToSet(lk) : k < key
      /\ \A k \in ToSet(rk) : key <= k
      /\ \E k \in ToSet(keys) : k < key
  BY <1>6 DEF Halves
<1>9. key \in Nat /\ SearchPos(seps, key) = i
  BY <1>4, <1>5, <1>8
<1>10. \A m \in 1 .. n - 1 : seps[m] \in Nat /\ (seps[m] <= key <=> m < i)
  <2>1. \A m \in 1 .. Len(seps) : seps[m] <= key <=> m < SearchPos(seps, key)
    BY <1>2, <1>9, SearchPosFacts
  <2>2. n - 1 = Len(seps)
    BY <1>1, <1>2, SortedFacts
  <2>3. \A m \in 1 .. Len(seps) : seps[m] \in Nat
    BY <1>2, SortedFacts
  <2> QED BY <1>9, <2>1, <2>2, <2>3
<1>11. key \notin ToSet(seps)
  <2>1. SUFFICES ASSUME key \in ToSet(seps) PROVE FALSE
    OBVIOUS
  <2>2. PICK m \in 1 .. n - 1 : seps[m] = key
    <3>1. DOMAIN seps = 1 .. n - 1
      BY <1>1, <1>2, SortedFacts
    <3> QED BY <2>1, <3>1 DEF ToSet
  <2>3. m < i
    BY <1>10, <2>2, <1>9
  <2>4. PICK k \in ToSet(keys) : k < key
    BY <1>8
  <2>5. k \in Nat /\ SearchPos(seps, k) = i
    BY <1>4, <1>5
  <2>6. \A a \in 1 .. Len(seps) : seps[a] <= k <=> a < SearchPos(seps, k)
    BY <1>2, <2>5, SearchPosFacts
  <2>7. m \in 1 .. Len(seps)
    BY <1>1, <1>2, SortedFacts
  <2>8. seps[m] <= k
    BY <2>3, <2>5, <2>6, <2>7
  <2> QED BY <1>9, <2>2, <2>4, <2>5, <2>8
<1>12. InsertPos(seps, key) = i
  BY <1>2, <1>9, <1>11, InsertPosFacts
<1>13. PICK s2, k2 : s2 = InsertAt(seps, i, key) /\ k2 = InsertAt(kids, i + 1, right)
  OBVIOUS
<1>14. /\ Sorted(s2) /\ Len(s2) = n
       /\ \A k \in Nat : SearchPos(s2, k) = SearchPos(seps, k) + (IF key <= k THEN 1 ELSE 0)
  BY <1>1, <1>2, <1>9, <1>11, <1>12, <1>13, SepsInsert
<1>15. /\ k2 \in Seq(IndexPages) /\ Len(k2) = n + 1
       /\ \A j \in 1 .. n + 1 :
            k2[j] = IF j < i + 1 THEN kids[j] ELSE IF j = i + 1 THEN right ELSE kids[j - 1]
  <2>1. PICK p : p = i + 1
    OBVIOUS
  <2>2. p \in 1 .. Len(kids) + 1 /\ kids \in Seq(IndexPages)
    BY <1>1, <1>2, <1>5, <2>1
  <2>3. InsertAt(kids, p, right) \in Seq(IndexPages)
        /\ WithOne(kids, p, right, InsertAt(kids, p, right))
    BY <2>2, InsertIs
  <2> QED BY <1>1, <1>13, <2>1, <2>3 DEF WithOne
<1>16. \A j \in 1 .. n + 1 : \/ j < i /\ j \in 1 .. n /\ k2[j] = kids[j]
                             \/ j = i /\ k2[j] = kids[i]
                             \/ j = i + 1 /\ k2[j] = right
                             \/ j > i + 1 /\ j - 1 \in 1 .. n /\ j - 1 > i /\ k2[j] = kids[j - 1]
  <2> TAKE j \in 1 .. n + 1
  <2>1. CASE j < i
    BY <1>5, <1>15, <2>1
  <2>2. CASE j = i
    BY <1>5, <1>15, <2>2
  <2>3. CASE j = i + 1
    BY <1>5, <1>15, <2>3
  <2>4. CASE j > i + 1
    <3>1. ~(j < i + 1) /\ j # i + 1 /\ j - 1 \in 1 .. n /\ j - 1 > i
      BY <1>5, <2>4
    <3> QED BY <1>15, <2>4, <3>1
  <2> QED BY <1>5, <2>1, <2>2, <2>3, <2>4
<1>17. \A j \in 1 .. n : right # kids[j]
  BY <1>2 DEF ToSet
<1>18. IsInjective(k2)
  <2>1. DOMAIN k2 = 1 .. n + 1
    BY <1>15
  <2>2. ASSUME NEW a \in 1 .. n + 1, NEW b \in 1 .. n + 1, k2[a] = k2[b] PROVE a = b
    <3>1. CASE a = i + 1
      BY <1>5, <1>16, <1>17, <2>2, <3>1
    <3>2. CASE b = i + 1
      BY <1>5, <1>16, <1>17, <2>2, <3>2
    <3>3. CASE a # i + 1 /\ b # i + 1
      <4>1. PICK a2, b2 : a2 = (IF a <= i THEN a ELSE a - 1) /\ b2 = (IF b <= i THEN b ELSE b - 1)
        OBVIOUS
      <4>2. a2 \in 1 .. n /\ b2 \in 1 .. n
        BY <1>5, <3>3, <4>1
      <4>3. k2[a] = kids[a2]
        BY <1>5, <1>15, <3>3, <4>1
      <4>4. k2[b] = kids[b2]
        BY <1>5, <1>15, <3>3, <4>1
      <4>5. a2 = b2
        BY <1>2, <2>2, <4>2, <4>3, <4>4
      <4> QED BY <1>5, <3>3, <4>1, <4>5
    <3> QED BY <3>1, <3>2, <3>3
  <2> QED BY <2>1, <2>2 DEF IsInjective
<1>19. \A j \in 1 .. n : j # i => node2[kids[j]].keys = node[kids[j]].keys
                                  /\ node2[kids[j]].vals = node[kids[j]].vals
  BY <1>1 DEF SameRows
<1>20. \A j \in 1 .. n + 1 : LeafHas(node2[k2[j]].keys, node2[k2[j]].vals)
  <2> TAKE j \in 1 .. n + 1
  <2>1. CASE j < i
    <3>1. j \in 1 .. n /\ k2[j] = kids[j] /\ j # i
      BY <1>5, <1>16, <2>1
    <3> QED BY <1>3, <1>19, <3>1
  <2>2. CASE j = i
    <3>1. k2[j] = kids[i]
      BY <1>5, <1>16, <2>2
    <3> QED BY <1>6, <1>8, <3>1
  <2>3. CASE j = i + 1
    <3>1. k2[j] = right
      BY <1>5, <1>16, <2>3
    <3> QED BY <1>6, <1>8, <3>1
  <2>4. CASE j > i + 1
    <3>1. j - 1 \in 1 .. n /\ k2[j] = kids[j - 1] /\ j - 1 # i
      BY <1>5, <1>16, <2>4
    <3> QED BY <1>3, <1>19, <3>1
  <2> QED BY <1>5, <2>1, <2>2, <2>3, <2>4
<1>21. ASSUME NEW j \in 1 .. n + 1, NEW k \in ToSet(node2[k2[j]].keys)
       PROVE  SearchPos(s2, k) = j
  <2>1. CASE j < i
    <3>1. j \in 1 .. n /\ k2[j] = kids[j] /\ j # i
      BY <1>5, <1>16, <2>1
    <3>2. k \in Nat /\ SearchPos(seps, k) = j
      BY <1>4, <1>19, <3>1
    <3>3. j \in 1 .. n - 1 /\ ~(j < j) /\ j \in 1 .. Len(seps)
      BY <1>1, <1>2, <1>5, <2>1, SortedFacts
    <3>4. \A a \in 1 .. Len(seps) : seps[a] <= k <=> a < SearchPos(seps, k)
      BY <1>2, <3>2, SearchPosFacts
    <3>5. seps[j] \in Nat /\ seps[j] <= key /\ ~(seps[j] <= k)
      BY <1>10, <2>1, <3>2, <3>3, <3>4
    <3>6. ~(key <= k)
      BY <1>9, <3>2, <3>5
    <3> QED BY <1>14, <3>2, <3>6
  <2>2. CASE j = i
    <3>1. k2[j] = kids[i]
      BY <1>5, <1>16, <2>2
    <3>2. k \in ToSet(lk)
      BY <1>6, <3>1
    <3>3. k \in Nat /\ SearchPos(seps, k) = i /\ k < key
      BY <1>4, <1>5, <1>8, <1>9, <3>2
    <3>4. ~(key <= k)
      BY <1>9, <3>3
    <3> QED BY <1>5, <1>14, <2>2, <3>3, <3>4
  <2>3. CASE j = i + 1
    <3>1. k2[j] = right
      BY <1>5, <1>16, <2>3
    <3>2. k \in ToSet(rk)
      BY <1>6, <3>1
    <3>3. k \in Nat /\ SearchPos(seps, k) = i /\ key <= k
      BY <1>4, <1>5, <1>8, <1>9, <3>2
    <3> QED BY <1>5, <1>14, <2>3, <3>3
  <2>4. CASE j > i + 1
    <3>1. j - 1 \in 1 .. n /\ k2[j] = kids[j - 1] /\ j - 1 # i
      BY <1>5, <1>16, <2>4
    <3>2. k \in Nat /\ SearchPos(seps, k) = j - 1
      BY <1>4, <1>19, <3>1
    <3>3. i \in 1 .. n - 1 /\ ~(i < i) /\ i < j - 1 /\ i \in 1 .. Len(seps)
      BY <1>1, <1>2, <1>5, <2>4, SortedFacts
    <3>4. \A a \in 1 .. Len(seps) : seps[a] <= k <=> a < SearchPos(seps, k)
      BY <1>2, <3>2, SearchPosFacts
    <3>5. seps[i] \in Nat /\ ~(seps[i] <= key) /\ seps[i] <= k
      BY <1>10, <3>2, <3>3, <3>4
    <3>6. key <= k
      BY <1>9, <3>2, <3>5
    <3>7. (j - 1) + 1 = j
      OBVIOUS
    <3> QED BY <1>14, <3>2, <3>6, <3>7
  <2> QED BY <1>5, <2>1, <2>2, <2>3, <2>4
<1>22. Tiled(s2, k2, node2)
  BY <1>14, <1>15, <1>18, <1>20, <1>21 DEF Tiled
<1>23. RowsIn(k2, node2) = RowsIn(kids, node)
  <2>1. ASSUME NEW j \in 1 .. n + 1
        PROVE  \E a \in 1 .. n : ToSet(node2[k2[j]].vals) \subseteq ToSet(node[kids[a]].vals)
    <3>1. /\ ToSet(lv) \subseteq ToSet(node[kids[i]].vals)
          /\ ToSet(rv) \subseteq ToSet(node[kids[i]].vals)
      BY <1>8
    <3>2. CASE j = i
      <4>1. node2[k2[j]].vals = lv
        BY <1>5, <1>6, <1>16, <3>2
      <4> QED BY <1>5, <3>1, <4>1
    <3>3. CASE j = i + 1
      <4>1. node2[k2[j]].vals = rv
        BY <1>5, <1>6, <1>16, <3>3
      <4> QED BY <1>5, <3>1, <4>1
    <3>4. CASE j < i
      <4>1. j \in 1 .. n /\ k2[j] = kids[j] /\ j # i
        BY <1>5, <1>16, <3>4
      <4>2. node2[k2[j]].vals = node[kids[j]].vals
        BY <1>19, <4>1
      <4> QED BY <4>1, <4>2
    <3>5. CASE j > i + 1
      <4>1. j - 1 \in 1 .. n /\ k2[j] = kids[j - 1] /\ j - 1 # i
        BY <1>5, <1>16, <3>5
      <4> QED BY <1>19, <4>1
    <3> QED BY <1>5, <3>2, <3>3, <3>4, <3>5
  <2>2. ASSUME NEW a \in 1 .. n, NEW r \in ToSet(node[kids[a]].vals)
        PROVE  \E j \in 1 .. n + 1 : r \in ToSet(node2[k2[j]].vals)
    <3>1. CASE a = i
      <4>1. r \in ToSet(lv) \/ r \in ToSet(rv)
        BY <1>8, <3>1
      <4>2. i \in 1 .. n + 1 /\ i + 1 \in 1 .. n + 1 /\ k2[i] = kids[i] /\ k2[i + 1] = right
        BY <1>5, <1>15
      <4> QED BY <1>6, <4>1, <4>2
    <3>2. CASE a < i
      <4>1. a \in 1 .. n + 1 /\ k2[a] = kids[a]
        BY <1>5, <1>15, <3>2
      <4>2. node2[kids[a]].vals = node[kids[a]].vals
        BY <1>5, <1>19, <3>2
      <4> QED BY <4>1, <4>2
    <3>3. CASE a > i
      <4>1. a + 1 \in 1 .. n + 1 /\ ~(a + 1 < i + 1) /\ a + 1 # i + 1 /\ (a + 1) - 1 = a
        BY <1>5, <3>3
      <4>2. k2[a + 1] = kids[a]
        BY <1>15, <4>1
      <4>3. node2[kids[a]].vals = node[kids[a]].vals
        BY <1>5, <1>19, <3>3
      <4> QED BY <4>1, <4>2, <4>3
    <3> QED BY <1>5, <3>1, <3>2, <3>3
  <2>3. RowsIn(k2, node2) \subseteq RowsIn(kids, node)
    BY <1>1, <1>15, <2>1 DEF RowsIn
  <2>4. RowsIn(kids, node) \subseteq RowsIn(k2, node2)
    BY <1>1, <1>15, <2>2 DEF RowsIn
  <2> QED BY <2>3, <2>4
<1> QED BY <1>12, <1>13, <1>22, <1>23

(* The separator that goes with a child.                                   *)
SepOf(i) == IF i = 1 THEN 1 ELSE i - 1

(* A leaf taken out with the separator before it, or with the first one    *)
(* for the first leaf: the other rows stay where the search finds them.    *)
LEMMA TiledLess ==
  ASSUME NEW seps, NEW kids, NEW node, Tiled(seps, kids, node), NEW i \in 1 .. Len(kids),
         Len(kids) > 1, NEW d, d = SepOf(i), NEW node2,
         \A j \in 1 .. Len(kids) : j # i => SameRows(node2[kids[j]], node[kids[j]])
  PROVE  /\ d \in 1 .. Len(seps)
         /\ Tiled(RemoveAt(seps, d), RemoveAt(kids, i), node2)
         /\ RowsIn(RemoveAt(kids, i), node2) = RowsIn(kids, node) \ ToSet(node[kids[i]].vals)
<1>1. PICK n \in Nat : n = Len(kids) /\ n = Len(seps) + 1 /\ n - 1 = Len(seps) /\ n > 1
  BY TiledFacts
<1>2. i \in 1 .. n /\ d \in 1 .. n - 1
  BY <1>1 DEF SepOf
<1>3. /\ Sorted(seps) /\ kids \in Seq(IndexPages) /\ DOMAIN kids = 1 .. n
      /\ \A a, b \in 1 .. n : kids[a] = kids[b] => a = b
  BY <1>1, TiledFacts
<1>4. \A j \in 1 .. n : LeafHas(node[kids[j]].keys, node[kids[j]].vals)
  BY <1>1, TiledFacts
<1>5. \A j \in 1 .. n : \A k \in ToSet(node[kids[j]].keys) : k \in Nat /\ SearchPos(seps, k) = j
  BY <1>1, TiledFacts
<1>6. PICK s2, k2 : s2 = RemoveAt(seps, d) /\ k2 = RemoveAt(kids, i)
  OBVIOUS
<1>7. /\ Sorted(s2) /\ Len(s2) = n - 2
      /\ \A k \in Nat : SearchPos(s2, k) = IF d < SearchPos(seps, k) THEN SearchPos(seps, k) - 1
                                           ELSE SearchPos(seps, k)
  <2>1. d \in 1 .. Len(seps)
    BY <1>1, <1>2
  <2>2. /\ Sorted(s2) /\ Len(s2) = Len(seps) - 1
        /\ \A k \in Nat : SearchPos(s2, k) = IF d < SearchPos(seps, k) THEN SearchPos(seps, k) - 1
                                             ELSE SearchPos(seps, k)
    BY <1>3, <1>6, <2>1, SepsRemove
  <2> QED BY <1>1, <2>2
<1>8. /\ k2 \in Seq(IndexPages) /\ Len(k2) = n - 1
      /\ \A j \in 1 .. n - 1 : k2[j] = IF j < i THEN kids[j] ELSE kids[j + 1]
  <2>1. kids \in Seq(IndexPages)
    BY <1>3
  <2>2. /\ RemoveAt(kids, i) \in Seq(IndexPages) /\ Len(RemoveAt(kids, i)) = Len(kids) - 1
        /\ \A j \in 1 .. Len(kids) - 1 :
             RemoveAt(kids, i)[j] = IF j < i THEN kids[j] ELSE kids[j + 1]
    BY <2>1, RemoveFacts
  <2> QED BY <1>1, <1>6, <2>2
<1>9. \A j \in 1 .. n : j # i => node2[kids[j]].keys = node[kids[j]].keys
                                 /\ node2[kids[j]].vals = node[kids[j]].vals
  BY <1>1 DEF SameRows
<1>10. ASSUME NEW j \in 1 .. n - 1
       PROVE  \E a \in 1 .. n : /\ a = (IF j < i THEN j ELSE j + 1) /\ a # i /\ k2[j] = kids[a]
                                /\ node2[k2[j]].keys = node[kids[a]].keys
                                /\ node2[k2[j]].vals = node[kids[a]].vals
  <2>1. PICK a : a = IF j < i THEN j ELSE j + 1
    OBVIOUS
  <2>2. a \in 1 .. n /\ a # i
    BY <1>2, <2>1
  <2>3. k2[j] = kids[a]
    BY <1>8, <2>1
  <2> QED BY <1>9, <2>1, <2>2, <2>3
<1>11. IsInjective(k2)
  <2>1. DOMAIN k2 = 1 .. n - 1
    BY <1>8
  <2>2. ASSUME NEW a \in 1 .. n - 1, NEW b \in 1 .. n - 1, k2[a] = k2[b] PROVE a = b
    <3>1. PICK a2 \in 1 .. n : a2 = (IF a < i THEN a ELSE a + 1) /\ k2[a] = kids[a2]
      BY <1>10
    <3>2. PICK b2 \in 1 .. n : b2 = (IF b < i THEN b ELSE b + 1) /\ k2[b] = kids[b2]
      BY <1>10
    <3>3. a2 = b2
      BY <1>3, <2>2, <3>1, <3>2
    <3> QED BY <1>2, <3>1, <3>2, <3>3
  <2> QED BY <2>1, <2>2 DEF IsInjective
<1>12. \A j \in 1 .. n - 1 : LeafHas(node2[k2[j]].keys, node2[k2[j]].vals)
  BY <1>4, <1>10
<1>13. ASSUME NEW j \in 1 .. n - 1, NEW k \in ToSet(node2[k2[j]].keys)
       PROVE  SearchPos(s2, k) = j
  <2>1. PICK a \in 1 .. n : /\ a = (IF j < i THEN j ELSE j + 1) /\ a # i
                            /\ node2[k2[j]].keys = node[kids[a]].keys
    BY <1>10
  <2>2. k \in Nat /\ SearchPos(seps, k) = a
    BY <1>5, <2>1
  <2>3. SearchPos(s2, k) = IF d < a THEN a - 1 ELSE a
    BY <1>7, <2>2
  <2> QED BY <1>2, <2>1, <2>3 DEF SepOf
<1>14. Tiled(s2, k2, node2)
  <2>1. Len(k2) = Len(s2) + 1
    BY <1>7, <1>8
  <2> QED BY <1>7, <1>8, <1>11, <1>12, <1>13, <2>1 DEF Tiled
<1>15. RowsIn(k2, node2) = RowsIn(kids, node) \ ToSet(node[kids[i]].vals)
  <2>1. RowsIn(kids, node) = UNION {ToSet(node[kids[j]].vals) : j \in 1 .. n}
        /\ RowsIn(k2, node2) = UNION {ToSet(node2[k2[j]].vals) : j \in 1 .. n - 1}
    BY <1>1, <1>8 DEF RowsIn
  <2>2. ASSUME NEW j \in 1 .. n - 1, NEW r \in ToSet(node2[k2[j]].vals)
        PROVE  r \in RowsIn(kids, node) \ ToSet(node[kids[i]].vals)
    <3>1. PICK a \in 1 .. n : a # i /\ node2[k2[j]].vals = node[kids[a]].vals
      BY <1>10
    <3>2. r \in ToSet(node[kids[a]].vals)
      BY <3>1
    <3>3. r \notin ToSet(node[kids[i]].vals)
      BY <1>1, <3>1, <3>2, TiledOnce
    <3> QED BY <2>1, <3>2, <3>3
  <2>3. ASSUME NEW a \in 1 .. n, NEW r \in ToSet(node[kids[a]].vals),
               r \notin ToSet(node[kids[i]].vals)
        PROVE  r \in RowsIn(k2, node2)
    <3>1. a # i
      BY <2>3
    <3>2. PICK j : j = IF a < i THEN a ELSE a - 1
      OBVIOUS
    <3>3. j \in 1 .. n - 1 /\ a = (IF j < i THEN j ELSE j + 1)
      BY <1>2, <3>1, <3>2
    <3>4. node2[k2[j]].vals = node[kids[a]].vals
      BY <1>10, <3>3
    <3> QED BY <2>1, <3>3, <3>4
  <2>4. RowsIn(k2, node2) \subseteq RowsIn(kids, node) \ ToSet(node[kids[i]].vals)
    BY <2>1, <2>2
  <2>5. RowsIn(kids, node) \ ToSet(node[kids[i]].vals) \subseteq RowsIn(k2, node2)
    BY <2>1, <2>3
  <2> QED BY <2>4, <2>5
<1> QED BY <1>1, <1>2, <1>6, <1>14, <1>15

-----------------------------------------------------------------------------
(* In such a tree the search goes to the leaf of the key. *)
Planted(t) ==
  t.rootPage # IX_NO_PAGE /\ Rooted(t) /\ Tiled(Seps(t), Kids(t), t.node)

(* The search gets to the leaf that the separators lead to. *)
LEMMA SearchLeafIs ==
  ASSUME NEW t, Planted(t), NEW k \in Nat
  PROVE  /\ SearchPos(Seps(t), k) \in 1 .. Len(Kids(t))
         /\ SearchLeaf(t, k) = Kids(t)[SearchPos(Seps(t), k)]
<1>1. PICK i : i = SearchPos(Seps(t), k)
  OBVIOUS
<1>2. Sorted(Seps(t)) /\ Len(Kids(t)) = Len(Seps(t)) + 1
  BY TiledFacts DEF Planted
<1>3. i \in 1 .. Len(Kids(t))
  BY <1>1, <1>2, SearchPosFacts
<1>4. CASE IsRoot(t)
  <2>1. t.node[t.rootPage].type # "ROOT_LEAF"
    BY <1>4 DEF IsRoot
  <2>2. SearchLeaf(t, k) = t.node[t.rootPage].vals[SearchPos(t.node[t.rootPage].keys, k)]
    BY <2>1 DEF SearchLeaf
  <2>3. Seps(t) = t.node[t.rootPage].keys /\ Kids(t) = t.node[t.rootPage].vals
    BY <1>4 DEF Seps, Kids
  <2> QED BY <1>1, <1>3, <2>2, <2>3
<1>5. CASE ~IsRoot(t)
  <2>1. t.node[t.rootPage].type = "ROOT_LEAF"
    BY <1>5 DEF Planted, Rooted
  <2>2. SearchLeaf(t, k) = t.rootPage
    BY <2>1 DEF SearchLeaf
  <2>3. Kids(t) = <<t.rootPage>>
    BY <1>5 DEF Kids
  <2>4. Len(Kids(t)) = 1 /\ Kids(t)[1] = t.rootPage
    BY <2>3
  <2>5. i = 1
    BY <1>3, <2>4
  <2> QED BY <1>1, <1>3, <2>2, <2>4, <2>5
<1> QED BY <1>4, <1>5

(* The leaves are pages, and in order.                                     *)
LEMMA KidIs ==
  ASSUME NEW t, Planted(t), NEW i \in 1 .. Len(Kids(t)), NEW p, p = Kids(t)[i]
  PROVE  p \in IndexPages /\ LeafHas(t.node[p].keys, t.node[p].vals)
<1>1. Tiled(Seps(t), Kids(t), t.node)
  BY DEF Planted
<1>2. p \in IndexPages
  BY <1>1, TiledFacts
<1>3. LeafHas(t.node[Kids(t)[i]].keys, t.node[Kids(t)[i]].vals)
  BY <1>1, TiledFacts
<1> QED BY <1>2, <1>3

(* What a search finds. *)
LEMMA FoundAt ==
  ASSUME NEW t, Planted(t), NEW r \in Rows, Finds(t, r)
  PROVE  LET i == SearchPos(Seps(t), Key[r])
             p == Kids(t)[i]
             pos == Min(KeyPositions(t, Key[r]))
         IN /\ i \in 1 .. Len(Kids(t)) /\ p = SearchLeaf(t, Key[r]) /\ p \in IndexPages
            /\ LeafHas(t.node[p].keys, t.node[p].vals)
            /\ pos \in 1 .. Len(t.node[p].keys) /\ t.node[p].keys[pos] = Key[r]
            /\ t.node[p].vals[pos] = r
<1>1. PICK k \in Nat : k = Key[r]
  BY IndexAssumption
<1>2. PICK i : i = SearchPos(Seps(t), k)
  OBVIOUS
<1>3. PICK p : p = Kids(t)[i]
  OBVIOUS
<1>4. i \in 1 .. Len(Kids(t)) /\ p = SearchLeaf(t, k)
  BY <1>2, <1>3, SearchLeafIs
<1>5. p \in IndexPages /\ LeafHas(t.node[p].keys, t.node[p].vals)
  BY <1>3, <1>4, KidIs
<1>6. PICK P : P = KeyPositions(t, k)
  OBVIOUS
<1>7. P = {j \in DOMAIN t.node[p].keys : t.node[p].keys[j] = k}
  BY <1>4, <1>6 DEF KeyPositions, Planted
<1>8. P \in SUBSET Nat /\ P \subseteq 1 .. Len(t.node[p].keys)
  BY <1>5, <1>7, LeafFacts
<1>9. P # {} /\ t.node[p].vals[Min(P)] = r
  BY <1>1, <1>4, <1>6 DEF Finds
<1>10. Min(P) \in P
  <2>1. PICK m \in P : \A n \in P : m <= n
    BY <1>8, <1>9, LeastNatural
  <2> QED BY <2>1 DEF Min
<1>11. Min(P) \in 1 .. Len(t.node[p].keys) /\ t.node[p].keys[Min(P)] = k
  BY <1>7, <1>8, <1>10
<1> QED BY <1>1, <1>2, <1>3, <1>4, <1>5, <1>6, <1>9, <1>11

(* It finds the rows that the tree has. *)
LEMMA FindsExact ==
  ASSUME NEW t, NEW rows, Holds(t, rows)
  PROVE  {r \in Rows : Finds(t, r)} = rows
<1>1. CASE t.rootPage = IX_NO_PAGE
  BY <1>1 DEF Holds, Finds, KeyPositions
<1>2. CASE t.rootPage # IX_NO_PAGE
  <2>1. Planted(t) /\ rows = RowsIn(Kids(t), t.node)
    BY <1>2 DEF Holds, Planted
  <2>2. ASSUME NEW r \in Rows, Finds(t, r) PROVE r \in rows
    <3>1. PICK i : i = SearchPos(Seps(t), Key[r])
      OBVIOUS
    <3>2. PICK p, pos : p = Kids(t)[i] /\ pos = Min(KeyPositions(t, Key[r]))
      OBVIOUS
    <3>3. /\ i \in 1 .. Len(Kids(t)) /\ LeafHas(t.node[p].keys, t.node[p].vals)
          /\ pos \in 1 .. Len(t.node[p].keys) /\ t.node[p].vals[pos] = r
      BY <2>1, <2>2, <3>1, <3>2, FoundAt
    <3>4. r \in ToSet(t.node[p].vals)
      BY <3>3, LeafFacts
    <3> QED BY <2>1, <3>2, <3>3, <3>4 DEF RowsIn
  <2>3. ASSUME NEW r \in rows PROVE r \in Rows /\ Finds(t, r)
    <3>1. PICK i \in 1 .. Len(Kids(t)) : r \in ToSet(t.node[Kids(t)[i]].vals)
      BY <2>1 DEF RowsIn
    <3>2. PICK p : p = Kids(t)[i]
      OBVIOUS
    <3>3. LeafHas(t.node[p].keys, t.node[p].vals)
      BY <2>1, <3>2, TiledFacts DEF Planted
    <3>4. PICK j \in 1 .. Len(t.node[p].keys) : t.node[p].vals[j] = r
      BY <3>1, <3>2, <3>3, LeafFacts
    <3>5. PICK k : k = Key[r]
      OBVIOUS
    <3>6. r \in Rows /\ t.node[p].keys[j] = k /\ k \in Nat /\ k \in ToSet(t.node[p].keys)
      BY <3>3, <3>4, <3>5, LeafFacts
    <3>7. SearchPos(Seps(t), k) = i
      BY <2>1, <3>2, <3>6, TiledFacts DEF Planted
    <3>8. SearchLeaf(t, k) = p
      BY <2>1, <3>2, <3>6, <3>7, SearchLeafIs
    <3>9. KeyPositions(t, k) = {m \in DOMAIN t.node[p].keys : t.node[p].keys[m] = k}
      BY <1>2, <3>8 DEF KeyPositions
    <3>10. KeyPositions(t, k) = {j}
      BY <3>3, <3>6, <3>9, LeafFacts
    <3>11. j \in Nat /\ Min({j}) = j
      <4>1. \E m \in {j} : \A n \in {j} : m <= n
        OBVIOUS
      <4>2. Min({j}) \in {j}
        BY <4>1 DEF Min
      <4> QED BY <4>2
    <3> QED BY <3>4, <3>5, <3>6, <3>8, <3>10, <3>11 DEF Finds
  <2> QED BY <2>2, <2>3
<1> QED BY <1>1, <1>2

-----------------------------------------------------------------------------
(* A node and those above it are pages that are not free. *)
LEMMA AncestryFacts ==
  ASSUME NEW t, NEW p
  PROVE  /\ Len(Ancestry(t, p)) \in Nat
         /\ Len(Ancestry(t, p)) > 0 => Ancestry(t, p)[1] = p
         /\ \A n \in 1 .. Len(Ancestry(t, p)) :
              Ancestry(t, p)[n] \in IndexPages /\ ~Gone(t, Ancestry(t, p)[n])
<1>1. PICK succ : succ = [q \in Allocated(t) |-> t.node[q].parent]
  OBVIOUS
<1>2. DOMAIN succ = Allocated(t) /\ Ancestry(t, p) = Chain(succ, p)
  BY <1>1 DEF Ancestry
<1>3. IsFiniteSet(Allocated(t))
  <2>1. IsFiniteSet(IndexPages)
    BY IndexAssumption, FS_Interval DEF IndexPages
  <2>2. Allocated(t) \subseteq IndexPages
    BY DEF Allocated
  <2> QED BY <2>1, <2>2, FS_Subset
<1>4. /\ Len(Chain(succ, p)) \in Nat
      /\ Len(Chain(succ, p)) > 0 => Chain(succ, p)[1] = p
      /\ \A i \in 1 .. Len(Chain(succ, p)) : Chain(succ, p)[i] \in Allocated(t)
  BY <1>2, <1>3, ChainFacts
<1>5. \A q \in Allocated(t) : q \in IndexPages /\ ~Gone(t, q)
  BY DEF Allocated, FreePages
<1> QED BY <1>2, <1>4, <1>5

(* It depends on what is allocated and on the parents only. *)
LEMMA AncestrySame ==
  ASSUME NEW t, NEW u, FreePages(u) = FreePages(t), NEW p,
         \A q \in IndexPages : u.node[q].parent = t.node[q].parent
  PROVE  Ancestry(u, p) = Ancestry(t, p)
<1>1. Allocated(u) = Allocated(t) /\ Allocated(t) \subseteq IndexPages
  BY DEF Allocated
<1>2. [q \in Allocated(u) |-> u.node[q].parent] = [q \in Allocated(t) |-> t.node[q].parent]
  BY <1>1
<1> QED BY <1>2 DEF Ancestry

(* Two pages at most, in a tree of one leaf or of a root above leaves.     *)
LEMMA AncestryShort ==
  ASSUME NEW t, Framed(t), Planted(t), NEW i \in 1 .. Len(Kids(t)), NEW p, p = Kids(t)[i]
  PROVE  /\ p \in IndexPages /\ ~Gone(t, p)
         /\ IsRoot(t) => Ancestry(t, p) = <<p, t.rootPage>> /\ p # t.rootPage
         /\ ~IsRoot(t) => Ancestry(t, p) = <<p>> /\ p = t.rootPage
<1>1. PICK succ : succ = [q \in Allocated(t) |-> t.node[q].parent]
  OBVIOUS
<1>2. DOMAIN succ = Allocated(t) /\ Ancestry(t, p) = Chain(succ, p)
  BY <1>1 DEF Ancestry
<1>3. IsFiniteSet(DOMAIN succ)
  <2>1. IsFiniteSet(IndexPages)
    BY IndexAssumption, FS_Interval DEF IndexPages
  <2>2. Allocated(t) \subseteq IndexPages
    BY DEF Allocated
  <2> QED BY <1>2, <2>1, <2>2, FS_Subset
<1>4. IX_NO_PAGE \notin Allocated(t)
  BY DEF IX_NO_PAGE, Allocated, IndexPages
<1>5. PICK root : root = t.rootPage
  OBVIOUS
<1>6. /\ root \in IndexPages /\ t.node[root].parent = IX_NO_PAGE
      /\ t.node[root].type \in {"ROOT", "ROOT_LEAF"}
  BY <1>5 DEF Planted, Rooted, IsRoot
<1>7. root \in Allocated(t) /\ ~Gone(t, root)
  BY <1>6 DEF Allocated, FreePages, Gone
<1>8. CASE IsRoot(t)
  <2>1. t.node[p].type = "LEAF" /\ t.node[p].parent = root
    BY <1>5, <1>8 DEF Planted, Rooted
  <2>2. p \in IndexPages
    BY TiledFacts DEF Planted
  <2>3. p \in Allocated(t) /\ ~Gone(t, p)
    BY <2>1, <2>2 DEF Allocated, FreePages, Gone
  <2>4. p # root
    BY <1>5, <1>8, <2>1 DEF IsRoot
  <2>5. succ[p] = root /\ succ[root] = IX_NO_PAGE
    BY <1>1, <1>6, <1>7, <2>1, <2>3
  <2>6. Chain(succ, p) = <<p, succ[p]>>
    BY <1>2, <1>3, <1>4, <1>7, <2>3, <2>4, <2>5, ShortChains
  <2> QED BY <1>2, <1>5, <1>8, <2>2, <2>3, <2>4, <2>5, <2>6
<1>9. CASE ~IsRoot(t)
  <2>1. Kids(t) = <<root>>
    BY <1>5, <1>9 DEF Kids
  <2>2. PICK s : s = <<root>>
    OBVIOUS
  <2>3. Len(s) = 1 /\ s[1] = root
    BY <2>2
  <2>4. p = root
    BY <2>1, <2>2, <2>3
  <2>5. succ[root] = IX_NO_PAGE
    BY <1>1, <1>6, <1>7
  <2>6. Chain(succ, p) = <<p>>
    BY <1>2, <1>3, <1>4, <1>7, <2>4, <2>5, ShortChains
  <2> QED BY <1>2, <1>5, <1>6, <1>7, <1>9, <2>4, <2>6
<1> QED BY <1>8, <1>9

(* A key that is no separator is inserted where a search looks for it.     *)
LEMMA LeafForIs ==
  ASSUME NEW t, Framed(t), Planted(t), NEW k \in Nat, k \notin Separators(t)
  PROVE  LeafFor(t, k) = SearchLeaf(t, k)
<1>1. PICK child : child = [p \in InnerNodes(t) |->
                             t.node[p].vals[InsertPos(t.node[p].keys, k)]]
  OBVIOUS
<1>2. PICK root : root = t.rootPage
  OBVIOUS
<1>3. DOMAIN child = InnerNodes(t) /\ PathTo(t, k) = Down(child, root)
  BY <1>1, <1>2 DEF PathTo
<1>4. IsFiniteSet(DOMAIN child)
  <2>1. IsFiniteSet(IndexPages)
    BY IndexAssumption, FS_Interval DEF IndexPages
  <2>2. InnerNodes(t) \subseteq IndexPages
    BY DEF InnerNodes
  <2> QED BY <1>3, <2>1, <2>2, FS_Subset
<1>5. PICK inner : inner = Chain(child, root)
  OBVIOUS
<1>6. CASE IsRoot(t)
  <2>1. root \in InnerNodes(t)
    BY <1>2, <1>6 DEF InnerNodes, IsRoot, Planted, Rooted
  <2>2. PICK keys : keys = t.node[root].keys
    OBVIOUS
  <2>3. keys = Seps(t) /\ Kids(t) = t.node[root].vals /\ Sorted(keys)
    BY <1>2, <1>6, <2>2, TiledFacts DEF Seps, Kids, Planted
  <2>4. k \notin ToSet(keys)
    BY <2>1, <2>2 DEF Separators
  <2>5. InsertPos(keys, k) = SearchPos(keys, k)
    BY <2>3, <2>4, InsertPosFacts
  <2>6. PICK i : i = SearchPos(keys, k)
    OBVIOUS
  <2>7. i \in 1 .. Len(Kids(t)) /\ SearchLeaf(t, k) = Kids(t)[i]
    BY <2>3, <2>6, SearchLeafIs
  <2>8. child[root] = Kids(t)[i]
    BY <1>1, <2>1, <2>2, <2>3, <2>5, <2>6
  <2>9. child[root] \notin InnerNodes(t)
    BY <1>6, <2>7, <2>8 DEF InnerNodes, Planted, Rooted
  <2>10. inner = <<root>>
    BY <1>3, <1>4, <1>5, <2>1, <2>9, ShortChains
  <2>11. PICK path : path = Append(inner, child[root])
    OBVIOUS
  <2>12. inner # << >> /\ Last(inner) = root
    BY <2>10 DEF Last
  <2>13. PathTo(t, k) = path
    BY <1>3, <1>5, <2>11, <2>12 DEF Down
  <2>14. Len(path) = 2 /\ path[2] = child[root]
    <3>1. PICK x : x = child[root]
      OBVIOUS
    <3>2. path = Append(<<root>>, x)
      BY <2>10, <2>11, <3>1
    <3> QED BY <3>1, <3>2
  <2>15. Last(path) = child[root]
    BY <2>14 DEF Last
  <2> QED BY <2>7, <2>8, <2>13, <2>15 DEF LeafFor
<1>7. CASE ~IsRoot(t)
  <2>1. t.node[root].type = "ROOT_LEAF"
    BY <1>2, <1>7 DEF Planted, Rooted
  <2>2. root \notin InnerNodes(t)
    BY <2>1 DEF InnerNodes
  <2>3. inner = << >>
    BY <1>3, <1>4, <1>5, <2>2, ShortChains
  <2>4. PathTo(t, k) = Append(<< >>, root)
    BY <1>3, <1>5, <2>3 DEF Down
  <2>5. PICK path : path = <<root>>
    OBVIOUS
  <2>6. PathTo(t, k) = path /\ Last(path) = root
    BY <2>4, <2>5 DEF Last
  <2> QED BY <1>2, <2>1, <2>6 DEF LeafFor, SearchLeaf
<1> QED BY <1>6, <1>7


-----------------------------------------------------------------------------
(* A full leaf is split in halves.                                         *)
LEMMA HalvedLeaf ==
  ASSUME NEW t, Framed(t), FreePages(t) # {}, NEW p \in IndexPages, ~Gone(t, p),
         LeafHas(t.node[p].keys, t.node[p].vals), Len(t.node[p].keys) = degree,
         NEW right, right = NewPage(t), NEW u, u = Halved(t, p, right, "LEAF")
  PROVE  /\ Framed(u) /\ u.rootPage = t.rootPage
         /\ right \in FreePages(t) /\ right # p /\ FreePages(u) = FreePages(t) \ {right}
         /\ \A q \in IndexPages : q \notin {p, right} => u.node[q] = t.node[q]
         /\ u.node[p].type = "LEAF" /\ u.node[p].parent = t.node[p].parent
         /\ u.node[right].type = "LEAF" /\ u.node[right].parent = t.node[p].parent
         /\ Halves(t.node[p].keys, t.node[p].vals, u.node[p].keys, u.node[p].vals,
                   u.node[right].keys, u.node[right].vals)
<1>1. PICK type : type = "LEAF"
  OBVIOUS
<1>2. PICK x, y : x = RightNode(t, p, type) /\ y = LeftNode(t, p, right, type)
  OBVIOUS
<1>3. type # "NONE" /\ u = Halved(t, p, right, type)
  BY <1>1
<1>4. /\ Framed(u) /\ u.rootPage = t.rootPage /\ u.modified = t.modified
      /\ right \in FreePages(t) /\ right # p /\ FreePages(u) = FreePages(t) \ {right}
      /\ \A q \in IndexPages :
           u.node[q] = IF q = p THEN LeftNode(t, p, right, type)
                       ELSE IF q = right THEN RightNode(t, p, type) ELSE t.node[q]
  BY <1>3, HalvedFacts
<1>5. right \in IndexPages
  BY <1>4 DEF FreePages
<1>6. u.node[p] = y /\ u.node[right] = x
  BY <1>2, <1>4, <1>5
<1>7. PICK keys, vals : keys = t.node[p].keys /\ vals = t.node[p].vals
  OBVIOUS
<1>8. PICK h : h = degree \div 2
  OBVIOUS
<1>9. h \in Nat /\ 0 < h /\ h < degree
  BY <1>8, IndexAssumption
<1>10. Len(keys) = degree /\ h = Len(keys) \div 2 /\ h < Len(keys) /\ LeafHas(keys, vals)
  BY <1>7, <1>8, <1>9
<1>11. /\ x.type = type /\ x.parent = t.node[p].parent
       /\ x.keys = SubSeq(keys, h + 1, Len(keys)) /\ x.vals = SubSeq(vals, h + 1, Len(keys))
  <2>1. PICK v : v = SubSeq(vals, h + 1, Len(keys))
    OBVIOUS
  <2>2. x = Node(type, SubSeq(keys, h + 1, Len(keys)), v \o << >>, LeafAfter(t, p), p,
                 t.node[p].parent)
    BY <1>1, <1>2, <1>7, <1>8, <2>1 DEF RightNode
  <2>3. /\ x.type = type /\ x.keys = SubSeq(keys, h + 1, Len(keys)) /\ x.vals = v \o << >>
        /\ x.parent = t.node[p].parent
    BY <2>2 DEF Node
  <2>4. v \in Seq(Rows)
    <3>1. vals \in Seq(Rows) /\ Len(vals) = Len(keys)
      BY <1>10 DEF LeafHas
    <3>2. h \in 0 .. Len(vals)
      BY <1>9, <1>10, <3>1
    <3>3. SubSeq(vals, h + 1, Len(vals)) \in Seq(Rows)
      BY <3>1, <3>2, RestFrom
    <3> QED BY <2>1, <3>1, <3>3
  <2>5. v \o << >> = v
    BY <2>4, ConcatEmptySeq
  <2> QED BY <2>1, <2>3, <2>5
<1>12. y.type = type /\ y.parent = t.node[p].parent
  BY <1>2, NodeOf, LeftNodeFacts
<1>13. y.keys = SubSeq(keys, 1, h) /\ y.vals = SubSeq(vals, 1, h)
  <2>1. PICK z : z = t.node[p]
    OBVIOUS
  <2>2. PICK w : w = Node(z.type, keys, vals, z.next, z.prePage, z.parent)
    OBVIOUS
  <2>3. z = w
    BY <1>7, <2>1, <2>2, NodeOf DEF IsNode
  <2>4. y = Node(type, SubSeq(keys, 1, h), SubSeq(vals, 1, h), right, z.prePage, z.parent)
    BY <1>1, <1>2, <1>7, <1>10, <2>1, <2>2, <2>3 DEF LeftNode, Node
  <2> QED BY <2>4 DEF Node
<1>14. Halves(keys, vals, y.keys, y.vals, x.keys, x.vals)
  <2>1. PICK lk, lv : lk = SubSeq(keys, 1, h) /\ lv = SubSeq(vals, 1, h)
    OBVIOUS
  <2>2. PICK rk, rv : rk = SubSeq(keys, h + 1, Len(keys)) /\ rv = SubSeq(vals, h + 1, Len(keys))
    OBVIOUS
  <2>3. Halves(keys, vals, lk, lv, rk, rv)
    BY <1>9, <1>10, <2>1, <2>2, LeafHalves
  <2> QED BY <1>11, <1>13, <2>1, <2>2, <2>3
<1>15. \A q \in IndexPages : q \notin {p, right} => u.node[q] = t.node[q]
  BY <1>4
<1> QED BY <1>1, <1>4, <1>6, <1>7, <1>11, <1>12, <1>14, <1>15

(* A tree whose leaves are below their limit but for one, which is full.   *)
OneFull(t, i) ==
  /\ Framed(t) /\ Planted(t) /\ i \in 1 .. Len(Kids(t))
  /\ Len(t.node[Kids(t)[i]].keys) = degree
  /\ \A j \in 1 .. Len(Kids(t)) : j # i => Len(t.node[Kids(t)[j]].keys) < degree

(* A leaf split below the root: the right half is the next child.          *)
LEMMA SplitChild ==
  ASSUME NEW t, NEW i, OneFull(t, i), IsRoot(t), NEW p, p = Kids(t)[i], FreePages(t) # {},
         NEW u, u = SplitNode(t, p, "LEAF")
  PROVE  Framed(u) /\ Holds(u, RowsIn(Kids(t), t.node))
<1>1. /\ Framed(t) /\ Planted(t) /\ i \in 1 .. Len(Kids(t)) /\ Len(t.node[p].keys) = degree
      /\ \A j \in 1 .. Len(Kids(t)) : j # i => Len(t.node[Kids(t)[j]].keys) < degree
  BY DEF OneFull
<1>2. PICK root : root = t.rootPage
  OBVIOUS
<1>3. PICK seps, kids : seps = t.node[root].keys /\ kids = t.node[root].vals
  OBVIOUS
<1>4. seps = Seps(t) /\ kids = Kids(t)
  BY <1>2, <1>3 DEF Seps, Kids
<1>5. Tiled(seps, kids, t.node) /\ root # IX_NO_PAGE
  BY <1>1, <1>2, <1>4 DEF Planted
<1>6. /\ root \in IndexPages /\ t.node[root].parent = IX_NO_PAGE /\ t.node[root].type = "ROOT"
      /\ \A j \in 1 .. Len(kids) : t.node[kids[j]].type = "LEAF" /\ t.node[kids[j]].parent = root
  BY <1>1, <1>2, <1>4 DEF Planted, Rooted, IsRoot
<1>7. /\ \A j \in 1 .. Len(kids) : kids[j] \in IndexPages
      /\ \A j, k \in 1 .. Len(kids) : kids[j] = kids[k] => j = k
      /\ Len(kids) \in Nat /\ DOMAIN kids = 1 .. Len(kids)
  <2>1. Len(seps) \in Nat /\ Len(kids) = Len(seps) + 1
    BY <1>5, TiledFacts
  <2>2. Len(kids) \in Nat
    BY <2>1
  <2> QED BY <1>5, <2>2, TiledFacts
<1>8. i \in 1 .. Len(kids) /\ p = kids[i] /\ p \in IndexPages
  BY <1>1, <1>4, <1>7
<1>9. ~Gone(t, p) /\ p # root
  BY <1>6, <1>8 DEF Gone
<1>10. LeafHas(t.node[p].keys, t.node[p].vals)
  BY <1>1, KidIs
<1>11. PICK right : right = NewPage(t)
  OBVIOUS
<1>12. PICK h : h = Halved(t, p, right, "LEAF")
  OBVIOUS
<1>13. /\ Framed(h) /\ h.rootPage = root
       /\ right \in FreePages(t) /\ right # p
       /\ \A q \in IndexPages : q \notin {p, right} => h.node[q] = t.node[q]
       /\ h.node[p].type = "LEAF" /\ h.node[p].parent = root
       /\ h.node[right].type = "LEAF" /\ h.node[right].parent = root
       /\ Halves(t.node[p].keys, t.node[p].vals, h.node[p].keys, h.node[p].vals,
                 h.node[right].keys, h.node[right].vals)
  <2>1. t.node[p].parent = root
    BY <1>6, <1>8
  <2> QED BY <1>1, <1>2, <1>8, <1>9, <1>10, <1>11, <1>12, <2>1, HalvedLeaf
<1>14. right \in IndexPages /\ Gone(t, right)
  BY <1>13 DEF FreePages
<1>15. right # root /\ \A j \in 1 .. Len(kids) : kids[j] # right /\ kids[j] # root
  BY <1>6, <1>14 DEF Gone
<1>16. PICK key : key = h.node[right].keys[1]
  OBVIOUS
<1>17. h.node[root] = t.node[root]
  BY <1>6, <1>9, <1>13, <1>15
<1>18. u = WithChild(h, root, right)
  <2>1. t.node[p].parent # IX_NO_PAGE /\ h.node[p].parent = root
    BY <1>5, <1>6, <1>8, <1>13
  <2> QED BY <1>11, <1>12, <1>6, <1>8, <2>1 DEF SplitNode
<1>19. PICK pos : pos = InsertPos(h.node[root].keys, key)
  OBVIOUS
<1>20. /\ Framed(u) /\ u.rootPage = root
       /\ \A q \in IndexPages :
            u.node[q] = IF q # root THEN h.node[q]
              ELSE Node(h.node[q].type, InsertAt(h.node[q].keys, pos, key),
                        InsertAt(h.node[q].vals, pos + 1, right), h.node[q].next,
                        h.node[q].prePage, h.node[q].parent)
  BY <1>13, <1>16, <1>18, <1>19, WithChildFacts
<1>21. \A q \in IndexPages : q # root => u.node[q] = h.node[q]
  BY <1>20
<1>22. /\ InsertPos(seps, key) = i
       /\ Tiled(InsertAt(seps, i, key), InsertAt(kids, i + 1, right), u.node)
       /\ RowsIn(InsertAt(kids, i + 1, right), u.node) = RowsIn(kids, t.node)
  <2>1. right \notin ToSet(kids)
    BY <1>7, <1>15 DEF ToSet
  <2>2. ASSUME NEW j \in 1 .. Len(kids), j # i PROVE SameRows(u.node[kids[j]], t.node[kids[j]])
    <3>1. kids[j] # p
      BY <1>7, <1>8, <2>2
    <3>2. u.node[kids[j]] = t.node[kids[j]]
      BY <1>7, <1>13, <1>15, <1>21, <3>1
    <3> QED BY <3>2 DEF SameRows
  <2>3. u.node[p] = h.node[p] /\ u.node[right] = h.node[right]
    BY <1>8, <1>9, <1>14, <1>15, <1>21
  <2>4. PICK keys, vals : keys = t.node[kids[i]].keys /\ vals = t.node[kids[i]].vals
    OBVIOUS
  <2>5. Halves(keys, vals, u.node[kids[i]].keys, u.node[kids[i]].vals,
               u.node[right].keys, u.node[right].vals)
    BY <1>8, <1>13, <2>3, <2>4
  <2>6. key = u.node[right].keys[1]
    BY <1>16, <2>3
  <2>7. i \in 1 .. Len(kids) /\ right \in IndexPages
    BY <1>8, <1>14
  <2> QED BY <1>5, <2>1, <2>2, <2>4, <2>5, <2>6, <2>7, TiledSplit
<1>23. PICK s2, k2 : s2 = InsertAt(seps, i, key) /\ k2 = InsertAt(kids, i + 1, right)
  OBVIOUS
<1>24. u.node[root].keys = s2 /\ u.node[root].vals = k2 /\ u.node[root].type = "ROOT"
       /\ u.node[root].parent = IX_NO_PAGE
  <2>1. pos = i
    BY <1>3, <1>17, <1>19, <1>22
  <2>2. PICK x : x = t.node[root]
    OBVIOUS
  <2>3. u.node[root] = Node(x.type, s2, k2, x.next, x.prePage, x.parent)
    BY <1>3, <1>6, <1>17, <1>20, <1>23, <2>1, <2>2
  <2> QED BY <1>6, <2>2, <2>3, NodeFacts
<1>25. IsRoot(u) /\ Seps(u) = s2 /\ Kids(u) = k2
  BY <1>20, <1>24 DEF IsRoot, Seps, Kids
<1>26. ASSUME NEW j \in 1 .. Len(k2)
       PROVE  /\ u.node[k2[j]].type = "LEAF" /\ u.node[k2[j]].parent = root
              /\ Len(u.node[k2[j]].keys) < degree
  <2>1. k2[j] = right \/ \E a \in 1 .. Len(kids) : k2[j] = kids[a]
    <3>1. PICK e : e = i + 1
      OBVIOUS
    <3>2. kids \in Seq(IndexPages) /\ e \in 1 .. Len(kids) + 1 /\ right \in IndexPages
      BY <1>5, <1>7, <1>8, <1>14, <3>1, TiledFacts
    <3>3. WithOne(kids, e, right, InsertAt(kids, e, right))
      BY <3>2, InsertIs
    <3>4. /\ Len(k2) = Len(kids) + 1
          /\ \A a \in 1 .. Len(kids) + 1 :
               k2[a] = IF a < e THEN kids[a] ELSE IF a = e THEN right ELSE kids[a - 1]
      BY <1>23, <3>1, <3>3 DEF WithOne
    <3>5. j < e => j \in 1 .. Len(kids)
      BY <1>7, <3>2
    <3>6. ~(j < e) /\ j # e => j - 1 \in 1 .. Len(kids)
      BY <1>7, <3>2, <3>4
    <3> QED BY <3>4, <3>5, <3>6
  <2>2. CASE k2[j] = right
    <3>1. u.node[right] = h.node[right]
      BY <1>14, <1>15, <1>21
    <3>2. Len(h.node[right].keys) < degree
      BY <1>1, <1>13 DEF Halves
    <3> QED BY <1>13, <2>2, <3>1, <3>2
  <2>3. CASE k2[j] = p
    <3>1. u.node[p] = h.node[p]
      BY <1>8, <1>9, <1>21
    <3>2. Len(h.node[p].keys) < degree
      BY <1>1, <1>13 DEF Halves
    <3> QED BY <1>13, <2>3, <3>1, <3>2
  <2>4. CASE k2[j] # right /\ k2[j] # p
    <3>1. PICK a \in 1 .. Len(kids) : k2[j] = kids[a]
      BY <2>1, <2>4
    <3>2. a # i
      BY <1>8, <2>4, <3>1
    <3>3. u.node[kids[a]] = t.node[kids[a]]
      BY <1>7, <1>13, <1>15, <1>21, <2>4, <3>1
    <3>4. Len(t.node[kids[a]].keys) < degree
      BY <1>1, <1>4, <3>2
    <3> QED BY <1>6, <3>1, <3>3, <3>4
  <2> QED BY <2>2, <2>3, <2>4
<1>27. Rooted(u) /\ NotFull(u)
  <2>1. NotFull(u)
    BY <1>25, <1>26 DEF NotFull
  <2>2. u.rootPage \in IndexPages /\ u.node[u.rootPage].parent = IX_NO_PAGE
    BY <1>6, <1>20, <1>24
  <2> QED BY <1>20, <1>25, <1>26, <2>1, <2>2 DEF Rooted
<1>28. Holds(u, RowsIn(Kids(t), t.node))
  <2>1. Tiled(s2, k2, u.node) /\ RowsIn(k2, u.node) = RowsIn(kids, t.node)
    BY <1>22, <1>23
  <2>2. Tiled(Seps(u), Kids(u), u.node) /\ RowsIn(Kids(t), t.node) = RowsIn(Kids(u), u.node)
    BY <1>4, <1>25, <2>1
  <2> QED BY <1>5, <1>20, <1>27, <2>2 DEF Holds
<1> QED BY <1>20, <1>28

(* The root leaf split: the halves are the leaves below a new root.        *)
LEMMA SplitRootLeaf ==
  ASSUME NEW t, NEW i, OneFull(t, i), ~IsRoot(t), NEW p, p = Kids(t)[i],
         Cardinality(FreePages(t)) >= 2, NEW u, u = SplitNode(t, p, "LEAF")
  PROVE  Framed(u) /\ Holds(u, RowsIn(Kids(t), t.node))
<1>1. Framed(t) /\ Planted(t) /\ i \in 1 .. Len(Kids(t)) /\ Len(t.node[p].keys) = degree
  BY DEF OneFull
<1>2. Kids(t) = <<t.rootPage>> /\ Seps(t) = << >>
  BY DEF Kids, Seps
<1>3. PICK kids, seps : kids = <<t.rootPage>> /\ seps = << >>
  OBVIOUS
<1>4. Len(kids) = 1 /\ kids[1] = t.rootPage /\ Len(seps) = 0
  BY <1>3
<1>5. i = 1 /\ p = t.rootPage
  BY <1>1, <1>2, <1>3, <1>4
<1>6. p \in IndexPages /\ t.node[p].parent = IX_NO_PAGE /\ t.node[p].type = "ROOT_LEAF"
  BY <1>1, <1>5 DEF Planted, Rooted
<1>7. ~Gone(t, p) /\ LeafHas(t.node[p].keys, t.node[p].vals)
  BY <1>1, <1>6, KidIs DEF Gone
<1>8. Tiled(seps, kids, t.node)
  BY <1>1, <1>2, <1>3 DEF Planted
<1>9. PICK n \in Nat : n = Cardinality(FreePages(t)) /\ n >= 2
  BY FreeCountType
<1>10. FreePages(t) # {}
  BY <1>9, FreeCountType
<1>11. PICK right : right = NewPage(t)
  OBVIOUS
<1>12. PICK h : h = Halved(t, p, right, "LEAF")
  OBVIOUS
<1>13. /\ Framed(h)
       /\ right \in FreePages(t) /\ right # p /\ FreePages(h) = FreePages(t) \ {right}
       /\ h.node[p].type = "LEAF" /\ h.node[right].type = "LEAF"
       /\ Halves(t.node[p].keys, t.node[p].vals, h.node[p].keys, h.node[p].vals,
                 h.node[right].keys, h.node[right].vals)
  BY <1>1, <1>6, <1>7, <1>10, <1>11, <1>12, HalvedLeaf
<1>14. right \in IndexPages /\ ~Gone(h, right) /\ ~Gone(h, p)
  BY <1>13 DEF FreePages, Gone
<1>15. FreePages(h) # {}
  <2>1. Cardinality(FreePages(h)) = n - 1
    BY <1>9, <1>13, FreeCount
  <2>2. n - 1 > 0
    BY <1>9
  <2> QED BY <2>1, <2>2, FreeCountType
<1>16. PICK root : root = NewPage(h)
  OBVIOUS
<1>17. PICK key : key = h.node[right].keys[1]
  OBVIOUS
<1>18. u = WithNewRoot(h, p, right)
  BY <1>6, <1>11, <1>12 DEF SplitNode
<1>19. /\ Framed(u) /\ u.rootPage = root /\ root \in FreePages(h)
       /\ \A q \in IndexPages :
            u.node[q] =
              IF q = root THEN Node("ROOT", <<h.node[right].keys[1]>>, <<p, right>>,
                                    IX_NO_PAGE, IX_NO_PAGE, IX_NO_PAGE)
              ELSE IF q \in {p, right} THEN SetParent(h.node[q], root)
              ELSE h.node[q]
  BY <1>6, <1>13, <1>14, <1>15, <1>16, <1>18, WithNewRootFacts
<1>20. root \in IndexPages /\ root # p /\ root # right /\ root # IX_NO_PAGE
  <2>1. root \in IndexPages /\ Gone(h, root)
    BY <1>19 DEF FreePages
  <2> QED BY <1>14, <2>1 DEF IndexPages, IX_NO_PAGE
<1>21. ASSUME NEW q \in {p, right}
       PROVE  /\ u.node[q].type = "LEAF" /\ u.node[q].parent = root
              /\ u.node[q].keys = h.node[q].keys /\ u.node[q].vals = h.node[q].vals
  <2>1. PICK x : x = h.node[q]
    OBVIOUS
  <2>2. q \in IndexPages /\ q # root
    BY <1>6, <1>14, <1>20
  <2>3. IsNode(x)
    BY <1>13, <2>1, <2>2, NodeOf
  <2>4. u.node[q] = SetParent(x, root)
    BY <1>19, <2>1, <2>2
  <2>5. u.node[q] = Node(x.type, x.keys, x.vals, x.next, x.prePage, root)
    BY <2>3, <2>4, FieldFacts
  <2>6. x.type = "LEAF"
    BY <1>13, <2>1
  <2> QED BY <2>1, <2>5, <2>6, NodeFacts
<1>22. PICK s2, k2 : s2 = <<key>> /\ k2 = <<p, right>>
  OBVIOUS
<1>23. u.node[root].keys = s2 /\ u.node[root].vals = k2 /\ u.node[root].type = "ROOT"
       /\ u.node[root].parent = IX_NO_PAGE
  <2>1. u.node[root] = Node("ROOT", s2, k2, IX_NO_PAGE, IX_NO_PAGE, IX_NO_PAGE)
    BY <1>17, <1>19, <1>20, <1>22
  <2> QED BY <2>1, NodeFacts
<1>24. IsRoot(u) /\ Seps(u) = s2 /\ Kids(u) = k2
  BY <1>19, <1>23 DEF IsRoot, Seps, Kids
<1>25. Tiled(s2, k2, u.node) /\ RowsIn(k2, u.node) = RowsIn(kids, t.node)
  <2>1. right \notin ToSet(kids)
    <3>1. ToSet(kids) = {p}
      BY <1>3, <1>5 DEF ToSet
    <3> QED BY <1>13, <3>1
  <2>2. \A j \in 1 .. Len(kids) : j # i => SameRows(u.node[kids[j]], t.node[kids[j]])
    BY <1>4, <1>5
  <2>3. PICK keys, vals : keys = t.node[kids[i]].keys /\ vals = t.node[kids[i]].vals
    OBVIOUS
  <2>4. Halves(keys, vals, u.node[kids[i]].keys, u.node[kids[i]].vals,
               u.node[right].keys, u.node[right].vals)
    BY <1>4, <1>5, <1>13, <1>21, <2>3
  <2>5. key = u.node[right].keys[1]
    BY <1>17, <1>21
  <2>6. i \in 1 .. Len(kids)
    BY <1>4, <1>5
  <2>7. /\ Tiled(InsertAt(seps, i, key), InsertAt(kids, i + 1, right), u.node)
        /\ RowsIn(InsertAt(kids, i + 1, right), u.node) = RowsIn(kids, t.node)
    BY <1>8, <1>14, <2>1, <2>2, <2>3, <2>4, <2>5, <2>6, TiledSplit
  <2>8. InsertAt(seps, i, key) = s2
    <3>1. PICK K : K = {key}
      OBVIOUS
    <3>2. PICK m : m = 1
      OBVIOUS
    <3>3. seps \in Seq(K) /\ key \in K /\ m \in 1 .. Len(seps) + 1
      BY <1>3, <1>4, <3>1, <3>2
    <3>4. InsertAt(seps, m, key) \in Seq(K) /\ WithOne(seps, m, key, InsertAt(seps, m, key))
      BY <3>3, InsertIs
    <3>5. PICK x : x = InsertAt(seps, m, key)
      OBVIOUS
    <3>6. x \in Seq(K) /\ Len(x) = 1 /\ x[1] = key
      BY <1>4, <3>2, <3>4, <3>5 DEF WithOne
    <3>7. x = <<key>>
      BY <3>6
    <3> QED BY <1>5, <1>22, <3>2, <3>5, <3>7
  <2>9. InsertAt(kids, i + 1, right) = k2
    <3>1. PICK K : K = {p, right}
      OBVIOUS
    <3>2. PICK m : m = 2
      OBVIOUS
    <3>3. kids \in Seq(K) /\ right \in K /\ m \in 1 .. Len(kids) + 1
      BY <1>3, <1>4, <1>5, <3>1, <3>2
    <3>4. InsertAt(kids, m, right) \in Seq(K) /\ WithOne(kids, m, right, InsertAt(kids, m, right))
      BY <3>3, InsertIs
    <3>5. PICK x : x = InsertAt(kids, m, right)
      OBVIOUS
    <3>6. x \in Seq(K) /\ Len(x) = 2 /\ x[1] = p /\ x[2] = right
      BY <1>4, <1>5, <3>2, <3>4, <3>5 DEF WithOne
    <3>7. x = <<p, right>>
      BY <3>6
    <3>8. i + 1 = m
      BY <1>5, <3>2
    <3> QED BY <1>22, <3>5, <3>7, <3>8
  <2> QED BY <2>7, <2>8, <2>9
<1>26. ASSUME NEW j \in 1 .. Len(k2)
       PROVE  /\ u.node[k2[j]].type = "LEAF" /\ u.node[k2[j]].parent = root
              /\ Len(u.node[k2[j]].keys) < degree
  <2>1. k2[j] \in {p, right}
    BY <1>22
  <2>2. Len(h.node[k2[j]].keys) < degree
    BY <1>1, <1>13, <2>1 DEF Halves
  <2> QED BY <1>21, <2>1, <2>2
<1>27. Rooted(u) /\ NotFull(u)
  <2>1. NotFull(u)
    BY <1>24, <1>26 DEF NotFull
  <2>2. u.rootPage \in IndexPages /\ u.node[u.rootPage].parent = IX_NO_PAGE
    BY <1>19, <1>20, <1>23
  <2> QED BY <1>19, <1>24, <1>26, <2>1, <2>2 DEF Rooted
<1>28. Holds(u, RowsIn(Kids(t), t.node))
  <2>1. Tiled(Seps(u), Kids(u), u.node) /\ RowsIn(Kids(t), t.node) = RowsIn(Kids(u), u.node)
    BY <1>2, <1>3, <1>24, <1>25
  <2> QED BY <1>19, <1>20, <1>27, <2>1 DEF Holds
<1> QED BY <1>19, <1>28

-----------------------------------------------------------------------------
(* The keys and the rows of a leaf changed.                                *)
WithRows(x, keys, vals) == Node(x.type, keys, vals, x.next, x.prePage, x.parent)

Rekeyed(t, p, keys) == Put(t, p, SetKeys(t.node[p], keys))
Refilled(t, p, keys, vals) ==
  LET a == Rekeyed(t, p, keys)
  IN Put(a, p, SetVals(a.node[p], vals))

(* Other keys and rows in one leaf change nothing else. *)
LEMMA RefillFacts ==
  ASSUME NEW t, Framed(t), NEW p \in IndexPages, NEW keys, NEW vals,
         NEW u, u = Refilled(t, p, keys, vals)
  PROVE  /\ Framed(u) /\ u.rootPage = t.rootPage /\ u.modified = t.modified
         /\ u.disposed = t.disposed /\ FreePages(u) = FreePages(t)
         /\ Rekeyed(t, p, keys).node[p].vals = t.node[p].vals
         /\ \A q \in IndexPages :
              u.node[q] = IF q = p THEN WithRows(t.node[q], keys, vals) ELSE t.node[q]
<1>1. PICK x : x = t.node[p]
  OBVIOUS
<1>2. PICK y : y = SetKeys(x, keys)
  OBVIOUS
<1>3. IsNode(x)
  BY <1>1, NodeOf
<1>4. y = Node(x.type, keys, x.vals, x.next, x.prePage, x.parent)
  BY <1>2, <1>3, FieldFacts
<1>5. /\ IsNode(y) /\ y.type = x.type /\ y.keys = keys /\ y.vals = x.vals /\ y.next = x.next
      /\ y.prePage = x.prePage /\ y.parent = x.parent
  BY <1>4, NodeFacts
<1>6. PICK b : b = Put(t, p, y)
  OBVIOUS
<1>7. Rekeyed(t, p, keys) = b
  BY <1>1, <1>2, <1>6 DEF Rekeyed
<1>8. /\ Framed(b) /\ b.rootPage = t.rootPage /\ b.modified = t.modified
      /\ b.disposed = t.disposed /\ FreePages(b) = FreePages(t)
      /\ \A q \in IndexPages : b.node[q] = IF q = p THEN y ELSE t.node[q]
  <2>1. p \in IndexPages => IsNode(y) /\ (y.type = "NONE" <=> Gone(t, p))
    BY <1>1, <1>5 DEF Gone
  <2> QED BY <1>6, <2>1, PutFacts
<1>9. b.node[p] = y
  BY <1>8
<1>10. PICK z : z = SetVals(y, vals)
  OBVIOUS
<1>11. z = Node(y.type, y.keys, vals, y.next, y.prePage, y.parent)
  BY <1>5, <1>10, FieldFacts
<1>12. z = WithRows(x, keys, vals)
  BY <1>5, <1>11 DEF WithRows
<1>13. IsNode(z) /\ z.type = x.type
  BY <1>5, <1>11, NodeFacts
<1>14. u = Put(b, p, z)
  BY <1>7, <1>9, <1>10 DEF Refilled
<1>15. /\ Framed(u) /\ u.rootPage = b.rootPage /\ u.modified = b.modified
       /\ u.disposed = b.disposed /\ FreePages(u) = FreePages(b)
       /\ \A q \in IndexPages : u.node[q] = IF q = p THEN z ELSE b.node[q]
  <2>1. p \in IndexPages => IsNode(z) /\ (z.type = "NONE" <=> Gone(b, p))
    BY <1>5, <1>9, <1>13 DEF Gone
  <2> QED BY <1>8, <1>14, <2>1, PutFacts
<1>16. ASSUME NEW q \in IndexPages
       PROVE  u.node[q] = IF q = p THEN WithRows(t.node[q], keys, vals) ELSE t.node[q]
  BY <1>1, <1>8, <1>12, <1>15
<1>17. Rekeyed(t, p, keys).node[p].vals = t.node[p].vals
  BY <1>1, <1>5, <1>7, <1>9
<1> QED BY <1>8, <1>15, <1>16, <1>17

(* The leaf with the row more, before it is split.                         *)
Filled(t, p, r) ==
  LET pos == InsertPos(t.node[p].keys, Key[r])
  IN [t EXCEPT !.node[p].keys = InsertAt(@, pos, Key[r]),
               !.node[p].vals = InsertAt(@, pos, r)]

(* The row gets its place in the leaf. *)
LEMMA FilledFacts ==
  ASSUME NEW t, Framed(t), NEW p \in IndexPages, NEW r, NEW pos,
         pos = InsertPos(t.node[p].keys, Key[r]),
         NEW u, u = Filled(t, p, r)
  PROVE  /\ Framed(u) /\ u.rootPage = t.rootPage /\ u.modified = t.modified
         /\ u.disposed = t.disposed /\ FreePages(u) = FreePages(t)
         /\ \A q \in IndexPages :
              u.node[q] = IF q = p THEN WithRows(t.node[q], InsertAt(t.node[p].keys, pos, Key[r]),
                                                 InsertAt(t.node[p].vals, pos, r))
                          ELSE t.node[q]
<1>1. PICK keys : keys = InsertAt(t.node[p].keys, pos, Key[r])
  OBVIOUS
<1>2. PICK a : a = Rekeyed(t, p, keys)
  OBVIOUS
<1>3. PICK vals : vals = InsertAt(a.node[p].vals, pos, r)
  OBVIOUS
<1>4. PICK w : w = Refilled(t, p, keys, vals)
  OBVIOUS
<1>5. u = w
  <2>1. a = [t EXCEPT !.node[p].keys = InsertAt(@, pos, Key[r])]
    BY <1>1, <1>2 DEF Rekeyed, Put, SetKeys
  <2>2. u = [[t EXCEPT !.node[p].keys = InsertAt(@, pos, Key[r])]
               EXCEPT !.node[p].vals = InsertAt(@, pos, r)]
    BY DEF Filled
  <2>3. w = Put(a, p, SetVals(a.node[p], vals))
    BY <1>2, <1>4 DEF Refilled
  <2> QED BY <1>3, <2>1, <2>2, <2>3 DEF Put, SetVals
<1>6. /\ Framed(w) /\ w.rootPage = t.rootPage /\ w.modified = t.modified
      /\ w.disposed = t.disposed /\ FreePages(w) = FreePages(t)
      /\ Rekeyed(t, p, keys).node[p].vals = t.node[p].vals
      /\ \A q \in IndexPages :
           w.node[q] = IF q = p THEN WithRows(t.node[q], keys, vals) ELSE t.node[q]
  BY <1>4, RefillFacts
<1>7. vals = InsertAt(t.node[p].vals, pos, r)
  BY <1>2, <1>3, <1>6
<1> QED BY <1>1, <1>5, <1>6, <1>7

(* The fields of a leaf with other keys and rows. *)
LEMMA WithRowsFacts ==
  ASSUME NEW x, NEW keys, NEW vals, NEW y, y = WithRows(x, keys, vals)
  PROVE  /\ IsNode(y) /\ y.type = x.type /\ y.keys = keys /\ y.vals = vals
         /\ y.next = x.next /\ y.prePage = x.prePage /\ y.parent = x.parent
  BY NodeFacts DEF WithRows

(* insertEntryInLeaf: fill, and split if the leaf is full then. *)
LEMMA InLeafIs ==
  ASSUME NEW t, NEW p, NEW r, NEW f, f = Filled(t, p, r)
  PROVE  InLeaf(t, p, r) = IF Len(f.node[p].keys) < degree THEN f ELSE spliteTwoNodes(f, p)
  BY DEF InLeaf, Filled

(* Inner nodes below the root stay inner nodes when a row is inserted.     *)
LEMMA InLeafKeeps ==
  ASSUME NEW t, Framed(t), NEW p \in Leaves(t), NEW r,
         Cardinality(FreePages(t)) > 2 * Len(Ancestry(t, p)),
         NEW u, u = InLeaf(t, p, r)
  PROVE  /\ Framed(u) /\ HeaderKept(t, u)
         /\ \A d \in IndexPages : t.node[d].type = "NODE" => u.node[d].type = "NODE"
<1>1. p \in IndexPages /\ t.node[p].type # "NODE"
  BY DEF Leaves, IsLeaf
<1>2. PICK f : f = Filled(t, p, r)
  OBVIOUS
<1>3. PICK pos : pos = InsertPos(t.node[p].keys, Key[r])
  OBVIOUS
<1>4. /\ Framed(f) /\ f.rootPage = t.rootPage /\ f.modified = t.modified
      /\ FreePages(f) = FreePages(t)
      /\ \A q \in IndexPages :
           f.node[q] = IF q = p THEN WithRows(t.node[q], InsertAt(t.node[p].keys, pos, Key[r]),
                                              InsertAt(t.node[p].vals, pos, r))
                       ELSE t.node[q]
  BY <1>1, <1>2, <1>3, FilledFacts
<1>5. ASSUME NEW q \in IndexPages
      PROVE  f.node[q].type = t.node[q].type /\ f.node[q].parent = t.node[q].parent
  <2>1. CASE q = p
    BY <1>4, <2>1, WithRowsFacts
  <2>2. CASE q # p
    BY <1>4, <2>2
  <2> QED BY <2>1, <2>2
<1>6. CASE Len(f.node[p].keys) < degree
  <2>1. u = f
    BY <1>2, <1>6, InLeafIs
  <2>2. HeaderKept(t, u)
    BY <1>4, <2>1 DEF HeaderKept
  <2> QED BY <1>4, <1>5, <2>1, <2>2
<1>7. CASE ~(Len(f.node[p].keys) < degree)
  <2>1. PICK up : up = Ancestry(f, p)
    OBVIOUS
  <2>2. u = SplitUp(f, up)[Len(up)]
    BY <1>2, <1>7, <2>1, InLeafIs DEF spliteTwoNodes
  <2>3. up = Ancestry(t, p)
    BY <1>4, <1>5, <2>1, AncestrySame
  <2>4. /\ Len(up) \in Nat /\ (Len(up) > 0 => up[1] = p)
        /\ \A n \in 1 .. Len(up) : up[n] \in IndexPages /\ ~Gone(f, up[n])
    BY <2>1, AncestryFacts
  <2>5. Cardinality(FreePages(f)) > 2 * Len(up)
    BY <1>4, <2>3
  <2>6. /\ Framed(u) /\ HeaderKept(f, u)
        /\ \A d \in IndexPages : f.node[d].type = "NODE" /\ (Len(up) > 0 => up[1] # d)
                                => u.node[d].type = "NODE"
    BY <1>4, <2>2, <2>4, <2>5, SplitUpKeeps
  <2>7. ASSUME NEW d \in IndexPages, t.node[d].type = "NODE" PROVE u.node[d].type = "NODE"
    <3>1. f.node[d].type = "NODE" /\ d # p
      BY <1>1, <1>5, <2>7
    <3>2. Len(up) > 0 => up[1] # d
      BY <2>4, <3>1
    <3> QED BY <2>6, <3>1, <3>2
  <2>8. HeaderKept(t, u)
    BY <1>4, <2>6 DEF HeaderKept
  <2> QED BY <2>6, <2>7, <2>8
<1> QED BY <1>6, <1>7

(* A tree with other rows in one leaf, below the same separators.          *)
LEMMA Refitted ==
  ASSUME NEW t, Planted(t), NEW i \in 1 .. Len(Kids(t)), NEW p, p = Kids(t)[i],
         NEW keys, NEW vals, LeafHas(keys, vals), \A k \in ToSet(keys) : SearchPos(Seps(t), k) = i,
         NEW u, u.rootPage = t.rootPage,
         \A q \in IndexPages :
           u.node[q] = IF q = p THEN WithRows(t.node[q], keys, vals) ELSE t.node[q]
  PROVE  /\ Planted(u) /\ (IsRoot(u) <=> IsRoot(t)) /\ Seps(u) = Seps(t) /\ Kids(u) = Kids(t)
         /\ u.node[p].keys = keys /\ u.node[p].vals = vals
         /\ \A j \in 1 .. Len(Kids(t)) : j # i => u.node[Kids(t)[j]].keys = t.node[Kids(t)[j]].keys
         /\ RowsIn(Kids(u), u.node) =
              (RowsIn(Kids(t), t.node) \ ToSet(t.node[p].vals)) \cup ToSet(vals)
<1>1. PICK root : root = t.rootPage
  OBVIOUS
<1>2. PICK seps, kids : seps = Seps(t) /\ kids = Kids(t)
  OBVIOUS
<1>3. Tiled(seps, kids, t.node) /\ Rooted(t) /\ root # IX_NO_PAGE
  BY <1>1, <1>2 DEF Planted
<1>4. /\ \A j \in 1 .. Len(kids) : kids[j] \in IndexPages
      /\ \A j, k \in 1 .. Len(kids) : kids[j] = kids[k] => j = k
  BY <1>3, TiledFacts
<1>5. i \in 1 .. Len(kids) /\ p = kids[i] /\ p \in IndexPages /\ root \in IndexPages
  BY <1>1, <1>2, <1>3, <1>4 DEF Rooted
<1>6. ASSUME NEW q \in IndexPages
      PROVE  u.node[q].type = t.node[q].type /\ u.node[q].parent = t.node[q].parent
  <2>1. CASE q = p
    BY <2>1, WithRowsFacts
  <2>2. CASE q # p
    BY <2>2
  <2> QED BY <2>1, <2>2
<1>7. u.node[p].keys = keys /\ u.node[p].vals = vals
  BY <1>5, WithRowsFacts
<1>8. IsRoot(u) <=> IsRoot(t)
  BY <1>1, <1>5, <1>6 DEF IsRoot
<1>9. Seps(u) = seps /\ Kids(u) = kids
  <2>1. CASE IsRoot(t)
    <3>1. t.node[root].type = "ROOT" /\ t.node[p].type = "LEAF"
      BY <1>1, <1>2, <1>3, <1>5, <2>1 DEF IsRoot, Rooted
    <3>2. u.node[root] = t.node[root]
      BY <1>5, <3>1
    <3> QED BY <1>1, <1>2, <1>8, <2>1, <3>2 DEF Seps, Kids
  <2>2. CASE ~IsRoot(t)
    BY <1>1, <1>2, <1>8, <2>2 DEF Seps, Kids
  <2> QED BY <2>1, <2>2
<1>10. \A j \in 1 .. Len(kids) : j # i => u.node[kids[j]] = t.node[kids[j]]
  BY <1>4, <1>5
<1>11. Tiled(seps, kids, u.node)
       /\ RowsIn(kids, u.node) = (RowsIn(kids, t.node) \ ToSet(t.node[kids[i]].vals))
                                   \cup ToSet(u.node[kids[i]].vals)
  <2>1. \A j \in 1 .. Len(kids) : j # i => SameRows(u.node[kids[j]], t.node[kids[j]])
    BY <1>10 DEF SameRows
  <2>2. LeafHas(u.node[kids[i]].keys, u.node[kids[i]].vals)
        /\ \A k \in ToSet(u.node[kids[i]].keys) : SearchPos(seps, k) = i
    BY <1>2, <1>5, <1>7
  <2>3. i \in 1 .. Len(kids)
    BY <1>5
  <2> QED BY <1>3, <2>1, <2>2, <2>3, TiledPut
<1>12. Rooted(u)
  <2>1. u.rootPage \in IndexPages /\ u.node[u.rootPage].parent = IX_NO_PAGE
    BY <1>3, <1>6 DEF Rooted
  <2>2. CASE IsRoot(t)
    <3>1. \A j \in 1 .. Len(kids) : t.node[kids[j]].type = "LEAF" /\ t.node[kids[j]].parent = root
      BY <1>1, <1>2, <1>3, <2>2 DEF Rooted
    <3>2. \A j \in 1 .. Len(kids) : u.node[kids[j]].type = "LEAF" /\ u.node[kids[j]].parent = root
      BY <1>4, <1>6, <3>1
    <3> QED BY <1>1, <1>8, <1>9, <2>1, <2>2, <3>2 DEF Rooted
  <2>3. CASE ~IsRoot(t)
    <3>1. u.node[u.rootPage].type = "ROOT_LEAF"
      BY <1>3, <1>6, <2>3 DEF Rooted
    <3> QED BY <1>8, <2>1, <2>3, <3>1 DEF Rooted
  <2> QED BY <2>2, <2>3
<1>13. Planted(u)
  BY <1>1, <1>3, <1>9, <1>11, <1>12 DEF Planted
<1> QED BY <1>2, <1>5, <1>7, <1>8, <1>9, <1>10, <1>11, <1>13

(* A row is inserted where a search looks for its key: in a tree that      *)
(* stays flat the rows are then those there were, and this one.            *)
LEMMA InLeafHolds ==
  ASSUME NEW t, Framed(t), NEW rows, Holds(t, rows), t.rootPage # IX_NO_PAGE,
         NEW r \in Rows, Key[r] \notin Keys(rows), NEW p, p = SearchLeaf(t, Key[r]),
         Cardinality(FreePages(t)) > 2 * Len(Ancestry(t, p)),
         NEW u, u = InLeaf(t, p, r), Shallow(u)
  PROVE  Holds(u, rows \cup {r})
<1>1. Planted(t) /\ NotFull(t) /\ rows = RowsIn(Kids(t), t.node)
  BY DEF Holds, Planted
<1>2. PICK k \in Nat : k = Key[r]
  BY IndexAssumption
<1>3. PICK i : i = SearchPos(Seps(t), k)
  OBVIOUS
<1>4. i \in 1 .. Len(Kids(t)) /\ p = Kids(t)[i]
  BY <1>1, <1>2, <1>3, SearchLeafIs
<1>5. p \in IndexPages /\ LeafHas(t.node[p].keys, t.node[p].vals)
  BY <1>1, <1>4, KidIs
<1>6. PICK keys, vals : keys = t.node[p].keys /\ vals = t.node[p].vals
  OBVIOUS
<1>7. LeafHas(keys, vals)
  BY <1>5, <1>6
<1>8. ToSet(vals) \subseteq rows
  BY <1>1, <1>4, <1>6 DEF RowsIn
<1>9. k \notin ToSet(keys)
  <2> SUFFICES ASSUME k \in ToSet(keys) PROVE FALSE
    OBVIOUS
  <2>1. PICK j \in 1 .. Len(keys) : keys[j] = k
    BY <1>7, LeafFacts
  <2>2. Key[vals[j]] = k /\ vals[j] \in ToSet(vals)
    BY <1>7, <2>1, LeafFacts
  <2> QED BY <1>2, <1>8, <2>2 DEF Keys
<1>10. PICK pos : pos = InsertPos(keys, k)
  OBVIOUS
<1>11. PICK keys2, vals2 : keys2 = InsertAt(keys, pos, k) /\ vals2 = InsertAt(vals, pos, r)
  OBVIOUS
<1>12. /\ LeafHas(keys2, vals2) /\ Len(keys2) = Len(keys) + 1
       /\ ToSet(keys2) = ToSet(keys) \cup {k} /\ ToSet(vals2) = ToSet(vals) \cup {r}
  <2>1. Key[r] \notin ToSet(keys) /\ pos = InsertPos(keys, Key[r])
        /\ keys2 = InsertAt(keys, pos, Key[r]) /\ vals2 = InsertAt(vals, pos, r)
    BY <1>2, <1>9, <1>10, <1>11
  <2>2. /\ LeafHas(keys2, vals2) /\ Len(keys2) = Len(keys) + 1
        /\ ToSet(keys2) = ToSet(keys) \cup {Key[r]} /\ ToSet(vals2) = ToSet(vals) \cup {r}
    BY <1>7, <2>1, LeafInsert
  <2> QED BY <1>2, <2>2
<1>13. PICK f : f = Filled(t, p, r)
  OBVIOUS
<1>14. /\ Framed(f) /\ f.rootPage = t.rootPage /\ FreePages(f) = FreePages(t)
       /\ \A q \in IndexPages :
            f.node[q] = IF q = p THEN WithRows(t.node[q], keys2, vals2) ELSE t.node[q]
  <2>1. pos = InsertPos(t.node[p].keys, Key[r])
    BY <1>2, <1>6, <1>10
  <2>2. /\ Framed(f) /\ f.rootPage = t.rootPage /\ f.modified = t.modified
        /\ f.disposed = t.disposed /\ FreePages(f) = FreePages(t)
        /\ \A q \in IndexPages :
             f.node[q] = IF q = p THEN WithRows(t.node[q], InsertAt(t.node[p].keys, pos, Key[r]),
                                                InsertAt(t.node[p].vals, pos, r))
                         ELSE t.node[q]
    BY <1>5, <1>13, <2>1, FilledFacts
  <2> QED BY <1>2, <1>6, <1>11, <2>2
<1>15. /\ Planted(f) /\ (IsRoot(f) <=> IsRoot(t)) /\ Kids(f) = Kids(t)
       /\ f.node[p].keys = keys2 /\ f.node[p].vals = vals2
       /\ \A j \in 1 .. Len(Kids(t)) : j # i => f.node[Kids(t)[j]].keys = t.node[Kids(t)[j]].keys
       /\ RowsIn(Kids(f), f.node) =
            (RowsIn(Kids(t), t.node) \ ToSet(t.node[p].vals)) \cup ToSet(vals2)
  <2>1. \A k2 \in ToSet(keys) : SearchPos(Seps(t), k2) = i
    <3>1. Tiled(Seps(t), Kids(t), t.node)
      BY <1>1 DEF Planted
    <3>2. \A k2 \in ToSet(t.node[Kids(t)[i]].keys) : SearchPos(Seps(t), k2) = i
      BY <1>4, <3>1, TiledFacts
    <3> QED BY <1>4, <1>6, <3>2
  <2>2. \A k2 \in ToSet(keys2) : SearchPos(Seps(t), k2) = i
    BY <1>3, <1>12, <2>1
  <2>3. LeafHas(keys2, vals2)
    BY <1>12
  <2> QED BY <1>1, <1>4, <1>14, <2>2, <2>3, Refitted
<1>16. RowsIn(Kids(f), f.node) = rows \cup {r}
  BY <1>1, <1>6, <1>8, <1>12, <1>15
<1>17. \A j \in 1 .. Len(Kids(f)) : j # i => Len(f.node[Kids(f)[j]].keys) < degree
  BY <1>1, <1>15 DEF NotFull
<1>18. i \in 1 .. Len(Kids(f)) /\ p = Kids(f)[i]
  BY <1>4, <1>15
<1>19. PICK n \in Nat : n = Len(keys)
  BY <1>7, LeafFacts
<1>20. n < degree /\ Len(keys2) = n + 1
  BY <1>1, <1>4, <1>6, <1>12, <1>19 DEF NotFull
<1>21. CASE Len(f.node[p].keys) < degree
  <2>1. u = f
    BY <1>13, <1>21, InLeafIs
  <2>2. NotFull(f)
    BY <1>17, <1>18, <1>21 DEF NotFull
  <2> QED BY <1>15, <1>16, <2>1, <2>2 DEF Holds, Planted
<1>22. CASE ~(Len(f.node[p].keys) < degree)
  <2>1. Len(f.node[p].keys) = degree
    BY <1>15, <1>20, <1>22, IndexAssumption
  <2>2. OneFull(f, i)
    BY <1>14, <1>15, <1>17, <1>18, <2>1 DEF OneFull
  <2>3. PICK up : up = Ancestry(f, p)
    OBVIOUS
  <2>4. u = SplitUp(f, up)[Len(up)]
    BY <1>13, <1>22, <2>3, InLeafIs DEF spliteTwoNodes
  <2>5. Cardinality(FreePages(f)) > 2 * Len(up)
    <3>1. \A q \in IndexPages : f.node[q].parent = t.node[q].parent
      <4> TAKE q \in IndexPages
      <4>1. CASE q = p
        BY <1>14, <4>1, WithRowsFacts
      <4>2. CASE q # p
        BY <1>14, <4>2
      <4> QED BY <4>1, <4>2
    <3>2. Ancestry(f, p) = Ancestry(t, p)
      BY <1>14, <3>1, AncestrySame
    <3> QED BY <1>14, <2>3, <3>2
  <2>6. PICK c \in Nat : c = Cardinality(FreePages(f))
    BY FreeCountType
  <2>7. /\ ~Gone(f, p)
        /\ IsRoot(f) => up = <<p, f.rootPage>> /\ p # f.rootPage
        /\ ~IsRoot(f) => up = <<p>> /\ p = f.rootPage
    BY <1>14, <1>15, <1>18, <2>3, AncestryShort
  <2>8. PICK s : s = SplitNode(f, p, "LEAF")
    OBVIOUS
  <2>9. PICK w : w = SplitUp(f, up)
    OBVIOUS
  <2>10. CASE IsRoot(f)
    <3>1. PICK root : root = f.rootPage
      OBVIOUS
    <3>2. up = <<p, root>> /\ p # root
      BY <2>7, <2>10, <3>1
    <3>3. Len(up) = 2 /\ up[1] = p /\ up[2] = root
      BY <3>2
    <3>4. c > 4
      BY <2>5, <2>6, <3>3
    <3>5. w[0] = f /\ \A n2 \in 1 .. 2 : w[n2] = SplitIfFull(w[n2 - 1], up[n2], n2)
      <4>1. Len(up) \in Nat
        BY <3>3
      <4> QED BY <2>9, <3>3, <4>1, SplitUpIs
    <3>6. w[1] = s
      <4>1. w[1] = SplitIfFull(f, p, 1)
        BY <3>3, <3>5
      <4> QED BY <1>22, <2>8, <4>1 DEF SplitIfFull
    <3>7. w[2] = SplitIfFull(s, root, 2)
      BY <3>3, <3>5, <3>6
    <3>8. u = w[2]
      BY <2>4, <2>9, <3>3
    <3>9. Framed(s) /\ Holds(s, rows \cup {r})
      <4>1. FreePages(f) # {}
        BY <2>6, <3>4, FreeCountType
      <4>2. Framed(s) /\ Holds(s, RowsIn(Kids(f), f.node))
        BY <1>18, <2>2, <2>8, <2>10, <4>1, SplitChild
      <4> QED BY <1>16, <4>2
    <3>10. CASE Len(s.node[root].keys) < degree
      BY <3>7, <3>8, <3>9, <3>10 DEF SplitIfFull
    <3>11. CASE ~(Len(s.node[root].keys) < degree)
      <4>1. PICK leaf, type : leaf = "LEAF" /\ type = "NODE"
        OBVIOUS
      <4>2. leaf # "NONE" /\ type # "NONE" /\ s = SplitNode(f, p, leaf)
        BY <2>8, <4>1
      <4>3. u = SplitNode(s, root, type)
        BY <3>7, <3>8, <3>11, <4>1 DEF SplitIfFull
      <4>4. Cardinality(FreePages(f)) >= 2
        BY <2>6, <3>4
      <4>5. Cardinality(FreePages(s)) >= c - 2
            /\ \A q \in IndexPages : ~Gone(f, q) => ~Gone(s, q)
        BY <1>5, <1>14, <2>6, <2>7, <4>2, <4>4, SplitNodeKeeps
      <4>6. Cardinality(FreePages(s)) \in Nat
        BY FreeCountType
      <4>7. Cardinality(FreePages(s)) >= 2
        BY <3>4, <4>5, <4>6
      <4>8. root \in IndexPages /\ ~Gone(f, root)
        <5>1. root \in IndexPages /\ f.node[root].type = "ROOT"
          BY <1>15, <2>10, <3>1 DEF Planted, Rooted, IsRoot
        <5> QED BY <5>1 DEF Gone
      <4>9. u.node[root].type = type
        BY <3>9, <4>2, <4>3, <4>5, <4>7, <4>8, SplitNodeKeeps
      <4> QED BY <4>1, <4>8, <4>9 DEF Shallow
    <3> QED BY <3>10, <3>11
  <2>11. CASE ~IsRoot(f)
    <3>1. up = <<p>>
      BY <2>7, <2>11
    <3>2. Len(up) = 1 /\ up[1] = p
      BY <3>1
    <3>3. w[0] = f /\ \A n2 \in 1 .. 1 : w[n2] = SplitIfFull(w[n2 - 1], up[n2], n2)
      <4>1. Len(up) \in Nat
        BY <3>2
      <4> QED BY <2>9, <3>2, <4>1, SplitUpIs
    <3>4. w[1] = SplitIfFull(f, p, 1)
      BY <3>2, <3>3
    <3>5. u = s
      BY <1>22, <2>4, <2>8, <2>9, <3>2, <3>4 DEF SplitIfFull
    <3>6. Cardinality(FreePages(f)) >= 2
      BY <2>5, <2>6, <3>2
    <3>7. Holds(s, RowsIn(Kids(f), f.node))
      BY <1>18, <2>2, <2>8, <2>11, <3>6, SplitRootLeaf
    <3> QED BY <1>16, <3>5, <3>7
  <2> QED BY <2>10, <2>11
<1> QED BY <1>21, <1>22

-----------------------------------------------------------------------------
(* A row inserted: into a new tree, an overflow page or a leaf.            *)
LEMMA NewTreeKeeps ==
  ASSUME NEW t, Framed(t), FreePages(t) # {}, t.rootPage = IX_NO_PAGE, NEW r \in Rows,
         NEW u, u = NewTree(t, r)
  PROVE  /\ Framed(u) /\ u.modified /\ Holds(u, {r})
         /\ \A d \in IndexPages : t.node[d].type = "NODE" => u.node[d].type = "NODE"
<1>1. PICK x : x = Node("ROOT_LEAF", <<Key[r]>>, <<r>>, IX_NO_PAGE, IX_NO_PAGE, IX_NO_PAGE)
  OBVIOUS
<1>2. IsNode(x) /\ x.type = "ROOT_LEAF" /\ x.keys = <<Key[r]>> /\ x.vals = <<r>>
      /\ x.parent = IX_NO_PAGE
  BY <1>1, NodeFacts
<1>3. PICK a : a = WithPage(t, x)
  OBVIOUS
<1>4. PICK root : root = NewPage(t)
  OBVIOUS
<1>5. /\ Framed(a) /\ root \in FreePages(t)
      /\ \A q \in IndexPages : a.node[q] = IF q = root THEN x ELSE t.node[q]
  <2>1. x.type # "NONE"
    BY <1>2
  <2> QED BY <1>2, <1>3, <1>4, <2>1, WithPageFacts
<1>6. u = RootMoved(a, root)
  BY <1>1, <1>3, <1>4 DEF NewTree
<1>7. Framed(u) /\ u.rootPage = root /\ u.modified /\ u.node = a.node
  BY <1>5, <1>6, RootMovedFacts
<1>8. root \in IndexPages /\ root # IX_NO_PAGE /\ t.node[root].type = "NONE"
  BY <1>5 DEF FreePages, Gone, IndexPages, IX_NO_PAGE
<1>9. u.node[root] = x /\ \A q \in IndexPages : q # root => u.node[q] = t.node[q]
  BY <1>5, <1>7, <1>8
<1>10. ~IsRoot(u)
  BY <1>2, <1>7, <1>9 DEF IsRoot
<1>11. Seps(u) = << >> /\ Kids(u) = <<root>>
  BY <1>7, <1>10 DEF Seps, Kids
<1>12. PICK k \in Nat : k = Key[r]
  BY IndexAssumption
<1>13. PICK keys, vals : keys = <<k>> /\ vals = <<r>>
  OBVIOUS
<1>14. Len(keys) = 1 /\ keys[1] = k /\ keys \in Seq(Nat) /\ vals \in Seq(Rows) /\ Len(vals) = 1
       /\ vals[1] = r
  BY <1>13
<1>15. LeafHas(keys, vals)
  <2>1. \A i \in 1 .. 1 : i = 1
    OBVIOUS
  <2>2. Sorted(keys)
    BY <1>14, <2>1 DEF Sorted
  <2>3. \A i \in 1 .. Len(keys) : Key[vals[i]] = keys[i]
    BY <1>12, <1>14, <2>1
  <2> QED BY <1>14, <2>2, <2>3 DEF LeafHas
<1>16. u.node[root].keys = keys /\ u.node[root].vals = vals
  BY <1>2, <1>9, <1>12, <1>13
<1>17. Tiled(<< >>, <<root>>, u.node) /\ RowsIn(<<root>>, u.node) = ToSet(vals)
  BY <1>8, <1>15, <1>16, TiledOne
<1>18. ToSet(vals) = {r}
  BY <1>13 DEF ToSet
<1>19. PICK kids : kids = <<root>>
  OBVIOUS
<1>20. Len(kids) = 1 /\ kids[1] = root
  BY <1>19
<1>21. NotFull(u)
  <2>1. Len(u.node[root].keys) < degree
    <3>1. degree \in Nat /\ 1 < degree
      BY IndexAssumption
    <3>2. Len(keys) < degree
      BY <1>14, <3>1
    <3> QED BY <1>16, <3>2
  <2>2. \A i \in 1 .. 1 : i = 1
    OBVIOUS
  <2> QED BY <1>11, <1>19, <1>20, <2>1, <2>2 DEF NotFull
<1>22. Rooted(u)
  <2>1. u.node[root].type = "ROOT_LEAF" /\ u.node[root].parent = IX_NO_PAGE
    BY <1>2, <1>9
  <2> QED BY <1>7, <1>8, <1>10, <2>1 DEF Rooted
<1>23. Holds(u, {r})
  BY <1>7, <1>8, <1>11, <1>17, <1>18, <1>21, <1>22 DEF Holds
<1>24. \A d \in IndexPages : t.node[d].type = "NODE" => u.node[d].type = "NODE"
  BY <1>8, <1>9
<1> QED BY <1>7, <1>23, <1>24

(* An overflow page takes a free page and leaves the rest alone. *)
LEMMA InOverflowKeeps ==
  ASSUME NEW t, Framed(t), FreePages(t) # {}, NEW p, NEW r, NEW u, u = InOverflow(t, p, r)
  PROVE  /\ Framed(u) /\ HeaderKept(t, u)
         /\ \A d \in IndexPages : t.node[d].type = "NODE" => u.node[d].type = "NODE"
<1>1. PICK x : x = Node("OVERFLOW", << >>, <<r>>, IX_NO_PAGE, IX_NO_PAGE, p)
  OBVIOUS
<1>2. IsNode(x) /\ x.type # "NONE"
  <2>1. x.type = "OVERFLOW"
    BY <1>1, NodeFacts
  <2> QED BY <1>1, <2>1, NodeFacts
<1>3. u = WithPage(t, x)
  BY <1>1 DEF InOverflow
<1>4. /\ Framed(u) /\ u.rootPage = t.rootPage /\ u.modified = t.modified
      /\ NewPage(t) \in FreePages(t)
      /\ \A q \in IndexPages : u.node[q] = IF q = NewPage(t) THEN x ELSE t.node[q]
  BY <1>2, <1>3, WithPageFacts
<1>5. t.node[NewPage(t)].type = "NONE"
  BY <1>4 DEF FreePages, Gone
<1>6. \A d \in IndexPages : t.node[d].type = "NODE" => u.node[d].type = "NODE"
  BY <1>4, <1>5
<1> QED BY <1>4, <1>6 DEF HeaderKept

(* Whatever way a row goes in, the pages and the header stay in order, and *)
(* no inner node below the root becomes another page.                      *)
LEMMA InsertedKeeps ==
  ASSUME NEW t, Framed(t), NEW r \in Rows,
         t.rootPage # IX_NO_PAGE => LeafFor(t, Key[r]) \in Leaves(t),
         Cardinality(FreePages(t)) > 2 * Len(Ancestry(t, LeafFor(t, Key[r]))),
         NEW u, u = Inserted(t, r)
  PROVE  Framed(u) /\ HeaderKept(t, u) /\ (Shallow(u) => Shallow(t))
<1>1. PICK p : p = LeafFor(t, Key[r])
  OBVIOUS
<1>2. Cardinality(FreePages(t)) > 2 * Len(Ancestry(t, p))
  BY <1>1
<1>3. FreePages(t) # {}
  <2>1. Len(Ancestry(t, p)) \in Nat /\ Cardinality(FreePages(t)) \in Nat
    BY AncestryFacts, FreeCountType
  <2>2. Cardinality(FreePages(t)) > 0
    BY <1>2, <2>1
  <2> QED BY <2>2, FreeCountType
<1>4. /\ Framed(u) /\ HeaderKept(t, u)
      /\ \A d \in IndexPages : t.node[d].type = "NODE" => u.node[d].type = "NODE"
  <2>1. CASE t.rootPage = IX_NO_PAGE
    <3>1. u = NewTree(t, r)
      BY <2>1 DEF Inserted
    <3>2. /\ Framed(u) /\ u.modified
          /\ \A d \in IndexPages : t.node[d].type = "NODE" => u.node[d].type = "NODE"
      BY <1>3, <2>1, <3>1, NewTreeKeeps
    <3> QED BY <3>2 DEF HeaderKept
  <2>2. CASE t.rootPage # IX_NO_PAGE /\ t.node[t.rootPage].type = "ROOT_LEAF"
             /\ Key[r] \in ToSet(t.node[t.rootPage].keys)
    <3>1. PICK root : root = t.rootPage
      OBVIOUS
    <3>2. u = InOverflow(t, root, r)
      BY <2>2, <3>1 DEF Inserted
    <3> QED BY <1>3, <3>2, InOverflowKeeps
  <2>3. CASE t.rootPage # IX_NO_PAGE /\ ~(t.node[t.rootPage].type = "ROOT_LEAF"
             /\ Key[r] \in ToSet(t.node[t.rootPage].keys))
    <3>1. u = InLeaf(t, p, r)
      BY <1>1, <2>3 DEF Inserted
    <3>2. p \in Leaves(t)
      BY <1>1, <2>3
    <3> QED BY <1>2, <3>1, <3>2, InLeafKeeps
  <2> QED BY <2>1, <2>2, <2>3
<1>5. Shallow(u) => Shallow(t)
  BY <1>4 DEF Shallow
<1> QED BY <1>4, <1>5

(* A new key that is no separator: the tree has one row more. *)
LEMMA InsertedHolds ==
  ASSUME NEW t, Framed(t), NEW rows, Holds(t, rows), NEW r \in Rows,
         Key[r] \notin Keys(rows), Key[r] \notin Separators(t),
         Cardinality(FreePages(t)) > 2 * Len(Ancestry(t, LeafFor(t, Key[r]))),
         NEW u, u = Inserted(t, r), Shallow(u)
  PROVE  Holds(u, rows \cup {r})
<1>1. CASE t.rootPage = IX_NO_PAGE
  <2>1. FreePages(t) # {}
    <3>1. PICK p : p = LeafFor(t, Key[r])
      OBVIOUS
    <3>2. Cardinality(FreePages(t)) > 2 * Len(Ancestry(t, p))
      BY <3>1
    <3>3. Len(Ancestry(t, p)) \in Nat /\ Cardinality(FreePages(t)) \in Nat
      BY AncestryFacts, FreeCountType
    <3>4. Cardinality(FreePages(t)) > 0
      BY <3>2, <3>3
    <3> QED BY <3>4, FreeCountType
  <2>2. u = NewTree(t, r)
    BY <1>1 DEF Inserted
  <2>3. Holds(u, {r})
    BY <1>1, <2>1, <2>2, NewTreeKeeps
  <2>4. rows = {}
    BY <1>1 DEF Holds
  <2>5. rows \cup {r} = {r}
    BY <2>4
  <2> QED BY <2>3, <2>5
<1>2. CASE t.rootPage # IX_NO_PAGE
  <2>1. Planted(t) /\ rows = RowsIn(Kids(t), t.node)
    BY <1>2 DEF Holds, Planted
  <2>2. ~(t.node[t.rootPage].type = "ROOT_LEAF" /\ Key[r] \in ToSet(t.node[t.rootPage].keys))
    <3> SUFFICES ASSUME t.node[t.rootPage].type = "ROOT_LEAF",
                        Key[r] \in ToSet(t.node[t.rootPage].keys)
                 PROVE  FALSE
      OBVIOUS
    <3>1. PICK root : root = t.rootPage
      OBVIOUS
    <3>2. Kids(t) = <<root>>
      BY <3>1 DEF Kids, IsRoot
    <3>3. PICK kids, i : kids = <<root>> /\ i = 1
      OBVIOUS
    <3>4. i \in 1 .. Len(Kids(t)) /\ root = Kids(t)[i]
      BY <3>2, <3>3
    <3>5. LeafHas(t.node[root].keys, t.node[root].vals)
      BY <2>1, <3>4, KidIs
    <3>6. PICK j \in 1 .. Len(t.node[root].keys) : t.node[root].keys[j] = Key[r]
      BY <3>1, <3>5, LeafFacts
    <3>7. /\ Key[t.node[root].vals[j]] = Key[r]
          /\ t.node[root].vals[j] \in ToSet(t.node[root].vals)
      BY <3>5, <3>6, LeafFacts
    <3>8. t.node[root].vals[j] \in rows
      BY <2>1, <3>4, <3>7 DEF RowsIn
    <3> QED BY <3>7, <3>8 DEF Keys
  <2>3. PICK k \in Nat : k = Key[r]
    BY IndexAssumption
  <2>4. PICK p : p = LeafFor(t, Key[r])
    OBVIOUS
  <2>5. p = SearchLeaf(t, Key[r])
    <3>1. LeafFor(t, k) = SearchLeaf(t, k)
      BY <2>1, <2>3, LeafForIs
    <3> QED BY <2>3, <2>4, <3>1
  <2>6. u = InLeaf(t, p, r)
    BY <1>2, <2>2, <2>4 DEF Inserted
  <2>7. Cardinality(FreePages(t)) > 2 * Len(Ancestry(t, p))
    BY <2>4
  <2> QED BY <1>2, <2>5, <2>6, <2>7, InLeafHolds
<1> QED BY <1>1, <1>2

-----------------------------------------------------------------------------
(* A tree with other links between its leaves.                             *)
SameTree(t, u) ==
  /\ Framed(u) /\ u.rootPage = t.rootPage /\ FreePages(u) = FreePages(t)
  /\ \A q \in IndexPages :
       /\ u.node[q].type = t.node[q].type /\ u.node[q].parent = t.node[q].parent
       /\ u.node[q].keys = t.node[q].keys /\ u.node[q].vals = t.node[q].vals

(* The links between the leaves do not matter to the search. *)
LEMMA SameTreeHolds ==
  ASSUME NEW t, NEW u, SameTree(t, u), NEW rows, Holds(t, rows)
  PROVE  /\ Holds(u, rows)
         /\ t.rootPage # IX_NO_PAGE => (IsRoot(u) <=> IsRoot(t)) /\ Kids(u) = Kids(t)
<1>1. u.rootPage = t.rootPage
  BY DEF SameTree
<1>2. CASE t.rootPage = IX_NO_PAGE
  BY <1>1, <1>2 DEF Holds
<1>3. CASE t.rootPage # IX_NO_PAGE
  <2>1. PICK root : root = t.rootPage
    OBVIOUS
  <2>2. PICK seps, kids : seps = Seps(t) /\ kids = Kids(t)
    OBVIOUS
  <2>3. Rooted(t) /\ NotFull(t) /\ Tiled(seps, kids, t.node) /\ rows = RowsIn(kids, t.node)
    BY <1>3, <2>2 DEF Holds
  <2>4. root \in IndexPages
    BY <2>1, <2>3 DEF Rooted
  <2>5. IsRoot(u) <=> IsRoot(t)
    BY <1>1, <2>1, <2>4 DEF IsRoot, SameTree
  <2>6. Seps(u) = seps /\ Kids(u) = kids
    BY <1>1, <2>1, <2>2, <2>4, <2>5 DEF Seps, Kids, SameTree
  <2>7. \A j \in 1 .. Len(kids) : kids[j] \in IndexPages
    BY <2>3, TiledFacts
  <2>8. ASSUME NEW j \in 1 .. Len(kids)
        PROVE  /\ u.node[kids[j]].type = t.node[kids[j]].type
               /\ u.node[kids[j]].parent = t.node[kids[j]].parent
               /\ u.node[kids[j]].keys = t.node[kids[j]].keys
               /\ u.node[kids[j]].vals = t.node[kids[j]].vals
    BY <2>7 DEF SameTree
  <2>9. Tiled(seps, kids, u.node)
    <3>1. /\ Sorted(seps) /\ kids \in Seq(IndexPages) /\ IsInjective(kids)
          /\ Len(kids) = Len(seps) + 1
          /\ \A i \in 1 .. Len(kids) : LeafHas(t.node[kids[i]].keys, t.node[kids[i]].vals)
      BY <2>3, TiledFacts
    <3>2. \A i \in 1 .. Len(kids) : \A k \in ToSet(t.node[kids[i]].keys) : SearchPos(seps, k) = i
      BY <2>3, TiledFacts
    <3>3. \A i \in 1 .. Len(kids) : LeafHas(u.node[kids[i]].keys, u.node[kids[i]].vals)
      BY <2>8, <3>1
    <3>4. \A i \in 1 .. Len(kids) : \A k \in ToSet(u.node[kids[i]].keys) : SearchPos(seps, k) = i
      BY <2>8, <3>2
    <3> QED BY <3>1, <3>3, <3>4 DEF Tiled
  <2>10. RowsIn(kids, u.node) = RowsIn(kids, t.node)
    BY <2>8 DEF RowsIn
  <2>11. NotFull(u)
    BY <2>2, <2>3, <2>6, <2>8 DEF NotFull
  <2>12. Rooted(u)
    <3>1. u.rootPage \in IndexPages /\ u.node[u.rootPage].parent = IX_NO_PAGE
      BY <1>1, <2>3 DEF Rooted, SameTree
    <3>2. CASE IsRoot(t)
      <4>1. \A j \in 1 .. Len(kids) : t.node[kids[j]].type = "LEAF"
                                      /\ t.node[kids[j]].parent = t.rootPage
        BY <2>2, <2>3, <3>2 DEF Rooted
      <4>2. \A j \in 1 .. Len(kids) : u.node[kids[j]].type = "LEAF"
                                      /\ u.node[kids[j]].parent = u.rootPage
        BY <1>1, <2>8, <4>1
      <4> QED BY <2>5, <2>6, <3>1, <3>2, <4>2 DEF Rooted
    <3>3. CASE ~IsRoot(t)
      <4>1. u.node[u.rootPage].type = "ROOT_LEAF"
        BY <1>1, <2>1, <2>3, <2>4, <3>3 DEF Rooted, SameTree
      <4> QED BY <2>5, <3>1, <3>3, <4>1 DEF Rooted
    <3> QED BY <3>2, <3>3
  <2> QED BY <1>1, <1>3, <2>2, <2>3, <2>5, <2>6, <2>9, <2>10, <2>11, <2>12 DEF Holds
<1> QED BY <1>2, <1>3

(* One link changed, and the links that pass a leaf by.                    *)
LEMMA LinkKeeps ==
  ASSUME NEW t, Framed(t), NEW q, NEW v,
         NEW u, u = Put(t, q, SetNext(t.node[q], v)) \/ u = Put(t, q, SetPrePage(t.node[q], v))
  PROVE  SameTree(t, u) /\ u.modified = t.modified /\ u.disposed = t.disposed
<1>1. PICK x : x = t.node[q]
  OBVIOUS
<1>2. PICK y : u = Put(t, q, y) /\ (y = SetNext(x, v) \/ y = SetPrePage(x, v))
  BY <1>1
<1>3. q \in IndexPages => /\ IsNode(y) /\ y.type = x.type /\ y.keys = x.keys /\ y.vals = x.vals
                          /\ y.parent = x.parent
  <2> SUFFICES ASSUME q \in IndexPages
               PROVE  /\ IsNode(y) /\ y.type = x.type /\ y.keys = x.keys /\ y.vals = x.vals
                      /\ y.parent = x.parent
    OBVIOUS
  <2>1. IsNode(x)
    BY <1>1, NodeOf
  <2>2. y = Node(x.type, x.keys, x.vals, v, x.prePage, x.parent)
        \/ y = Node(x.type, x.keys, x.vals, x.next, v, x.parent)
    BY <1>2, <2>1, FieldFacts
  <2> QED BY <2>2, NodeFacts
<1>4. q \in IndexPages => IsNode(y) /\ (y.type = "NONE" <=> Gone(t, q))
  BY <1>1, <1>3 DEF Gone
<1>5. /\ Framed(u) /\ u.rootPage = t.rootPage /\ u.modified = t.modified
      /\ u.disposed = t.disposed /\ FreePages(u) = FreePages(t)
      /\ \A p \in IndexPages : u.node[p] = IF p = q THEN y ELSE t.node[p]
  BY <1>2, <1>4, PutFacts
<1>6. SameTree(t, u)
  BY <1>1, <1>3, <1>5 DEF SameTree
<1> QED BY <1>5, <1>6

(* And again. *)
LEMMA SameTwice ==
  ASSUME NEW t, NEW u, NEW w, SameTree(t, u), SameTree(u, w)
  PROVE  SameTree(t, w)
  BY DEF SameTree

(* Taking a leaf out of the list changes links only. *)
LEMMA PassedByKeeps ==
  ASSUME NEW t, Framed(t), NEW p, NEW u, u = PassedBy(t, p)
  PROVE  SameTree(t, u) /\ u.modified = t.modified /\ u.disposed = t.disposed
<1>1. PICK pre, next : pre = t.node[p].prePage /\ next = t.node[p].next
  OBVIOUS
<1>2. PICK one : one = IF pre = IX_NO_PAGE THEN t ELSE Put(t, pre, SetNext(t.node[pre], next))
  OBVIOUS
<1>3. SameTree(t, t)
  BY DEF SameTree
<1>4. SameTree(t, one) /\ one.modified = t.modified /\ one.disposed = t.disposed
  BY <1>2, <1>3, LinkKeeps
<1>5. Framed(one)
  BY <1>4 DEF SameTree
<1>6. u = IF next = IX_NO_PAGE THEN one ELSE Put(one, next, SetPrePage(one.node[next], pre))
  BY <1>1, <1>2 DEF PassedBy, Put, SetNext, SetPrePage
<1>7. CASE next = IX_NO_PAGE
  BY <1>4, <1>6, <1>7
<1>8. CASE next # IX_NO_PAGE
  <2>1. SameTree(one, u) /\ u.modified = one.modified /\ u.disposed = one.disposed
    BY <1>5, <1>6, <1>8, LinkKeeps
  <2> QED BY <1>4, <2>1, SameTwice
<1> QED BY <1>7, <1>8

-----------------------------------------------------------------------------
(* A row deleted from its leaf, which may be left with none.               *)
LEMMA EmptiedHolds ==
  ASSUME NEW t, Framed(t), NEW rows, Holds(t, rows), NEW r \in Rows, Finds(t, r),
         NEW i, i = SearchPos(Seps(t), Key[r]), NEW p, p = SearchLeaf(t, Key[r]),
         NEW u, u = Emptied(t, r)
  PROVE  /\ Framed(u) /\ u.rootPage = t.rootPage /\ u.modified = t.modified
         /\ u.rootPage # IX_NO_PAGE /\ Holds(u, rows \ {r})
         /\ i \in 1 .. Len(Kids(u)) /\ p = Kids(u)[i]
<1>1. t.rootPage # IX_NO_PAGE
  BY DEF Finds, KeyPositions
<1>2. Planted(t) /\ NotFull(t) /\ rows = RowsIn(Kids(t), t.node)
  BY <1>1 DEF Holds, Planted
<1>3. PICK pos : pos = Min(KeyPositions(t, Key[r]))
  OBVIOUS
<1>4. PICK i2 : i2 = i
  OBVIOUS
<1>5. PICK p2 : p2 = Kids(t)[i2]
  OBVIOUS
<1>6. /\ i2 \in 1 .. Len(Kids(t)) /\ p2 = p /\ p2 \in IndexPages
      /\ LeafHas(t.node[p2].keys, t.node[p2].vals)
      /\ pos \in 1 .. Len(t.node[p2].keys) /\ t.node[p2].vals[pos] = r
  BY <1>2, <1>3, <1>4, <1>5, FoundAt
<1>7. PICK keys, vals : keys = t.node[p2].keys /\ vals = t.node[p2].vals
  OBVIOUS
<1>8. PICK keys2, vals2 : keys2 = RemoveAt(keys, pos) /\ vals2 = RemoveAt(vals, pos)
  OBVIOUS
<1>9. LeafHas(keys, vals) /\ pos \in 1 .. Len(keys) /\ vals[pos] = r
  BY <1>6, <1>7
<1>10. /\ LeafHas(keys2, vals2) /\ Len(keys2) = Len(keys) - 1
       /\ ToSet(keys2) = ToSet(keys) \ {keys[pos]} /\ ToSet(vals2) = ToSet(vals) \ {vals[pos]}
  BY <1>8, <1>9, LeafRemove
<1>11. PICK a : a = Rekeyed(t, p2, keys2)
  OBVIOUS
<1>12. PICK v : v = RemoveAt(a.node[p2].vals, pos)
  OBVIOUS
<1>13. PICK w : w = Refilled(t, p2, keys2, v)
  OBVIOUS
<1>14. u = w
  <2>1. a = [t EXCEPT !.node[p2].keys = RemoveAt(@, pos)]
    BY <1>7, <1>8, <1>11 DEF Rekeyed, Put, SetKeys
  <2>2. u = [[t EXCEPT !.node[p2].keys = RemoveAt(@, pos)]
               EXCEPT !.node[p2].vals = RemoveAt(@, pos)]
    BY <1>3, <1>6 DEF Emptied
  <2>3. w = Put(a, p2, SetVals(a.node[p2], v))
    BY <1>11, <1>13 DEF Refilled
  <2> QED BY <1>12, <2>1, <2>2, <2>3 DEF Put, SetVals
<1>15. /\ Framed(w) /\ w.rootPage = t.rootPage /\ w.modified = t.modified
       /\ w.disposed = t.disposed /\ FreePages(w) = FreePages(t)
       /\ Rekeyed(t, p2, keys2).node[p2].vals = t.node[p2].vals
       /\ \A q \in IndexPages :
            w.node[q] = IF q = p2 THEN WithRows(t.node[q], keys2, v) ELSE t.node[q]
  BY <1>6, <1>13, RefillFacts
<1>16. v = vals2
  BY <1>7, <1>8, <1>11, <1>12, <1>15
<1>17. \A q \in IndexPages :
         w.node[q] = IF q = p2 THEN WithRows(t.node[q], keys2, vals2) ELSE t.node[q]
  BY <1>15, <1>16
<1>18. /\ Planted(w) /\ (IsRoot(w) <=> IsRoot(t)) /\ Seps(w) = Seps(t) /\ Kids(w) = Kids(t)
       /\ w.node[p2].keys = keys2 /\ w.node[p2].vals = vals2
       /\ \A j \in 1 .. Len(Kids(t)) : j # i2 => w.node[Kids(t)[j]].keys = t.node[Kids(t)[j]].keys
       /\ RowsIn(Kids(w), w.node) =
            (RowsIn(Kids(t), t.node) \ ToSet(t.node[p2].vals)) \cup ToSet(vals2)
  <2>1. Tiled(Seps(t), Kids(t), t.node)
    BY <1>2 DEF Planted
  <2>2. \A k \in ToSet(t.node[Kids(t)[i2]].keys) : SearchPos(Seps(t), k) = i2
    BY <1>6, <2>1, TiledFacts
  <2>3. \A k \in ToSet(keys2) : SearchPos(Seps(t), k) = i2
    BY <1>5, <1>7, <1>10, <2>2
  <2>4. LeafHas(keys2, vals2) /\ w.rootPage = t.rootPage
    BY <1>10, <1>15
  <2>5. Planted(t) /\ i2 \in 1 .. Len(Kids(t)) /\ p2 = Kids(t)[i2]
    BY <1>2, <1>5, <1>6
  <2> QED BY <1>17, <2>3, <2>4, <2>5, Refitted
<1>19. RowsIn(Kids(w), w.node) = rows \ {r}
  <2>1. ToSet(vals) \subseteq rows
    BY <1>2, <1>5, <1>6, <1>7 DEF RowsIn
  <2>2. ToSet(vals2) = ToSet(vals) \ {r} /\ r \in ToSet(vals)
    <3>1. r \in ToSet(vals)
      BY <1>9, LeafFacts
    <3> QED BY <1>9, <1>10, <3>1
  <2> QED BY <1>2, <1>7, <1>18, <2>1, <2>2
<1>20. NotFull(w)
  <2>1. PICK n \in Nat : n = Len(keys)
    BY <1>9, LeafFacts
  <2>2. n < degree /\ Len(keys2) = n - 1
    BY <1>2, <1>5, <1>6, <1>7, <1>10, <2>1 DEF NotFull
  <2>3. Len(w.node[p2].keys) < degree
    BY <1>18, <2>1, <2>2, IndexAssumption
  <2> QED BY <1>2, <1>5, <1>18, <2>3 DEF NotFull
<1>21. Holds(w, rows \ {r})
  BY <1>1, <1>15, <1>18, <1>19, <1>20 DEF Holds, Planted
<1> QED BY <1>1, <1>4, <1>5, <1>6, <1>14, <1>15, <1>18, <1>21

(* A page that PF gets back.                                               *)
Back(t, p) == [t EXCEPT !.node[p] = NoNode, !.disposed = <<p>> \o @]

(* A page given back is free and is the first to be used again. *)
LEMMA BackFacts ==
  ASSUME NEW t, Framed(t), NEW p \in IndexPages, ~Gone(t, p), NEW u, u = Back(t, p)
  PROVE  /\ Framed(u) /\ u.rootPage = t.rootPage /\ u.modified = t.modified
         /\ \A q \in IndexPages : q # p => u.node[q] = t.node[q]
<1>1. PICK r, m, n, d : r = t.rootPage /\ m = t.modified /\ n = t.node /\ d = t.disposed
  OBVIOUS
<1>2. t = [rootPage |-> r, modified |-> m, node |-> n, disposed |-> d]
  BY <1>1 DEF Framed
<1>3. n = [q \in IndexPages |-> n[q]]
  BY <1>1 DEF Framed
<1>4. PICK n2 : n2 = [n EXCEPT ![p] = NoNode]
  OBVIOUS
<1>5. PICK d2 : d2 = <<p>> \o d
  OBVIOUS
<1>6. n2 = [q \in IndexPages |-> IF q = p THEN NoNode ELSE n[q]]
  BY <1>3, <1>4
<1>7. u = [rootPage |-> r, modified |-> m, node |-> n2, disposed |-> d2]
  BY <1>2, <1>4, <1>5 DEF Back
<1>8. u.rootPage = r /\ u.modified = m /\ u.node = n2 /\ u.disposed = d2
  BY <1>7
<1>9. \A q \in IndexPages : u.node[q] = IF q = p THEN NoNode ELSE t.node[q]
  BY <1>1, <1>6, <1>8
<1>10. IsNode(NoNode) /\ NoNode.type = "NONE"
  BY NodeFacts DEF NoNode
<1>11. FreePages(u) = FreePages(t) \cup {p} /\ p \notin FreePages(t)
  BY <1>9, <1>10 DEF FreePages, Gone
<1>12. n2 = [q \in IndexPages |-> n2[q]]
  BY <1>6
<1>13. \A q \in IndexPages : IsNode(u.node[q])
  BY <1>9, <1>10 DEF Framed
<1>14. d \in Seq(FreePages(t)) /\ IsInjective(d)
  BY <1>1 DEF Framed
<1>15. PICK k \in Nat : k = Len(d) /\ DOMAIN d = 1 .. k
  BY <1>14
<1>16. d \in Seq(FreePages(u)) /\ <<p>> \in Seq(FreePages(u))
  <2>1. p \in FreePages(u) /\ FreePages(t) \subseteq FreePages(u)
    BY <1>11
  <2>2. PICK S, T : S = FreePages(t) /\ T = FreePages(u)
    OBVIOUS
  <2>3. S \subseteq T /\ d \in Seq(S) /\ p \in T
    BY <1>14, <2>1, <2>2
  <2>4. d \in Seq(T) /\ <<p>> \in Seq(T)
    BY <2>3
  <2> QED BY <2>2, <2>4
<1>17. PICK one : one = <<p>>
  OBVIOUS
<1>18. /\ d2 \in Seq(FreePages(u)) /\ Len(d2) = k + 1 /\ d2[1] = p
       /\ \A j \in 2 .. k + 1 : d2[j] = d[j - 1]
  <2>1. /\ one \o d \in Seq(FreePages(u)) /\ Len(one \o d) = Len(one) + Len(d)
        /\ \A j \in 1 .. Len(one) + Len(d) :
             (one \o d)[j] = IF j <= Len(one) THEN one[j] ELSE d[j - Len(one)]
    BY <1>16, <1>17, ConcatProperties
  <2>2. Len(one) = 1 /\ one[1] = p
    BY <1>17
  <2>3. d2 = one \o d
    BY <1>5, <1>17
  <2>4. \A j \in 2 .. k + 1 : j \in 1 .. 1 + k /\ ~(j <= 1)
    OBVIOUS
  <2>5. 1 \in 1 .. 1 + k /\ 1 <= 1
    OBVIOUS
  <2> QED BY <1>15, <2>1, <2>2, <2>3, <2>4, <2>5
<1>19. IsInjective(d2)
  <2>1. DOMAIN d2 = 1 .. k + 1
    BY <1>18
  <2>2. \A j \in 1 .. k : d[j] \in FreePages(t) /\ d[j] # p
    BY <1>11, <1>14, <1>15
  <2>3. \A j \in 2 .. k + 1 : j - 1 \in 1 .. k
    OBVIOUS
  <2>4. ASSUME NEW a \in 1 .. k + 1, NEW b \in 1 .. k + 1, d2[a] = d2[b] PROVE a = b
    <3>1. a = 1 \/ a \in 2 .. k + 1
      OBVIOUS
    <3>2. b = 1 \/ b \in 2 .. k + 1
      OBVIOUS
    <3>3. CASE a = 1 /\ b = 1
      BY <3>3
    <3>4. CASE a = 1 /\ b \in 2 .. k + 1
      BY <1>18, <2>2, <2>3, <2>4, <3>4
    <3>5. CASE a \in 2 .. k + 1 /\ b = 1
      BY <1>18, <2>2, <2>3, <2>4, <3>5
    <3>6. CASE a \in 2 .. k + 1 /\ b \in 2 .. k + 1
      <4>1. d[a - 1] = d[b - 1] /\ a - 1 \in 1 .. k /\ b - 1 \in 1 .. k
        BY <1>18, <2>3, <2>4, <3>6
      <4>2. a - 1 = b - 1
        BY <1>14, <1>15, <4>1 DEF IsInjective
      <4> QED BY <4>2
    <3> QED BY <3>1, <3>2, <3>3, <3>4, <3>5, <3>6
  <2> QED BY <2>1, <2>4 DEF IsInjective
<1>20. Framed(u)
  BY <1>7, <1>8, <1>12, <1>13, <1>18, <1>19 DEF Framed
<1>21. \A q \in IndexPages : q # p => u.node[q] = t.node[q]
  BY <1>9
<1> QED BY <1>1, <1>8, <1>20, <1>21

(* A leaf without rows goes: out of the root, which is given up with its   *)
(* last child, and out of the file.                                        *)
OneChild(t) == Len(Kids(t)) = 1
(* The root loses its last child and is given up. *)
LEMMA WithoutLast ==
  ASSUME NEW t, Framed(t), Planted(t), IsRoot(t), OneChild(t), NEW p,
         NEW u, u = WithoutChild(t, t.rootPage, p)
  PROVE  /\ Framed(u) /\ u.rootPage = IX_NO_PAGE /\ u.modified
         /\ \A q \in IndexPages : u.node[q].type = t.node[q].type
<1>1. PICK root : root = t.rootPage
  OBVIOUS
<1>2. root \in IndexPages
  BY <1>1 DEF Planted, Rooted
<1>3. PICK vals : vals = t.node[root].vals
  OBVIOUS
<1>4. Len(vals) = 1
  BY <1>1, <1>3 DEF OneChild, Kids
<1>5. PICK a : a = RootMoved(t, IX_NO_PAGE)
  OBVIOUS
<1>6. /\ Framed(a) /\ a.rootPage = IX_NO_PAGE /\ a.modified /\ a.node = t.node
  BY <1>5, RootMovedFacts
<1>7. PICK x, none : x = a.node[root] /\ none = << >>
  OBVIOUS
<1>8. PICK y : y = SetVals(x, none)
  OBVIOUS
<1>9. IsNode(x)
  BY <1>2, <1>6, <1>7, NodeOf
<1>10. y = Node(x.type, x.keys, none, x.next, x.prePage, x.parent)
  BY <1>8, <1>9, FieldFacts
<1>11. IsNode(y) /\ y.type = x.type
  BY <1>10, NodeFacts
<1>12. u = Put(a, root, y)
  <2>1. u = [a EXCEPT !.node[root].vals = << >>]
    BY <1>1, <1>3, <1>4, <1>5 DEF WithoutChild
  <2> QED BY <1>7, <1>8, <2>1 DEF Put, SetVals
<1>13. /\ Framed(u) /\ u.rootPage = a.rootPage /\ u.modified = a.modified
       /\ \A q \in IndexPages : u.node[q] = IF q = root THEN y ELSE a.node[q]
  <2>1. root \in IndexPages => IsNode(y) /\ (y.type = "NONE" <=> Gone(a, root))
    BY <1>7, <1>11 DEF Gone
  <2>2. PICK w : w = Put(a, root, y)
    OBVIOUS
  <2>3. Framed(a)
    BY <1>6
  <2>4. /\ Framed(w) /\ w.rootPage = a.rootPage /\ w.modified = a.modified
        /\ w.disposed = a.disposed /\ FreePages(w) = FreePages(a)
        /\ \A q \in IndexPages : w.node[q] = IF q = root THEN y ELSE a.node[q]
    BY <2>1, <2>2, <2>3, PutFacts
  <2> QED BY <1>12, <2>2, <2>4
<1>14. ASSUME NEW q \in IndexPages PROVE u.node[q].type = t.node[q].type
  BY <1>6, <1>7, <1>11, <1>13
<1> QED BY <1>6, <1>13, <1>14

(* The root loses one of several children, and the separator that goes     *)
(* with it.                                                                *)
LEMMA WithoutOne ==
  ASSUME NEW t, Framed(t), Planted(t), IsRoot(t), NEW i \in 1 .. Len(Kids(t)),
         NEW p, p = Kids(t)[i], Len(Kids(t)) > 1,
         NEW d, d = SepOf(i), NEW root, root = t.rootPage,
         NEW u, u = WithoutChild(t, root, p)
  PROVE  /\ Framed(u) /\ u.rootPage = t.rootPage /\ u.modified = t.modified
         /\ \A q \in IndexPages :
              u.node[q] = IF q # root THEN t.node[q]
                ELSE WithRows(t.node[q], RemoveAt(Seps(t), d), RemoveAt(Kids(t), i))
<1>1. PICK x : x = t.node[root]
  OBVIOUS
<1>2. PICK seps, kids : seps = Seps(t) /\ kids = Kids(t)
  OBVIOUS
<1>3. seps = x.keys /\ kids = x.vals /\ root \in IndexPages
  BY <1>1, <1>2 DEF Seps, Kids, Planted, Rooted
<1>4. Tiled(seps, kids, t.node)
  BY <1>2 DEF Planted
<1>5. /\ DOMAIN kids = 1 .. Len(kids)
      /\ \A j, k \in 1 .. Len(kids) : kids[j] = kids[k] => j = k
  BY <1>4, TiledFacts
<1>6. i \in 1 .. Len(kids) /\ p = kids[i] /\ Len(kids) > 1
  BY <1>2
<1>7. Min({j \in DOMAIN kids : kids[j] = p}) = i
  <2>1. {j \in DOMAIN kids : kids[j] = p} = {i}
    BY <1>5, <1>6
  <2>2. \E m \in {i} : \A n \in {i} : m <= n
    OBVIOUS
  <2>3. Min({i}) \in {i}
    BY <2>2 DEF Min
  <2> QED BY <2>1, <2>3
<1>8. PICK vals2 : vals2 = RemoveAt(kids, i)
  OBVIOUS
<1>9. PICK y : y = SetVals(x, vals2)
  OBVIOUS
<1>10. IsNode(x)
  BY <1>1, <1>3, NodeOf
<1>11. y = Node(x.type, x.keys, vals2, x.next, x.prePage, x.parent)
  BY <1>9, <1>10, FieldFacts
<1>12. /\ IsNode(y) /\ y.type = x.type /\ y.keys = x.keys /\ y.vals = vals2 /\ y.next = x.next
       /\ y.prePage = x.prePage /\ y.parent = x.parent
  BY <1>11, NodeFacts
<1>13. PICK b : b = Put(t, root, y)
  OBVIOUS
<1>14. /\ Framed(b) /\ b.rootPage = t.rootPage /\ b.modified = t.modified
       /\ FreePages(b) = FreePages(t)
       /\ \A q \in IndexPages : b.node[q] = IF q = root THEN y ELSE t.node[q]
  <2>1. root \in IndexPages => IsNode(y) /\ (y.type = "NONE" <=> Gone(t, root))
    BY <1>1, <1>12 DEF Gone
  <2> QED BY <1>13, <2>1, PutFacts
<1>15. b.node[root] = y
  BY <1>3, <1>14
<1>16. PICK keys2 : keys2 = RemoveAt(seps, d)
  OBVIOUS
<1>17. PICK z : z = SetKeys(y, keys2)
  OBVIOUS
<1>18. z = Node(y.type, keys2, y.vals, y.next, y.prePage, y.parent)
  BY <1>12, <1>17, FieldFacts
<1>19. IsNode(z) /\ z.type = x.type /\ z = WithRows(x, keys2, vals2)
  BY <1>12, <1>18, NodeFacts DEF WithRows
<1>20. u = Put(b, root, z)
  <2>1. b = [t EXCEPT !.node[root].vals = RemoveAt(@, i)]
    BY <1>1, <1>3, <1>8, <1>9, <1>13 DEF Put, SetVals
  <2>2. u = [[t EXCEPT !.node[root].vals = RemoveAt(@, i)]
               EXCEPT !.node[root].keys = RemoveAt(@, d)]
    <3>1. Len(t.node[root].vals) # 1
      <4>1. PICK n \in Nat : n = Len(kids)
        <5>1. Len(seps) \in Nat /\ Len(kids) = Len(seps) + 1
          BY <1>4, TiledFacts
        <5> QED BY <5>1
      <4>2. n # 1
        BY <1>6, <4>1
      <4> QED BY <1>1, <1>3, <4>1, <4>2
    <3>2. PICK pos : pos = Min({j \in DOMAIN t.node[root].vals : t.node[root].vals[j] = p})
      OBVIOUS
    <3>3. pos = i
      BY <1>1, <1>3, <1>7, <3>2
    <3>4. PICK e : e = IF pos = 1 THEN 1 ELSE pos - 1
      OBVIOUS
    <3>5. PICK b1 : b1 = [t EXCEPT !.node[root].vals = RemoveAt(@, pos)]
      OBVIOUS
    <3>6. u = [b1 EXCEPT !.node[root].keys = RemoveAt(@, e)]
      BY <3>1, <3>2, <3>4, <3>5 DEF WithoutChild
    <3>7. b1 = [t EXCEPT !.node[root].vals = RemoveAt(@, i)]
      BY <3>3, <3>5
    <3>8. u = [b1 EXCEPT !.node[root].keys = RemoveAt(@, d)]
      BY <3>3, <3>4, <3>6 DEF SepOf
    <3> QED BY <3>7, <3>8
  <2>3. u = [b EXCEPT !.node[root].keys = RemoveAt(@, d)]
    BY <2>1, <2>2
  <2> QED BY <1>3, <1>12, <1>15, <1>16, <1>17, <2>3 DEF Put, SetKeys
<1>21. /\ Framed(u) /\ u.rootPage = b.rootPage /\ u.modified = b.modified
       /\ \A q \in IndexPages : u.node[q] = IF q = root THEN z ELSE b.node[q]
  <2>1. root \in IndexPages => IsNode(z) /\ (z.type = "NONE" <=> Gone(b, root))
    BY <1>12, <1>15, <1>19 DEF Gone
  <2> QED BY <1>14, <1>20, <2>1, PutFacts
<1>22. ASSUME NEW q \in IndexPages
       PROVE  u.node[q] = IF q # root THEN t.node[q]
                ELSE WithRows(t.node[q], RemoveAt(Seps(t), d), RemoveAt(Kids(t), i))
  BY <1>1, <1>2, <1>8, <1>14, <1>16, <1>19, <1>21
<1> QED BY <1>14, <1>21, <1>22

(* A leaf below the root without keys, and the tree without it.            *)
Without(t, i, p, u) ==
  /\ Framed(t) /\ t.rootPage # IX_NO_PAGE /\ i \in 1 .. Len(Kids(t)) /\ p = Kids(t)[i]
  /\ t.node[p].keys = << >> /\ t.node[p].parent # IX_NO_PAGE
  /\ u = Back(WithoutChild(t, t.node[p].parent, p), p)

(* An empty leaf leaves: the same rows. *)
LEMMA LeafLeaves ==
  ASSUME NEW t, NEW rows, Holds(t, rows), NEW i, NEW p, NEW u, Without(t, i, p, u)
  PROVE  Framed(u) /\ HeaderKept(t, u) /\ Holds(u, rows)
<1>1. /\ Framed(t) /\ t.rootPage # IX_NO_PAGE /\ i \in 1 .. Len(Kids(t)) /\ p = Kids(t)[i]
      /\ t.node[p].keys = << >> /\ t.node[p].parent # IX_NO_PAGE
  BY DEF Without
<1>2. PICK v : v = WithoutChild(t, t.node[p].parent, p)
  OBVIOUS
<1>3. u = Back(v, p)
  BY <1>2 DEF Without
<1>4. Planted(t) /\ NotFull(t) /\ rows = RowsIn(Kids(t), t.node)
  BY <1>1 DEF Holds, Planted
<1>5. PICK root : root = t.rootPage
  OBVIOUS
<1>6. PICK seps, kids : seps = Seps(t) /\ kids = Kids(t)
  OBVIOUS
<1>7. i \in 1 .. Len(kids) /\ p = kids[i] /\ Tiled(seps, kids, t.node)
  BY <1>4, <1>6, <1>1 DEF Planted
<1>8. /\ kids \in Seq(IndexPages) /\ Len(seps) \in Nat /\ Len(kids) = Len(seps) + 1
      /\ DOMAIN kids = 1 .. Len(kids)
      /\ \A j \in 1 .. Len(kids) : kids[j] \in IndexPages
      /\ \A j, k \in 1 .. Len(kids) : kids[j] = kids[k] => j = k
  BY <1>7, TiledFacts
<1>9. PICK n \in Nat : n = Len(kids)
  BY <1>8
<1>10. IsRoot(t)
  <2> SUFFICES ASSUME ~IsRoot(t) PROVE FALSE
    OBVIOUS
  <2>1. kids = <<root>>
    BY <1>5, <1>6 DEF Kids
  <2>2. i = 1 /\ p = root
    BY <1>7, <2>1
  <2> QED BY <1>4, <1>5, <1>1, <2>2 DEF Planted, Rooted
<1>11. /\ root \in IndexPages /\ t.node[root].parent = IX_NO_PAGE /\ t.node[root].type = "ROOT"
       /\ \A j \in 1 .. Len(kids) : t.node[kids[j]].type = "LEAF" /\ t.node[kids[j]].parent = root
  BY <1>4, <1>5, <1>6, <1>10 DEF Planted, Rooted, IsRoot
<1>12. t.node[p].parent = root /\ t.node[p].type = "LEAF" /\ p \in IndexPages /\ p # root
  BY <1>7, <1>8, <1>11
<1>13. v = WithoutChild(t, root, p)
  BY <1>12, <1>2
<1>14. ToSet(t.node[p].vals) = {}
  <2>1. LeafHas(t.node[p].keys, t.node[p].vals)
    BY <1>4, <1>1, KidIs
  <2>2. Len(t.node[p].vals) = 0 /\ t.node[p].vals \in Seq(Rows)
    BY <1>1, <2>1 DEF LeafHas
  <2>3. DOMAIN t.node[p].vals = {}
    BY <2>2
  <2> QED BY <2>3 DEF ToSet
<1>15. CASE n = 1
  <2>1. i = 1
    BY <1>7, <1>9, <1>15
  <2>2. OneChild(t) /\ v = WithoutChild(t, t.rootPage, p)
    BY <1>5, <1>6, <1>9, <1>13, <1>15 DEF OneChild
  <2>3. /\ Framed(v) /\ v.rootPage = IX_NO_PAGE /\ v.modified
        /\ \A q \in IndexPages : v.node[q].type = t.node[q].type
    BY <1>4, <1>10, <1>1, <2>2, WithoutLast
  <2>4. ~Gone(v, p)
    BY <1>12, <2>3 DEF Gone
  <2>5. Framed(u) /\ u.rootPage = v.rootPage /\ u.modified = v.modified
    BY <1>12, <1>3, <2>3, <2>4, BackFacts
  <2>6. rows = {}
    <3>1. \A j \in 1 .. Len(kids) : kids[j] = p
      BY <1>7, <1>9, <1>15
    <3> QED BY <1>4, <1>6, <1>14, <3>1 DEF RowsIn
  <2> QED BY <2>3, <2>5, <2>6 DEF Holds, HeaderKept
<1>16. CASE n # 1
  <2>1. Len(kids) > 1
    BY <1>7, <1>9, <1>16
  <2>2. PICK d : d = SepOf(i)
    OBVIOUS
  <2>3. PICK s2, k2 : s2 = RemoveAt(seps, d) /\ k2 = RemoveAt(kids, i)
    OBVIOUS
  <2>4. /\ Framed(v) /\ v.rootPage = root /\ v.modified = t.modified
        /\ \A q \in IndexPages :
             v.node[q] = IF q # root THEN t.node[q] ELSE WithRows(t.node[q], s2, k2)
    <3>1. Len(Kids(t)) > 1
      BY <1>6, <2>1
    <3>2. /\ Framed(v) /\ v.rootPage = t.rootPage /\ v.modified = t.modified
          /\ \A q \in IndexPages :
               v.node[q] = IF q # root THEN t.node[q]
                 ELSE WithRows(t.node[q], RemoveAt(Seps(t), d), RemoveAt(Kids(t), i))
      BY <1>4, <1>5, <1>10, <1>13, <1>1, <2>2, <3>1, WithoutOne
    <3> QED BY <1>5, <1>6, <2>3, <3>2
  <2>5. ~Gone(v, p)
    BY <1>12, <2>4 DEF Gone
  <2>6. /\ Framed(u) /\ u.rootPage = root /\ u.modified = t.modified
        /\ \A q \in IndexPages : q # p => u.node[q] = v.node[q]
    <3>1. /\ Framed(u) /\ u.rootPage = v.rootPage /\ u.modified = v.modified
          /\ \A q \in IndexPages : q # p => u.node[q] = v.node[q]
      BY <1>12, <1>3, <2>4, <2>5, BackFacts
    <3> QED BY <2>4, <3>1
  <2>7. u.node[root] = WithRows(t.node[root], s2, k2)
    BY <1>11, <1>12, <2>4, <2>6
  <2>8. u.node[root].keys = s2 /\ u.node[root].vals = k2 /\ u.node[root].type = "ROOT"
        /\ u.node[root].parent = IX_NO_PAGE
    BY <1>11, <2>7, WithRowsFacts
  <2>9. IsRoot(u) /\ Seps(u) = s2 /\ Kids(u) = k2
    BY <2>6, <2>8 DEF IsRoot, Seps, Kids
  <2>10. \A j \in 1 .. Len(kids) : j # i => u.node[kids[j]] = t.node[kids[j]]
    <3> SUFFICES ASSUME NEW j \in 1 .. Len(kids), j # i PROVE u.node[kids[j]] = t.node[kids[j]]
      OBVIOUS
    <3>1. kids[j] # p /\ kids[j] # root /\ kids[j] \in IndexPages
      BY <1>7, <1>8, <1>11
    <3> QED BY <2>4, <2>6, <3>1
  <2>11. /\ Tiled(s2, k2, u.node)
         /\ RowsIn(k2, u.node) = RowsIn(kids, t.node) \ ToSet(t.node[kids[i]].vals)
    <3>1. \A j \in 1 .. Len(kids) : j # i => SameRows(u.node[kids[j]], t.node[kids[j]])
      BY <2>10 DEF SameRows
    <3>2. Tiled(seps, kids, t.node) /\ i \in 1 .. Len(kids)
      BY <1>7
    <3>3. /\ Tiled(RemoveAt(seps, d), RemoveAt(kids, i), u.node)
          /\ RowsIn(RemoveAt(kids, i), u.node) = RowsIn(kids, t.node) \ ToSet(t.node[kids[i]].vals)
      BY <2>1, <2>2, <3>1, <3>2, TiledLess
    <3> QED BY <2>3, <3>3
  <2>12. ASSUME NEW j \in 1 .. Len(k2)
         PROVE  /\ u.node[k2[j]].type = "LEAF" /\ u.node[k2[j]].parent = root
                /\ Len(u.node[k2[j]].keys) < degree
    <3>1. PICK a \in 1 .. Len(kids) : a # i /\ k2[j] = kids[a]
      <4>1. kids \in Seq(IndexPages) /\ i \in 1 .. Len(kids)
        BY <1>7, <1>8
      <4>2. /\ RemoveAt(kids, i) \in Seq(IndexPages) /\ Len(RemoveAt(kids, i)) = Len(kids) - 1
            /\ \A a \in 1 .. Len(kids) - 1 :
                 RemoveAt(kids, i)[a] = IF a < i THEN kids[a] ELSE kids[a + 1]
        BY <4>1, RemoveFacts
      <4>3. /\ Len(k2) = Len(kids) - 1
            /\ \A a \in 1 .. Len(kids) - 1 : k2[a] = IF a < i THEN kids[a] ELSE kids[a + 1]
        BY <2>3, <4>2
      <4>4. PICK a : a = IF j < i THEN j ELSE j + 1
        OBVIOUS
      <4>5. a \in 1 .. Len(kids) /\ a # i
        BY <1>7, <1>9, <4>3, <4>4
      <4> QED BY <4>3, <4>4, <4>5
    <3>2. u.node[kids[a]] = t.node[kids[a]]
      BY <2>10, <3>1
    <3>3. Len(t.node[kids[a]].keys) < degree
      BY <1>4, <1>6 DEF NotFull
    <3> QED BY <1>11, <3>1, <3>2, <3>3
  <2>13. NotFull(u)
    BY <2>9, <2>12 DEF NotFull
  <2>14. Rooted(u)
    BY <1>11, <2>6, <2>8, <2>9, <2>12 DEF Rooted
  <2>15. RowsIn(k2, u.node) = rows
    BY <1>4, <1>6, <1>7, <1>14, <2>11
  <2>16. root # IX_NO_PAGE
    BY <1>5, <1>1
  <2>17. Holds(u, rows)
    BY <2>6, <2>9, <2>11, <2>13, <2>14, <2>15, <2>16 DEF Holds
  <2>18. HeaderKept(t, u)
    BY <1>5, <2>6 DEF HeaderKept
  <2> QED BY <2>6, <2>17, <2>18
<1> QED BY <1>15, <1>16

-----------------------------------------------------------------------------
(* The invariant.                                                          *)
LEMMA Untroubled ==
  ASSUME NEW a, NEW b, a \subseteq b, b \subseteq {"leafGone"}
  PROVE  a \subseteq {"leafGone"}
  OBVIOUS

(* The invariant holds of a new index. *)
LEMMA InitIndexInv ==
  IndexInit => IndexInv
<1> SUFFICES ASSUME IndexInit PROVE IndexInv
  OBVIOUS
<1>1. PICK n, d : n = [p \in IndexPages |-> NoNode] /\ d = << >>
  OBVIOUS
<1>2. tree = [rootPage |-> IX_NO_PAGE, modified |-> FALSE, node |-> n, disposed |-> d]
      /\ ~isOpen /\ page0 = IX_NO_PAGE /\ entries = {}
  BY <1>1 DEF IndexInit
<1>3. tree.rootPage = IX_NO_PAGE /\ ~tree.modified /\ tree.node = n /\ tree.disposed = d
  BY <1>2
<1>4. IsNode(NoNode)
  BY NodeFacts DEF NoNode
<1>5. Framed(tree)
  <2>1. n = [p \in IndexPages |-> n[p]] /\ \A p \in IndexPages : IsNode(n[p])
    BY <1>1, <1>4
  <2>2. d \in Seq(FreePages(tree)) /\ DOMAIN d = {}
    BY <1>1
  <2>3. IsInjective(d)
    BY <2>2 DEF IsInjective
  <2> QED BY <1>2, <1>3, <2>1, <2>2, <2>3 DEF Framed
<1>6. Holds(tree, entries)
  BY <1>2, <1>3 DEF Holds
<1> QED BY <1>2, <1>3, <1>5, <1>6 DEF IndexInv

(* A call that leaves what the header says, and what it does to a flat     *)
(* tree.                                                                   *)
LEMMA StepKeeps ==
  ASSUME IndexInv, trouble \subseteq trouble', isOpen' = isOpen, page0' = page0, isOpen,
         trouble' \subseteq {"leafGone"} =>
           Framed(tree') /\ HeaderKept(tree, tree') /\ (Shallow(tree') => Holds(tree', entries'))
  PROVE  IndexInv'
<1> SUFFICES ASSUME trouble' \subseteq {"leafGone"}
             PROVE  /\ Framed(tree')
                    /\ ~tree'.modified => page0' = tree'.rootPage
                    /\ ~isOpen' => ~tree'.modified
                    /\ Shallow(tree') => Holds(tree', entries')
  BY DEF IndexInv
<1>1. trouble \subseteq {"leafGone"}
  BY Untroubled
<1>2. ~tree.modified => page0 = tree.rootPage
  BY <1>1 DEF IndexInv
<1>3. ~tree'.modified => page0' = tree'.rootPage
  BY <1>2 DEF HeaderKept
<1> QED BY <1>3

(* insertEntry keeps it, *)
LEMMA InsertEntryKeeps ==
  ASSUME IndexInv, NEW r \in Rows, InsertEntry(r)
  PROVE  IndexInv'
<1>1. /\ isOpen /\ tree' = Inserted(tree, r) /\ entries' = entries \cup {r}
      /\ tree.rootPage # IX_NO_PAGE => LeafFor(tree, Key[r]) \in Leaves(tree)
      /\ Cardinality(FreePages(tree)) > 2 * Len(Ancestry(tree, LeafFor(tree, Key[r])))
      /\ isOpen' = isOpen /\ page0' = page0
      /\ trouble' = trouble \cup (IF Key[r] \in Keys(entries) THEN {"duplicate"} ELSE {})
                      \cup (IF Key[r] \in Separators(tree) THEN {"separator"} ELSE {})
  BY DEF InsertEntry, Usable
<1>2. trouble \subseteq trouble'
  BY <1>1
<1>3. ASSUME trouble' \subseteq {"leafGone"}
      PROVE  /\ Framed(tree') /\ HeaderKept(tree, tree')
             /\ Shallow(tree') => Holds(tree', entries')
  <2>1. trouble \subseteq {"leafGone"}
    BY <1>2, <1>3, Untroubled
  <2>2. Framed(tree) /\ (Shallow(tree) => Holds(tree, entries))
    BY <2>1 DEF IndexInv
  <2>3. Key[r] \notin Keys(entries)
    <3>1. "duplicate" \notin trouble'
      BY <1>3
    <3> QED BY <1>1, <3>1
  <2>4. Key[r] \notin Separators(tree)
    <3>1. "separator" \notin trouble'
      BY <1>3
    <3> QED BY <1>1, <3>1
  <2>5. PICK u : u = Inserted(tree, r)
    OBVIOUS
  <2>6. Framed(u) /\ HeaderKept(tree, u) /\ (Shallow(u) => Shallow(tree))
    BY <1>1, <2>2, <2>5, InsertedKeeps
  <2>7. ASSUME Shallow(u) PROVE Holds(u, entries \cup {r})
    <3>1. Holds(tree, entries)
      BY <2>2, <2>6, <2>7
    <3> QED BY <1>1, <2>2, <2>3, <2>4, <2>5, <2>7, <3>1, InsertedHolds
  <2>8. tree' = u
    BY <1>1, <2>5
  <2> QED BY <1>1, <2>6, <2>7, <2>8
<1> QED BY <1>1, <1>2, <1>3, StepKeeps

(* deleteEntry does, *)
LEMMA DeleteEntryKeeps ==
  ASSUME IndexInv, NEW r \in Rows, DeleteEntry(r)
  PROVE  IndexInv'
<1>1. /\ isOpen /\ Shallow(tree) /\ Finds(tree, r) /\ tree' = Emptied(tree, r)
      /\ entries' = entries \ {r} /\ isOpen' = isOpen /\ page0' = page0 /\ trouble' = trouble
  BY DEF DeleteEntry, Usable
<1>2. trouble \subseteq trouble'
  BY <1>1
<1>3. ASSUME trouble' \subseteq {"leafGone"}
      PROVE  /\ Framed(tree') /\ HeaderKept(tree, tree')
             /\ Shallow(tree') => Holds(tree', entries')
  <2>1. Framed(tree) /\ Holds(tree, entries)
    BY <1>1, <1>3 DEF IndexInv
  <2>2. PICK u : u = Emptied(tree, r)
    OBVIOUS
  <2>3. PICK i, p : i = SearchPos(Seps(tree), Key[r]) /\ p = SearchLeaf(tree, Key[r])
    OBVIOUS
  <2>4. /\ Framed(u) /\ u.rootPage = tree.rootPage /\ u.modified = tree.modified
        /\ Holds(u, entries \ {r})
    BY <1>1, <2>1, <2>2, <2>3, EmptiedHolds
  <2>5. HeaderKept(tree, u)
    BY <2>4 DEF HeaderKept
  <2>6. tree' = u
    BY <1>1, <2>2
  <2> QED BY <1>1, <2>4, <2>5, <2>6
<1> QED BY <1>1, <1>2, <1>3, StepKeeps

(* with the last key of a leaf, too, *)
LEMMA DeleteLastEntryKeeps ==
  ASSUME IndexInv, NEW r \in Rows, DeleteLastEntry(r)
  PROVE  IndexInv'
<1>1. PICK p, t : p = SearchLeaf(tree, Key[r]) /\ t = Emptied(tree, r)
  OBVIOUS
<1>2. PICK w : w = PassedBy(t, p)
  OBVIOUS
<1>3. /\ isOpen /\ Shallow(tree) /\ Finds(tree, r)
      /\ t.node[p].keys = << >> /\ t.node[p].parent # IX_NO_PAGE
      /\ tree' = Back(WithoutChild(w, t.node[p].parent, p), p)
      /\ entries' = entries \ {r} /\ isOpen' = isOpen /\ page0' = page0
      /\ trouble' = trouble \cup {"leafGone"}
  BY <1>1, <1>2 DEF DeleteLastEntry, Usable, Back
<1>4. trouble \subseteq trouble'
  BY <1>3
<1>5. ASSUME trouble' \subseteq {"leafGone"}
      PROVE  /\ Framed(tree') /\ HeaderKept(tree, tree')
             /\ Shallow(tree') => Holds(tree', entries')
  <2>1. trouble \subseteq {"leafGone"}
    BY <1>4, <1>5, Untroubled
  <2>2. Framed(tree) /\ Holds(tree, entries)
    BY <1>3, <2>1 DEF IndexInv
  <2>3. PICK i : i = SearchPos(Seps(tree), Key[r])
    OBVIOUS
  <2>4. PICK rows : rows = entries \ {r}
    OBVIOUS
  <2>5. /\ Framed(t) /\ t.rootPage = tree.rootPage /\ t.modified = tree.modified
        /\ t.rootPage # IX_NO_PAGE /\ Holds(t, rows)
        /\ i \in 1 .. Len(Kids(t)) /\ p = Kids(t)[i]
    BY <1>1, <1>3, <2>2, <2>3, <2>4, EmptiedHolds
  <2>6. SameTree(t, w) /\ w.modified = t.modified
    BY <1>2, <2>5, PassedByKeeps
  <2>7. Holds(w, rows) /\ Kids(w) = Kids(t)
    BY <2>5, <2>6, SameTreeHolds
  <2>8. Framed(w) /\ w.rootPage = t.rootPage
    BY <2>6 DEF SameTree
  <2>9. p \in IndexPages
    <3>1. Tiled(Seps(t), Kids(t), t.node)
      BY <2>5 DEF Holds
    <3> QED BY <2>5, <3>1, TiledFacts
  <2>10. w.node[p].keys = t.node[p].keys /\ w.node[p].parent = t.node[p].parent
    BY <2>6, <2>9 DEF SameTree
  <2>11. PICK u : u = Back(WithoutChild(w, w.node[p].parent, p), p)
    OBVIOUS
  <2>12. Without(w, i, p, u)
    BY <1>3, <2>5, <2>7, <2>8, <2>10, <2>11 DEF Without
  <2>13. Framed(u) /\ HeaderKept(w, u) /\ Holds(u, rows)
    BY <2>7, <2>12, LeafLeaves
  <2>14. HeaderKept(tree, u)
    BY <2>5, <2>6, <2>8, <2>13 DEF HeaderKept
  <2>15. tree' = u
    BY <1>3, <2>10, <2>11
  <2> QED BY <1>3, <2>4, <2>13, <2>14, <2>15
<1> QED BY <1>3, <1>4, <1>5, StepKeeps

(* and where that fails half way; *)
LEMMA DeleteLastEntryFailsKeeps ==
  ASSUME IndexInv, NEW r \in Rows, DeleteLastEntryFails(r)
  PROVE  IndexInv'
<1>1. PICK p, t : p = SearchLeaf(tree, Key[r]) /\ t = Emptied(tree, r)
  OBVIOUS
<1>2. PICK pre, next : pre = t.node[p].prePage /\ next = t.node[p].next
  OBVIOUS
<1>3. /\ isOpen /\ Shallow(tree) /\ Finds(tree, r)
      /\ tree' \in {t, Put(t, pre, SetNext(t.node[pre], next)), PassedBy(t, p)}
      /\ entries' = entries \ {r} /\ isOpen' = isOpen /\ page0' = page0
      /\ trouble' = trouble \cup {"leafGone"}
  BY <1>1, <1>2 DEF DeleteLastEntryFails, Usable, Put, SetNext
<1>4. trouble \subseteq trouble'
  BY <1>3
<1>5. ASSUME trouble' \subseteq {"leafGone"}
      PROVE  /\ Framed(tree') /\ HeaderKept(tree, tree')
             /\ Shallow(tree') => Holds(tree', entries')
  <2>1. trouble \subseteq {"leafGone"}
    BY <1>4, <1>5, Untroubled
  <2>2. Framed(tree) /\ Holds(tree, entries)
    BY <1>3, <2>1 DEF IndexInv
  <2>3. PICK i : i = SearchPos(Seps(tree), Key[r])
    OBVIOUS
  <2>4. PICK rows : rows = entries \ {r}
    OBVIOUS
  <2>5. /\ Framed(t) /\ t.rootPage = tree.rootPage /\ t.modified = tree.modified
        /\ Holds(t, rows)
    BY <1>1, <1>3, <2>2, <2>3, <2>4, EmptiedHolds
  <2>6. PICK u : u = tree'
    OBVIOUS
  <2>7. SameTree(t, u) /\ u.modified = t.modified
    <3>1. CASE u = t
      BY <2>5, <3>1 DEF SameTree
    <3>2. CASE u = Put(t, pre, SetNext(t.node[pre], next))
      BY <2>5, <3>2, LinkKeeps
    <3>3. CASE u = PassedBy(t, p)
      BY <2>5, <3>3, PassedByKeeps
    <3> QED BY <1>3, <2>6, <3>1, <3>2, <3>3
  <2>8. Holds(u, rows)
    BY <2>5, <2>7, SameTreeHolds
  <2>9. Framed(u) /\ u.rootPage = t.rootPage
    BY <2>7 DEF SameTree
  <2>10. HeaderKept(tree, u)
    BY <2>5, <2>7, <2>9 DEF HeaderKept
  <2> QED BY <1>3, <2>4, <2>6, <2>8, <2>9, <2>10
<1> QED BY <1>3, <1>4, <1>5, StepKeeps

(* openIndex reads the root that the last closeIndex has left; *)
LEMMA OpenIndexKeeps ==
  ASSUME IndexInv, OpenIndex
  PROVE  IndexInv'
<1>1. ~isOpen /\ isOpen' /\ tree' = WithHeader(tree, page0) /\ page0' = page0
      /\ entries' = entries /\ trouble' = trouble
  BY DEF OpenIndex, WithHeader, history
<1> SUFFICES ASSUME trouble \subseteq {"leafGone"}
             PROVE  /\ Framed(tree') /\ ~tree'.modified /\ page0 = tree'.rootPage
                    /\ Shallow(tree') => Holds(tree', entries)
  BY <1>1 DEF IndexInv
<1>2. Framed(tree) /\ page0 = tree.rootPage /\ (Shallow(tree) => Holds(tree, entries))
  BY <1>1 DEF IndexInv
<1>3. PICK u : u = WithHeader(tree, page0)
  OBVIOUS
<1>4. /\ Framed(u) /\ u.rootPage = page0 /\ ~u.modified /\ u.node = tree.node
      /\ u.disposed = tree.disposed /\ FreePages(u) = FreePages(tree)
  BY <1>2, <1>3, WithHeaderFacts
<1>5. SameTree(tree, u)
  BY <1>2, <1>4 DEF SameTree
<1>6. Shallow(u) => Holds(u, entries)
  <2>1. Shallow(u) => Shallow(tree)
    BY <1>4 DEF Shallow
  <2> QED BY <1>2, <1>5, <2>1, SameTreeHolds
<1> QED BY <1>1, <1>3, <1>4, <1>6

(* closeIndex writes it if it has changed. *)
LEMMA CloseIndexKeeps ==
  ASSUME IndexInv, CloseIndex
  PROVE  IndexInv'
<1>1. /\ page0' = (IF tree.modified THEN tree.rootPage ELSE page0)
      /\ tree' = [tree EXCEPT !.modified = FALSE]
      /\ ~isOpen' /\ entries' = entries /\ trouble' = trouble
  BY DEF CloseIndex, history
<1> SUFFICES ASSUME trouble \subseteq {"leafGone"}
             PROVE  /\ Framed(tree') /\ ~tree'.modified /\ page0' = tree'.rootPage
                    /\ Shallow(tree') => Holds(tree', entries)
  BY <1>1 DEF IndexInv
<1>2. Framed(tree) /\ (Shallow(tree) => Holds(tree, entries))
      /\ (~tree.modified => page0 = tree.rootPage)
  BY DEF IndexInv
<1>3. PICK root : root = tree.rootPage
  OBVIOUS
<1>4. page0' = root
  BY <1>1, <1>2, <1>3
<1>5. PICK u : u = WithHeader(tree, root)
  OBVIOUS
<1>6. tree' = u
  <2>1. PICK m, n, d : m = tree.modified /\ n = tree.node /\ d = tree.disposed
    OBVIOUS
  <2>2. tree = [rootPage |-> root, modified |-> m, node |-> n, disposed |-> d]
    BY <1>2, <1>3, <2>1 DEF Framed
  <2>3. u = [rootPage |-> root, modified |-> FALSE, node |-> n, disposed |-> d]
    BY <1>5, <2>2 DEF WithHeader
  <2>4. tree' = [rootPage |-> root, modified |-> FALSE, node |-> n, disposed |-> d]
    BY <1>1, <2>2
  <2> QED BY <2>3, <2>4
<1>7. /\ Framed(u) /\ u.rootPage = root /\ ~u.modified /\ u.node = tree.node
      /\ u.disposed = tree.disposed /\ FreePages(u) = FreePages(tree)
  BY <1>2, <1>5, WithHeaderFacts
<1>8. SameTree(tree, u)
  BY <1>3, <1>7 DEF SameTree
<1>9. Shallow(u) => Holds(u, entries)
  <2>1. Shallow(u) => Shallow(tree)
    BY <1>7 DEF Shallow
  <2> QED BY <1>2, <1>8, <2>1, SameTreeHolds
<1> QED BY <1>4, <1>6, <1>7, <1>9

(* Every step keeps the invariant. *)
LEMMA NextIndexInv ==
  IndexInv /\ [IndexNext]_indexVars => IndexInv'
<1> SUFFICES ASSUME IndexInv, [IndexNext]_indexVars PROVE IndexInv'
  OBVIOUS
<1>1. CASE OpenIndex
  BY <1>1, OpenIndexKeeps
<1>2. CASE CloseIndex
  BY <1>2, CloseIndexKeeps
<1>3. ASSUME NEW r \in Rows, InsertEntry(r) PROVE IndexInv'
  BY <1>3, InsertEntryKeeps
<1>4. ASSUME NEW r \in Rows, InsertEntryFails(r) PROVE IndexInv'
  BY <1>4 DEF InsertEntryFails, IndexInv, history
<1>5. ASSUME NEW r \in Rows, DeleteEntry(r) PROVE IndexInv'
  BY <1>5, DeleteEntryKeeps
<1>6. ASSUME NEW r \in Rows, DeleteLastEntry(r) PROVE IndexInv'
  BY <1>6, DeleteLastEntryKeeps
<1>7. ASSUME NEW r \in Rows, DeleteLastEntryFails(r) PROVE IndexInv'
  BY <1>7, DeleteLastEntryFailsKeeps
<1>8. ASSUME NEW r \in Rows, DeleteNotFound(r) PROVE IndexInv'
  BY <1>8 DEF DeleteNotFound, IndexInv, history
<1>9. CASE UNCHANGED indexVars
  BY <1>9 DEF indexVars, history, IndexInv
<1> QED BY <1>1, <1>2, <1>3, <1>4, <1>5, <1>6, <1>7, <1>8, <1>9 DEF IndexNext

(* As long as no key was inserted twice and none that is a separator, the  *)
(* pages and the header of the index are in order, and a tree of one level *)
(* of inner nodes holds the rows that were inserted and not deleted.       *)
THEOREM IndexInvariant == IndexSpec => []IndexInv
  BY InitIndexInv, NextIndexInv, PTL DEF IndexSpec

(* SearchExact: deleteEntry then finds these rows and no others, whatever  *)
(* the rows, their keys, the degree and the size of the file are.          *)
THEOREM IndexSearchExact == IndexSpec => []SearchExact
<1>1. IndexInv => SearchExact
  <2> SUFFICES ASSUME IndexInv, isOpen, Shallow(tree), trouble \subseteq {"leafGone"}
               PROVE  {r \in Rows : Finds(tree, r)} = entries
    BY DEF SearchExact
  <2>1. Holds(tree, entries)
    BY DEF IndexInv
  <2> QED BY <2>1, FindsExact
<1> QED BY <1>1, IndexInvariant, PTL
-----------------------------------------------------------------------------
(* Trees that have never lost a leaf, of any height.  A leaf has keys, at  *)
(* most as many as a full one, which only those in full are, and rows that *)
(* no other leaf has.                                                      *)
Stocked(t, full) ==
  /\ \A p \in Leaves(t) :
       /\ LeafHas(t.node[p].keys, t.node[p].vals) /\ Len(t.node[p].keys) \in 1 .. degree
       /\ p \notin full => Len(t.node[p].keys) < degree
  /\ \A p, q \in Leaves(t) : p # q => ToSet(t.node[p].vals) \cap ToSet(t.node[q].vals) = {}

(* The rows of all leaves.                                                 *)
LeafRows(t) == UNION {ToSet(t.node[p].vals) : p \in Leaves(t)}

(* An inner node has one child more than it has keys, and every page of    *)
(* the tree but the root has an inner node for its parent.                 *)
InnerHas(x) == x.keys \in Seq(Nat) /\ x.vals \in Seq(Int) /\ Len(x.vals) = Len(x.keys) + 1
Branched(t) ==
  /\ \A p \in InnerNodes(t) : InnerHas(t.node[p])
  /\ Allocated(t) \subseteq Leaves(t) \cup InnerNodes(t) /\ t.rootPage \in Allocated(t)
  /\ t.node[t.rootPage].type \in {"ROOT", "ROOT_LEAF"}
  /\ \A p \in Allocated(t) :
       IF p = t.rootPage THEN t.node[p].parent = IX_NO_PAGE
       ELSE t.node[p].parent \in InnerNodes(t) \ {p}

(* L has the leaves in the order of their links.                           *)
Threaded(t, L) ==
  /\ L \in Seq(IndexPages) /\ L # << >> /\ IsInjective(L) /\ ToSet(L) = Leaves(t)
  /\ \A i \in 1 .. Len(L) : t.node[L[i]].next = IF i = Len(L) THEN IX_NO_PAGE ELSE L[i + 1]

(* From the root the first children lead to this leaf.                     *)
LeftmostPath(t, Q, leaf) ==
  /\ Q \in Seq(IndexPages) /\ Q # << >> /\ IsInjective(Q) /\ Q[1] = t.rootPage /\ Q[Len(Q)] = leaf
  /\ \A i \in 1 .. Len(Q) - 1 : Q[i] \in InnerNodes(t) /\ t.node[Q[i]].vals[1] = Q[i + 1]

(* With one level of inner nodes the leaves are the root's children, and   *)
(* their keys lie between its separators, on either of them at most.       *)
Between(seps, i, k) == (i > 1 => seps[i - 1] <= k) /\ (i <= Len(seps) => k <= seps[i])
InOrder(t, L) ==
  /\ L = Kids(t) /\ Sorted(Seps(t)) /\ Len(L) = Len(Seps(t)) + 1
  /\ \A p \in InnerNodes(t) : p = t.rootPage
  /\ \A i \in 1 .. Len(L) : \A k \in ToSet(t.node[L[i]].keys) : Between(Seps(t), i, k)

(* Such a tree has these rows.                                             *)
Grown(t, rows, full) ==
  IF t.rootPage = IX_NO_PAGE THEN rows = {} /\ Allocated(t) = {}
  ELSE /\ Stocked(t, full) /\ rows = LeafRows(t) /\ Branched(t)
       /\ \E L, Q \in Seq(IndexPages) :
            /\ Threaded(t, L) /\ LeftmostPath(t, Q, L[1])
            /\ Shallow(t) => InOrder(t, L)

(* As long as no key was inserted twice and no leaf was emptied, such a    *)
(* tree has the entries, and the header that is not to be written is in    *)
(* the file.                                                               *)
GrownInv ==
  trouble \subseteq {"separator"} =>
    /\ Framed(tree)
    /\ ~tree.modified => page0 = tree.rootPage
    /\ ~isOpen => ~tree.modified
    /\ Grown(tree, entries, {})

(* The kinds of pages. *)
LEMMA PageKinds ==
  ASSUME NEW t
  PROVE  /\ Leaves(t) \subseteq Allocated(t) /\ InnerNodes(t) \subseteq Allocated(t)
         /\ Allocated(t) \subseteq IndexPages /\ Leaves(t) \cap InnerNodes(t) = {}
         /\ Allocated(t) = {p \in IndexPages : ~Gone(t, p)}
         /\ IX_NO_PAGE \notin IndexPages /\ IsFiniteSet(IndexPages)
<1>1. IsFiniteSet(IndexPages)
  BY IndexAssumption, FS_Interval DEF IndexPages
<1>2. IX_NO_PAGE \notin IndexPages
  BY DEF IX_NO_PAGE, IndexPages
<1>3. Allocated(t) = {p \in IndexPages : ~Gone(t, p)}
  BY DEF Allocated, FreePages
<1>4. Leaves(t) \subseteq Allocated(t)
  BY <1>3 DEF Leaves, IsLeaf, Gone
<1>5. InnerNodes(t) \subseteq Allocated(t)
  BY <1>3 DEF InnerNodes, Gone
<1>6. Leaves(t) \cap InnerNodes(t) = {}
  BY DEF Leaves, IsLeaf, InnerNodes
<1> QED BY <1>1, <1>2, <1>3, <1>4, <1>5, <1>6

(* A tree that differs in the rows of its leaves only, and the header.     *)
SameShape(t, u) ==
  /\ u.rootPage = t.rootPage
  /\ \A q \in IndexPages :
       /\ u.node[q].type = t.node[q].type /\ u.node[q].parent = t.node[q].parent
       /\ u.node[q].next = t.node[q].next
       /\ q \in InnerNodes(t) => u.node[q].keys = t.node[q].keys /\ u.node[q].vals = t.node[q].vals

(* The rows of the leaves do not matter to its shape. *)
LEMMA SameShapeKeeps ==
  ASSUME NEW t, NEW u, SameShape(t, u)
  PROVE  /\ Leaves(u) = Leaves(t) /\ InnerNodes(u) = InnerNodes(t) /\ Allocated(u) = Allocated(t)
         /\ Shallow(u) <=> Shallow(t)
         /\ Branched(t) => Branched(u)
         /\ \A L : Threaded(t, L) => Threaded(u, L)
         /\ \A Q, leaf : LeftmostPath(t, Q, leaf) => LeftmostPath(u, Q, leaf)
         /\ t.rootPage \in IndexPages =>
              (IsRoot(u) <=> IsRoot(t)) /\ Seps(u) = Seps(t) /\ Kids(u) = Kids(t)
<1>1. /\ u.rootPage = t.rootPage
      /\ \A q \in IndexPages :
           /\ u.node[q].type = t.node[q].type /\ u.node[q].parent = t.node[q].parent
           /\ u.node[q].next = t.node[q].next
      /\ \A q \in InnerNodes(t) : u.node[q].keys = t.node[q].keys /\ u.node[q].vals = t.node[q].vals
  BY PageKinds DEF SameShape
<1>2. Leaves(u) = Leaves(t) /\ InnerNodes(u) = InnerNodes(t) /\ Allocated(u) = Allocated(t)
  BY <1>1 DEF Leaves, IsLeaf, InnerNodes, Allocated, FreePages, Gone
<1>3. Shallow(u) <=> Shallow(t)
  BY <1>1 DEF Shallow
<1>4. ASSUME Branched(t) PROVE Branched(u)
  <2>1. \A p \in InnerNodes(u) : InnerHas(u.node[p])
    BY <1>1, <1>2, <1>4 DEF Branched, InnerHas
  <2>2. \A p \in Allocated(u) : u.node[p].parent = t.node[p].parent
    BY <1>1, <1>2, PageKinds
  <2>3. t.rootPage \in IndexPages
    BY <1>4, PageKinds DEF Branched
  <2>4. u.node[u.rootPage].type \in {"ROOT", "ROOT_LEAF"}
    BY <1>1, <1>4, <2>3 DEF Branched
  <2> QED BY <1>1, <1>2, <1>4, <2>1, <2>2, <2>4 DEF Branched
<1>5. ASSUME NEW L, Threaded(t, L) PROVE Threaded(u, L)
  <2>1. L \in Seq(IndexPages)
    BY <1>5 DEF Threaded
  <2>2. \A i \in 1 .. Len(L) : u.node[L[i]].next = t.node[L[i]].next
    BY <1>1, <2>1
  <2> QED BY <1>2, <1>5, <2>2 DEF Threaded
<1>6. ASSUME NEW Q, NEW leaf, LeftmostPath(t, Q, leaf) PROVE LeftmostPath(u, Q, leaf)
  BY <1>1, <1>2, <1>6 DEF LeftmostPath
<1>7. ASSUME t.rootPage \in IndexPages
      PROVE  (IsRoot(u) <=> IsRoot(t)) /\ Seps(u) = Seps(t) /\ Kids(u) = Kids(t)
  <2>1. IsRoot(u) <=> IsRoot(t)
    BY <1>1, <1>7 DEF IsRoot
  <2>2. IsRoot(t) => t.rootPage \in InnerNodes(t)
    BY <1>7 DEF IsRoot, InnerNodes
  <2> QED BY <1>1, <2>1, <2>2 DEF Seps, Kids
<1> QED BY <1>2, <1>3, <1>4, <1>5, <1>6, <1>7

(* Other rows in one leaf, with keys that belong there. *)
LEMMA Restocked ==
  ASSUME NEW t, NEW u, SameShape(t, u), NEW rows, Grown(t, rows, {}), t.rootPage # IX_NO_PAGE,
         NEW p \in Leaves(t),
         \A q \in Leaves(t) : q # p => SameRows(u.node[q], t.node[q]),
         NEW keys, NEW vals, keys = u.node[p].keys, vals = u.node[p].vals,
         LeafHas(keys, vals), Len(keys) \in 1 .. degree,
         ToSet(vals) \cap (rows \ ToSet(t.node[p].vals)) = {},
         Shallow(t) => \A i \in 1 .. Len(Kids(t)) :
                         Kids(t)[i] = p => \A k \in ToSet(keys) : Between(Seps(t), i, k),
         NEW full, Len(keys) < degree \/ p \in full
  PROVE  Grown(u, (rows \ ToSet(t.node[p].vals)) \cup ToSet(vals), full)
<1>1. /\ Stocked(t, {}) /\ rows = LeafRows(t) /\ Branched(t)
      /\ \E L, Q \in Seq(IndexPages) :
            /\ Threaded(t, L) /\ LeftmostPath(t, Q, L[1])
            /\ Shallow(t) => InOrder(t, L)
  BY DEF Grown
<1>2. PICK L, Q \in Seq(IndexPages) : /\ Threaded(t, L) /\ LeftmostPath(t, Q, L[1])
                                      /\ Shallow(t) => InOrder(t, L)
  BY <1>1
<1>3. t.rootPage \in IndexPages /\ u.rootPage = t.rootPage
  BY <1>1, PageKinds DEF Branched, SameShape
<1>4. /\ Leaves(u) = Leaves(t) /\ InnerNodes(u) = InnerNodes(t)
      /\ Branched(u) /\ Threaded(u, L) /\ LeftmostPath(u, Q, L[1])
      /\ Shallow(u) <=> Shallow(t)
      /\ Seps(u) = Seps(t) /\ Kids(u) = Kids(t)
  BY <1>1, <1>2, <1>3, SameShapeKeeps
<1>5. \A q \in Leaves(t) :
        q # p => u.node[q].keys = t.node[q].keys /\ u.node[q].vals = t.node[q].vals
  BY DEF SameRows
<1>6. ASSUME NEW q \in Leaves(t), q # p
      PROVE  ToSet(u.node[q].vals) \subseteq rows \ ToSet(t.node[p].vals)
  BY <1>1, <1>5, <1>6 DEF Stocked, LeafRows
<1>7. Stocked(u, full)
  <2>1. ASSUME NEW q \in Leaves(u)
        PROVE  /\ LeafHas(u.node[q].keys, u.node[q].vals) /\ Len(u.node[q].keys) \in 1 .. degree
               /\ q \notin full => Len(u.node[q].keys) < degree
    <3>1. CASE q = p
      BY <3>1
    <3>2. CASE q # p
      BY <1>1, <1>4, <1>5, <3>2 DEF Stocked
    <3> QED BY <3>1, <3>2
  <2>2. ASSUME NEW q \in Leaves(u), NEW s \in Leaves(u), q # s
        PROVE  ToSet(u.node[q].vals) \cap ToSet(u.node[s].vals) = {}
    <3>1. CASE q = p
      BY <1>4, <1>6, <2>2, <3>1
    <3>2. CASE s = p
      BY <1>4, <1>6, <2>2, <3>2
    <3>3. CASE q # p /\ s # p
      BY <1>1, <1>4, <1>5, <2>2, <3>3 DEF Stocked
    <3> QED BY <3>1, <3>2, <3>3
  <2> QED BY <2>1, <2>2 DEF Stocked
<1>8. LeafRows(u) = (rows \ ToSet(t.node[p].vals)) \cup ToSet(vals)
  <2>1. LeafRows(u) \subseteq (rows \ ToSet(t.node[p].vals)) \cup ToSet(vals)
    <3> SUFFICES ASSUME NEW r \in LeafRows(u)
                 PROVE  r \in (rows \ ToSet(t.node[p].vals)) \cup ToSet(vals)
      OBVIOUS
    <3>1. PICK q \in Leaves(t) : r \in ToSet(u.node[q].vals)
      BY <1>4 DEF LeafRows
    <3> QED BY <1>6, <3>1
  <2>2. (rows \ ToSet(t.node[p].vals)) \cup ToSet(vals) \subseteq LeafRows(u)
    <3> SUFFICES ASSUME NEW r \in (rows \ ToSet(t.node[p].vals)) \cup ToSet(vals)
                 PROVE  r \in LeafRows(u)
      OBVIOUS
    <3>1. CASE r \in ToSet(vals)
      BY <1>4, <3>1 DEF LeafRows
    <3>2. CASE r \in rows \ ToSet(t.node[p].vals)
      <4>1. PICK q \in Leaves(t) : r \in ToSet(t.node[q].vals)
        BY <1>1, <3>2 DEF LeafRows
      <4>2. q # p
        BY <3>2, <4>1
      <4>3. r \in ToSet(u.node[q].vals)
        BY <1>5, <4>1, <4>2
      <4> QED BY <1>4, <4>3 DEF LeafRows
    <3> QED BY <3>1, <3>2
  <2> QED BY <2>1, <2>2
<1>9. ASSUME Shallow(t) PROVE InOrder(u, L)
  <2>1. InOrder(t, L)
    BY <1>2, <1>9
  <2>2. ASSUME NEW i \in 1 .. Len(L), NEW k \in ToSet(u.node[L[i]].keys)
        PROVE  Between(Seps(u), i, k)
    <3>1. CASE L[i] = p
      BY <1>4, <1>9, <2>1, <3>1 DEF InOrder
    <3>2. CASE L[i] # p
      <4>1. L[i] \in Leaves(t)
        BY <1>2 DEF Threaded, ToSet
      <4> QED BY <1>4, <1>5, <2>1, <3>2, <4>1 DEF InOrder
    <3> QED BY <3>1, <3>2
  <2> QED BY <1>3, <1>4, <2>1, <2>2 DEF InOrder
<1> QED BY <1>2, <1>3, <1>4, <1>7, <1>8, <1>9 DEF Grown
-----------------------------------------------------------------------------
(* What a split makes of a tree.  top is the parent of both halves, a page *)
(* of the tree that gets a key and a child, or a new root.                 *)
SplitInto(t, u, p, type, right, top) ==
  LET x == RightNode(t, p, type)
      z == t.node[top]
      pos == InsertPos(z.keys, x.keys[1])
  IN /\ right \in IndexPages /\ Gone(t, right) /\ top \in IndexPages /\ top \notin {p, right}
     /\ u.node[p] = SetParent(LeftNode(t, p, right, type), top)
     /\ u.node[right] = SetParent(x, top)
     /\ \A q \in IndexPages : q \notin {p, right, top} => u.node[q] = t.node[q]
     /\ \/ /\ top = t.node[p].parent /\ u.rootPage = t.rootPage
           /\ u.node[top] = Node(z.type, InsertAt(z.keys, pos, x.keys[1]),
                                 InsertAt(z.vals, pos + 1, right), z.next, z.prePage, z.parent)
        \/ /\ Gone(t, top) /\ u.rootPage = top /\ t.node[p].parent = IX_NO_PAGE
           /\ u.node[top] = Node("ROOT", <<x.keys[1]>>, <<p, right>>,
                                 IX_NO_PAGE, IX_NO_PAGE, IX_NO_PAGE)

(* Both halves get the parent the node had.                                *)
LEMMA HalvesParent ==
  ASSUME NEW t, NEW p, IsNode(t.node[p]), NEW right, NEW type, NEW top, top = t.node[p].parent
  PROVE  /\ SetParent(LeftNode(t, p, right, type), top) = LeftNode(t, p, right, type)
         /\ SetParent(RightNode(t, p, type), top) = RightNode(t, p, type)
<1>1. PICK y : y = LeftNode(t, p, right, type)
  OBVIOUS
<1>2. IsNode(y) /\ y.parent = top
  BY <1>1, LeftNodeFacts
<1>3. PICK x : x = RightNode(t, p, type)
  OBVIOUS
<1>4. IsNode(x) /\ x.parent = top
  BY <1>3, NodeFacts DEF RightNode
<1>5. SetParent(y, top) = y
  BY <1>2, FieldFacts DEF IsNode
<1>6. SetParent(x, top) = x
  BY <1>4, FieldFacts DEF IsNode
<1> QED BY <1>1, <1>3, <1>5, <1>6

(* A split does that. *)
LEMMA SplitIs ==
  ASSUME NEW t, Framed(t), NEW p \in IndexPages, ~Gone(t, p), NEW type, type # "NONE",
         t.node[p].parent # IX_NO_PAGE =>
           t.node[p].parent \in Allocated(t) /\ t.node[p].parent # p,
         Cardinality(FreePages(t)) >= 2, NEW u, u = SplitNode(t, p, type)
  PROVE  \E right, top : SplitInto(t, u, p, type, right, top)
<1>1. PICK right : right = NewPage(t)
  OBVIOUS
<1>2. PICK h : h = Halved(t, p, right, type)
  OBVIOUS
<1>3. PICK n \in Nat : n = Cardinality(FreePages(t))
  BY FreeCountType
<1>4. FreePages(t) # {}
  BY <1>3, FreeCountType
<1>5. PICK x, y : x = RightNode(t, p, type) /\ y = LeftNode(t, p, right, type)
  OBVIOUS
<1>6. /\ Framed(h) /\ h.rootPage = t.rootPage
      /\ right \in FreePages(t) /\ right # p
      /\ FreePages(h) = FreePages(t) \ {right}
      /\ \A q \in IndexPages :
           h.node[q] = IF q = p THEN y ELSE IF q = right THEN x ELSE t.node[q]
  BY <1>1, <1>2, <1>4, <1>5, HalvedFacts
<1>7. right \in IndexPages /\ Gone(t, right)
  BY <1>6 DEF FreePages
<1>8. h.node[p] = y /\ h.node[right] = x
  BY <1>6, <1>7
<1>9. CASE t.node[p].parent = IX_NO_PAGE
  <2>1. u = WithNewRoot(h, p, right)
    BY <1>1, <1>2, <1>9 DEF SplitNode
  <2>2. ~Gone(h, p) /\ ~Gone(h, right)
    <3>1. x.type = type
      BY <1>5, NodeFacts DEF RightNode
    <3>2. y.type = type
      BY <1>5, NodeOf, LeftNodeFacts
    <3> QED BY <1>8, <3>1, <3>2 DEF Gone
  <2>3. FreePages(h) # {}
    <3>1. Cardinality(FreePages(h)) = n - 1
      BY <1>3, <1>6, FreeCount
    <3>2. Cardinality(FreePages(h)) > 0
      BY <1>3, <3>1
    <3> QED BY <3>2, FreeCountType
  <2>4. PICK root : root = NewPage(h)
    OBVIOUS
  <2>5. /\ u.rootPage = root /\ root \in FreePages(h)
        /\ \A q \in IndexPages :
              u.node[q] =
                IF q = root THEN Node("ROOT", <<h.node[right].keys[1]>>, <<p, right>>,
                                      IX_NO_PAGE, IX_NO_PAGE, IX_NO_PAGE)
                ELSE IF q \in {p, right} THEN SetParent(h.node[q], root)
                ELSE h.node[q]
    BY <1>6, <1>7, <2>1, <2>2, <2>3, <2>4, WithNewRootFacts
  <2>6. root \in IndexPages /\ Gone(t, root) /\ root \notin {p, right}
    BY <1>6, <2>5 DEF FreePages
  <2>7. u.node[p] = SetParent(y, root) /\ u.node[right] = SetParent(x, root)
    BY <1>7, <1>8, <2>5, <2>6
  <2>8. \A q \in IndexPages : q \notin {p, right, root} => u.node[q] = t.node[q]
    BY <1>6, <2>5
  <2>9. u.node[root] = Node("ROOT", <<x.keys[1]>>, <<p, right>>,
                            IX_NO_PAGE, IX_NO_PAGE, IX_NO_PAGE)
    BY <1>8, <2>5, <2>6
  <2>10. SplitInto(t, u, p, type, right, root)
    BY <1>5, <1>7, <1>9, <2>5, <2>6, <2>7, <2>8, <2>9 DEF SplitInto
  <2> QED BY <2>10
<1>10. CASE t.node[p].parent # IX_NO_PAGE
  <2>1. PICK top : top = t.node[p].parent
    OBVIOUS
  <2>2. top \in IndexPages /\ ~Gone(t, top) /\ top # p
    BY <1>10, <2>1, PageKinds
  <2>3. top # right
    BY <1>7, <2>2
  <2>4. u = WithChild(h, top, right)
    BY <1>1, <1>2, <1>10, <2>1 DEF SplitNode
  <2>5. PICK z : z = t.node[top]
    OBVIOUS
  <2>6. h.node[top] = z
    BY <1>6, <2>2, <2>3, <2>5
  <2>7. PICK key : key = x.keys[1]
    OBVIOUS
  <2>8. PICK pos : pos = InsertPos(z.keys, key)
    OBVIOUS
  <2>9. key = h.node[right].keys[1] /\ pos = InsertPos(h.node[top].keys, key)
    BY <1>8, <2>6, <2>7, <2>8
  <2>10. /\ u.rootPage = h.rootPage
         /\ \A q \in IndexPages :
              u.node[q] = IF q # top THEN h.node[q]
                ELSE Node(h.node[q].type, InsertAt(h.node[q].keys, pos, key),
                          InsertAt(h.node[q].vals, pos + 1, right), h.node[q].next,
                          h.node[q].prePage, h.node[q].parent)
    BY <1>6, <2>4, <2>9, WithChildFacts
  <2>11. u.node[top] = Node(z.type, InsertAt(z.keys, pos, key),
                            InsertAt(z.vals, pos + 1, right), z.next, z.prePage, z.parent)
    BY <2>2, <2>6, <2>10
  <2>12. u.node[p] = y /\ u.node[right] = x
    BY <1>7, <1>8, <2>2, <2>3, <2>10
  <2>13. u.node[p] = SetParent(y, top) /\ u.node[right] = SetParent(x, top)
    BY <1>5, <2>1, <2>12, NodeOf, HalvesParent
  <2>14. \A q \in IndexPages : q \notin {p, right, top} => u.node[q] = t.node[q]
    BY <1>6, <2>10
  <2>15. u.rootPage = t.rootPage
    BY <1>6, <2>10
  <2>16. SplitInto(t, u, p, type, right, top)
    BY <1>5, <1>7, <2>1, <2>2, <2>3, <2>5, <2>7, <2>8, <2>11, <2>13, <2>14, <2>15 DEF SplitInto
  <2> QED BY <2>16
<1> QED BY <1>9, <1>10

(* A place among the keys, whatever their order.                           *)
LEMMA InsertPosRange ==
  ASSUME NEW keys \in Seq(Nat), NEW k
  PROVE  InsertPos(keys, k) \in 1 .. Len(keys) + 1
<1>1. PICK n \in Nat : n = Len(keys) /\ DOMAIN keys = 1 .. n
  OBVIOUS
<1>2. PICK T : T = {i \in DOMAIN keys : keys[i] < k}
  OBVIOUS
<1>3. T \subseteq 1 .. n
  BY <1>1, <1>2
<1>4. IsFiniteSet(1 .. n) /\ Cardinality(1 .. n) = n
  <2>1. PICK a \in Int, b \in Int : a = 1 /\ b = n
    BY <1>1
  <2>2. IsFiniteSet(a .. b) /\ Cardinality(a .. b) = IF a > b THEN 0 ELSE b - a + 1
    BY FS_Interval
  <2> QED BY <1>1, <2>1, <2>2
<1>5. Cardinality(T) \in Nat /\ Cardinality(T) <= n
  BY <1>3, <1>4, FS_Subset, FS_CardinalityType
<1>6. InsertPos(keys, k) = 1 + Cardinality(T)
  BY <1>2 DEF InsertPos
<1> QED BY <1>1, <1>5, <1>6

(* The place of a key among keys in order: behind those below it. *)
LEMMA InsertPosPlace ==
  ASSUME NEW keys, Sorted(keys), NEW k \in Nat
  PROVE  /\ InsertPos(keys, k) \in 1 .. Len(keys) + 1
         /\ \A i \in 1 .. Len(keys) : keys[i] < k <=> i < InsertPos(keys, k)
<1>1. PICK n \in Nat : n = Len(keys)
  BY SortedFacts
<1>2. DOMAIN keys = 1 .. n /\ \A i \in 1 .. n : keys[i] \in Nat
  BY <1>1, SortedFacts
<1>3. PICK T : T = {i \in DOMAIN keys : keys[i] < k}
  OBVIOUS
<1>4. InsertPos(keys, k) = 1 + Cardinality(T)
  BY <1>3 DEF InsertPos
<1>5. PICK p : p = InsertPos(keys, k)
  OBVIOUS
<1>6. p \in 1 .. n + 1 /\ \A i \in 1 .. n : keys[i] < k <=> i < p
  <2>1. CASE k = 0
    <3>1. T = {}
      BY <1>2, <1>3, <2>1
    <3>2. p = 1
      BY <1>4, <1>5, <3>1, FS_EmptySet
    <3> QED BY <1>2, <2>1, <3>2
  <2>2. CASE k # 0
    <3>1. PICK j \in Nat : j = k - 1
      BY <2>2
    <3>2. \A i \in 1 .. n : keys[i] < k <=> keys[i] <= j
      BY <1>2, <3>1
    <3>3. T = {i \in DOMAIN keys : keys[i] <= j}
      BY <1>2, <1>3, <3>2
    <3>4. p = SearchPos(keys, j)
      BY <1>4, <1>5, <3>3 DEF SearchPos
    <3> QED BY <1>1, <3>2, <3>4, SearchPosFacts
  <2> QED BY <2>1, <2>2
<1> QED BY <1>1, <1>5, <1>6

(* An inner node halved: two inner nodes, the left one with the children   *)
(* that came first.                                                        *)
LEMMA InnerHalves ==
  ASSUME NEW t, NEW p, IsNode(t.node[p]), InnerHas(t.node[p]), Len(t.node[p].keys) >= degree,
         NEW right, NEW type, type # "LEAF",
         NEW x, x = RightNode(t, p, type), NEW y, y = LeftNode(t, p, right, type)
  PROVE  /\ InnerHas(x) /\ InnerHas(y) /\ x.keys[1] \in Nat
         /\ y.vals[1] = t.node[p].vals[1]
<1>1. PICK z : z = t.node[p]
  OBVIOUS
<1>2. PICK keys, vals : keys = z.keys /\ vals = z.vals
  OBVIOUS
<1>3. PICK n \in Nat : n = Len(keys)
  BY <1>1, <1>2 DEF InnerHas
<1>4. /\ keys \in Seq(Nat) /\ vals \in Seq(Int) /\ Len(vals) = n + 1 /\ n >= degree
      /\ degree \in Nat /\ degree > 2
  BY <1>1, <1>2, <1>3, IndexAssumption DEF InnerHas
<1>5. PICK h \in Nat : h = n \div 2
  BY <1>3
<1>6. PICK g \in Nat : g = degree \div 2
  BY <1>4
<1>7. 0 < h /\ h < n /\ 0 < g /\ g < n
  BY <1>3, <1>4, <1>5, <1>6
<1>8. PICK nat, int : nat = Nat /\ int = Int
  OBVIOUS
<1>9. /\ \A i \in 1 .. n : keys[i] \in nat
      /\ \A i \in 1 .. n + 1 : vals[i] \in int
  BY <1>3, <1>4, <1>8
<1>10. /\ y.keys = SubSeq(keys, 1, h) /\ y.vals = SubSeq(vals, 1, h + 1)
  <2>1. PICK w : w = Node(z.type, keys, vals, z.next, z.prePage, z.parent)
    OBVIOUS
  <2>2. z = w
    BY <1>1, <1>2, <2>1 DEF IsNode
  <2>3. y = Node(type, SubSeq(keys, 1, h), SubSeq(vals, 1, h + 1), z.next, z.prePage, z.parent)
    BY <1>1, <1>2, <1>3, <1>5, <2>1, <2>2 DEF LeftNode, Node
  <2> QED BY <2>3 DEF Node
<1>11. x.keys = SubSeq(keys, g + 1, n) /\ x.vals = SubSeq(vals, g + 1, n) \o <<IX_NO_PAGE>>
  <2>1. x = Node(type, SubSeq(keys, g + 1, n), SubSeq(vals, g + 1, n) \o <<IX_NO_PAGE>>,
                 LeafAfter(t, p), p, z.parent)
    BY <1>1, <1>2, <1>3, <1>6 DEF RightNode
  <2> QED BY <2>1 DEF Node
<1>12. PICK lk, lv : lk = SubSeq(keys, 1, h) /\ lv = SubSeq(vals, 1, h + 1)
  OBVIOUS
<1>13. lk \in Seq(nat) /\ Len(lk) = h
  <2>1. \A i \in 1 .. h : keys[i] \in nat
    BY <1>3, <1>7, <1>9
  <2>2. lk \in Seq(nat) /\ Len(lk) = IF 1 <= h THEN h - 1 + 1 ELSE 0
    BY <1>12, <2>1, SubSeqProperties
  <2> QED BY <1>7, <2>2
<1>14. lv \in Seq(int) /\ Len(lv) = h + 1 /\ lv[1] = vals[1]
  <2>1. \A i \in 1 .. h + 1 : vals[i] \in int
    BY <1>3, <1>7, <1>9
  <2>2. PICK m \in Nat : m = h + 1
    OBVIOUS
  <2>3. /\ lv \in Seq(int) /\ Len(lv) = IF 1 <= m THEN m - 1 + 1 ELSE 0
        /\ \A i \in 1 .. m - 1 + 1 : lv[i] = vals[1 + i - 1]
    BY <1>12, <2>1, <2>2, SubSeqProperties
  <2>4. 1 \in 1 .. m - 1 + 1 /\ 1 + 1 - 1 = 1
    BY <2>2
  <2>5. lv[1] = vals[1 + 1 - 1]
    BY <2>3, <2>4
  <2> QED BY <1>7, <2>2, <2>3, <2>4, <2>5
<1>15. PICK rk, rv : rk = SubSeq(keys, g + 1, n) /\ rv = SubSeq(vals, g + 1, n)
  OBVIOUS
<1>16. rk \in Seq(nat) /\ Len(rk) = n - g /\ rk[1] \in nat
  <2>1. \A i \in g + 1 .. n : keys[i] \in nat
    BY <1>3, <1>7, <1>9
  <2>2. PICK m \in Nat : m = g + 1
    OBVIOUS
  <2>3. rk \in Seq(nat) /\ Len(rk) = IF m <= n THEN n - m + 1 ELSE 0
    BY <1>3, <1>15, <2>1, <2>2, SubSeqProperties
  <2>4. Len(rk) = n - g /\ n - g >= 1
    BY <1>3, <1>7, <2>2, <2>3
  <2> QED BY <2>3, <2>4
<1>17. rv \in Seq(int) /\ Len(rv) = n - g
  <2>1. \A i \in g + 1 .. n : vals[i] \in int
    BY <1>3, <1>7, <1>9
  <2>2. PICK m \in Nat : m = g + 1
    OBVIOUS
  <2>3. rv \in Seq(int) /\ Len(rv) = IF m <= n THEN n - m + 1 ELSE 0
    BY <1>3, <1>15, <2>1, <2>2, SubSeqProperties
  <2> QED BY <1>3, <1>7, <2>2, <2>3
<1>18. PICK e : e = <<IX_NO_PAGE>>
  OBVIOUS
<1>19. e \in Seq(int) /\ Len(e) = 1
  BY <1>8, <1>18 DEF IX_NO_PAGE
<1>20. rv \o e \in Seq(int) /\ Len(rv \o e) = (n - g) + 1
  <2>1. rv \in Seq(int) /\ e \in Seq(int)
    BY <1>17, <1>19
  <2>2. rv \o e \in Seq(int) /\ Len(rv \o e) = Len(rv) + Len(e)
    BY <2>1, ConcatProperties
  <2> QED BY <1>17, <1>19, <2>2
<1>21. x.keys = rk /\ x.vals = rv \o e
  BY <1>11, <1>15, <1>18
<1>22. InnerHas(x)
  BY <1>8, <1>16, <1>20, <1>21 DEF InnerHas
<1>23. y.keys = lk /\ y.vals = lv
  BY <1>10, <1>12
<1>24. InnerHas(y)
  BY <1>8, <1>13, <1>14, <1>23 DEF InnerHas
<1> QED BY <1>1, <1>2, <1>8, <1>14, <1>16, <1>21, <1>22, <1>23, <1>24

(* An inner node with a child more. *)
LEMMA InnerInsert ==
  ASSUME NEW z, InnerHas(z), NEW key \in Nat, NEW c \in Int,
         NEW pos \in 1 .. Len(z.keys) + 1,
         NEW w, w.keys = InsertAt(z.keys, pos, key), w.vals = InsertAt(z.vals, pos + 1, c)
  PROVE  InnerHas(w) /\ w.vals[1] = z.vals[1]
<1>1. PICK nat, int : nat = Nat /\ int = Int
  OBVIOUS
<1>2. z.keys \in Seq(nat) /\ z.vals \in Seq(int) /\ Len(z.vals) = Len(z.keys) + 1
      /\ key \in nat /\ c \in int
  BY <1>1 DEF InnerHas
<1>3. PICK n \in Nat : n = Len(z.keys)
  BY <1>2
<1>4. pos \in 1 .. n + 1
  BY <1>3
<1>5. pos \in 1 .. Len(z.keys) + 1
  BY <1>3, <1>4
<1>6. w.keys \in Seq(nat) /\ Len(w.keys) = n + 1
  BY <1>2, <1>3, <1>5, InsertFacts
<1>7. PICK e : e = pos + 1
  OBVIOUS
<1>8. e \in 1 .. Len(z.vals) + 1 /\ 1 < e /\ 1 \in 1 .. Len(z.vals) + 1
  BY <1>2, <1>3, <1>4, <1>7
<1>9. /\ InsertAt(z.vals, e, c) \in Seq(int)
      /\ Len(InsertAt(z.vals, e, c)) = Len(z.vals) + 1
      /\ \A i \in 1 .. Len(z.vals) + 1 :
           InsertAt(z.vals, e, c)[i] = IF i < e THEN z.vals[i] ELSE IF i = e THEN c
                                       ELSE z.vals[i - 1]
  <2>1. PICK v, d, x : v = z.vals /\ d = e /\ x = c
    OBVIOUS
  <2>2. v \in Seq(int) /\ d \in 1 .. Len(v) + 1 /\ x \in int
    BY <1>2, <1>8, <2>1
  <2>3. /\ InsertAt(v, d, x) \in Seq(int) /\ Len(InsertAt(v, d, x)) = Len(v) + 1
        /\ \A i \in 1 .. Len(v) + 1 :
             InsertAt(v, d, x)[i] = IF i < d THEN v[i] ELSE IF i = d THEN x ELSE v[i - 1]
    BY <2>2, InsertFacts
  <2> QED BY <2>1, <2>3
<1>10. w.vals = InsertAt(z.vals, e, c)
  BY <1>7
<1>11. w.vals \in Seq(int) /\ Len(w.vals) = Len(z.vals) + 1 /\ w.vals[1] = z.vals[1]
  BY <1>8, <1>9, <1>10
<1> QED BY <1>1, <1>2, <1>3, <1>6, <1>11 DEF InnerHas
-----------------------------------------------------------------------------
(* A node that a split finds, and what it makes of the tree.               *)
Splits(t, u, p, type, right, top) ==
  /\ Framed(t) /\ Branched(t) /\ p \in Allocated(t) /\ SplitInto(t, u, p, type, right, top)
  /\ IF p \in Leaves(t)
     THEN type = "LEAF" /\ LeafHas(t.node[p].keys, t.node[p].vals) /\ Len(t.node[p].keys) = degree
     ELSE type = "NODE" /\ Len(t.node[p].keys) >= degree

(* A full leaf halved: the left half leads to the right one, and that to   *)
(* the leaf that was next.                                                 *)
LEMMA LeafHalved ==
  ASSUME NEW t, NEW p, IsNode(t.node[p]), LeafHas(t.node[p].keys, t.node[p].vals),
         Len(t.node[p].keys) = degree, NEW right, NEW type, type = "LEAF",
         NEW x, x = RightNode(t, p, type), NEW y, y = LeftNode(t, p, right, type)
  PROVE  /\ Halves(t.node[p].keys, t.node[p].vals, y.keys, y.vals, x.keys, x.vals)
         /\ Len(y.keys) \in 1 .. degree - 1 /\ Len(x.keys) \in 1 .. degree - 1
         /\ y.next = right /\ x.next = t.node[p].next
         /\ \E k \in ToSet(t.node[p].keys) : x.keys[1] < k
<1>1. PICK z : z = t.node[p]
  OBVIOUS
<1>2. PICK keys, vals : keys = z.keys /\ vals = z.vals
  OBVIOUS
<1>3. PICK h \in Nat : h = degree \div 2
  BY IndexAssumption
<1>4. 0 < h /\ h < degree /\ degree \in Nat
  BY <1>3, IndexAssumption
<1>5. /\ Len(keys) = degree /\ LeafHas(keys, vals) /\ keys \in Seq(Nat)
      /\ vals \in Seq(Rows) /\ Len(vals) = degree
  BY <1>1, <1>2 DEF LeafHas, Sorted
<1>6. PICK lk, lv : lk = SubSeq(keys, 1, h) /\ lv = SubSeq(vals, 1, h)
  OBVIOUS
<1>7. PICK rk, rv : rk = SubSeq(keys, h + 1, Len(keys)) /\ rv = SubSeq(vals, h + 1, Len(keys))
  OBVIOUS
<1>8. x.keys = rk /\ x.vals = rv /\ x.next = z.next
  <2>1. x = Node(type, rk, rv \o << >>, z.next, p, z.parent)
    BY <1>1, <1>2, <1>3, <1>7 DEF RightNode, LeafAfter
  <2>2. x.keys = rk /\ x.vals = rv \o << >> /\ x.next = z.next
    BY <2>1 DEF Node
  <2>3. rv \in Seq(Rows)
    <3>1. h \in 0 .. Len(vals)
      BY <1>4, <1>5
    <3>2. SubSeq(vals, h + 1, Len(vals)) \in Seq(Rows)
      BY <1>5, <3>1, RestFrom
    <3> QED BY <1>5, <1>7, <3>2
  <2>4. rv \o << >> = rv
    BY <2>3, ConcatEmptySeq
  <2> QED BY <2>2, <2>4
<1>9. y.keys = lk /\ y.vals = lv /\ y.next = right
  <2>1. PICK w : w = Node(z.type, keys, vals, z.next, z.prePage, z.parent)
    OBVIOUS
  <2>2. z = w
    BY <1>1, <1>2, <2>1 DEF IsNode
  <2>3. y = Node(type, lk, lv, right, z.prePage, z.parent)
    BY <1>1, <1>2, <1>3, <1>5, <1>6, <2>1, <2>2 DEF LeftNode, Node
  <2> QED BY <2>3 DEF Node
<1>10. Halves(keys, vals, lk, lv, rk, rv)
  BY <1>4, <1>5, <1>6, <1>7, LeafHalves
<1>11. Len(lk) = h
  <2>1. h \in 0 .. Len(keys)
    BY <1>4, <1>5
  <2> QED BY <1>5, <1>6, <2>1, FirstOf
<1>12. Len(rk) = degree - h
  <2>1. h \in 0 .. Len(keys)
    BY <1>4, <1>5
  <2> QED BY <1>5, <1>7, <2>1, RestFrom
<1>13. Len(lk) \in 1 .. degree - 1 /\ Len(rk) \in 1 .. degree - 1
  BY <1>4, <1>11, <1>12
<1>14. \E k \in ToSet(keys) : rk[1] < k
  <2>1. h \in 0 .. Len(keys)
    BY <1>4, <1>5
  <2>2. \A i \in 1 .. Len(keys) - h : rk[i] = keys[i + h]
    BY <1>5, <1>7, <2>1, RestFrom
  <2>3. 1 \in 1 .. Len(keys) - h /\ h + 1 \in 1 .. Len(keys) /\ h + 2 \in 1 .. Len(keys)
        /\ 1 + h = h + 1 /\ h + 1 < h + 2
    BY <1>3, <1>5, IndexAssumption
  <2>4. rk[1] = keys[h + 1]
    BY <2>2, <2>3
  <2>5. keys[h + 1] < keys[h + 2] /\ keys[h + 2] \in ToSet(keys)
    BY <1>5, <2>3, LeafFacts
  <2> QED BY <2>4, <2>5
<1> QED BY <1>1, <1>2, <1>8, <1>9, <1>10, <1>13, <1>14

(* The nodes of the halves. *)
LEMMA SplitFields ==
  ASSUME NEW t, NEW u, NEW p, NEW type, NEW right, NEW top, Splits(t, u, p, type, right, top),
         NEW x, x = RightNode(t, p, type), NEW y, y = LeftNode(t, p, right, type)
  PROVE  /\ p \in IndexPages /\ right \in IndexPages /\ top \in IndexPages
         /\ p # right /\ top # p /\ top # right /\ ~Gone(t, p) /\ Gone(t, right)
         /\ u.node[p].type = type /\ u.node[p].parent = top /\ u.node[p].keys = y.keys
         /\ u.node[p].vals = y.vals /\ u.node[p].next = y.next
         /\ u.node[right].type = type /\ u.node[right].parent = top /\ u.node[right].keys = x.keys
         /\ u.node[right].vals = x.vals /\ u.node[right].next = x.next
         /\ \A q \in IndexPages : q \notin {p, right, top} => u.node[q] = t.node[q]
<1>1. /\ Framed(t) /\ p \in Allocated(t)
      /\ right \in IndexPages /\ Gone(t, right) /\ top \in IndexPages /\ top \notin {p, right}
      /\ u.node[p] = SetParent(y, top) /\ u.node[right] = SetParent(x, top)
      /\ \A q \in IndexPages : q \notin {p, right, top} => u.node[q] = t.node[q]
  BY DEF Splits, SplitInto
<1>2. p \in IndexPages /\ ~Gone(t, p)
  BY <1>1, PageKinds
<1>3. p # right
  BY <1>1, <1>2
<1>4. IsNode(y) /\ y.type = type
  BY <1>1, <1>2, NodeOf, LeftNodeFacts
<1>5. IsNode(x) /\ x.type = type
  BY NodeFacts DEF RightNode
<1>6. PICK a : a = SetParent(y, top)
  OBVIOUS
<1>7. a = Node(y.type, y.keys, y.vals, y.next, y.prePage, top)
  BY <1>4, <1>6, FieldFacts
<1>8. a.type = type /\ a.parent = top /\ a.keys = y.keys /\ a.vals = y.vals /\ a.next = y.next
  BY <1>4, <1>7, NodeFacts
<1>9. PICK b : b = SetParent(x, top)
  OBVIOUS
<1>10. b = Node(x.type, x.keys, x.vals, x.next, x.prePage, top)
  BY <1>5, <1>9, FieldFacts
<1>11. b.type = type /\ b.parent = top /\ b.keys = x.keys /\ b.vals = x.vals /\ b.next = x.next
  BY <1>5, <1>10, NodeFacts
<1> QED BY <1>1, <1>2, <1>3, <1>6, <1>8, <1>9, <1>11

(* The parent of the halves: one that was there, or a new root.            *)
LEMMA SplitTop ==
  ASSUME NEW t, NEW u, NEW p, NEW type, NEW right, NEW top, Splits(t, u, p, type, right, top),
         NEW x, x = RightNode(t, p, type), NEW z, z = t.node[top], NEW w, w = u.node[top],
         NEW pos, pos = InsertPos(z.keys, x.keys[1])
  PROVE  \/ /\ top \in InnerNodes(t) /\ p # t.rootPage /\ u.rootPage = t.rootPage
            /\ top = t.node[p].parent
            /\ w.type = z.type /\ w.next = z.next /\ w.parent = z.parent
            /\ w.keys = InsertAt(z.keys, pos, x.keys[1])
            /\ w.vals = InsertAt(z.vals, pos + 1, right)
         \/ /\ Gone(t, top) /\ p = t.rootPage /\ u.rootPage = top
            /\ w.type = "ROOT" /\ w.next = IX_NO_PAGE /\ w.parent = IX_NO_PAGE
            /\ w.keys = <<x.keys[1]>> /\ w.vals = <<p, right>>
<1>1. /\ p \in Allocated(t) /\ top \in IndexPages
      /\ \A q \in Allocated(t) : IF q = t.rootPage THEN t.node[q].parent = IX_NO_PAGE
                                 ELSE t.node[q].parent \in InnerNodes(t) \ {q}
  BY DEF Splits, SplitInto, Branched
<1>2. /\ \/ /\ top = t.node[p].parent /\ u.rootPage = t.rootPage
            /\ w = Node(z.type, InsertAt(z.keys, pos, x.keys[1]),
                        InsertAt(z.vals, pos + 1, right), z.next, z.prePage, z.parent)
         \/ /\ Gone(t, top) /\ u.rootPage = top /\ t.node[p].parent = IX_NO_PAGE
            /\ w = Node("ROOT", <<x.keys[1]>>, <<p, right>>,
                        IX_NO_PAGE, IX_NO_PAGE, IX_NO_PAGE)
  BY DEF Splits, SplitInto
<1>3. IX_NO_PAGE \notin IndexPages /\ InnerNodes(t) \subseteq IndexPages
  BY PageKinds
<1>4. CASE /\ top = t.node[p].parent /\ u.rootPage = t.rootPage
           /\ w = Node(z.type, InsertAt(z.keys, pos, x.keys[1]),
                       InsertAt(z.vals, pos + 1, right), z.next, z.prePage, z.parent)
  <2>1. PICK keys, vals : keys = InsertAt(z.keys, pos, x.keys[1])
                          /\ vals = InsertAt(z.vals, pos + 1, right)
    OBVIOUS
  <2>2. w = Node(z.type, keys, vals, z.next, z.prePage, z.parent)
    BY <1>4, <2>1
  <2>3. w.type = z.type /\ w.next = z.next /\ w.parent = z.parent /\ w.keys = keys /\ w.vals = vals
    BY <2>2, NodeFacts
  <2>4. p # t.rootPage /\ top \in InnerNodes(t)
    BY <1>1, <1>3, <1>4
  <2> QED BY <1>4, <2>1, <2>3, <2>4
<1>5. CASE /\ Gone(t, top) /\ u.rootPage = top /\ t.node[p].parent = IX_NO_PAGE
           /\ w = Node("ROOT", <<x.keys[1]>>, <<p, right>>,
                       IX_NO_PAGE, IX_NO_PAGE, IX_NO_PAGE)
  <2>1. p = t.rootPage
    BY <1>1, <1>3, <1>5
  <2>2. /\ w.type = "ROOT" /\ w.next = IX_NO_PAGE /\ w.parent = IX_NO_PAGE
        /\ w.keys = <<x.keys[1]>> /\ w.vals = <<p, right>>
    BY <1>5 DEF Node
  <2> QED BY <1>5, <2>1, <2>2
<1> QED BY <1>2, <1>4, <1>5

(* The same, of the node that becomes the right half.                      *)
TopIs(t, u, p, right, top, x) ==
  LET z == t.node[top]
      w == u.node[top]
      pos == InsertPos(z.keys, x.keys[1])
  IN \/ /\ top \in InnerNodes(t) /\ p # t.rootPage /\ u.rootPage = t.rootPage
        /\ top = t.node[p].parent
        /\ w.type = z.type /\ w.next = z.next /\ w.parent = z.parent
        /\ w.keys = InsertAt(z.keys, pos, x.keys[1]) /\ w.vals = InsertAt(z.vals, pos + 1, right)
     \/ /\ Gone(t, top) /\ p = t.rootPage /\ u.rootPage = top
        /\ w.type = "ROOT" /\ w.next = IX_NO_PAGE /\ w.parent = IX_NO_PAGE
        /\ w.keys = <<x.keys[1]>> /\ w.vals = <<p, right>>

(* Its parent is the node's, or a new root.                                *)
LEMMA SplitTopIs ==
  ASSUME NEW t, NEW u, NEW p, NEW type, NEW right, NEW top, Splits(t, u, p, type, right, top),
         NEW x, x = RightNode(t, p, type)
  PROVE  TopIs(t, u, p, right, top, x)
  BY SplitTop DEF TopIs

(* What the pages are after a split.                                       *)
LEMMA SplitKinds ==
  ASSUME NEW t, NEW u, NEW p, NEW type, NEW right, NEW top, Splits(t, u, p, type, right, top)
  PROVE  /\ Leaves(u) = IF p \in Leaves(t) THEN Leaves(t) \cup {right} ELSE Leaves(t)
         /\ InnerNodes(u) = IF p \in Leaves(t) THEN InnerNodes(t) \cup {top}
                            ELSE InnerNodes(t) \cup {right, top}
         /\ Allocated(u) = Allocated(t) \cup {right, top}
         /\ p \in Leaves(t) \/ p \in InnerNodes(t)
         /\ right \notin Allocated(t)
<1>1. PICK x, y, z, w : x = RightNode(t, p, type) /\ y = LeftNode(t, p, right, type)
                        /\ z = t.node[top] /\ w = u.node[top]
  OBVIOUS
<1>2. PICK pos : pos = InsertPos(z.keys, x.keys[1])
  OBVIOUS
<1>3. /\ p \in IndexPages /\ right \in IndexPages /\ top \in IndexPages
      /\ p # right /\ top # p /\ top # right /\ ~Gone(t, p) /\ Gone(t, right)
      /\ u.node[p].type = type /\ u.node[right].type = type
      /\ \A q \in IndexPages : q \notin {p, right, top} => u.node[q] = t.node[q]
  BY <1>1, SplitFields
<1>4. (top \in InnerNodes(t) /\ w.type = z.type) \/ (Gone(t, top) /\ w.type = "ROOT")
  BY <1>1, <1>2, SplitTop
<1>5. p \in Leaves(t) \/ p \in InnerNodes(t)
  BY DEF Splits, Branched
<1>6. \/ p \in Leaves(t) /\ type = "LEAF"
      \/ p \notin Leaves(t) /\ p \in InnerNodes(t) /\ type = "NODE"
  BY <1>5 DEF Splits
<1>7. top \in InnerNodes(u) /\ top \notin Leaves(t)
  BY <1>1, <1>3, <1>4 DEF InnerNodes, Leaves, IsLeaf, Gone
<1>8. Allocated(u) = Allocated(t) \cup {right, top}
  <2>1. ~Gone(u, right) /\ ~Gone(u, p) /\ ~Gone(u, top)
    BY <1>3, <1>6, <1>7 DEF Gone, InnerNodes
  <2>2. \A q \in IndexPages : ~Gone(u, q) <=> (~Gone(t, q) \/ q \in {right, top})
    BY <1>3, <2>1 DEF Gone
  <2> QED BY <1>3, <2>2, PageKinds
<1>9. right \notin Allocated(t)
  BY <1>3, PageKinds
<1>10. CASE p \in Leaves(t) /\ type = "LEAF"
  <2>1. \A q \in IndexPages : q \in Leaves(u) <=> q \in Leaves(t) \/ q = right
    <3> TAKE q \in IndexPages
    <3>1. CASE q \in {p, right}
      BY <1>3, <1>10, <3>1 DEF Leaves, IsLeaf
    <3>2. CASE q = top
      BY <1>3, <1>7, <3>2 DEF Leaves, IsLeaf, InnerNodes
    <3>3. CASE q \notin {p, right, top}
      BY <1>3, <3>3 DEF Leaves, IsLeaf
    <3> QED BY <3>1, <3>2, <3>3
  <2>2. \A q \in IndexPages : q \in InnerNodes(u) <=> q \in InnerNodes(t) \/ q = top
    <3> TAKE q \in IndexPages
    <3>1. CASE q \in {p, right}
      BY <1>3, <1>10, <3>1 DEF Leaves, IsLeaf, InnerNodes, Gone
    <3>2. CASE q = top
      BY <1>7, <3>2
    <3>3. CASE q \notin {p, right, top}
      BY <1>3, <3>3 DEF InnerNodes
    <3> QED BY <3>1, <3>2, <3>3
  <2>3. Leaves(u) = Leaves(t) \cup {right}
    BY <1>3, <2>1, PageKinds DEF Leaves
  <2>4. InnerNodes(u) = InnerNodes(t) \cup {top}
    BY <1>3, <2>2 DEF InnerNodes
  <2> QED BY <1>5, <1>8, <1>9, <1>10, <2>3, <2>4
<1>11. CASE p \notin Leaves(t) /\ p \in InnerNodes(t) /\ type = "NODE"
  <2>1. \A q \in IndexPages : q \in Leaves(u) <=> q \in Leaves(t)
    <3> TAKE q \in IndexPages
    <3>1. CASE q \in {p, right}
      BY <1>3, <1>11, <3>1 DEF Leaves, IsLeaf, Gone
    <3>2. CASE q = top
      BY <1>3, <1>7, <3>2 DEF Leaves, IsLeaf, InnerNodes
    <3>3. CASE q \notin {p, right, top}
      BY <1>3, <3>3 DEF Leaves, IsLeaf
    <3> QED BY <3>1, <3>2, <3>3
  <2>2. \A q \in IndexPages : q \in InnerNodes(u) <=> q \in InnerNodes(t) \/ q \in {right, top}
    <3> TAKE q \in IndexPages
    <3>1. CASE q \in {p, right}
      BY <1>3, <1>11, <3>1 DEF InnerNodes
    <3>2. CASE q = top
      BY <1>7, <3>2
    <3>3. CASE q \notin {p, right, top}
      BY <1>3, <3>3 DEF InnerNodes
    <3> QED BY <3>1, <3>2, <3>3
  <2>3. Leaves(u) = Leaves(t)
    BY <2>1 DEF Leaves
  <2>4. InnerNodes(u) = InnerNodes(t) \cup {right, top}
    BY <1>3, <2>2 DEF InnerNodes
  <2> QED BY <1>5, <1>8, <1>9, <1>11, <2>3, <2>4
<1> QED BY <1>6, <1>10, <1>11

(* A split keeps the inner nodes, and the first child of each.             *)
LEMMA SplitBranched ==
  ASSUME NEW t, NEW u, NEW p, NEW type, NEW right, NEW top, Splits(t, u, p, type, right, top)
  PROVE  /\ Branched(u)
         /\ \A q \in InnerNodes(t) : u.node[q].vals[1] = t.node[q].vals[1]
         /\ Gone(t, top) => u.node[top].vals[1] = p
<1>1. PICK x, y, z, w : x = RightNode(t, p, type) /\ y = LeftNode(t, p, right, type)
                        /\ z = t.node[top] /\ w = u.node[top]
  OBVIOUS
<1>2. PICK key, pos : key = x.keys[1] /\ pos = InsertPos(z.keys, x.keys[1])
  OBVIOUS
<1>3. /\ p \in IndexPages /\ right \in IndexPages /\ top \in IndexPages
      /\ p # right /\ top # p /\ top # right /\ ~Gone(t, p) /\ Gone(t, right)
      /\ u.node[p].type = type /\ u.node[p].parent = top /\ u.node[p].keys = y.keys
      /\ u.node[p].vals = y.vals
      /\ u.node[right].type = type /\ u.node[right].parent = top /\ u.node[right].keys = x.keys
      /\ u.node[right].vals = x.vals
      /\ \A q \in IndexPages : q \notin {p, right, top} => u.node[q] = t.node[q]
  BY <1>1, SplitFields
<1>4. \/ /\ top \in InnerNodes(t) /\ p # t.rootPage /\ u.rootPage = t.rootPage
         /\ top = t.node[p].parent
         /\ w.parent = z.parent /\ w.type = z.type
         /\ w.keys = InsertAt(z.keys, pos, key) /\ w.vals = InsertAt(z.vals, pos + 1, right)
      \/ /\ Gone(t, top) /\ p = t.rootPage /\ u.rootPage = top
         /\ w.parent = IX_NO_PAGE /\ w.type = "ROOT"
         /\ w.keys = <<key>> /\ w.vals = <<p, right>>
  <2>1. \/ /\ top \in InnerNodes(t) /\ p # t.rootPage /\ u.rootPage = t.rootPage
           /\ top = t.node[p].parent
           /\ w.type = z.type /\ w.next = z.next /\ w.parent = z.parent
           /\ w.keys = InsertAt(z.keys, pos, x.keys[1]) /\ w.vals = InsertAt(z.vals, pos + 1, right)
        \/ /\ Gone(t, top) /\ p = t.rootPage /\ u.rootPage = top
           /\ w.type = "ROOT" /\ w.next = IX_NO_PAGE /\ w.parent = IX_NO_PAGE
           /\ w.keys = <<x.keys[1]>> /\ w.vals = <<p, right>>
    BY <1>1, <1>2, SplitTop
  <2> QED BY <1>2, <2>1
<1>5. /\ Leaves(u) = IF p \in Leaves(t) THEN Leaves(t) \cup {right} ELSE Leaves(t)
      /\ InnerNodes(u) = IF p \in Leaves(t) THEN InnerNodes(t) \cup {top}
                         ELSE InnerNodes(t) \cup {right, top}
      /\ Allocated(u) = Allocated(t) \cup {right, top}
      /\ p \in Leaves(t) \/ p \in InnerNodes(t)
      /\ right \notin Allocated(t)
  BY SplitKinds
<1>6. /\ Framed(t) /\ p \in Allocated(t)
      /\ \A q \in InnerNodes(t) : InnerHas(t.node[q])
      /\ Allocated(t) \subseteq Leaves(t) \cup InnerNodes(t) /\ t.rootPage \in Allocated(t)
      /\ t.node[t.rootPage].type \in {"ROOT", "ROOT_LEAF"}
      /\ \A q \in Allocated(t) :
           IF q = t.rootPage THEN t.node[q].parent = IX_NO_PAGE
           ELSE t.node[q].parent \in InnerNodes(t) \ {q}
  BY DEF Splits, Branched
<1>7. /\ Leaves(t) \subseteq Allocated(t) /\ InnerNodes(t) \subseteq Allocated(t)
      /\ Allocated(t) \subseteq IndexPages /\ Leaves(t) \cap InnerNodes(t) = {}
      /\ Allocated(t) = {q \in IndexPages : ~Gone(t, q)}
      /\ IndexPages \subseteq Int
  BY PageKinds DEF IndexPages
<1>8. key \in Nat
  <2>1. CASE p \in Leaves(t)
    <3>1. LeafHas(t.node[p].keys, t.node[p].vals) /\ Len(t.node[p].keys) = degree /\ type = "LEAF"
      BY <2>1 DEF Splits
    <3>2. Halves(t.node[p].keys, t.node[p].vals, y.keys, y.vals, x.keys, x.vals)
      BY <1>1, <1>3, <1>6, <3>1, NodeOf, LeafHalved
    <3>3. key \in ToSet(t.node[p].keys)
      BY <1>2, <3>2 DEF Halves
    <3> QED BY <3>1, <3>3, LeafFacts
  <2>2. CASE p \notin Leaves(t)
    <3>1. Len(t.node[p].keys) >= degree /\ type # "LEAF"
      BY <2>2 DEF Splits
    <3>2. x.keys[1] \in Nat
      BY <1>1, <1>3, <1>5, <1>6, <2>2, <3>1, NodeOf, InnerHalves
    <3> QED BY <1>2, <3>2
  <2> QED BY <2>1, <2>2
<1>9. ASSUME p \notin Leaves(t)
      PROVE  InnerHas(u.node[p]) /\ InnerHas(u.node[right]) /\ u.node[p].vals[1] = t.node[p].vals[1]
  <2>1. Len(t.node[p].keys) >= degree /\ type # "LEAF"
    BY <1>9 DEF Splits
  <2>2. InnerHas(x) /\ InnerHas(y) /\ y.vals[1] = t.node[p].vals[1]
    BY <1>1, <1>3, <1>5, <1>6, <1>9, <2>1, NodeOf, InnerHalves
  <2> QED BY <1>3, <2>2 DEF InnerHas
<1>10. /\ InnerHas(w)
       /\ top \in InnerNodes(t) => w.vals[1] = z.vals[1]
       /\ Gone(t, top) => w.vals[1] = p
  <2>1. CASE top \in InnerNodes(t) /\ ~Gone(t, top)
    <3>1. InnerHas(z) /\ right \in Int
      BY <1>1, <1>3, <1>6, <1>7, <2>1
    <3>2. pos \in 1 .. Len(z.keys) + 1
      BY <1>2, <3>1, InsertPosRange DEF InnerHas
    <3>3. w.keys = InsertAt(z.keys, pos, key) /\ w.vals = InsertAt(z.vals, pos + 1, right)
      BY <1>4, <2>1
    <3>4. InnerHas(w) /\ w.vals[1] = z.vals[1]
      BY <1>8, <3>1, <3>2, <3>3, InnerInsert
    <3> QED BY <2>1, <3>4
  <2>2. CASE Gone(t, top)
    <3>1. top \notin InnerNodes(t)
      BY <1>7, <2>2
    <3>2. w.keys = <<key>> /\ w.vals = <<p, right>>
      BY <1>4, <3>1
    <3>3. PICK keys, vals : keys = <<key>> /\ vals = <<p, right>>
      OBVIOUS
    <3>4. p \in Int /\ right \in Int
      BY <1>3, <1>7
    <3>5. keys \in Seq(Nat) /\ vals \in Seq(Int) /\ Len(keys) = 1 /\ Len(vals) = 2 /\ vals[1] = p
      BY <1>8, <3>3, <3>4
    <3> QED BY <3>1, <3>2, <3>3, <3>5 DEF InnerHas
  <2>3. top \in InnerNodes(t) => ~Gone(t, top)
    BY <1>7
  <2> QED BY <1>4, <2>1, <2>2, <2>3
<1>11. ASSUME NEW q \in InnerNodes(u) PROVE InnerHas(u.node[q])
  <2>1. CASE q = top
    BY <1>1, <1>10, <2>1
  <2>2. CASE q \in {p, right} /\ p \notin Leaves(t)
    BY <1>9, <2>2
  <2>3. CASE q \notin {p, right, top}
    <3>1. q \in InnerNodes(t)
      BY <1>5, <2>3
    <3>2. u.node[q] = t.node[q]
      BY <1>3, <1>7, <2>3, <3>1
    <3> QED BY <1>6, <3>1, <3>2
  <2>4. q \in {p, right} => p \notin Leaves(t)
    BY <1>3, <1>5, <1>7
  <2> QED BY <2>1, <2>2, <2>3, <2>4
<1>12. ASSUME NEW q \in InnerNodes(t) PROVE u.node[q].vals[1] = t.node[q].vals[1]
  <2>1. CASE q = top
    BY <1>1, <1>10, <1>12, <2>1
  <2>2. CASE q = p
    BY <1>7, <1>9, <1>12, <2>2
  <2>3. CASE q \notin {p, right, top}
    BY <1>3, <1>7, <2>3
  <2>4. q # right
    BY <1>5, <1>7
  <2> QED BY <2>1, <2>2, <2>3, <2>4
<1>13. Allocated(u) \subseteq Leaves(u) \cup InnerNodes(u)
  BY <1>5, <1>6
<1>14. u.rootPage \in Allocated(u)
  BY <1>4, <1>5, <1>6
<1>15. ASSUME NEW q \in Allocated(u)
       PROVE  IF q = u.rootPage THEN u.node[q].parent = IX_NO_PAGE
              ELSE u.node[q].parent \in InnerNodes(u) \ {q}
  <2>1. top \in InnerNodes(u) /\ InnerNodes(t) \subseteq InnerNodes(u)
    BY <1>5
  <2>2. CASE q \in {p, right}
    <3>1. q # u.rootPage
      BY <1>3, <1>4, <1>5, <1>6, <2>2
    <3> QED BY <1>3, <2>1, <2>2, <3>1
  <2>3. CASE q = top
    <3>1. CASE top \in InnerNodes(t) /\ ~Gone(t, top)
      BY <1>1, <1>4, <1>6, <1>7, <2>1, <2>3, <3>1
    <3>2. CASE Gone(t, top)
      BY <1>1, <1>4, <1>7, <2>3, <3>2
    <3> QED BY <1>4, <1>7, <3>1, <3>2
  <2>4. CASE q \notin {p, right, top}
    <3>1. q \in Allocated(t) /\ u.node[q] = t.node[q]
      BY <1>3, <1>5, <1>7, <2>4
    <3>2. q = u.rootPage <=> q = t.rootPage
      BY <1>4, <2>4
    <3> QED BY <1>6, <2>1, <3>1, <3>2
  <2> QED BY <2>2, <2>3, <2>4
<1>16. u.node[u.rootPage].type \in {"ROOT", "ROOT_LEAF"}
  <2>1. CASE u.rootPage = top
    BY <1>1, <1>4, <1>6, <2>1
  <2>2. CASE u.rootPage # top
    <3>1. u.rootPage = t.rootPage /\ t.rootPage \notin {p, right, top} /\ t.rootPage \in IndexPages
      BY <1>4, <1>5, <1>6, <1>7, <2>2
    <3> QED BY <1>3, <1>6, <3>1
  <2> QED BY <2>1, <2>2
<1> QED BY <1>1, <1>10, <1>11, <1>12, <1>13, <1>14, <1>15, <1>16 DEF Branched

(* The way to the leftmost leaf stays, below a new root if there is one.   *)
LEMMA SplitLeftmost ==
  ASSUME NEW t, NEW u, NEW p, NEW type, NEW right, NEW top, Splits(t, u, p, type, right, top),
         NEW Q, NEW leaf \in Leaves(t), LeftmostPath(t, Q, leaf)
  PROVE  \E Q2 \in Seq(IndexPages) : LeftmostPath(u, Q2, leaf)
<1>1. PICK n \in Nat : n = Len(Q) /\ n > 0
  BY DEF LeftmostPath
<1>2. /\ Q \in Seq(IndexPages) /\ IsInjective(Q) /\ Q[1] = t.rootPage /\ Q[n] = leaf
      /\ \A i \in 1 .. n - 1 : Q[i] \in InnerNodes(t) /\ t.node[Q[i]].vals[1] = Q[i + 1]
      /\ DOMAIN Q = 1 .. n
  BY <1>1 DEF LeftmostPath
<1>3. /\ \A q \in InnerNodes(t) : u.node[q].vals[1] = t.node[q].vals[1]
      /\ Gone(t, top) => u.node[top].vals[1] = p
  BY SplitBranched
<1>4. InnerNodes(t) \subseteq InnerNodes(u) /\ top \in InnerNodes(u)
  BY SplitKinds
<1>5. \A i \in 1 .. n - 1 : Q[i] \in InnerNodes(u) /\ u.node[Q[i]].vals[1] = Q[i + 1]
  BY <1>2, <1>3, <1>4
<1>6. top \in IndexPages
      /\ (u.rootPage = t.rootPage \/ (Gone(t, top) /\ p = t.rootPage /\ u.rootPage = top))
  BY SplitTop, SplitFields
<1>7. CASE u.rootPage = t.rootPage
  BY <1>1, <1>2, <1>5, <1>7 DEF LeftmostPath
<1>8. CASE Gone(t, top) /\ p = t.rootPage /\ u.rootPage = top
  <2>1. PICK one : one = <<top>>
    OBVIOUS
  <2>2. one \in Seq(IndexPages) /\ Len(one) = 1 /\ one[1] = top
    BY <1>6, <2>1
  <2>3. PICK Q2 : Q2 = one \o Q
    OBVIOUS
  <2>4. /\ Q2 \in Seq(IndexPages) /\ Len(Q2) = 1 + n
        /\ \A i \in 1 .. 1 + n : Q2[i] = IF i <= 1 THEN one[i] ELSE Q[i - 1]
    <3>1. /\ one \o Q \in Seq(IndexPages) /\ Len(one \o Q) = Len(one) + Len(Q)
          /\ \A i \in 1 .. Len(one) + Len(Q) :
               (one \o Q)[i] = IF i <= Len(one) THEN one[i] ELSE Q[i - Len(one)]
      BY <1>2, <2>2, ConcatProperties
    <3> QED BY <1>1, <2>2, <2>3, <3>1
  <2>5. /\ Q2[1] = top /\ DOMAIN Q2 = 1 .. n + 1 /\ Len(Q2) = n + 1
        /\ \A i \in 2 .. n + 1 : Q2[i] = Q[i - 1] /\ i - 1 \in 1 .. n
    BY <1>1, <2>2, <2>4
  <2>6. \A i \in 1 .. n : Q[i] # top
    <3> TAKE i \in 1 .. n
    <3>1. Q[i] \in InnerNodes(t) \/ Q[i] \in Leaves(t)
      BY <1>2
    <3> QED BY <1>8, <3>1, PageKinds
  <2>7. IsInjective(Q2)
    <3>1. ASSUME NEW a \in 1 .. n + 1, NEW b \in 1 .. n + 1, Q2[a] = Q2[b] PROVE a = b
      <4>1. CASE a = 1 \/ b = 1
        BY <2>5, <2>6, <3>1, <4>1
      <4>2. CASE a # 1 /\ b # 1
        <5>1. a - 1 \in 1 .. n /\ b - 1 \in 1 .. n /\ Q[a - 1] = Q[b - 1]
          BY <2>5, <3>1, <4>2
        <5>2. a - 1 = b - 1
          BY <1>2, <5>1 DEF IsInjective
        <5> QED BY <5>2
      <4> QED BY <4>1, <4>2
    <3> QED BY <2>5, <3>1 DEF IsInjective
  <2>8. Q2[n + 1] = leaf
    <3>1. n + 1 \in 2 .. n + 1 /\ n + 1 - 1 = n
      BY <1>1
    <3> QED BY <1>2, <2>5, <3>1
  <2>9. ASSUME NEW i \in 1 .. n + 1 - 1
        PROVE  Q2[i] \in InnerNodes(u) /\ u.node[Q2[i]].vals[1] = Q2[i + 1]
    <3>1. Q2[i + 1] = Q[i]
      <4>1. i + 1 \in 2 .. n + 1 /\ i + 1 - 1 = i
        OBVIOUS
      <4> QED BY <2>5, <4>1
    <3>2. CASE i = 1
      BY <1>2, <1>3, <1>4, <1>8, <2>5, <3>1, <3>2
    <3>3. CASE i # 1
      <4>1. i - 1 \in 1 .. n - 1 /\ Q2[i] = Q[i - 1] /\ i - 1 + 1 = i
        BY <2>5, <3>3
      <4>2. Q[i - 1] \in InnerNodes(u) /\ u.node[Q[i - 1]].vals[1] = Q[i - 1 + 1]
        BY <1>5, <4>1
      <4> QED BY <3>1, <4>1, <4>2
    <3> QED BY <3>2, <3>3
  <2>10. Q2 # << >>
    BY <2>5
  <2>11. LeftmostPath(u, Q2, leaf)
    BY <1>8, <2>4, <2>5, <2>7, <2>8, <2>9, <2>10 DEF LeftmostPath
  <2> QED BY <2>4, <2>11
<1> QED BY <1>6, <1>7, <1>8

(* A split above the leaves changes none of them.                          *)
LEMMA SplitInnerGrown ==
  ASSUME NEW t, NEW u, NEW p, NEW type, NEW right, NEW top, Splits(t, u, p, type, right, top),
         p \notin Leaves(t), NEW rows, Grown(t, rows, {})
  PROVE  Grown(u, rows, {})
<1>1. t.rootPage # IX_NO_PAGE /\ u.rootPage # IX_NO_PAGE
  <2>1. t.rootPage \in IndexPages
    BY PageKinds DEF Splits, Branched
  <2>2. u.rootPage \in Allocated(u)
    BY SplitBranched DEF Branched
  <2> QED BY <2>1, <2>2, PageKinds
<1>2. /\ Stocked(t, {}) /\ rows = LeafRows(t)
      /\ \E L, Q \in Seq(IndexPages) :
            /\ Threaded(t, L) /\ LeftmostPath(t, Q, L[1])
            /\ Shallow(t) => InOrder(t, L)
  BY <1>1 DEF Grown
<1>3. PICK L, Q \in Seq(IndexPages) : Threaded(t, L) /\ LeftmostPath(t, Q, L[1])
  BY <1>2
<1>4. Leaves(u) = Leaves(t) /\ right \notin Allocated(t) /\ p \in InnerNodes(t)
  BY SplitKinds
<1>5. \A q \in Leaves(t) : u.node[q] = t.node[q]
  <2> TAKE q \in Leaves(t)
  <2>1. q \in IndexPages /\ q \in Allocated(t) /\ q \notin InnerNodes(t)
    BY PageKinds
  <2>2. top \in InnerNodes(t) \/ Gone(t, top)
    BY SplitTop
  <2>3. q # top
    BY <2>1, <2>2, PageKinds
  <2>4. q \notin {p, right, top}
    BY <1>4, <2>1, <2>3
  <2> QED BY <2>1, <2>4, SplitFields
<1>6. Stocked(u, {}) /\ LeafRows(u) = LeafRows(t)
  <2>1. LeafRows(u) = LeafRows(t)
    BY <1>4, <1>5 DEF LeafRows
  <2>2. Stocked(u, {})
    BY <1>2, <1>4, <1>5 DEF Stocked
  <2> QED BY <2>1, <2>2
<1>7. Threaded(u, L) /\ L[1] \in Leaves(t)
  <2>1. \A i \in 1 .. Len(L) : L[i] \in Leaves(t)
    BY <1>3 DEF Threaded, ToSet
  <2>2. 1 \in 1 .. Len(L)
    BY <1>3 DEF Threaded
  <2>3. \A i \in 1 .. Len(L) : u.node[L[i]].next = t.node[L[i]].next
    BY <1>5, <2>1
  <2> QED BY <1>3, <1>4, <2>1, <2>2, <2>3 DEF Threaded
<1>8. PICK Q2 \in Seq(IndexPages) : LeftmostPath(u, Q2, L[1])
  BY <1>3, <1>7, SplitLeftmost
<1>9. ~Shallow(u)
  <2>1. type = "NODE"
    BY DEF Splits
  <2>2. p \in IndexPages /\ u.node[p].type = type
    BY SplitFields
  <2> QED BY <2>1, <2>2 DEF Shallow
<1>10. Branched(u)
  BY SplitBranched
<1> QED BY <1>1, <1>2, <1>3, <1>6, <1>7, <1>8, <1>9, <1>10 DEF Grown

(* The row with a key is in one half only, and both halves have rows.      *)
LEMMA HalvesApart ==
  ASSUME NEW keys, NEW vals, NEW lk, NEW lv, NEW rk, NEW rv, Halves(keys, vals, lk, lv, rk, rv)
  PROVE  ToSet(lv) \cap ToSet(rv) = {}
<1> SUFFICES ASSUME NEW r, r \in ToSet(lv), r \in ToSet(rv) PROVE FALSE
  OBVIOUS
<1>1. LeafHas(lk, lv) /\ LeafHas(rk, rv) /\ (\A k \in ToSet(lk) : k < rk[1])
      /\ (\A k \in ToSet(rk) : rk[1] <= k)
  BY DEF Halves
<1>2. Key[r] \in ToSet(lk)
  <2>1. PICK i \in 1 .. Len(lk) : r = lv[i]
    BY <1>1, LeafFacts
  <2> QED BY <1>1, <2>1, LeafFacts
<1>3. Key[r] \in ToSet(rk) /\ Key[r] \in Nat
  <2>1. PICK i \in 1 .. Len(rk) : r = rv[i]
    BY <1>1, LeafFacts
  <2> QED BY <1>1, <2>1, LeafFacts
<1>4. rk[1] \in Nat
  <2>1. PICK i \in 1 .. Len(rk) : TRUE
    BY <1>1, <1>3, LeafFacts
  <2>2. 1 \in 1 .. Len(rk)
    BY <1>1, <2>1, LeafFacts
  <2> QED BY <1>1, <2>2, LeafFacts
<1> QED BY <1>1, <1>2, <1>3, <1>4

(* The leaves that are not split are as they were.                         *)
LEMMA SplitOthers ==
  ASSUME NEW t, NEW u, NEW p, NEW type, NEW right, NEW top, Splits(t, u, p, type, right, top),
         NEW q \in Leaves(t), q # p
  PROVE  u.node[q] = t.node[q] /\ q # right
<1>1. q \in IndexPages /\ q \in Allocated(t) /\ q \notin InnerNodes(t)
  BY PageKinds
<1>2. top \in InnerNodes(t) \/ Gone(t, top)
  BY SplitTop
<1>3. q # top
  BY <1>1, <1>2, PageKinds
<1>4. q # right
  BY <1>1, SplitKinds
<1> QED BY <1>1, <1>3, <1>4, SplitFields

(* The split of a leaf: no leaf is full then, and the rows are the same.   *)
LEMMA SplitStocked ==
  ASSUME NEW t, NEW u, NEW p, NEW type, NEW right, NEW top, Splits(t, u, p, type, right, top),
         p \in Leaves(t), Stocked(t, {p})
  PROVE  Stocked(u, {}) /\ LeafRows(u) = LeafRows(t)
<1>1. PICK x, y : x = RightNode(t, p, type) /\ y = LeftNode(t, p, right, type)
  OBVIOUS
<1>2. PICK keys, vals : keys = t.node[p].keys /\ vals = t.node[p].vals
  OBVIOUS
<1>3. /\ p \in IndexPages /\ p # right
      /\ u.node[p].keys = y.keys /\ u.node[p].vals = y.vals
      /\ u.node[right].keys = x.keys /\ u.node[right].vals = x.vals
  BY <1>1, SplitFields
<1>4. Framed(t) /\ type = "LEAF" /\ LeafHas(keys, vals) /\ Len(keys) = degree
  BY <1>2 DEF Splits
<1>5. /\ Halves(keys, vals, y.keys, y.vals, x.keys, x.vals)
      /\ Len(y.keys) \in 1 .. degree - 1 /\ Len(x.keys) \in 1 .. degree - 1
  BY <1>1, <1>2, <1>3, <1>4, NodeOf, LeafHalved
<1>6. PICK A, B : A = ToSet(u.node[p].vals) /\ B = ToSet(u.node[right].vals)
  OBVIOUS
<1>7. A \cup B = ToSet(vals) /\ A \cap B = {}
  BY <1>3, <1>5, <1>6, HalvesApart DEF Halves
<1>8. Leaves(u) = Leaves(t) \cup {right}
  BY SplitKinds
<1>9. \A q \in Leaves(t) : q # p => u.node[q] = t.node[q] /\ q # right
  BY SplitOthers
<1>10. /\ \A q \in Leaves(t) : /\ LeafHas(t.node[q].keys, t.node[q].vals)
                               /\ Len(t.node[q].keys) \in 1 .. degree
                               /\ q # p => Len(t.node[q].keys) < degree
       /\ \A q, s \in Leaves(t) : q # s => ToSet(t.node[q].vals) \cap ToSet(t.node[s].vals) = {}
  BY DEF Stocked
<1>11. ASSUME NEW q \in Leaves(u)
       PROVE  /\ LeafHas(u.node[q].keys, u.node[q].vals) /\ Len(u.node[q].keys) \in 1 .. degree
              /\ Len(u.node[q].keys) < degree
  <2>1. CASE q \in {p, right}
    <3>1. LeafHas(u.node[q].keys, u.node[q].vals)
      BY <1>3, <1>5, <2>1 DEF Halves
    <3>2. Len(u.node[q].keys) \in 1 .. degree - 1
      BY <1>3, <1>5, <2>1
    <3> QED BY <3>1, <3>2, IndexAssumption
  <2>2. CASE q \notin {p, right}
    BY <1>8, <1>9, <1>10, <2>2
  <2> QED BY <2>1, <2>2
<1>12. ASSUME NEW q \in Leaves(t), q # p
       PROVE  ToSet(u.node[q].vals) \cap (A \cup B) = {}
  BY <1>2, <1>7, <1>9, <1>10, <1>12
<1>13. ASSUME NEW q \in Leaves(u), NEW s \in Leaves(u), q # s
       PROVE  ToSet(u.node[q].vals) \cap ToSet(u.node[s].vals) = {}
  <2>1. CASE q \in {p, right} /\ s \in {p, right}
    BY <1>6, <1>7, <1>13, <2>1
  <2>2. CASE q \in {p, right} /\ s \notin {p, right}
    BY <1>6, <1>8, <1>12, <2>2
  <2>3. CASE q \notin {p, right} /\ s \in {p, right}
    BY <1>6, <1>8, <1>12, <2>3
  <2>4. CASE q \notin {p, right} /\ s \notin {p, right}
    BY <1>8, <1>9, <1>10, <1>13, <2>4
  <2> QED BY <2>1, <2>2, <2>3, <2>4
<1>14. Stocked(u, {})
  BY <1>11, <1>13 DEF Stocked
<1>15. LeafRows(u) \subseteq LeafRows(t)
  <2> SUFFICES ASSUME NEW r \in LeafRows(u) PROVE r \in LeafRows(t)
    OBVIOUS
  <2>1. PICK q \in Leaves(u) : r \in ToSet(u.node[q].vals)
    BY DEF LeafRows
  <2>2. CASE q \in {p, right}
    BY <1>2, <1>6, <1>7, <2>1, <2>2 DEF LeafRows
  <2>3. CASE q \notin {p, right}
    BY <1>8, <1>9, <2>1, <2>3 DEF LeafRows
  <2> QED BY <2>2, <2>3
<1>16. LeafRows(t) \subseteq LeafRows(u)
  <2> SUFFICES ASSUME NEW r \in LeafRows(t) PROVE r \in LeafRows(u)
    OBVIOUS
  <2>1. PICK q \in Leaves(t) : r \in ToSet(t.node[q].vals)
    BY DEF LeafRows
  <2>2. CASE q = p
    <3>1. r \in A \/ r \in B
      BY <1>2, <1>7, <2>1, <2>2
    <3> QED BY <1>6, <1>8, <3>1 DEF LeafRows
  <2>3. CASE q # p
    BY <1>8, <1>9, <2>1, <2>3 DEF LeafRows
  <2> QED BY <2>2, <2>3
<1> QED BY <1>14, <1>15, <1>16

(* The right half comes behind the left one.                               *)
LEMMA SplitThreaded ==
  ASSUME NEW t, NEW u, NEW p, NEW type, NEW right, NEW top, Splits(t, u, p, type, right, top),
         NEW L, Threaded(t, L), NEW e \in 2 .. Len(L) + 1, L[e - 1] = p,
         NEW L2, L2 = InsertAt(L, e, right)
  PROVE  /\ Threaded(u, L2) /\ Len(L2) = Len(L) + 1 /\ L2[1] = L[1] /\ L2 \in Seq(IndexPages)
         /\ \A j \in 1 .. Len(L) + 1 :
              L2[j] = IF j < e THEN L[j] ELSE IF j = e THEN right ELSE L[j - 1]
<1>1. PICK n \in Nat : n = Len(L) /\ n > 0
  BY DEF Threaded
<1>2. /\ L \in Seq(IndexPages) /\ IsInjective(L) /\ ToSet(L) = Leaves(t) /\ DOMAIN L = 1 .. n
      /\ \A j \in 1 .. n : t.node[L[j]].next = IF j = n THEN IX_NO_PAGE ELSE L[j + 1]
  BY <1>1 DEF Threaded
<1>3. \A j \in 1 .. n : L[j] \in Leaves(t)
  BY <1>2 DEF ToSet
<1>4. PICK i : i = e - 1
  OBVIOUS
<1>5. e \in 2 .. n + 1 /\ e \in 1 .. Len(L) + 1 /\ i \in 1 .. n /\ i = e - 1 /\ L[i] = p
  BY <1>1, <1>4
<1>6. p \in Leaves(t)
  BY <1>3, <1>5
<1>7. right \in IndexPages /\ right \notin Leaves(t)
  BY SplitFields, SplitKinds, PageKinds
<1>8. /\ L2 \in Seq(IndexPages) /\ Len(L2) = Len(L) + 1
      /\ \A j \in 1 .. Len(L) + 1 :
           L2[j] = IF j < e THEN L[j] ELSE IF j = e THEN right ELSE L[j - 1]
  <2>1. PICK S, v, k, a : S = IndexPages /\ v = L /\ k = e /\ a = right
    OBVIOUS
  <2>2. v \in Seq(S) /\ k \in 1 .. Len(v) + 1 /\ a \in S
    BY <1>2, <1>5, <1>7, <2>1
  <2>3. /\ InsertAt(v, k, a) \in Seq(S) /\ Len(InsertAt(v, k, a)) = Len(v) + 1
        /\ \A j \in 1 .. Len(v) + 1 :
             InsertAt(v, k, a)[j] = IF j < k THEN v[j] ELSE IF j = k THEN a ELSE v[j - 1]
    BY <2>2, InsertFacts
  <2> QED BY <2>1, <2>3
<1>9. /\ Len(L2) = n + 1 /\ DOMAIN L2 = 1 .. n + 1
      /\ \A j \in 1 .. n + 1 :
           L2[j] = IF j < e THEN L[j] ELSE IF j = e THEN right ELSE L[j - 1]
  BY <1>1, <1>8
<1>10. Leaves(u) = Leaves(t) \cup {right}
  BY <1>6, SplitKinds
<1>11. IsInjective(L2)
  <2>1. ASSUME NEW a \in 1 .. n + 1, NEW b \in 1 .. n + 1, L2[a] = L2[b] PROVE a = b
    <3>1. PICK c : c = IF a < e THEN a ELSE a - 1
      OBVIOUS
    <3>2. PICK d : d = IF b < e THEN b ELSE b - 1
      OBVIOUS
    <3>3. a # e => c \in 1 .. n /\ L2[a] = L[c]
      BY <1>5, <1>9, <3>1
    <3>4. b # e => d \in 1 .. n /\ L2[b] = L[d]
      BY <1>5, <1>9, <3>2
    <3>5. L2[e] = right
      BY <1>5, <1>9
    <3>6. a = e <=> b = e
      BY <1>3, <1>7, <2>1, <3>3, <3>4, <3>5
    <3>7. a # e => c = d
      BY <1>2, <2>1, <3>3, <3>4, <3>6 DEF IsInjective
    <3> QED BY <1>5, <3>1, <3>2, <3>6, <3>7
  <2> QED BY <1>9, <2>1 DEF IsInjective
<1>12. ToSet(L2) = Leaves(u)
  <2>1. \A j \in 1 .. n + 1 : L2[j] \in Leaves(u)
    <3> TAKE j \in 1 .. n + 1
    <3>1. CASE j = e
      BY <1>9, <1>10, <3>1
    <3>2. CASE j # e
      <4>1. PICK c : c = IF j < e THEN j ELSE j - 1
        OBVIOUS
      <4>2. c \in 1 .. n /\ L2[j] = L[c]
        BY <1>5, <1>9, <3>2, <4>1
      <4> QED BY <1>3, <1>10, <4>2
    <3> QED BY <3>1, <3>2
  <2>2. ASSUME NEW q \in Leaves(u) PROVE \E j \in 1 .. n + 1 : L2[j] = q
    <3>1. CASE q = right
      BY <1>5, <1>9, <3>1
    <3>2. CASE q \in Leaves(t)
      <4>1. PICK j \in 1 .. n : L[j] = q
        BY <1>2, <3>2 DEF ToSet
      <4>2. CASE j < e
        BY <1>9, <4>1, <4>2
      <4>3. CASE ~(j < e)
        <5>1. j + 1 \in 1 .. n + 1 /\ ~(j + 1 < e) /\ j + 1 # e /\ j + 1 - 1 = j
          BY <1>5, <4>3
        <5>2. L2[j + 1] = L[j]
          BY <1>9, <5>1
        <5> QED BY <4>1, <5>1, <5>2
      <4> QED BY <4>2, <4>3
    <3> QED BY <1>10, <3>1, <3>2
  <2> QED BY <1>9, <2>1, <2>2 DEF ToSet
<1>13. u.node[p].next = right /\ u.node[right].next = t.node[p].next
  <2>1. PICK x, y : x = RightNode(t, p, type) /\ y = LeftNode(t, p, right, type)
    OBVIOUS
  <2>2. /\ Framed(t) /\ type = "LEAF" /\ LeafHas(t.node[p].keys, t.node[p].vals)
        /\ Len(t.node[p].keys) = degree
    BY <1>6 DEF Splits
  <2>3. p \in IndexPages /\ u.node[p].next = y.next /\ u.node[right].next = x.next
    BY <2>1, SplitFields
  <2>4. y.next = right /\ x.next = t.node[p].next
    BY <2>1, <2>2, <2>3, NodeOf, LeafHalved
  <2> QED BY <2>3, <2>4
<1>14. ASSUME NEW j \in 1 .. n + 1
       PROVE  u.node[L2[j]].next = IF j = n + 1 THEN IX_NO_PAGE ELSE L2[j + 1]
  <2>1. CASE j = i
    <3>1. L2[j] = p /\ j # n + 1
      BY <1>5, <1>9, <2>1
    <3>2. L2[j + 1] = right
      BY <1>5, <1>9, <2>1
    <3> QED BY <1>13, <3>1, <3>2
  <2>2. CASE j = e
    <3>1. L2[j] = right
      BY <1>9, <2>2
    <3>2. t.node[p].next = IF i = n THEN IX_NO_PAGE ELSE L[i + 1]
      BY <1>2, <1>5
    <3>3. CASE i = n
      BY <1>5, <1>13, <2>2, <3>1, <3>2, <3>3
    <3>4. CASE i # n
      <4>1. j + 1 \in 1 .. n + 1 /\ ~(j + 1 < e) /\ j + 1 # e /\ j + 1 - 1 = i + 1 /\ j # n + 1
        BY <1>5, <2>2, <3>4
      <4>2. L2[j + 1] = L[i + 1]
        BY <1>9, <4>1
      <4> QED BY <1>13, <3>1, <3>2, <3>4, <4>1, <4>2
    <3> QED BY <3>3, <3>4
  <2>3. CASE j < i
    <3>1. j \in 1 .. n /\ j + 1 \in 1 .. n + 1 /\ j + 1 < e /\ j < e /\ j # n /\ j # n + 1
      BY <1>5, <2>3
    <3>2. L2[j] = L[j] /\ L2[j + 1] = L[j + 1]
      BY <1>9, <3>1
    <3>3. L[j] # p
      BY <1>2, <1>5, <2>3, <3>1 DEF IsInjective
    <3>4. u.node[L[j]] = t.node[L[j]]
      BY <1>3, <3>1, <3>3, SplitOthers
    <3> QED BY <1>2, <3>1, <3>2, <3>4
  <2>4. CASE j > e
    <3>1. PICK c : c = j - 1
      OBVIOUS
    <3>2. c \in 1 .. n /\ c # i /\ ~(j < e) /\ j # e /\ (j = n + 1 <=> c = n) /\ c + 1 = j
      BY <1>5, <2>4, <3>1
    <3>3. L2[j] = L[c]
      BY <1>9, <3>1, <3>2
    <3>4. L[c] # p
      BY <1>2, <1>5, <3>2 DEF IsInjective
    <3>5. u.node[L[c]] = t.node[L[c]]
      BY <1>3, <3>2, <3>4, SplitOthers
    <3>6. t.node[L[c]].next = IF c = n THEN IX_NO_PAGE ELSE L[c + 1]
      BY <1>2, <3>2
    <3>7. j # n + 1 => L2[j + 1] = L[j]
      <4> SUFFICES ASSUME j # n + 1 PROVE L2[j + 1] = L[j]
        OBVIOUS
      <4>1. j + 1 \in 1 .. n + 1 /\ ~(j + 1 < e) /\ j + 1 # e /\ j + 1 - 1 = j
        BY <1>5, <2>4
      <4> QED BY <1>9, <4>1
    <3> QED BY <3>2, <3>3, <3>5, <3>6, <3>7
  <2> QED BY <1>5, <2>1, <2>2, <2>3, <2>4
<1>15. L2[1] = L[1]
  BY <1>1, <1>5, <1>9
<1> QED BY <1>8, <1>9, <1>11, <1>12, <1>14, <1>15 DEF Threaded

(* A separator that comes between two others.                              *)
LEMMA OrderInsert ==
  ASSUME NEW s, Sorted(s), NEW i \in 1 .. Len(s) + 1, NEW key \in Nat,
         \A j \in 1 .. Len(s) : (j < i => s[j] < key) /\ (j >= i => key < s[j])
  PROVE  /\ InsertPos(s, key) = i /\ Sorted(InsertAt(s, i, key))
         /\ Len(InsertAt(s, i, key)) = Len(s) + 1
         /\ \A j \in 1 .. Len(s) + 1 :
              InsertAt(s, i, key)[j] = IF j < i THEN s[j] ELSE IF j = i THEN key ELSE s[j - 1]
<1>1. PICK nat : nat = Nat
  OBVIOUS
<1>2. s \in Seq(nat) /\ key \in nat
  BY <1>1 DEF Sorted
<1>3. PICK n \in Nat : n = Len(s)
  BY <1>2
<1>4. /\ \A j \in 1 .. n : s[j] \in Nat
      /\ \A j, k \in 1 .. n : j < k => s[j] < s[k]
      /\ \A j \in 1 .. n : (j < i => s[j] < key) /\ (j >= i => key < s[j])
      /\ i \in 1 .. n + 1
  BY <1>3, SortedFacts
<1>5. InsertPos(s, key) = i
  <2>1. \A j \in 1 .. Len(s) : s[j] < key <=> j < i
    BY <1>3, <1>4
  <2> QED BY <2>1, InsertPosIs
<1>6. PICK s2 : s2 = InsertAt(s, i, key)
  OBVIOUS
<1>7. /\ s2 \in Seq(nat) /\ Len(s2) = Len(s) + 1
      /\ \A j \in 1 .. Len(s) + 1 :
           s2[j] = IF j < i THEN s[j] ELSE IF j = i THEN key ELSE s[j - 1]
  BY <1>2, <1>6, InsertFacts
<1>8. Sorted(s2)
  <2>1. ASSUME NEW j \in 1 .. n + 1, NEW k \in 1 .. n + 1, j < k PROVE s2[j] < s2[k]
    <3>1. CASE k < i
      BY <1>3, <1>4, <1>7, <2>1, <3>1
    <3>2. CASE k = i
      BY <1>3, <1>4, <1>7, <2>1, <3>2
    <3>3. CASE k > i
      <4>1. s2[k] = s[k - 1] /\ k - 1 \in 1 .. n /\ k - 1 >= i
        BY <1>3, <1>4, <1>7, <3>3
      <4>2. CASE j < i
        BY <1>3, <1>4, <1>7, <2>1, <4>1, <4>2
      <4>3. CASE j = i
        BY <1>3, <1>4, <1>7, <4>1, <4>3
      <4>4. CASE j > i
        <5>1. s2[j] = s[j - 1] /\ j - 1 \in 1 .. n /\ j - 1 < k - 1
          BY <1>3, <1>4, <1>7, <2>1, <4>4
        <5> QED BY <1>4, <4>1, <5>1
      <4> QED BY <1>4, <4>2, <4>3, <4>4
    <3> QED BY <1>4, <3>1, <3>2, <3>3
  <2>2. Len(s2) = n + 1
    BY <1>3, <1>7
  <2> QED BY <1>1, <1>7, <2>1, <2>2 DEF Sorted
<1> QED BY <1>5, <1>6, <1>7, <1>8

(* The keys of a leaf and the separators on its sides, the leaf halved.    *)
LEMMA BetweenHalves ==
  ASSUME NEW s, Sorted(s), NEW i \in 1 .. Len(s) + 1, NEW keys, keys \in Seq(Nat),
         \A k \in ToSet(keys) : Between(s, i, k),
         NEW key \in ToSet(keys), \E k \in ToSet(keys) : k < key, \E k \in ToSet(keys) : key < k
  PROVE  \A j \in 1 .. Len(s) : (j < i => s[j] < key) /\ (j >= i => key < s[j])
<1>1. \A k \in ToSet(keys) : k \in Nat
  BY DEF ToSet
<1>2. PICK a \in ToSet(keys), b \in ToSet(keys) : a < key /\ key < b
  OBVIOUS
<1>3. PICK n \in Nat : n = Len(s)
  BY SortedFacts
<1>4. /\ \A j \in 1 .. n : s[j] \in Nat
      /\ \A j, k \in 1 .. n : j < k => s[j] < s[k]
      /\ i \in 1 .. n + 1
  BY <1>3, SortedFacts
<1> SUFFICES ASSUME NEW j \in 1 .. n PROVE (j < i => s[j] < key) /\ (j >= i => key < s[j])
  BY <1>3
<1>5. CASE j < i
  <2>1. i - 1 \in 1 .. n /\ (j = i - 1 \/ j < i - 1) /\ i > 1
    BY <1>4, <1>5
  <2>2. s[i - 1] <= a
    BY <1>2, <2>1 DEF Between
  <2>3. s[j] <= s[i - 1]
    BY <1>4, <2>1
  <2> QED BY <1>1, <1>2, <1>4, <1>5, <2>1, <2>2, <2>3
<1>6. CASE j >= i
  <2>1. i \in 1 .. n /\ (j = i \/ i < j)
    BY <1>4, <1>6
  <2>2. b <= s[i]
    BY <1>2, <1>3, <2>1 DEF Between
  <2>3. s[i] <= s[j]
    BY <1>4, <2>1
  <2> QED BY <1>1, <1>2, <1>4, <1>6, <2>1, <2>2, <2>3
<1> QED BY <1>4, <1>5, <1>6

(* Below the root the halves of a leaf are on either side of the new       *)
(* separator.                                                              *)
LEMMA SplitInOrder ==
  ASSUME NEW t, NEW u, NEW p, NEW type, NEW right, NEW top, Splits(t, u, p, type, right, top),
         NEW L, Threaded(t, L), NEW e \in 2 .. Len(L) + 1, L[e - 1] = p,
         NEW L2, L2 = InsertAt(L, e, right), Stocked(t, {p}), Shallow(t) => InOrder(t, L),
         Shallow(u)
  PROVE  InOrder(u, L2)
<1>1. PICK n \in Nat : n = Len(L) /\ n > 0
  BY DEF Threaded
<1>2. /\ L2 \in Seq(IndexPages) /\ Len(L2) = n + 1
      /\ \A j \in 1 .. n + 1 : L2[j] = IF j < e THEN L[j] ELSE IF j = e THEN right ELSE L[j - 1]
  BY <1>1, SplitThreaded
<1>3. PICK i : i = e - 1
  OBVIOUS
<1>4. i \in 1 .. n /\ e \in 2 .. n + 1 /\ e = i + 1 /\ L[i] = p /\ e - 1 = i
  BY <1>1, <1>3
<1>5. /\ \A j \in 1 .. n : L[j] \in Leaves(t)
      /\ \A j, k \in 1 .. n : L[j] = L[k] => j = k
      /\ L \in Seq(IndexPages)
  <2>1. L \in Seq(IndexPages) /\ IsInjective(L) /\ ToSet(L) = Leaves(t)
    BY DEF Threaded
  <2>2. DOMAIN L = 1 .. n
    BY <1>1, <2>1
  <2>3. \A j \in 1 .. n : L[j] \in Leaves(t)
    BY <2>1, <2>2 DEF ToSet
  <2> QED BY <2>1, <2>2, <2>3 DEF IsInjective
<1>6. PICK x, y, z, w : x = RightNode(t, p, type) /\ y = LeftNode(t, p, right, type)
                        /\ z = t.node[top] /\ w = u.node[top]
  OBVIOUS
<1>7. PICK keys, vals : keys = t.node[p].keys /\ vals = t.node[p].vals
  OBVIOUS
<1>8. /\ Framed(t) /\ type = "LEAF" /\ LeafHas(keys, vals) /\ Len(keys) = degree /\ p \in Leaves(t)
  BY <1>4, <1>5, <1>7 DEF Splits
<1>9. PICK key : key = x.keys[1]
  OBVIOUS
<1>10. /\ p \in IndexPages /\ right \in IndexPages /\ top \in IndexPages
       /\ p # right /\ top # p /\ top # right
       /\ u.node[p].keys = y.keys /\ u.node[right].keys = x.keys
       /\ \A q \in IndexPages : q \notin {p, right, top} => u.node[q] = t.node[q]
  BY <1>6, SplitFields
<1>11. /\ Halves(keys, vals, y.keys, y.vals, x.keys, x.vals)
       /\ \E k \in ToSet(keys) : x.keys[1] < k
  BY <1>6, <1>7, <1>8, <1>10, NodeOf, LeafHalved
<1>12. /\ key \in ToSet(keys) /\ (\E k \in ToSet(keys) : k < key)
       /\ (\E k \in ToSet(keys) : key < k)
       /\ ToSet(y.keys) \subseteq ToSet(keys) /\ ToSet(x.keys) \subseteq ToSet(keys)
       /\ (\A k \in ToSet(y.keys) : k < key) /\ (\A k \in ToSet(x.keys) : key <= k)
  BY <1>9, <1>11 DEF Halves
<1>13. keys \in Seq(Nat) /\ \A k \in ToSet(keys) : k \in Nat
  BY <1>8 DEF LeafHas, Sorted, ToSet
<1>14. Shallow(t)
  <2> SUFFICES ASSUME NEW q \in IndexPages, t.node[q].type = "NODE" PROVE FALSE
    BY DEF Shallow
  <2>1. q \in InnerNodes(t)
    BY DEF InnerNodes
  <2>2. q # p /\ q # right
    BY <1>8, <2>1, SplitKinds, PageKinds
  <2>3. u.node[q].type = "NODE"
    <3>1. CASE q = top
      <4>1. ~Gone(t, top)
        BY <2>1, <3>1, PageKinds
      <4>2. PICK pos : pos = InsertPos(z.keys, x.keys[1])
        OBVIOUS
      <4>3. w.type = z.type
        BY <1>6, <4>1, <4>2, SplitTop
      <4> QED BY <1>6, <3>1, <4>3
    <3>2. CASE q # top
      BY <1>10, <2>2, <3>2
    <3> QED BY <3>1, <3>2
  <2> QED BY <2>3 DEF Shallow
<1>15. /\ L = Kids(t) /\ Sorted(Seps(t)) /\ Len(L) = Len(Seps(t)) + 1
       /\ \A q \in InnerNodes(t) : q = t.rootPage
       /\ \A j \in 1 .. n : \A k \in ToSet(t.node[L[j]].keys) : Between(Seps(t), j, k)
  BY <1>1, <1>14 DEF InOrder
<1>16. PICK s : s = Seps(t)
  OBVIOUS
<1>17. PICK m \in Nat : m = Len(s) /\ n = m + 1
  BY <1>1, <1>15, <1>16, SortedFacts
<1>18. \A j \in 1 .. m : (j < i => s[j] < key) /\ (j >= i => key < s[j])
  <2>1. i \in 1 .. Len(s) + 1 /\ Sorted(s)
    BY <1>4, <1>15, <1>16, <1>17
  <2>2. \A k \in ToSet(keys) : Between(s, i, k)
    BY <1>4, <1>7, <1>15, <1>16
  <2> QED BY <1>12, <1>13, <1>17, <2>1, <2>2, BetweenHalves
<1>19. PICK s2 : s2 = InsertAt(s, i, key)
  OBVIOUS
<1>20. /\ InsertPos(s, key) = i /\ Sorted(s2) /\ Len(s2) = n
       /\ \A j \in 1 .. n : s2[j] = IF j < i THEN s[j] ELSE IF j = i THEN key ELSE s[j - 1]
  <2>1. i \in 1 .. Len(s) + 1 /\ Sorted(s) /\ key \in Nat
    BY <1>4, <1>12, <1>13, <1>15, <1>16, <1>17
  <2>2. \A j \in 1 .. Len(s) : (j < i => s[j] < key) /\ (j >= i => key < s[j])
    BY <1>17, <1>18
  <2>3. /\ InsertPos(s, key) = i /\ Sorted(InsertAt(s, i, key))
        /\ Len(InsertAt(s, i, key)) = Len(s) + 1
        /\ \A j \in 1 .. Len(s) + 1 :
             InsertAt(s, i, key)[j] = IF j < i THEN s[j] ELSE IF j = i THEN key ELSE s[j - 1]
    BY <2>1, <2>2, OrderInsert
  <2> QED BY <1>17, <1>19, <2>3
<1>21. \A j \in 1 .. n : j # i => u.node[L[j]].keys = t.node[L[j]].keys
  BY <1>4, <1>5, SplitOthers
<1>22. ASSUME NEW j \in 1 .. n + 1, NEW k \in ToSet(u.node[L2[j]].keys) PROVE Between(s2, j, k)
  <2>1. CASE j = i
    <3>1. L2[j] = p /\ k \in ToSet(y.keys)
      BY <1>2, <1>4, <1>10, <1>22, <2>1
    <3>2. k < key /\ Between(s, i, k) /\ k \in Nat
      BY <1>4, <1>7, <1>12, <1>13, <1>15, <1>16, <3>1
    <3>3. s2[i] = key
      BY <1>4, <1>20
    <3>4. i > 1 => s2[i - 1] = s[i - 1] /\ s[i - 1] <= k
      BY <1>4, <1>20, <3>2 DEF Between
    <3> QED BY <1>12, <1>13, <2>1, <3>2, <3>3, <3>4 DEF Between
  <2>2. CASE j = e
    <3>1. L2[j] = right /\ k \in ToSet(x.keys)
      BY <1>2, <1>4, <1>10, <1>22, <2>2
    <3>2. key <= k /\ Between(s, i, k) /\ k \in Nat
      BY <1>4, <1>7, <1>12, <1>13, <1>15, <1>16, <3>1
    <3>3. s2[i] = key /\ j - 1 = i
      BY <1>4, <1>20, <2>2
    <3>4. j <= n => s2[j] = s[i] /\ k <= s[i]
      <4> SUFFICES ASSUME j <= n PROVE s2[j] = s[i] /\ k <= s[i]
        OBVIOUS
      <4>1. j \in 1 .. n /\ ~(j < i) /\ j # i /\ i <= Len(s)
        BY <1>4, <1>17, <2>2
      <4> QED BY <1>20, <3>2, <3>3, <4>1 DEF Between
    <3> QED BY <1>20, <3>2, <3>3, <3>4 DEF Between
  <2>3. CASE j < i
    <3>1. j \in 1 .. n /\ j < e /\ j # i /\ L2[j] = L[j] /\ j <= m
      BY <1>2, <1>4, <1>17, <2>3
    <3>2. k \in ToSet(t.node[L[j]].keys)
      BY <1>21, <1>22, <3>1
    <3>3. Between(s, j, k)
      BY <1>15, <1>16, <3>1, <3>2
    <3>4. s2[j] = s[j]
      BY <1>20, <2>3, <3>1
    <3>5. j > 1 => s2[j - 1] = s[j - 1]
      BY <1>4, <1>20, <2>3
    <3> QED BY <1>17, <3>1, <3>3, <3>4, <3>5 DEF Between
  <2>4. CASE j > e
    <3>1. PICK c : c = j - 1
      OBVIOUS
    <3>2. c \in 1 .. n /\ c # i /\ c > i /\ L2[j] = L[c] /\ c <= m + 1 /\ c > 1
      BY <1>2, <1>4, <1>17, <2>4, <3>1
    <3>3. k \in ToSet(t.node[L[c]].keys)
      BY <1>21, <1>22, <3>2
    <3>4. Between(s, c, k)
      BY <1>15, <1>16, <3>2, <3>3
    <3>5. s2[j - 1] = s[c - 1]
      <4>1. ~(c < i) /\ c # i
        BY <1>4, <3>2
      <4>2. s2[c] = s[c - 1]
        BY <1>20, <3>2, <4>1
      <4> QED BY <3>1, <4>2
    <3>6. j <= n => s2[j] = s[c] /\ c <= Len(s)
      BY <1>4, <1>17, <1>20, <2>4, <3>1
    <3> QED BY <1>20, <3>2, <3>4, <3>5, <3>6 DEF Between
  <2> QED BY <1>4, <2>1, <2>2, <2>3, <2>4
<1>23. InnerNodes(u) = InnerNodes(t) \cup {top}
  BY <1>8, SplitKinds
<1>24. ASSUME Seps(u) = s2, Kids(u) = L2, u.rootPage = top, \A q \in InnerNodes(t) : q = top
       PROVE  InOrder(u, L2)
  BY <1>2, <1>20, <1>22, <1>23, <1>24 DEF InOrder
<1>25. PICK pos : pos = InsertPos(z.keys, x.keys[1])
  OBVIOUS
<1>26. CASE /\ top \in InnerNodes(t) /\ p # t.rootPage /\ u.rootPage = t.rootPage
            /\ w.type = z.type
            /\ w.keys = InsertAt(z.keys, pos, x.keys[1])
            /\ w.vals = InsertAt(z.vals, pos + 1, right)
  <2>1. top = t.rootPage /\ u.rootPage = top
    BY <1>15, <1>26
  <2>2. z.type = "ROOT"
    BY <1>6, <1>10, <1>14, <1>26 DEF InnerNodes, Shallow
  <2>3. IsRoot(t) /\ IsRoot(u)
    BY <1>6, <1>26, <2>1, <2>2 DEF IsRoot
  <2>4. s = z.keys /\ L = z.vals
    BY <1>6, <1>15, <1>16, <2>1, <2>3 DEF Seps, Kids
  <2>5. pos = i
    BY <1>9, <1>20, <1>25, <2>4
  <2>6. Seps(u) = s2 /\ Kids(u) = L2
    <3>1. w.keys = s2
      BY <1>9, <1>19, <1>26, <2>4, <2>5
    <3>2. w.vals = L2
      BY <1>4, <1>26, <2>4, <2>5
    <3> QED BY <1>6, <2>1, <2>3, <3>1, <3>2 DEF Seps, Kids
  <2> QED BY <1>15, <1>24, <2>1, <2>6
<1>27. CASE /\ Gone(t, top) /\ p = t.rootPage /\ u.rootPage = top /\ w.type = "ROOT"
            /\ w.keys = <<x.keys[1]>> /\ w.vals = <<p, right>>
  <2>1. ~IsRoot(t)
    BY <1>8, <1>27 DEF IsRoot, Leaves, IsLeaf
  <2>2. PICK one, none : one = <<p>> /\ none = << >>
    OBVIOUS
  <2>3. L = one /\ s = none
    BY <1>15, <1>16, <1>27, <2>1, <2>2 DEF Seps, Kids
  <2>4. n = 1 /\ i = 1 /\ e = 2 /\ Len(s) = 0 /\ L[1] = p
    BY <1>1, <1>4, <2>2, <2>3
  <2>5. IsRoot(u)
    BY <1>6, <1>27 DEF IsRoot
  <2>6. PICK k1, k2 : k1 = <<key>> /\ k2 = <<p, right>>
    OBVIOUS
  <2>7. Seps(u) = k1 /\ Kids(u) = k2
    BY <1>6, <1>9, <1>27, <2>5, <2>6 DEF Seps, Kids
  <2>8. s2 = k1
    <3>1. k1 \in Seq(Nat) /\ Len(k1) = 1 /\ k1[1] = key
      BY <1>12, <1>13, <2>6
    <3>2. s2 \in Seq(Nat) /\ Len(s2) = 1 /\ s2[1] = key
      BY <1>20, <2>4 DEF Sorted
    <3>3. \A j \in 1 .. Len(s2) : s2[j] = k1[j]
      BY <3>1, <3>2
    <3> QED BY <3>1, <3>2, <3>3, SeqEqual
  <2>9. L2 = k2
    <3>1. k2 \in Seq(IndexPages) /\ Len(k2) = 2 /\ k2[1] = p /\ k2[2] = right
      BY <1>10, <2>6
    <3>2. Len(L2) = 2 /\ L2[1] = p /\ L2[2] = right
      BY <1>2, <2>4
    <3>3. \A j \in 1 .. Len(L2) : L2[j] = k2[j]
      <4>1. \A j \in 1 .. Len(L2) : j = 1 \/ j = 2
        BY <3>2
      <4> QED BY <3>1, <3>2, <4>1
    <3> QED BY <1>2, <3>1, <3>2, <3>3, SeqEqual
  <2>10. \A q \in InnerNodes(t) : q = top
    BY <1>8, <1>15, <1>27, PageKinds
  <2> QED BY <1>24, <1>27, <2>7, <2>8, <2>9, <2>10
<1>28. \/ /\ top \in InnerNodes(t) /\ p # t.rootPage /\ u.rootPage = t.rootPage
          /\ top = t.node[p].parent
          /\ w.type = z.type /\ w.next = z.next /\ w.parent = z.parent
          /\ w.keys = InsertAt(z.keys, pos, x.keys[1]) /\ w.vals = InsertAt(z.vals, pos + 1, right)
       \/ /\ Gone(t, top) /\ p = t.rootPage /\ u.rootPage = top
          /\ w.type = "ROOT" /\ w.next = IX_NO_PAGE /\ w.parent = IX_NO_PAGE
          /\ w.keys = <<x.keys[1]>> /\ w.vals = <<p, right>>
  <2>1. TopIs(t, u, p, right, top, x)
    BY <1>6, SplitTopIs
  <2> QED BY <1>6, <1>25, <2>1 DEF TopIs
<1> QED BY <1>26, <1>27, <1>28

(* A leaf split: the tree has the same rows, and no leaf is full.          *)
LEMMA SplitLeafGrown ==
  ASSUME NEW t, NEW u, NEW p, NEW type, NEW right, NEW top, Splits(t, u, p, type, right, top),
         p \in Leaves(t), NEW rows, Grown(t, rows, {p})
  PROVE  Grown(u, rows, {})
<1>1. t.rootPage # IX_NO_PAGE /\ u.rootPage # IX_NO_PAGE
  <2>1. t.rootPage \in IndexPages
    BY PageKinds DEF Splits, Branched
  <2>2. u.rootPage \in Allocated(u)
    BY SplitBranched DEF Branched
  <2> QED BY <2>1, <2>2, PageKinds
<1>2. /\ Stocked(t, {p}) /\ rows = LeafRows(t)
      /\ \E L, Q \in Seq(IndexPages) :
            /\ Threaded(t, L) /\ LeftmostPath(t, Q, L[1])
            /\ Shallow(t) => InOrder(t, L)
  BY <1>1 DEF Grown
<1>3. PICK L, Q \in Seq(IndexPages) : /\ Threaded(t, L) /\ LeftmostPath(t, Q, L[1])
                                      /\ Shallow(t) => InOrder(t, L)
  BY <1>2
<1>4. PICK i \in 1 .. Len(L) : L[i] = p
  BY <1>3 DEF Threaded, ToSet
<1>5. PICK e : e = i + 1
  OBVIOUS
<1>6. e \in 2 .. Len(L) + 1 /\ L[e - 1] = p
  BY <1>3, <1>4, <1>5
<1>7. PICK L2 : L2 = InsertAt(L, e, right)
  OBVIOUS
<1>8. Threaded(u, L2) /\ L2[1] = L[1] /\ L2 \in Seq(IndexPages)
  BY <1>3, <1>6, <1>7, SplitThreaded
<1>9. L[1] \in Leaves(t)
  BY <1>3, <1>4 DEF Threaded, ToSet
<1>10. PICK Q2 \in Seq(IndexPages) : LeftmostPath(u, Q2, L2[1])
  BY <1>3, <1>8, <1>9, SplitLeftmost
<1>11. Shallow(u) => InOrder(u, L2)
  BY <1>2, <1>3, <1>6, <1>7, SplitInOrder
<1>12. Stocked(u, {}) /\ rows = LeafRows(u)
  BY <1>2, SplitStocked
<1>13. Branched(u)
  BY SplitBranched
<1> QED BY <1>1, <1>8, <1>10, <1>11, <1>12, <1>13 DEF Grown
-----------------------------------------------------------------------------
(* Above a leaf are inner nodes only.                                      *)
LEMMA AncestryInner ==
  ASSUME NEW t, Branched(t), NEW p \in Allocated(t), NEW up, up = Ancestry(t, p)
  PROVE  /\ Len(up) \in Nat /\ Len(up) > 0 /\ up[1] = p
         /\ \A n \in 1 .. Len(up) : up[n] \in IndexPages /\ ~Gone(t, up[n])
         /\ \A n \in 2 .. Len(up) : up[n] \in InnerNodes(t)
<1>1. PICK succ : succ = [q \in Allocated(t) |-> t.node[q].parent]
  OBVIOUS
<1>2. DOMAIN succ = Allocated(t) /\ up = Chain(succ, p)
  BY <1>1 DEF Ancestry
<1>3. IsFiniteSet(DOMAIN succ)
  BY <1>2, PageKinds, FS_Subset
<1>4. /\ Len(up) \in Nat /\ (Len(up) > 0 => up[1] = p)
      /\ \A i \in 1 .. Len(up) : up[i] \in Allocated(t)
  BY <1>2, <1>3, ChainFacts
<1>5. /\ p \in DOMAIN succ => Len(up) > 0
      /\ \A i \in 1 .. Len(up) - 1 : up[i + 1] = succ[up[i]]
  BY <1>2, <1>3, ChainLinks
<1>6. ASSUME NEW n \in 2 .. Len(up) PROVE up[n] \in InnerNodes(t)
  <2>1. PICK i : i = n - 1
    OBVIOUS
  <2>2. i \in 1 .. Len(up) - 1 /\ i \in 1 .. Len(up) /\ i + 1 = n /\ n \in 1 .. Len(up)
    BY <1>4, <2>1
  <2>3. up[n] = t.node[up[i]].parent
    BY <1>1, <1>4, <1>5, <2>2
  <2>4. up[n] # IX_NO_PAGE
    BY <1>4, <2>2, PageKinds
  <2> QED BY <1>4, <2>2, <2>3, <2>4 DEF Branched
<1> QED BY <1>2, <1>4, <1>5, <1>6, PageKinds

(* Splits from a full leaf up: no leaf is full in the end, and the rows    *)
(* are the same.                                                           *)
LEMMA SplitUpGrown ==
  ASSUME NEW t, Framed(t), NEW rows, NEW p \in Leaves(t), Grown(t, rows, {p}),
         t.rootPage # IX_NO_PAGE, Len(t.node[p].keys) = degree,
         NEW up, up = Ancestry(t, p), Cardinality(FreePages(t)) > 2 * Len(up),
         NEW u, u = SplitUp(t, up)[Len(up)]
  PROVE  Grown(u, rows, {})
<1>1. Branched(t) /\ p \in Allocated(t) /\ LeafHas(t.node[p].keys, t.node[p].vals)
  BY PageKinds DEF Grown, Stocked
<1>2. /\ Len(up) \in Nat /\ Len(up) > 0 /\ up[1] = p
      /\ \A n \in 1 .. Len(up) : up[n] \in IndexPages /\ ~Gone(t, up[n])
      /\ \A n \in 2 .. Len(up) : up[n] \in InnerNodes(t)
  BY <1>1, AncestryInner
<1>3. PICK m \in Nat : m = Len(up) /\ m > 0
  BY <1>2
<1>4. PICK c \in Nat : c = Cardinality(FreePages(t))
  BY FreeCountType
<1>5. PICK w : w = SplitUp(t, up)
  OBVIOUS
<1>6. w[0] = t /\ \A n \in 1 .. m : w[n] = SplitIfFull(w[n - 1], up[n], n)
  BY <1>3, <1>5, SplitUpIs
<1> DEFINE P(n) == /\ Framed(w[n]) /\ Cardinality(FreePages(w[n])) >= c - 2 * n
                   /\ w[n].rootPage # IX_NO_PAGE
                   /\ Grown(w[n], rows, IF n = 0 THEN {p} ELSE {})
                   /\ InnerNodes(t) \subseteq InnerNodes(w[n])
           T == {n \in 0 .. m : ~P(n)}
<1>7. SUFFICES ASSUME T # {} PROVE FALSE
  BY <1>3, <1>5
<1>8. PICK n \in T : \A j \in T : n <= j
  <2>1. T \in SUBSET Nat
    OBVIOUS
  <2> HIDE DEF T
  <2> QED BY <1>7, <2>1, LeastNatural
<1>9. n \in 0 .. m /\ ~P(n)
  BY <1>8
<1>10. P(0)
  BY <1>4, <1>6
<1>11. n # 0
  BY <1>9, <1>10
<1>12. n - 1 \in 0 .. m /\ n \in 1 .. m /\ ~(n <= n - 1)
  BY <1>9, <1>11
<1>13. P(n - 1)
  BY <1>8, <1>12
<1>14. PICK v, q : v = w[n - 1] /\ q = up[n]
  OBVIOUS
<1>15. /\ Framed(v) /\ Cardinality(FreePages(v)) >= c - 2 * (n - 1)
       /\ v.rootPage # IX_NO_PAGE
       /\ n = 1 => Grown(v, rows, {p})
       /\ n # 1 => Grown(v, rows, {})
       /\ InnerNodes(t) \subseteq InnerNodes(v)
  BY <1>12, <1>13, <1>14
<1>16. w[n] = SplitIfFull(v, q, n)
  BY <1>6, <1>12, <1>14
<1>17. n = 1 => v = t /\ q = p
  BY <1>2, <1>6, <1>14
<1>18. n # 1 => q \in InnerNodes(v) /\ q \notin Leaves(v)
  <2> SUFFICES ASSUME n # 1 PROVE q \in InnerNodes(v) /\ q \notin Leaves(v)
    OBVIOUS
  <2>1. n \in 2 .. Len(up)
    BY <1>3, <1>12
  <2>2. q \in InnerNodes(v)
    BY <1>2, <1>14, <1>15, <2>1
  <2> QED BY <2>2, PageKinds
<1>19. q \in Allocated(v) /\ q \in IndexPages /\ ~Gone(v, q)
  BY <1>1, <1>17, <1>18, PageKinds
<1>20. Branched(v)
  BY <1>15 DEF Grown
<1>21. Cardinality(FreePages(v)) \in Nat
  BY FreeCountType
<1>22. CASE Len(v.node[q].keys) < degree
  <2>1. w[n] = v
    BY <1>16, <1>22 DEF SplitIfFull
  <2>2. Cardinality(FreePages(v)) >= c - 2 * n
    BY <1>4, <1>12, <1>15, <1>21
  <2>3. n # 1
    BY <1>17, <1>22, IndexAssumption
  <2> QED BY <1>9, <1>11, <1>15, <2>1, <2>2, <2>3
<1>23. CASE ~(Len(v.node[q].keys) < degree)
  <2>1. PICK type : type = IF n = 1 THEN "LEAF" ELSE "NODE"
    OBVIOUS
  <2>2. type # "NONE"
    BY <2>1
  <2>3. w[n] = SplitNode(v, q, type)
    BY <1>16, <1>23, <2>1 DEF SplitIfFull
  <2>4. Cardinality(FreePages(v)) >= 2
    BY <1>3, <1>4, <1>12, <1>15, <1>21
  <2>5. /\ Framed(w[n]) /\ Cardinality(FreePages(w[n])) >= Cardinality(FreePages(v)) - 2
    BY <1>15, <1>19, <2>2, <2>3, <2>4, SplitNodeKeeps
  <2>6. Cardinality(FreePages(w[n])) \in Nat
    BY FreeCountType
  <2>7. Cardinality(FreePages(w[n])) >= c - 2 * n
    BY <1>4, <1>12, <1>15, <1>21, <2>5, <2>6
  <2>8. v.node[q].parent # IX_NO_PAGE =>
          v.node[q].parent \in Allocated(v) /\ v.node[q].parent # q
    BY <1>19, <1>20, PageKinds DEF Branched
  <2>9. PICK s : s = w[n]
    OBVIOUS
  <2>10. PICK right, top : SplitInto(v, s, q, type, right, top)
    BY <1>15, <1>19, <2>2, <2>3, <2>4, <2>8, <2>9, SplitIs
  <2>11. Splits(v, s, q, type, right, top)
    <3>1. CASE n = 1
      BY <1>1, <1>15, <1>17, <1>19, <1>20, <2>1, <2>10, <3>1 DEF Splits
    <3>2. CASE n # 1
      <4>1. Len(v.node[q].keys) >= degree
        <5>1. InnerHas(v.node[q])
          BY <1>18, <1>20, <3>2 DEF Branched
        <5>2. Len(v.node[q].keys) \in Nat
          BY <5>1 DEF InnerHas
        <5> QED BY <1>23, <5>2, IndexAssumption
      <4> QED BY <1>15, <1>18, <1>19, <1>20, <2>1, <2>10, <3>2, <4>1 DEF Splits
    <3> QED BY <3>1, <3>2
  <2>12. Grown(s, rows, {})
    <3>1. CASE n = 1
      BY <1>15, <1>17, <2>11, <3>1, SplitLeafGrown
    <3>2. CASE n # 1
      BY <1>15, <1>18, <2>11, <3>2, SplitInnerGrown
    <3> QED BY <3>1, <3>2
  <2>13. InnerNodes(v) \subseteq InnerNodes(s)
    BY <2>11, SplitKinds
  <2>14. s.rootPage # IX_NO_PAGE
    <3>1. s.rootPage \in Allocated(s)
      BY <2>11, SplitBranched DEF Branched
    <3> QED BY <3>1, PageKinds
  <2>15. Grown(w[n], rows, IF n = 0 THEN {p} ELSE {})
    BY <1>11, <2>9, <2>12
  <2>16. InnerNodes(t) \subseteq InnerNodes(w[n]) /\ w[n].rootPage # IX_NO_PAGE
    BY <1>15, <2>9, <2>13, <2>14
  <2> QED BY <1>9, <2>5, <2>7, <2>15, <2>16
<1> QED BY <1>22, <1>23
-----------------------------------------------------------------------------
(* The key of a new row belongs in the leaf it is led to.                  *)
LEMMA LeafForBetween ==
  ASSUME NEW t, Branched(t), NEW L, Threaded(t, L), InOrder(t, L), NEW k \in Nat,
         NEW p, p = LeafFor(t, k), NEW i \in 1 .. Len(Kids(t)), Kids(t)[i] = p
  PROVE  Between(Seps(t), i, k)
<1>1. PICK seps, root : seps = Seps(t) /\ root = t.rootPage
  OBVIOUS
<1>2. /\ L = Kids(t) /\ Sorted(seps) /\ Len(L) = Len(seps) + 1 /\ Len(seps) \in Nat
      /\ L \in Seq(IndexPages) /\ IsInjective(L) /\ ToSet(L) = Leaves(t)
  BY <1>1, SortedFacts DEF InOrder, Threaded
<1>3. CASE IsRoot(t)
  <2>1. PICK child : child = [q \in InnerNodes(t) |->
                               t.node[q].vals[InsertPos(t.node[q].keys, k)]]
    OBVIOUS
  <2>2. DOMAIN child = InnerNodes(t) /\ PathTo(t, k) = Down(child, root)
    BY <1>1, <2>1 DEF PathTo
  <2>3. IsFiniteSet(DOMAIN child)
    BY <2>2, PageKinds, FS_Subset
  <2>4. root \in InnerNodes(t) /\ seps = t.node[root].keys /\ L = t.node[root].vals
    <3>1. root \in IndexPages
      BY <1>1, PageKinds DEF Branched
    <3> QED BY <1>1, <1>2, <1>3, <3>1 DEF InnerNodes, IsRoot, Seps, Kids
  <2>5. PICK pos : pos = InsertPos(seps, k)
    OBVIOUS
  <2>6. pos \in 1 .. Len(seps) + 1 /\ \A j \in 1 .. Len(seps) : seps[j] < k <=> j < pos
    BY <1>2, <2>5, InsertPosPlace
  <2>7. child[root] = L[pos]
    BY <2>1, <2>4, <2>5
  <2>8. DOMAIN L = 1 .. Len(L)
    BY <1>2
  <2>9. L[pos] \in Leaves(t)
    BY <1>2, <2>6, <2>8 DEF ToSet
  <2>10. child[root] \notin DOMAIN child
    BY <2>2, <2>7, <2>9, PageKinds
  <2>11. PICK inner : inner = Chain(child, root)
    OBVIOUS
  <2>12. inner = <<root>>
    BY <2>2, <2>3, <2>4, <2>10, <2>11, ShortChains
  <2>13. inner # << >> /\ Last(inner) = root
    BY <2>12 DEF Last
  <2>14. PICK x : x = child[root]
    OBVIOUS
  <2>15. PathTo(t, k) = Append(<<root>>, x)
    BY <2>2, <2>11, <2>12, <2>13, <2>14 DEF Down
  <2>16. PICK path : path = Append(<<root>>, x)
    OBVIOUS
  <2>17. Len(path) = 2 /\ path[2] = x
    BY <2>16
  <2>18. p = x
    BY <2>15, <2>16, <2>17 DEF LeafFor, Last
  <2>19. i = pos
    <3>1. i \in DOMAIN L /\ pos \in DOMAIN L /\ L[i] = L[pos]
      BY <1>2, <2>6, <2>7, <2>8, <2>14, <2>18
    <3> QED BY <1>2, <3>1 DEF IsInjective
  <2>20. \A j \in 1 .. Len(seps) : seps[j] \in Nat
    BY <1>2, SortedFacts
  <2>21. i > 1 => seps[i - 1] <= k
    <3> SUFFICES ASSUME i > 1 PROVE seps[i - 1] <= k
      OBVIOUS
    <3>1. i - 1 \in 1 .. Len(seps) /\ i - 1 < pos
      BY <1>2, <2>6, <2>19
    <3> QED BY <2>6, <2>20, <3>1
  <2>22. i <= Len(seps) => k <= seps[i]
    <3> SUFFICES ASSUME i <= Len(seps) PROVE k <= seps[i]
      OBVIOUS
    <3>1. i \in 1 .. Len(seps) /\ ~(i < pos)
      BY <1>2, <2>6, <2>19
    <3> QED BY <2>6, <2>20, <3>1
  <2> QED BY <1>1, <2>21, <2>22 DEF Between
<1>4. CASE ~IsRoot(t)
  <2>1. seps = << >>
    BY <1>1, <1>4 DEF Seps
  <2>2. Len(seps) = 0 /\ Len(Kids(t)) = 1
    BY <1>2, <2>1
  <2>3. ~(i > 1) /\ ~(i <= Len(seps))
    BY <2>2
  <2> QED BY <1>1, <2>3 DEF Between
<1> QED BY <1>3, <1>4

(* A new row goes into its leaf, which may be full then.                   *)
FilledUp(t, f, p, rows) ==
  /\ Grown(f, rows, {p}) /\ Len(f.node[p].keys) \in 1 .. degree
  /\ Len(f.node[p].keys) < degree => Grown(f, rows, {})
  /\ p \in Leaves(f) /\ f.rootPage = t.rootPage

(* A key that no row has keeps the rows of the leaf apart and in order.    *)
LEMMA FilledGrown ==
  ASSUME NEW t, Framed(t), NEW rows, Grown(t, rows, {}), t.rootPage # IX_NO_PAGE,
         NEW r \in Rows, Key[r] \notin Keys(rows),
         NEW p, p = LeafFor(t, Key[r]), p \in Leaves(t), NEW f, f = Filled(t, p, r)
  PROVE  FilledUp(t, f, p, rows \cup {r})
<1>1. /\ Stocked(t, {}) /\ rows = LeafRows(t) /\ Branched(t)
      /\ \E L, Q \in Seq(IndexPages) :
            /\ Threaded(t, L) /\ LeftmostPath(t, Q, L[1])
            /\ Shallow(t) => InOrder(t, L)
  BY DEF Grown
<1>2. PICK L \in Seq(IndexPages) : Threaded(t, L) /\ (Shallow(t) => InOrder(t, L))
  BY <1>1
<1>3. PICK k \in Nat : k = Key[r]
  BY IndexAssumption
<1>4. PICK keys, vals, pos :
        keys = t.node[p].keys /\ vals = t.node[p].vals /\ pos = InsertPos(keys, Key[r])
  OBVIOUS
<1>5. PICK keys2, vals2 : keys2 = InsertAt(keys, pos, Key[r]) /\ vals2 = InsertAt(vals, pos, r)
  OBVIOUS
<1>6. LeafHas(keys, vals) /\ Len(keys) \in 1 .. degree /\ Len(keys) < degree
      /\ ToSet(vals) \subseteq rows
  BY <1>1, <1>4 DEF Stocked, LeafRows
<1>7. Key[r] \notin ToSet(keys)
  <2> SUFFICES ASSUME Key[r] \in ToSet(keys) PROVE FALSE
    OBVIOUS
  <2>1. PICK j \in 1 .. Len(keys) : keys[j] = Key[r]
    BY <1>6, LeafFacts
  <2>2. Key[vals[j]] = Key[r] /\ vals[j] \in ToSet(vals)
    BY <1>6, <2>1, LeafFacts
  <2> QED BY <1>6, <2>2 DEF Keys
<1>8. /\ LeafHas(keys2, vals2) /\ Len(keys2) = Len(keys) + 1
      /\ ToSet(keys2) = ToSet(keys) \cup {Key[r]} /\ ToSet(vals2) = ToSet(vals) \cup {r}
  BY <1>4, <1>5, <1>6, <1>7, LeafInsert
<1>9. p \in IndexPages /\ p \notin InnerNodes(t)
  BY PageKinds
<1>10. /\ f.rootPage = t.rootPage
       /\ \A q \in IndexPages :
            f.node[q] = IF q = p THEN WithRows(t.node[q], keys2, vals2) ELSE t.node[q]
  BY <1>4, <1>5, <1>9, FilledFacts
<1>11. PICK x, y : x = t.node[p] /\ y = f.node[p]
  OBVIOUS
<1>12. /\ y.type = x.type /\ y.keys = keys2 /\ y.vals = vals2
       /\ y.next = x.next /\ y.parent = x.parent
  <2>1. y = WithRows(x, keys2, vals2)
    BY <1>9, <1>10, <1>11
  <2> QED BY <2>1, WithRowsFacts
<1>13. SameShape(t, f)
  <2>1. ASSUME NEW q \in IndexPages
        PROVE  /\ f.node[q].type = t.node[q].type /\ f.node[q].parent = t.node[q].parent
               /\ f.node[q].next = t.node[q].next
               /\ q \in InnerNodes(t) =>
                    f.node[q].keys = t.node[q].keys /\ f.node[q].vals = t.node[q].vals
    <3>1. CASE q = p
      BY <1>9, <1>11, <1>12, <3>1
    <3>2. CASE q # p
      BY <1>10, <3>2
    <3> QED BY <3>1, <3>2
  <2> QED BY <1>10, <2>1 DEF SameShape
<1>14. \A q \in Leaves(t) : q # p => SameRows(f.node[q], t.node[q])
  BY <1>10, PageKinds DEF SameRows
<1>15. r \notin rows
  BY DEF Keys
<1>16. ToSet(vals2) \cap (rows \ ToSet(vals)) = {}
  BY <1>8, <1>15
<1>17. rows \cup {r} = (rows \ ToSet(vals)) \cup ToSet(vals2)
  BY <1>6, <1>8
<1>18. Len(keys2) \in 1 .. degree
  BY <1>6, <1>8, IndexAssumption
<1>19. ASSUME Shallow(t), NEW i \in 1 .. Len(Kids(t)), Kids(t)[i] = p, NEW h \in ToSet(keys2)
       PROVE  Between(Seps(t), i, h)
  <2>1. InOrder(t, L)
    BY <1>2, <1>19
  <2>2. CASE h \in ToSet(keys)
    BY <1>4, <1>19, <2>1, <2>2 DEF InOrder
  <2>3. CASE h = Key[r]
    <3>1. p = LeafFor(t, k) /\ h = k
      BY <1>3, <2>3
    <3> QED BY <1>1, <1>2, <1>19, <2>1, <3>1, LeafForBetween
  <2> QED BY <1>8, <1>19, <2>2, <2>3
<1>20. ASSUME NEW full, Len(keys2) < degree \/ p \in full
       PROVE  Grown(f, rows \cup {r}, full)
  <2>1. keys2 = f.node[p].keys /\ vals2 = f.node[p].vals
    BY <1>11, <1>12
  <2>2. ToSet(vals2) \cap (rows \ ToSet(t.node[p].vals)) = {}
    BY <1>4, <1>16
  <2>3. Shallow(t) => \A i \in 1 .. Len(Kids(t)) :
                         Kids(t)[i] = p => \A h \in ToSet(keys2) : Between(Seps(t), i, h)
    BY <1>19
  <2>4. Grown(f, (rows \ ToSet(t.node[p].vals)) \cup ToSet(vals2), full)
    BY <1>8, <1>13, <1>14, <1>18, <1>20, <2>1, <2>2, <2>3, Restocked
  <2> QED BY <1>4, <1>17, <2>4
<1>21. Grown(f, rows \cup {r}, {p}) /\ (Len(keys2) < degree => Grown(f, rows \cup {r}, {}))
  BY <1>20
<1>22. p \in Leaves(f)
  BY <1>13, SameShapeKeeps
<1> QED BY <1>10, <1>11, <1>12, <1>18, <1>21, <1>22 DEF FilledUp

(* The first row makes a tree of one leaf.                                 *)
LEMMA NewTreeGrown ==
  ASSUME NEW t, Framed(t), FreePages(t) # {}, Allocated(t) = {}, NEW r \in Rows,
         NEW u, u = NewTree(t, r)
  PROVE  Grown(u, {r}, {})
<1>1. PICK x : x = Node("ROOT_LEAF", <<Key[r]>>, <<r>>, IX_NO_PAGE, IX_NO_PAGE, IX_NO_PAGE)
  OBVIOUS
<1>2. IsNode(x) /\ x.type = "ROOT_LEAF" /\ x.keys = <<Key[r]>> /\ x.vals = <<r>>
      /\ x.parent = IX_NO_PAGE /\ x.next = IX_NO_PAGE
  BY <1>1, NodeFacts
<1>3. PICK a, root : a = WithPage(t, x) /\ root = NewPage(t)
  OBVIOUS
<1>4. /\ Framed(a) /\ root \in FreePages(t)
      /\ \A q \in IndexPages : a.node[q] = IF q = root THEN x ELSE t.node[q]
  <2>1. x.type # "NONE"
    BY <1>2
  <2> QED BY <1>2, <1>3, <2>1, WithPageFacts
<1>5. u = RootMoved(a, root)
  BY <1>1, <1>3 DEF NewTree
<1>6. u.rootPage = root /\ u.node = a.node
  BY <1>4, <1>5, RootMovedFacts
<1>7. root \in IndexPages /\ root # IX_NO_PAGE
  BY <1>4, PageKinds DEF FreePages
<1>8. u.node[root] = x /\ \A q \in IndexPages : q # root => u.node[q].type = "NONE"
  BY <1>4, <1>6, <1>7 DEF Allocated, FreePages, Gone
<1>9. Leaves(u) = {root} /\ InnerNodes(u) = {} /\ Allocated(u) = {root}
  <2>1. Leaves(u) = {root}
    BY <1>2, <1>7, <1>8 DEF Leaves, IsLeaf
  <2>2. InnerNodes(u) = {}
    BY <1>2, <1>7, <1>8 DEF InnerNodes
  <2>3. Allocated(u) = {root}
    BY <1>2, <1>7, <1>8 DEF Allocated, FreePages, Gone
  <2> QED BY <2>1, <2>2, <2>3
<1>10. PICK k \in Nat : k = Key[r]
  BY IndexAssumption
<1>11. PICK keys, vals : keys = <<k>> /\ vals = <<r>>
  OBVIOUS
<1>12. Len(keys) = 1 /\ keys[1] = k /\ keys \in Seq(Nat) /\ vals \in Seq(Rows) /\ Len(vals) = 1
       /\ vals[1] = r
  BY <1>11
<1>13. LeafHas(keys, vals)
  <2>1. \A i \in 1 .. 1 : i = 1
    OBVIOUS
  <2>2. Sorted(keys)
    BY <1>12, <2>1 DEF Sorted
  <2>3. \A i \in 1 .. Len(keys) : Key[vals[i]] = keys[i]
    BY <1>10, <1>12, <2>1
  <2> QED BY <1>12, <2>2, <2>3 DEF LeafHas
<1>14. u.node[root].keys = keys /\ u.node[root].vals = vals
  BY <1>2, <1>8, <1>10, <1>11
<1>15. Stocked(u, {})
  <2>1. 1 \in 1 .. degree /\ 1 < degree
    BY IndexAssumption
  <2> QED BY <1>9, <1>12, <1>13, <1>14, <2>1 DEF Stocked
<1>16. LeafRows(u) = {r}
  <2>1. ToSet(vals) = {r}
    BY <1>11 DEF ToSet
  <2> QED BY <1>9, <1>14, <2>1 DEF LeafRows
<1>17. Branched(u)
  BY <1>2, <1>6, <1>8, <1>9 DEF Branched
<1>18. PICK L : L = <<root>>
  OBVIOUS
<1>19. L \in Seq(IndexPages) /\ Len(L) = 1 /\ L[1] = root /\ L # << >> /\ DOMAIN L = {1}
  BY <1>7, <1>18
<1>20. IsInjective(L) /\ ToSet(L) = {root}
  BY <1>19 DEF IsInjective, ToSet
<1>21. Threaded(u, L)
  <2>1. \A i \in 1 .. 1 : i = 1
    OBVIOUS
  <2> QED BY <1>2, <1>8, <1>9, <1>19, <1>20, <2>1 DEF Threaded
<1>22. LeftmostPath(u, L, L[1])
  <2>1. ~\E i \in 1 .. 1 - 1 : TRUE
    OBVIOUS
  <2> QED BY <1>6, <1>19, <1>20, <2>1 DEF LeftmostPath
<1>23. InOrder(u, L)
  <2>1. ~IsRoot(u)
    BY <1>2, <1>6, <1>8 DEF IsRoot
  <2>2. PICK seps : seps = Seps(u)
    OBVIOUS
  <2>3. seps = << >> /\ Kids(u) = L
    BY <1>6, <1>18, <2>1, <2>2 DEF Seps, Kids
  <2>4. Len(seps) = 0 /\ Sorted(seps)
    BY <2>3 DEF Sorted
  <2>5. \A i \in 1 .. 1 : ~(i > 1) /\ ~(i <= 0)
    OBVIOUS
  <2>6. \A i \in 1 .. Len(L) : \A h \in ToSet(u.node[L[i]].keys) : Between(seps, i, h)
    BY <1>19, <2>4, <2>5 DEF Between
  <2> QED BY <1>9, <1>19, <2>2, <2>3, <2>4, <2>6 DEF InOrder
<1> QED BY <1>6, <1>7, <1>15, <1>16, <1>17, <1>19, <1>21, <1>22, <1>23 DEF Grown

(* With a new key the tree has one row more.                               *)
LEMMA InsertedGrown ==
  ASSUME NEW t, Framed(t), NEW rows, Grown(t, rows, {}), NEW r \in Rows,
         Key[r] \notin Keys(rows),
         t.rootPage # IX_NO_PAGE => LeafFor(t, Key[r]) \in Leaves(t),
         Cardinality(FreePages(t)) > 2 * Len(Ancestry(t, LeafFor(t, Key[r]))),
         NEW u, u = Inserted(t, r)
  PROVE  Grown(u, rows \cup {r}, {})
<1>1. PICK p : p = LeafFor(t, Key[r])
  OBVIOUS
<1>2. Cardinality(FreePages(t)) > 2 * Len(Ancestry(t, p))
  BY <1>1
<1>3. CASE t.rootPage = IX_NO_PAGE
  <2>1. FreePages(t) # {}
    <3>1. Len(Ancestry(t, p)) \in Nat /\ Cardinality(FreePages(t)) \in Nat
      BY AncestryFacts, FreeCountType
    <3>2. Cardinality(FreePages(t)) > 0
      BY <1>2, <3>1
    <3> QED BY <3>2, FreeCountType
  <2>2. u = NewTree(t, r)
    BY <1>3 DEF Inserted
  <2>3. rows = {} /\ Allocated(t) = {}
    BY <1>3 DEF Grown
  <2>4. Grown(u, {r}, {})
    BY <2>1, <2>2, <2>3, NewTreeGrown
  <2>5. rows \cup {r} = {r}
    BY <2>3
  <2> QED BY <2>4, <2>5
<1>4. CASE t.rootPage # IX_NO_PAGE
  <2>1. Stocked(t, {}) /\ rows = LeafRows(t) /\ Branched(t) /\ p \in Leaves(t)
    BY <1>1, <1>4 DEF Grown
  <2>2. ~(t.node[t.rootPage].type = "ROOT_LEAF" /\ Key[r] \in ToSet(t.node[t.rootPage].keys))
    <3> SUFFICES ASSUME t.node[t.rootPage].type = "ROOT_LEAF",
                        Key[r] \in ToSet(t.node[t.rootPage].keys)
                 PROVE  FALSE
      OBVIOUS
    <3>1. PICK root : root = t.rootPage
      OBVIOUS
    <3>2. root \in Leaves(t)
      BY <2>1, <3>1, PageKinds DEF Branched, Leaves, IsLeaf
    <3>3. LeafHas(t.node[root].keys, t.node[root].vals)
      BY <2>1, <3>2 DEF Stocked
    <3>4. PICK j \in 1 .. Len(t.node[root].keys) : t.node[root].keys[j] = Key[r]
      BY <3>1, <3>3, LeafFacts
    <3>5. /\ Key[t.node[root].vals[j]] = Key[r]
          /\ t.node[root].vals[j] \in ToSet(t.node[root].vals)
      BY <3>3, <3>4, LeafFacts
    <3>6. t.node[root].vals[j] \in rows
      BY <2>1, <3>2, <3>5 DEF LeafRows
    <3> QED BY <3>5, <3>6 DEF Keys
  <2>3. PICK f : f = Filled(t, p, r)
    OBVIOUS
  <2>4. u = InLeaf(t, p, r)
    BY <1>1, <1>4, <2>2 DEF Inserted
  <2>5. u = IF Len(f.node[p].keys) < degree THEN f ELSE spliteTwoNodes(f, p)
    BY <2>3, <2>4, InLeafIs
  <2>6. /\ Grown(f, rows \cup {r}, {p}) /\ Len(f.node[p].keys) \in 1 .. degree
        /\ Len(f.node[p].keys) < degree => Grown(f, rows \cup {r}, {})
        /\ p \in Leaves(f) /\ f.rootPage = t.rootPage
    <3>1. p \in Leaves(t)
      BY <2>1
    <3>2. FilledUp(t, f, p, rows \cup {r})
      BY <1>1, <1>4, <2>3, <3>1, FilledGrown
    <3> QED BY <3>2 DEF FilledUp
  <2>7. CASE Len(f.node[p].keys) < degree
    BY <2>5, <2>6, <2>7
  <2>8. CASE ~(Len(f.node[p].keys) < degree)
    <3>1. Len(f.node[p].keys) = degree
      BY <2>6, <2>8, IndexAssumption
    <3>2. PICK up, all : up = Ancestry(f, p) /\ all = rows \cup {r}
      OBVIOUS
    <3>3. u = SplitUp(f, up)[Len(up)]
      BY <2>5, <2>8, <3>2 DEF spliteTwoNodes
    <3>4. p \in IndexPages
      BY <2>1, PageKinds
    <3>5. PICK pos : pos = InsertPos(t.node[p].keys, Key[r])
      OBVIOUS
    <3>6. /\ Framed(f) /\ FreePages(f) = FreePages(t)
          /\ \A q \in IndexPages :
               f.node[q] = IF q = p THEN WithRows(t.node[q], InsertAt(t.node[p].keys, pos, Key[r]),
                                                  InsertAt(t.node[p].vals, pos, r))
                           ELSE t.node[q]
      BY <2>3, <3>4, <3>5, FilledFacts
    <3>7. \A q \in IndexPages : f.node[q].parent = t.node[q].parent
      <4> TAKE q \in IndexPages
      <4>1. CASE q = p
        BY <3>6, <4>1, WithRowsFacts
      <4>2. CASE q # p
        BY <3>6, <4>2
      <4> QED BY <4>1, <4>2
    <3>8. up = Ancestry(t, p)
      BY <3>2, <3>6, <3>7, AncestrySame
    <3>9. Cardinality(FreePages(f)) > 2 * Len(up)
      BY <1>2, <3>6, <3>8
    <3>10. Grown(f, all, {p}) /\ f.rootPage # IX_NO_PAGE
      BY <1>4, <2>6, <3>2
    <3>11. Grown(u, all, {})
      BY <2>6, <3>1, <3>2, <3>3, <3>6, <3>9, <3>10, SplitUpGrown
    <3> QED BY <3>2, <3>11
  <2> QED BY <2>7, <2>8
<1> QED BY <1>3, <1>4

(* deleteEntry finds its row in a leaf,                                    *)
LEMMA SearchLeafGrown ==
  ASSUME NEW t, NEW rows, Grown(t, rows, {}), Shallow(t), NEW r \in Rows, Finds(t, r),
         NEW p, p = SearchLeaf(t, Key[r]), NEW pos, pos = Min(KeyPositions(t, Key[r]))
  PROVE  /\ t.rootPage # IX_NO_PAGE /\ p \in Leaves(t)
         /\ pos \in 1 .. Len(t.node[p].keys) /\ t.node[p].vals[pos] = r
<1>1. t.rootPage # IX_NO_PAGE
  BY DEF Finds, KeyPositions
<1>2. /\ Stocked(t, {}) /\ Branched(t)
      /\ \E L, Q \in Seq(IndexPages) :
            /\ Threaded(t, L) /\ LeftmostPath(t, Q, L[1])
            /\ Shallow(t) => InOrder(t, L)
  BY <1>1 DEF Grown
<1>3. PICK L \in Seq(IndexPages) : Threaded(t, L) /\ InOrder(t, L)
  BY <1>2
<1>4. PICK k \in Nat : k = Key[r]
  BY IndexAssumption
<1>5. PICK root : root = t.rootPage
  OBVIOUS
<1>6. root \in IndexPages /\ t.node[root].type \in {"ROOT", "ROOT_LEAF"}
  BY <1>2, <1>5, PageKinds DEF Branched
<1>7. p \in Leaves(t)
  <2>1. CASE t.node[root].type = "ROOT_LEAF"
    <3>1. p = root
      BY <1>5, <2>1 DEF SearchLeaf
    <3> QED BY <1>6, <2>1, <3>1 DEF Leaves, IsLeaf
  <2>2. CASE t.node[root].type = "ROOT"
    <3>1. PICK seps, i : seps = t.node[root].keys /\ i = SearchPos(seps, k)
      OBVIOUS
    <3>2. t.node[root].type # "ROOT_LEAF" /\ IsRoot(t)
      BY <1>5, <2>2 DEF IsRoot
    <3>3. p = t.node[root].vals[i]
      BY <1>4, <1>5, <3>1, <3>2 DEF SearchLeaf
    <3>4. seps = Seps(t) /\ L = t.node[root].vals /\ Sorted(seps) /\ Len(L) = Len(seps) + 1
      BY <1>3, <1>5, <3>1, <3>2 DEF InOrder, Seps, Kids
    <3>5. i \in 1 .. Len(L)
      BY <3>1, <3>4, SearchPosFacts
    <3>6. L[i] \in ToSet(L)
      BY <3>5 DEF ToSet
    <3> QED BY <1>3, <3>3, <3>4, <3>6 DEF Threaded
  <2> QED BY <1>6, <2>1, <2>2
<1>8. LeafHas(t.node[p].keys, t.node[p].vals)
  BY <1>2, <1>7 DEF Stocked
<1>9. PICK P : P = KeyPositions(t, k)
  OBVIOUS
<1>10. P = {j \in DOMAIN t.node[p].keys : t.node[p].keys[j] = k}
  BY <1>1, <1>4, <1>9 DEF KeyPositions
<1>11. P \in SUBSET Nat /\ P \subseteq 1 .. Len(t.node[p].keys)
  BY <1>8, <1>10, LeafFacts
<1>12. P # {} /\ t.node[p].vals[Min(P)] = r
  BY <1>4, <1>9 DEF Finds
<1>13. Min(P) \in P
  <2>1. PICK m \in P : \A n \in P : m <= n
    BY <1>11, <1>12, LeastNatural
  <2> QED BY <2>1 DEF Min
<1> QED BY <1>1, <1>4, <1>7, <1>9, <1>11, <1>12, <1>13

(* and takes it out there.                                                 *)
LEMMA EmptiedFacts ==
  ASSUME NEW t, Framed(t), NEW r, NEW p \in IndexPages, p = SearchLeaf(t, Key[r]),
         NEW pos, pos = Min(KeyPositions(t, Key[r])), NEW u, u = Emptied(t, r)
  PROVE  /\ Framed(u) /\ u.rootPage = t.rootPage /\ u.modified = t.modified
         /\ \A q \in IndexPages :
              u.node[q] = IF q = p THEN WithRows(t.node[q], RemoveAt(t.node[p].keys, pos),
                                                 RemoveAt(t.node[p].vals, pos))
                          ELSE t.node[q]
<1>1. PICK keys2, a : keys2 = RemoveAt(t.node[p].keys, pos) /\ a = Rekeyed(t, p, keys2)
  OBVIOUS
<1>2. PICK v : v = RemoveAt(a.node[p].vals, pos)
  OBVIOUS
<1>3. PICK w : w = Refilled(t, p, keys2, v)
  OBVIOUS
<1>4. u = w
  <2>1. a = [t EXCEPT !.node[p].keys = RemoveAt(@, pos)]
    BY <1>1 DEF Rekeyed, Put, SetKeys
  <2>2. u = [[t EXCEPT !.node[p].keys = RemoveAt(@, pos)]
               EXCEPT !.node[p].vals = RemoveAt(@, pos)]
    BY DEF Emptied
  <2>3. w = Put(a, p, SetVals(a.node[p], v))
    BY <1>1, <1>3 DEF Refilled
  <2> QED BY <1>2, <2>1, <2>2, <2>3 DEF Put, SetVals
<1>5. /\ Framed(w) /\ w.rootPage = t.rootPage /\ w.modified = t.modified
      /\ w.disposed = t.disposed /\ FreePages(w) = FreePages(t)
      /\ Rekeyed(t, p, keys2).node[p].vals = t.node[p].vals
      /\ \A q \in IndexPages :
           w.node[q] = IF q = p THEN WithRows(t.node[q], keys2, v) ELSE t.node[q]
  BY <1>3, RefillFacts
<1>6. v = RemoveAt(t.node[p].vals, pos)
  BY <1>1, <1>2, <1>5
<1> QED BY <1>1, <1>4, <1>5, <1>6

(* If it was not the last one of the leaf, the tree has one row less.      *)
LEMMA EmptiedGrown ==
  ASSUME NEW t, Framed(t), NEW rows, Grown(t, rows, {}), Shallow(t), NEW r \in Rows, Finds(t, r),
         NEW p, p = SearchLeaf(t, Key[r]), NEW u, u = Emptied(t, r), u.node[p].keys # << >>
  PROVE  /\ Framed(u) /\ u.rootPage = t.rootPage /\ u.modified = t.modified
         /\ Grown(u, rows \ {r}, {})
<1>1. PICK pos : pos = Min(KeyPositions(t, Key[r]))
  OBVIOUS
<1>2. /\ t.rootPage # IX_NO_PAGE /\ p \in Leaves(t)
      /\ pos \in 1 .. Len(t.node[p].keys) /\ t.node[p].vals[pos] = r
  BY <1>1, SearchLeafGrown
<1>3. /\ Stocked(t, {}) /\ rows = LeafRows(t)
      /\ \E L, Q \in Seq(IndexPages) :
            /\ Threaded(t, L) /\ LeftmostPath(t, Q, L[1])
            /\ Shallow(t) => InOrder(t, L)
  BY <1>2 DEF Grown
<1>4. PICK L \in Seq(IndexPages) : InOrder(t, L)
  BY <1>3
<1>5. PICK keys, vals : keys = t.node[p].keys /\ vals = t.node[p].vals
  OBVIOUS
<1>6. PICK keys2, vals2 : keys2 = RemoveAt(keys, pos) /\ vals2 = RemoveAt(vals, pos)
  OBVIOUS
<1>7. /\ LeafHas(keys, vals) /\ Len(keys) \in 1 .. degree /\ Len(keys) < degree
      /\ ToSet(vals) \subseteq rows /\ pos \in 1 .. Len(keys) /\ vals[pos] = r
  BY <1>2, <1>3, <1>5 DEF Stocked, LeafRows
<1>8. /\ LeafHas(keys2, vals2) /\ Len(keys2) = Len(keys) - 1
      /\ ToSet(keys2) = ToSet(keys) \ {keys[pos]} /\ ToSet(vals2) = ToSet(vals) \ {vals[pos]}
  BY <1>6, <1>7, LeafRemove
<1>9. p \in IndexPages /\ p \notin InnerNodes(t)
  BY <1>2, PageKinds
<1>10. /\ Framed(u) /\ u.rootPage = t.rootPage /\ u.modified = t.modified
       /\ \A q \in IndexPages :
            u.node[q] = IF q = p THEN WithRows(t.node[q], keys2, vals2) ELSE t.node[q]
  BY <1>1, <1>5, <1>6, <1>9, EmptiedFacts
<1>11. PICK x, y : x = t.node[p] /\ y = u.node[p]
  OBVIOUS
<1>12. /\ y.type = x.type /\ y.keys = keys2 /\ y.vals = vals2
       /\ y.next = x.next /\ y.parent = x.parent
  <2>1. y = WithRows(x, keys2, vals2)
    BY <1>9, <1>10, <1>11
  <2> QED BY <2>1, WithRowsFacts
<1>13. SameShape(t, u)
  <2>1. ASSUME NEW q \in IndexPages
        PROVE  /\ u.node[q].type = t.node[q].type /\ u.node[q].parent = t.node[q].parent
               /\ u.node[q].next = t.node[q].next
               /\ q \in InnerNodes(t) =>
                    u.node[q].keys = t.node[q].keys /\ u.node[q].vals = t.node[q].vals
    <3>1. CASE q = p
      BY <1>9, <1>11, <1>12, <3>1
    <3>2. CASE q # p
      BY <1>10, <3>2
    <3> QED BY <3>1, <3>2
  <2> QED BY <1>10, <2>1 DEF SameShape
<1>14. \A q \in Leaves(t) : q # p => SameRows(u.node[q], t.node[q])
  BY <1>10, PageKinds DEF SameRows
<1>15. ToSet(vals2) \cap (rows \ ToSet(vals)) = {}
  BY <1>8
<1>16. rows \ {r} = (rows \ ToSet(vals)) \cup ToSet(vals2)
  <2>1. r \in ToSet(vals)
    BY <1>7, LeafFacts
  <2> QED BY <1>7, <1>8, <2>1
<1>17. Len(keys2) \in 1 .. degree /\ Len(keys2) < degree
  <2>1. Len(keys2) # 0
    <3>1. keys2 # << >> /\ Sorted(keys2)
      BY <1>8, <1>11, <1>12 DEF LeafHas
    <3> QED BY <3>1 DEF Sorted
  <2> QED BY <1>7, <1>8, <2>1, IndexAssumption
<1>18. \A i \in 1 .. Len(Kids(t)) :
         Kids(t)[i] = p => \A h \in ToSet(keys2) : Between(Seps(t), i, h)
  BY <1>4, <1>5, <1>8 DEF InOrder
<1>19. keys2 = u.node[p].keys /\ vals2 = u.node[p].vals
  BY <1>11, <1>12
<1>20. ToSet(vals2) \cap (rows \ ToSet(t.node[p].vals)) = {}
  BY <1>5, <1>15
<1>21. PICK full : full = {}
  OBVIOUS
<1>22. Grown(u, (rows \ ToSet(t.node[p].vals)) \cup ToSet(vals2), full)
  BY <1>2, <1>8, <1>13, <1>14, <1>17, <1>18, <1>19, <1>20, Restocked
<1>23. Grown(u, rows \ {r}, {})
  BY <1>5, <1>16, <1>21, <1>22
<1> QED BY <1>10, <1>23

(* The header of the file does not matter to the tree.                     *)
LEMMA SameGrown ==
  ASSUME NEW t, NEW u, u.rootPage = t.rootPage, u.node = t.node, NEW rows, Grown(t, rows, {})
  PROVE  Grown(u, rows, {})
<1>1. SameShape(t, u)
  BY DEF SameShape
<1>2. /\ Leaves(u) = Leaves(t) /\ InnerNodes(u) = InnerNodes(t) /\ Allocated(u) = Allocated(t)
      /\ Shallow(u) <=> Shallow(t)
      /\ Branched(t) => Branched(u)
      /\ \A L : Threaded(t, L) => Threaded(u, L)
      /\ \A Q, leaf : LeftmostPath(t, Q, leaf) => LeftmostPath(u, Q, leaf)
  BY <1>1, SameShapeKeeps
<1>3. (Stocked(t, {}) => Stocked(u, {})) /\ LeafRows(u) = LeafRows(t)
  BY <1>2 DEF Stocked, LeafRows
<1>4. \A L : InOrder(t, L) => InOrder(u, L)
  BY <1>2 DEF InOrder, Kids, Seps, IsRoot
<1> QED BY <1>2, <1>3, <1>4 DEF Grown
-----------------------------------------------------------------------------
(* What has happened has not been undone.                                  *)
LEMMA Separated ==
  ASSUME NEW a, NEW b, a \subseteq b, b \subseteq {"separator"}
  PROVE  a \subseteq {"separator"}
  OBVIOUS

(* A new index is a tree without rows. *)
LEMMA InitGrownInv ==
  IndexInit => GrownInv
<1> SUFFICES ASSUME IndexInit PROVE GrownInv
  OBVIOUS
<1>1. IndexInv
  BY InitIndexInv
<1>2. trouble = {} /\ entries = {} /\ tree.rootPage = IX_NO_PAGE
      /\ tree.node = [p \in IndexPages |-> NoNode]
  BY DEF IndexInit
<1>3. trouble \subseteq {"leafGone"}
  BY <1>2
<1>4. Framed(tree) /\ (~tree.modified => page0 = tree.rootPage) /\ (~isOpen => ~tree.modified)
  BY <1>1, <1>3 DEF IndexInv
<1>5. NoNode.type = "NONE"
  BY DEF NoNode, Node
<1>6. Allocated(tree) = {}
  BY <1>2, <1>5 DEF Allocated, FreePages, Gone
<1>7. Grown(tree, entries, {})
  BY <1>2, <1>6 DEF Grown
<1> QED BY <1>4, <1>7 DEF GrownInv

(* A call that leaves what the header says, and what it does to the tree.  *)
LEMMA StepGrows ==
  ASSUME GrownInv, trouble \subseteq trouble', isOpen' = isOpen, page0' = page0, isOpen,
         trouble' \subseteq {"separator"} =>
           Framed(tree') /\ HeaderKept(tree, tree') /\ Grown(tree', entries', {})
  PROVE  GrownInv'
<1> SUFFICES ASSUME trouble' \subseteq {"separator"}
             PROVE  /\ Framed(tree')
                    /\ ~tree'.modified => page0' = tree'.rootPage
                    /\ ~isOpen' => ~tree'.modified
                    /\ Grown(tree', entries', {})
  BY DEF GrownInv
<1>1. trouble \subseteq {"separator"}
  BY Separated
<1>2. ~tree.modified => page0 = tree.rootPage
  BY <1>1 DEF GrownInv
<1>3. ~tree'.modified => page0' = tree'.rootPage
  BY <1>2 DEF HeaderKept
<1> QED BY <1>3

(* insertEntry keeps the tree grown, *)
LEMMA InsertEntryGrows ==
  ASSUME GrownInv, NEW r \in Rows, InsertEntry(r)
  PROVE  GrownInv'
<1>1. /\ isOpen /\ tree' = Inserted(tree, r) /\ entries' = entries \cup {r}
      /\ tree.rootPage # IX_NO_PAGE => LeafFor(tree, Key[r]) \in Leaves(tree)
      /\ Cardinality(FreePages(tree)) > 2 * Len(Ancestry(tree, LeafFor(tree, Key[r])))
      /\ isOpen' = isOpen /\ page0' = page0
      /\ trouble' = trouble \cup (IF Key[r] \in Keys(entries) THEN {"duplicate"} ELSE {})
                      \cup (IF Key[r] \in Separators(tree) THEN {"separator"} ELSE {})
  BY DEF InsertEntry, Usable
<1>2. trouble \subseteq trouble'
  BY <1>1
<1>3. ASSUME trouble' \subseteq {"separator"}
      PROVE  /\ Framed(tree') /\ HeaderKept(tree, tree')
             /\ Grown(tree', entries', {})
  <2>1. trouble \subseteq {"separator"}
    BY <1>2, <1>3, Separated
  <2>2. Framed(tree) /\ Grown(tree, entries, {})
    BY <2>1 DEF GrownInv
  <2>3. Key[r] \notin Keys(entries)
    <3>1. "duplicate" \notin trouble'
      BY <1>3
    <3> QED BY <1>1, <3>1
  <2>4. PICK u : u = Inserted(tree, r)
    OBVIOUS
  <2>5. Framed(u) /\ HeaderKept(tree, u)
    BY <1>1, <2>2, <2>4, InsertedKeeps
  <2>6. Grown(u, entries \cup {r}, {})
    BY <1>1, <2>2, <2>3, <2>4, InsertedGrown
  <2>7. tree' = u
    BY <1>1, <2>4
  <2> QED BY <1>1, <2>5, <2>6, <2>7
<1> QED BY <1>1, <1>2, <1>3, StepGrows

(* deleteEntry, as long as it leaves the leaf a row, *)
LEMMA DeleteEntryGrows ==
  ASSUME GrownInv, NEW r \in Rows, DeleteEntry(r)
  PROVE  GrownInv'
<1>1. /\ isOpen /\ Shallow(tree) /\ Finds(tree, r) /\ tree' = Emptied(tree, r)
      /\ Emptied(tree, r).node[SearchLeaf(tree, Key[r])].keys # << >>
      /\ entries' = entries \ {r} /\ isOpen' = isOpen /\ page0' = page0 /\ trouble' = trouble
  BY DEF DeleteEntry, Usable
<1>2. trouble \subseteq trouble'
  BY <1>1
<1>3. ASSUME trouble' \subseteq {"separator"}
      PROVE  /\ Framed(tree') /\ HeaderKept(tree, tree')
             /\ Grown(tree', entries', {})
  <2>1. Framed(tree) /\ Grown(tree, entries, {})
    BY <1>1, <1>3 DEF GrownInv
  <2>2. PICK u, p : u = Emptied(tree, r) /\ p = SearchLeaf(tree, Key[r])
    OBVIOUS
  <2>3. u.node[p].keys # << >>
    BY <1>1, <2>2
  <2>4. /\ Framed(u) /\ u.rootPage = tree.rootPage /\ u.modified = tree.modified
        /\ Grown(u, entries \ {r}, {})
    <3>1. Shallow(tree) /\ Finds(tree, r)
      BY <1>1
    <3>2. Framed(tree) /\ Grown(tree, entries, {})
      BY <2>1
    <3> QED BY <2>2, <2>3, <3>1, <3>2, EmptiedGrown
  <2>5. HeaderKept(tree, u)
    BY <2>4 DEF HeaderKept
  <2>6. tree' = u
    BY <1>1, <2>2
  <2> QED BY <1>1, <2>4, <2>5, <2>6
<1> QED BY <1>1, <1>2, <1>3, StepGrows

(* openIndex reads the root that closeIndex has written,                   *)
LEMMA OpenIndexGrows ==
  ASSUME GrownInv, OpenIndex
  PROVE  GrownInv'
<1>1. ~isOpen /\ isOpen' /\ tree' = WithHeader(tree, page0) /\ page0' = page0
      /\ entries' = entries /\ trouble' = trouble
  BY DEF OpenIndex, WithHeader, history
<1> SUFFICES ASSUME trouble \subseteq {"separator"}
             PROVE  /\ Framed(tree') /\ ~tree'.modified /\ page0 = tree'.rootPage
                    /\ Grown(tree', entries, {})
  BY <1>1 DEF GrownInv
<1>2. Framed(tree) /\ page0 = tree.rootPage /\ Grown(tree, entries, {})
  BY <1>1 DEF GrownInv
<1>3. PICK u : u = WithHeader(tree, page0)
  OBVIOUS
<1>4. Framed(u) /\ u.rootPage = page0 /\ ~u.modified /\ u.node = tree.node
  BY <1>2, <1>3, WithHeaderFacts
<1>5. Grown(u, entries, {})
  BY <1>2, <1>4, SameGrown
<1> QED BY <1>1, <1>3, <1>4, <1>5

(* and closeIndex writes it if it has changed.                              *)
LEMMA CloseIndexGrows ==
  ASSUME GrownInv, CloseIndex
  PROVE  GrownInv'
<1>1. /\ page0' = (IF tree.modified THEN tree.rootPage ELSE page0)
      /\ tree' = [tree EXCEPT !.modified = FALSE]
      /\ ~isOpen' /\ entries' = entries /\ trouble' = trouble
  BY DEF CloseIndex, history
<1> SUFFICES ASSUME trouble \subseteq {"separator"}
             PROVE  /\ Framed(tree') /\ ~tree'.modified /\ page0' = tree'.rootPage
                    /\ Grown(tree', entries, {})
  BY <1>1 DEF GrownInv
<1>2. Framed(tree) /\ Grown(tree, entries, {}) /\ (~tree.modified => page0 = tree.rootPage)
  BY DEF GrownInv
<1>3. PICK root : root = tree.rootPage
  OBVIOUS
<1>4. page0' = root
  BY <1>1, <1>2, <1>3
<1>5. PICK u : u = WithHeader(tree, root)
  OBVIOUS
<1>6. tree' = u
  <2>1. PICK m, n, d : m = tree.modified /\ n = tree.node /\ d = tree.disposed
    OBVIOUS
  <2>2. tree = [rootPage |-> root, modified |-> m, node |-> n, disposed |-> d]
    BY <1>2, <1>3, <2>1 DEF Framed
  <2>3. u = [rootPage |-> root, modified |-> FALSE, node |-> n, disposed |-> d]
    BY <1>5, <2>2 DEF WithHeader
  <2>4. tree' = [rootPage |-> root, modified |-> FALSE, node |-> n, disposed |-> d]
    BY <1>1, <2>2
  <2> QED BY <2>3, <2>4
<1>7. Framed(u) /\ u.rootPage = root /\ ~u.modified /\ u.node = tree.node
  BY <1>2, <1>5, WithHeaderFacts
<1>8. Grown(u, entries, {})
  BY <1>2, <1>3, <1>7, SameGrown
<1> QED BY <1>4, <1>6, <1>7, <1>8

(* Every step keeps it, those that empty a leaf because it says nothing    *)
(* after them.                                                             *)
LEMMA NextGrownInv ==
  GrownInv /\ [IndexNext]_indexVars => GrownInv'
<1> SUFFICES ASSUME GrownInv, [IndexNext]_indexVars PROVE GrownInv'
  OBVIOUS
<1>1. CASE OpenIndex
  BY <1>1, OpenIndexGrows
<1>2. CASE CloseIndex
  BY <1>2, CloseIndexGrows
<1>3. ASSUME NEW r \in Rows, InsertEntry(r) PROVE GrownInv'
  BY <1>3, InsertEntryGrows
<1>4. ASSUME NEW r \in Rows, InsertEntryFails(r) PROVE GrownInv'
  BY <1>4 DEF InsertEntryFails, GrownInv, history
<1>5. ASSUME NEW r \in Rows, DeleteEntry(r) PROVE GrownInv'
  BY <1>5, DeleteEntryGrows
<1>6. ASSUME NEW r \in Rows, DeleteLastEntry(r) \/ DeleteLastEntryFails(r) PROVE GrownInv'
  <2>1. trouble' = trouble \cup {"leafGone"}
    BY <1>6 DEF DeleteLastEntry, DeleteLastEntryFails
  <2>2. ~(trouble' \subseteq {"separator"})
    BY <2>1
  <2> QED BY <2>2 DEF GrownInv
<1>7. ASSUME NEW r \in Rows, DeleteNotFound(r) PROVE GrownInv'
  BY <1>7 DEF DeleteNotFound, GrownInv, history
<1>8. CASE UNCHANGED indexVars
  BY <1>8 DEF indexVars, history, GrownInv
<1> QED BY <1>1, <1>2, <1>3, <1>4, <1>5, <1>6, <1>7, <1>8 DEF IndexNext

(* As long as no key was inserted twice and no leaf was emptied, the tree  *)
(* is as it grew: its leaves, linked from the leftmost one on, have the    *)
(* rows that were inserted and not deleted, each once.                     *)
THEOREM GrownInvariant == IndexSpec => []GrownInv
  BY InitGrownInv, NextGrownInv, PTL DEF IndexSpec
-----------------------------------------------------------------------------
(* FlattenSeq puts one sequence behind the other, a recursive function,    *)
(* which there is.                                                         *)
Flattens(seqs, m, e) ==
  e = [i \in 1 .. m |-> IF i = 1 THEN seqs[i] ELSE e[i - 1] \o seqs[i]]

(* It can be counted up to any number of sequences.                        *)
LEMMA FlattenExists ==
  ASSUME NEW seqs, NEW m \in Nat
  PROVE  \E e : Flattens(seqs, m, e)
<1> DEFINE T == {k \in Nat : ~\E e : Flattens(seqs, k, e)}
<1>1. SUFFICES ASSUME T # {} PROVE FALSE
  OBVIOUS
<1>2. PICK k \in T : \A j \in T : k <= j
  <2>1. T \in SUBSET Nat
    OBVIOUS
  <2> HIDE DEF T
  <2> QED BY <1>1, <2>1, LeastNatural
<1>3. k # 0
  <2>1. PICK e : e = [i \in 1 .. 0 |-> seqs]
    OBVIOUS
  <2>2. e = [i \in 1 .. 0 |-> IF i = 1 THEN seqs[i] ELSE e[i - 1] \o seqs[i]]
    BY <2>1
  <2>3. Flattens(seqs, 0, e)
    BY <2>2 DEF Flattens
  <2> QED BY <2>3
<1>4. k \in Nat /\ k - 1 \in Nat /\ ~(k <= k - 1)
  BY <1>3
<1>5. PICK e : Flattens(seqs, k - 1, e)
  BY <1>2, <1>4
<1>6. PICK x : x = IF k = 1 THEN seqs[k] ELSE e[k - 1] \o seqs[k]
  OBVIOUS
<1>7. PICK d : d = [i \in 1 .. k |-> IF i = k THEN x ELSE e[i]]
  OBVIOUS
<1>8. \A i \in 1 .. k - 1 : e[i] = IF i = 1 THEN seqs[i] ELSE e[i - 1] \o seqs[i]
  <2>1. PICK r : r = [i \in 1 .. k - 1 |-> IF i = 1 THEN seqs[i] ELSE e[i - 1] \o seqs[i]]
    OBVIOUS
  <2>2. e = r
    BY <1>5, <2>1 DEF Flattens
  <2> QED BY <2>1, <2>2
<1>9. ASSUME NEW i \in 1 .. k
      PROVE  d[i] = IF i = 1 THEN seqs[i] ELSE d[i - 1] \o seqs[i]
  <2>1. CASE i = k
    <3>1. d[i] = x /\ (i # 1 => d[i - 1] = e[k - 1])
      BY <1>4, <1>7, <2>1
    <3> QED BY <1>6, <2>1, <3>1
  <2>2. CASE i # k
    <3>1. i \in 1 .. k - 1 /\ d[i] = e[i]
      BY <1>4, <1>7, <2>2
    <3>2. i # 1 => d[i - 1] = e[i - 1]
      BY <1>4, <1>7, <3>1
    <3> QED BY <1>8, <3>1, <3>2
  <2> QED BY <2>1, <2>2
<1>10. d = [i \in 1 .. k |-> d[i]]
  BY <1>7
<1>11. Flattens(seqs, k, d)
  BY <1>9, <1>10 DEF Flattens
<1> QED BY <1>2, <1>11

(* FlattenSeq is what its definition says.                                 *)
LEMMA FlattenIs ==
  ASSUME NEW seqs, NEW n \in Nat, n > 0, Len(seqs) = n
  PROVE  \E g : /\ FlattenSeq(seqs) = g[n] /\ g[1] = seqs[1]
                /\ \A i \in 2 .. n : g[i] = g[i - 1] \o seqs[i]
<1> DEFINE F(f) == [i \in 1 .. n |-> IF i = 1 THEN seqs[i] ELSE f[i - 1] \o seqs[i]]
<1>1. PICK e : Flattens(seqs, n, e)
  BY FlattenExists
<1>2. e = F(e)
  BY <1>1 DEF Flattens
<1>3. PICK w : w = CHOOSE f : f = F(f)
  OBVIOUS
<1>4. w = F(w)
  BY <1>2, <1>3
<1>5. FlattenSeq(seqs) = w[n]
  BY <1>3 DEF FlattenSeq
<1>6. \A i \in 1 .. n : w[i] = IF i = 1 THEN seqs[i] ELSE w[i - 1] \o seqs[i]
  <2>1. PICK r : r = F(w)
    OBVIOUS
  <2>2. w = r
    BY <1>4, <2>1
  <2> QED BY <2>1, <2>2
<1>7. 1 \in 1 .. n /\ \A i \in 2 .. n : i \in 1 .. n /\ i # 1
  OBVIOUS
<1> QED BY <1>5, <1>6, <1>7

(* f has the places of the pages K[1] to K[m], lens[i] of the i-th one, in *)
(* their order.                                                            *)
Listed(f, K, lens, m) ==
  /\ Len(f) \in Nat
  /\ \A a \in 1 .. Len(f) : \E i \in 1 .. m : \E j \in 1 .. lens[i] : f[a] = <<K[i], j>>
  /\ \A i \in 1 .. m : \A j \in 1 .. lens[i] : \E a \in 1 .. Len(f) : f[a] = <<K[i], j>>
  /\ \A a, b \in 1 .. Len(f), i, h \in 1 .. m : \A j \in 1 .. lens[i], l \in 1 .. lens[h] :
       f[a] = <<K[i], j>> /\ f[b] = <<K[h], l>> /\ a < b => i < h \/ (i = h /\ j < l)
Places(K, n) == {<<K[i], j>> : i \in 1 .. n, j \in Nat}

(* The pages are different, and each has a number of places: a block.      *)
Distinct(K, lens, n) ==
  /\ \A i, j \in 1 .. n : K[i] = K[j] => i = j
  /\ \A i \in 1 .. n : lens[i] \in Nat
Block(K, lens, i) == [j \in 1 .. lens[i] |-> <<K[i], j>>]

(* With the places of the next page behind them.                           *)
LEMMA ListedMore ==
  ASSUME NEW n \in Nat, NEW K, NEW lens, Distinct(K, lens, n), NEW m \in 0 .. n - 1,
         NEW f, f \in Seq(Places(K, n)) /\ Listed(f, K, lens, m),
         NEW f2, f2 = f \o Block(K, lens, m + 1)
  PROVE  f2 \in Seq(Places(K, n)) /\ Listed(f2, K, lens, m + 1)
<1>1. /\ \A i, j \in 1 .. n : K[i] = K[j] => i = j
      /\ \A i \in 1 .. n : lens[i] \in Nat
  BY DEF Distinct
<1>2. PICK c \in Nat : c = Len(f)
  BY DEF Listed
<1>3. PICK S, s : S = Places(K, n) /\ s = Block(K, lens, m + 1)
  OBVIOUS
<1>4. m + 1 \in 1 .. n /\ \A i \in 1 .. m : i \in 1 .. n /\ i \in 1 .. m + 1 /\ i # m + 1
  OBVIOUS
<1>5. PICK z \in Nat : z = lens[m + 1]
  BY <1>1, <1>4
<1>6. PICK q : q = K[m + 1]
  OBVIOUS
<1>7. s \in Seq(S) /\ Len(s) = z /\ \A j \in 1 .. z : s[j] = <<q, j>>
  <2>1. s = [j \in 1 .. z |-> <<q, j>>]
    BY <1>2, <1>3, <1>5, <1>6 DEF Block
  <2>2. \A j \in 1 .. z : <<q, j>> \in S
    BY <1>2, <1>3, <1>4, <1>5, <1>6 DEF Places
  <2> QED BY <2>1, <2>2
<1>8. /\ f2 \in Seq(S) /\ Len(f2) = c + z
      /\ \A a \in 1 .. c + z : f2[a] = IF a <= c THEN f[a] ELSE s[a - c]
  <2>1. f \in Seq(S)
    BY <1>2, <1>3
  <2>2. /\ f \o s \in Seq(S) /\ Len(f \o s) = Len(f) + Len(s)
        /\ \A a \in 1 .. Len(f) + Len(s) :
             (f \o s)[a] = IF a <= Len(f) THEN f[a] ELSE s[a - Len(f)]
    BY <1>7, <2>1, ConcatProperties
  <2> QED BY <1>2, <1>3, <1>7, <2>2
<1>9. \A a \in 1 .. c + z : (a <= c => a \in 1 .. c) /\ (a > c => a - c \in 1 .. z)
  BY <1>4
<1>10. /\ \A a \in 1 .. c : \E i \in 1 .. m : \E j \in 1 .. lens[i] : f[a] = <<K[i], j>>
       /\ \A i \in 1 .. m : \A j \in 1 .. lens[i] : \E a \in 1 .. c : f[a] = <<K[i], j>>
       /\ \A a1, a2 \in 1 .. c, i, h \in 1 .. m : \A j \in 1 .. lens[i], l \in 1 .. lens[h] :
            f[a1] = <<K[i], j>> /\ f[a2] = <<K[h], l>> /\ a1 < a2 => i < h \/ (i = h /\ j < l)
  <2>1. /\ \A a \in 1 .. Len(f) : \E i \in 1 .. m : \E j \in 1 .. lens[i] : f[a] = <<K[i], j>>
        /\ \A i \in 1 .. m : \A j \in 1 .. lens[i] : \E a \in 1 .. Len(f) : f[a] = <<K[i], j>>
        /\ \A a1, a2 \in 1 .. Len(f), i, h \in 1 .. m :
             \A j \in 1 .. lens[i], l \in 1 .. lens[h] :
               f[a1] = <<K[i], j>> /\ f[a2] = <<K[h], l>> /\ a1 < a2 => i < h \/ (i = h /\ j < l)
    BY DEF Listed
  <2> QED BY <1>2, <1>3, <2>1
<1>11. ASSUME NEW a \in 1 .. c + z
       PROVE  \E i \in 1 .. m + 1 : \E j \in 1 .. lens[i] : f2[a] = <<K[i], j>>
  <2>1. CASE a <= c
    <3>1. f2[a] = f[a] /\ a \in 1 .. c
      BY <1>8, <1>9, <2>1
    <3>2. PICK i \in 1 .. m : \E j \in 1 .. lens[i] : f[a] = <<K[i], j>>
      BY <1>10, <3>1
    <3> QED BY <1>4, <3>1, <3>2
  <2>2. CASE a > c
    <3>1. a - c \in 1 .. z /\ f2[a] = s[a - c]
      <4>1. ~(a <= c)
        BY <2>2
      <4> QED BY <1>8, <1>9, <2>2, <4>1
    <3>2. f2[a] = <<q, a - c>>
      BY <1>7, <3>1
    <3>3. m + 1 \in 1 .. m + 1
      OBVIOUS
    <3>4. lens[m + 1] = z /\ K[m + 1] = q
      BY <1>5, <1>6
    <3> QED BY <3>1, <3>2, <3>3, <3>4
  <2>3. a <= c \/ a > c
    OBVIOUS
  <2> QED BY <2>1, <2>2, <2>3
<1>12. ASSUME NEW i \in 1 .. m + 1, NEW j \in 1 .. lens[i]
       PROVE  \E a \in 1 .. c + z : f2[a] = <<K[i], j>>
  <2>1. CASE i # m + 1
    <3>1. i \in 1 .. m
      BY <2>1
    <3>2. PICK a \in 1 .. c : f[a] = <<K[i], j>>
      BY <1>10, <3>1
    <3>3. a \in 1 .. c + z /\ a <= c
      BY <1>4
    <3>4. f2[a] = f[a]
      BY <1>8, <3>3
    <3> QED BY <3>2, <3>3, <3>4
  <2>2. CASE i = m + 1
    <3>1. j \in 1 .. z
      BY <1>5, <1>6, <2>2
    <3>2. PICK a \in Nat : a = c + j
      BY <3>1
    <3>3. a \in 1 .. c + z /\ ~(a <= c) /\ a - c = j
      BY <1>4, <3>1, <3>2
    <3>4. f2[a] = s[j]
      BY <1>8, <3>3
    <3> QED BY <1>7, <1>5, <1>6, <2>2, <3>1, <3>3, <3>4
  <2> QED BY <2>1, <2>2
<1>13. ASSUME NEW a \in 1 .. c + z, a <= c, NEW i \in 1 .. m + 1, NEW j, f2[a] = <<K[i], j>>
       PROVE  i \in 1 .. m /\ a \in 1 .. c /\ f[a] = <<K[i], j>>
  <2>1. f2[a] = f[a] /\ a \in 1 .. c
    BY <1>8, <1>9, <1>13
  <2>2. PICK g \in 1 .. m : \E l \in 1 .. lens[g] : f[a] = <<K[g], l>>
    BY <1>10, <2>1
  <2>3. K[g] = K[i]
    <3>1. PICK l : <<K[g], l>> = <<K[i], j>>
      BY <1>13, <2>1, <2>2
    <3> QED BY <3>1
  <2>4. i \in 1 .. n /\ g \in 1 .. n
    OBVIOUS
  <2>5. g = i
    BY <1>1, <2>3, <2>4
  <2> QED BY <1>13, <2>1, <2>5
<1>14. ASSUME NEW a \in 1 .. c + z, a > c, NEW i \in 1 .. m + 1, NEW j, f2[a] = <<K[i], j>>
       PROVE  i = m + 1 /\ j = a - c
  <2>1. a - c \in 1 .. z /\ f2[a] = s[a - c]
    <3>1. ~(a <= c)
      BY <1>14
    <3> QED BY <1>8, <1>9, <1>14, <3>1
  <2>2. f2[a] = <<q, a - c>>
    BY <1>7, <2>1
  <2>3. K[i] = K[m + 1] /\ j = a - c
    <3>1. <<K[i], j>> = <<q, a - c>>
      BY <1>14, <2>2
    <3> QED BY <1>5, <1>6, <3>1
  <2>4. i \in 1 .. n
    OBVIOUS
  <2> QED BY <1>1, <1>4, <2>3, <2>4
<1>15. ASSUME NEW a1 \in 1 .. c + z, NEW a2 \in 1 .. c + z,
              NEW i \in 1 .. m + 1, NEW h \in 1 .. m + 1,
              NEW j \in 1 .. lens[i], NEW l \in 1 .. lens[h],
              f2[a1] = <<K[i], j>>, f2[a2] = <<K[h], l>>, a1 < a2
       PROVE  i < h \/ (i = h /\ j < l)
  <2>1. CASE a1 <= c /\ a2 <= c
    <3>1. i \in 1 .. m /\ a1 \in 1 .. c /\ f[a1] = <<K[i], j>>
      BY <1>13, <1>15, <2>1
    <3>2. h \in 1 .. m /\ a2 \in 1 .. c /\ f[a2] = <<K[h], l>>
      BY <1>13, <1>15, <2>1
    <3> QED BY <1>10, <1>15, <3>1, <3>2
  <2>2. CASE a1 <= c /\ a2 > c
    <3>1. i \in 1 .. m
      BY <1>13, <1>15, <2>2
    <3>2. h = m + 1
      BY <1>14, <1>15, <2>2
    <3> QED BY <3>1, <3>2
  <2>3. CASE a1 > c /\ a2 > c
    <3>1. i = m + 1 /\ j = a1 - c
      BY <1>14, <1>15, <2>3
    <3>2. h = m + 1 /\ l = a2 - c
      BY <1>14, <1>15, <2>3
    <3> QED BY <1>15, <3>1, <3>2
  <2>4. (a1 <= c \/ a1 > c) /\ (a2 <= c \/ a2 > c) /\ ~(a1 > c /\ a2 <= c)
    BY <1>15
  <2> QED BY <2>1, <2>2, <2>3, <2>4
<1>16. Len(f2) = c + z /\ c + z \in Nat
  BY <1>4, <1>8
<1>17. Listed(f2, K, lens, m + 1)
  <2>1. \A a \in 1 .. Len(f2) : \E i \in 1 .. m + 1 : \E j \in 1 .. lens[i] : f2[a] = <<K[i], j>>
    BY <1>11, <1>16
  <2>2. \A i \in 1 .. m + 1 : \A j \in 1 .. lens[i] : \E a \in 1 .. Len(f2) : f2[a] = <<K[i], j>>
    BY <1>12, <1>16
  <2>3. \A a1, a2 \in 1 .. Len(f2), i, h \in 1 .. m + 1 :
          \A j \in 1 .. lens[i], l \in 1 .. lens[h] :
            f2[a1] = <<K[i], j>> /\ f2[a2] = <<K[h], l>> /\ a1 < a2 => i < h \/ (i = h /\ j < l)
    <3> TAKE a1, a2 \in 1 .. Len(f2), i, h \in 1 .. m + 1
    <3> TAKE j \in 1 .. lens[i], l \in 1 .. lens[h]
    <3> SUFFICES ASSUME f2[a1] = <<K[i], j>>, f2[a2] = <<K[h], l>>, a1 < a2
                 PROVE  i < h \/ (i = h /\ j < l)
      OBVIOUS
    <3>1. a1 \in 1 .. c + z /\ a2 \in 1 .. c + z
      BY <1>16
    <3> QED BY <1>15, <3>1
  <2> QED BY <1>16, <2>1, <2>2, <2>3 DEF Listed
<1> QED BY <1>2, <1>3, <1>8, <1>17

(* FlattenSeq lists the places of all pages.                               *)
LEMMA FlattenListed ==
  ASSUME NEW n \in Nat, n > 0, NEW K, NEW lens, Distinct(K, lens, n),
         NEW seqs, seqs = [i \in 1 .. n |-> Block(K, lens, i)]
  PROVE  FlattenSeq(seqs) \in Seq(Places(K, n)) /\ Listed(FlattenSeq(seqs), K, lens, n)
<1>1. PICK ss : ss = seqs
  OBVIOUS
<1>2. Len(ss) = n /\ \A i \in 1 .. n : ss[i] = Block(K, lens, i)
  BY <1>1
<1>3. PICK g : /\ FlattenSeq(ss) = g[n] /\ g[1] = ss[1]
               /\ \A i \in 2 .. n : g[i] = g[i - 1] \o ss[i]
  BY <1>2, FlattenIs
<1> DEFINE P(i) == g[i] \in Seq(Places(K, n)) /\ Listed(g[i], K, lens, i)
           T == {i \in 1 .. n : ~P(i)}
<1>4. SUFFICES ASSUME T # {} PROVE FALSE
  BY <1>1, <1>3
<1>5. PICK i \in T : \A j \in T : i <= j
  <2>1. T \in SUBSET Nat
    OBVIOUS
  <2> HIDE DEF T
  <2> QED BY <1>4, <2>1, LeastNatural
<1>6. i \in 1 .. n /\ ~P(i)
  BY <1>5
<1>7. PICK m \in 0 .. n - 1 : m = i - 1 /\ m + 1 = i
  BY <1>6
<1>8. PICK b : b = Block(K, lens, m + 1)
  OBVIOUS
<1>9. ss[i] = b
  BY <1>2, <1>6, <1>7, <1>8
<1>10. PICK f : f = IF i = 1 THEN << >> ELSE g[m]
  OBVIOUS
<1>11. f \in Seq(Places(K, n)) /\ Listed(f, K, lens, m)
  <2>1. CASE i = 1
    <3>1. f = << >> /\ m = 0
      BY <1>7, <1>10, <2>1
    <3>2. f \in Seq(Places(K, n)) /\ Len(f) = 0
      BY <3>1
    <3>3. Listed(f, K, lens, 0)
      BY <3>2 DEF Listed
    <3> QED BY <3>1, <3>2, <3>3
  <2>2. CASE i # 1
    <3>1. m \in 1 .. n /\ ~(i <= m) /\ f = g[m]
      BY <1>6, <1>7, <1>10, <2>2
    <3>2. P(m)
      BY <1>5, <3>1
    <3> QED BY <3>1, <3>2
  <2> QED BY <2>1, <2>2
<1>12. g[i] = f \o b
  <2>1. CASE i = 1
    <3>1. g[i] = b /\ f = << >>
      BY <1>3, <1>9, <1>10, <2>1
    <3>2. b \in Seq(Places(K, n))
      <4>1. m + 1 \in 1 .. n
        BY <1>7
      <4>2. PICK d \in Nat : d = lens[m + 1]
        BY <4>1 DEF Distinct
      <4>3. PICK q : q = K[m + 1]
        OBVIOUS
      <4>4. b = [j \in 1 .. d |-> <<q, j>>]
        BY <1>8, <4>2, <4>3 DEF Block
      <4>5. \A j \in 1 .. d : <<q, j>> \in Places(K, n)
        BY <4>1, <4>2, <4>3 DEF Places
      <4> QED BY <4>4, <4>5
    <3>3. << >> \o b = b
      BY <3>2, ConcatEmptySeq
    <3> QED BY <3>1, <3>3
  <2>2. CASE i # 1
    <3>1. i \in 2 .. n /\ m = i - 1
      BY <1>6, <1>7, <2>2
    <3> QED BY <1>3, <1>9, <1>10, <2>2, <3>1
  <2> QED BY <2>1, <2>2
<1>13. g[i] \in Seq(Places(K, n)) /\ Listed(g[i], K, lens, m + 1)
  <2>1. PICK f2 : f2 = f \o b
    OBVIOUS
  <2>2. f2 \in Seq(Places(K, n)) /\ Listed(f2, K, lens, m + 1)
    BY <1>8, <1>11, <2>1, ListedMore
  <2> QED BY <1>12, <2>1, <2>2
<1> QED BY <1>6, <1>7, <1>13

(* The leaves from the s-th one on, and how many keys they have. *)
LeavesFrom(t, L, s, n, K, lens) ==
  /\ n = Len(L) - s + 1 /\ K = [i \in 1 .. n |-> L[s + i - 1]]
  /\ lens = [i \in 1 .. n |-> Len(t.node[K[i]].keys)]

(* The places a scan can be at from a leaf on are those of the leaves that *)
(* the links lead to.                                                      *)
LEMMA PositionsListed ==
  ASSUME NEW t, NEW L, Threaded(t, L), NEW s \in 1 .. Len(L),
         Stocked(t, {}), NEW n \in Nat, NEW K, NEW lens, LeavesFrom(t, L, s, n, K, lens)
  PROVE  /\ Distinct(K, lens, n) /\ n > 0
         /\ Positions(t, L[s]) \in Seq(Places(K, n)) /\ Listed(Positions(t, L[s]), K, lens, n)
         /\ \A i \in 1 .. n : K[i] \in Leaves(t)
<1>1. /\ Len(L) \in Nat /\ DOMAIN L = 1 .. Len(L) /\ IsInjective(L) /\ ToSet(L) = Leaves(t)
      /\ \A i \in 1 .. Len(L) : t.node[L[i]].next = IF i = Len(L) THEN IX_NO_PAGE ELSE L[i + 1]
  BY DEF Threaded
<1>2. \A i, j \in 1 .. Len(L) : L[i] = L[j] => i = j
  BY <1>1 DEF IsInjective
<1>3. \A i \in 1 .. Len(L) : L[i] \in Leaves(t)
  BY <1>1 DEF ToSet
<1>4. PICK m \in Nat : m = Len(L)
  BY <1>1
<1>5. /\ s \in 1 .. m /\ n > 0 /\ s + n - 1 = m /\ 1 \in 1 .. n /\ n \in 1 .. n /\ s + 1 - 1 = s
      /\ \A i \in 1 .. n : s + i - 1 \in 1 .. m
      /\ \A i \in 1 .. n - 1 : /\ i \in 1 .. n /\ i + 1 \in 1 .. n /\ s + i - 1 # m
                               /\ (s + i - 1) + 1 = s + (i + 1) - 1
  <2>1. n = m - s + 1
    BY <1>4 DEF LeavesFrom
  <2>2. s \in 1 .. m
    BY <1>4
  <2> QED BY <2>1, <2>2
<1>6. PICK c : c = K
  OBVIOUS
<1>7. c = [i \in 1 .. n |-> L[s + i - 1]]
  BY <1>6 DEF LeavesFrom
<1>8. \A i \in 1 .. n : c[i] \in Leaves(t)
  BY <1>3, <1>5, <1>4, <1>7
<1>9. \A i, j \in 1 .. n : c[i] = c[j] => i = j
  <2> TAKE i \in 1 .. n, j \in 1 .. n
  <2>1. c[i] = c[j] => s + i - 1 = s + j - 1
    BY <1>2, <1>5, <1>4, <1>7
  <2>2. s + i - 1 = s + j - 1 => i = j
    BY <1>5
  <2> QED BY <2>1, <2>2
<1>10. PICK succ : succ = [p \in Leaves(t) |-> t.node[p].next]
  OBVIOUS
<1>11. DOMAIN succ = Leaves(t) /\ IsFiniteSet(DOMAIN succ) /\ IX_NO_PAGE \notin Leaves(t)
  <2>1. Leaves(t) \subseteq IndexPages /\ IsFiniteSet(IndexPages) /\ IX_NO_PAGE \notin IndexPages
    BY PageKinds
  <2> QED BY <1>10, <2>1, FS_Subset
<1>12. \A i \in 1 .. n - 1 : succ[c[i]] = c[i + 1]
  <2> TAKE i \in 1 .. n - 1
  <2>1. /\ i \in 1 .. n /\ i + 1 \in 1 .. n /\ s + i - 1 \in 1 .. Len(L) /\ s + i - 1 # Len(L)
        /\ (s + i - 1) + 1 = s + (i + 1) - 1
    BY <1>5, <1>4
  <2>2. t.node[L[s + i - 1]].next = L[(s + i - 1) + 1]
    BY <1>1, <2>1
  <2> QED BY <1>7, <1>8, <1>10, <2>1, <2>2
<1>13. succ[c[n]] = IX_NO_PAGE
  <2>1. n \in 1 .. n /\ s + n - 1 = Len(L) /\ s + n - 1 \in 1 .. Len(L)
    BY <1>5, <1>4
  <2>2. t.node[L[Len(L)]].next = IX_NO_PAGE
    BY <1>1, <2>1
  <2> QED BY <1>7, <1>8, <1>10, <2>1, <2>2
<1>14. Chain(succ, c[1]) = c
  <2>1. c = [i \in 1 .. n |-> c[i]]
    BY <1>7
  <2>2. n \in Nat /\ n > 0
    BY <1>5
  <2>3. succ[c[n]] \notin DOMAIN succ /\ \A i \in 1 .. n : c[i] \in DOMAIN succ
    BY <1>8, <1>11, <1>13
  <2>4. Chain(succ, c[1]) = [i \in 1 .. n |-> c[i]]
    BY <1>9, <1>11, <1>12, <2>2, <2>3, PathChain
  <2> QED BY <2>1, <2>4
<1>15. c[1] = L[s]
  <2>1. 1 \in 1 .. n /\ s + 1 - 1 = s
    BY <1>5
  <2> QED BY <1>7, <2>1
<1>16. PICK d : d = lens
  OBVIOUS
<1>17. \A i \in 1 .. n : d[i] = Len(t.node[c[i]].keys)
  BY <1>6, <1>16 DEF LeavesFrom
<1>18. \A i \in 1 .. n : d[i] \in Nat /\ DOMAIN t.node[c[i]].keys = 1 .. d[i]
  <2> TAKE i \in 1 .. n
  <2>1. PICK x : x = t.node[c[i]]
    OBVIOUS
  <2>2. LeafHas(x.keys, x.vals)
    BY <1>8, <2>1 DEF Stocked
  <2>3. Len(x.keys) \in Nat /\ DOMAIN x.keys = 1 .. Len(x.keys)
    BY <2>2, LeafFacts
  <2> QED BY <1>17, <2>1, <2>3
<1>19. Distinct(c, d, n)
  BY <1>9, <1>18 DEF Distinct
<1>20. Positions(t, L[s])
       = FlattenSeq([i \in DOMAIN c |-> [j \in DOMAIN t.node[c[i]].keys |-> <<c[i], j>>]])
  BY <1>10, <1>14, <1>15 DEF Positions
<1>21. PICK seqs : seqs = [i \in 1 .. n |-> Block(c, d, i)]
  OBVIOUS
<1>22. [i \in DOMAIN c |-> [j \in DOMAIN t.node[c[i]].keys |-> <<c[i], j>>]] = seqs
  <2>1. DOMAIN c = 1 .. n
    BY <1>7
  <2>2. \A i \in 1 .. n : [j \in DOMAIN t.node[c[i]].keys |-> <<c[i], j>>] = Block(c, d, i)
    BY <1>18 DEF Block
  <2> QED BY <1>21, <2>1, <2>2
<1>23. FlattenSeq(seqs) \in Seq(Places(c, n)) /\ Listed(FlattenSeq(seqs), c, d, n)
  BY <1>5, <1>19, <1>21, FlattenListed
<1> QED BY <1>5, <1>6, <1>8, <1>16, <1>19, <1>20, <1>22, <1>23

(* Without a leaf there are none. *)
LEMMA NoPositions ==
  ASSUME NEW t, NEW p, p \notin Leaves(t)
  PROVE  Positions(t, p) = << >>
<1>1. PICK succ : succ = [q \in Leaves(t) |-> t.node[q].next]
  OBVIOUS
<1>2. DOMAIN succ = Leaves(t) /\ IsFiniteSet(DOMAIN succ)
  <2>1. Leaves(t) \subseteq IndexPages /\ IsFiniteSet(IndexPages)
    BY PageKinds
  <2> QED BY <1>1, <2>1, FS_Subset
<1>3. Chain(succ, p) = << >>
  BY <1>2, ShortChains
<1>4. PICK c : c = << >>
  OBVIOUS
<1>5. Positions(t, p)
      = FlattenSeq([i \in DOMAIN c |-> [j \in DOMAIN t.node[c[i]].keys |-> <<c[i], j>>]])
  BY <1>1, <1>3, <1>4 DEF Positions
<1>6. [i \in DOMAIN c |-> [j \in DOMAIN t.node[c[i]].keys |-> <<c[i], j>>]] = << >>
  BY <1>4
<1>7. FlattenSeq(<< >>) = << >>
  BY DEF FlattenSeq
<1> QED BY <1>5, <1>6, <1>7

(* What the places of a scan have: rows, each at one place, and in the     *)
(* order of their keys with one level of inner nodes.                      *)
RowAt(t, pos) == t.node[pos[1]].vals[pos[2]]
KeyAt(t, pos) == t.node[pos[1]].keys[pos[2]]
Placed(t, at) ==
  /\ Len(at) \in Nat /\ DOMAIN at = 1 .. Len(at)
  /\ \A a \in 1 .. Len(at) :
       /\ at[a][1] \in Leaves(t) /\ RowAt(t, at[a]) \in ToSet(t.node[at[a][1]].vals)
       /\ RowAt(t, at[a]) \in Rows /\ Key[RowAt(t, at[a])] = KeyAt(t, at[a])
  /\ \A a, b \in 1 .. Len(at) : RowAt(t, at[a]) = RowAt(t, at[b]) => a = b
  /\ Shallow(t) => \A a, b \in 1 .. Len(at) : a < b => KeyAt(t, at[a]) <= KeyAt(t, at[b])

(* Of two leaves in order, the keys of the first are not above those of    *)
(* the second.                                                             *)
LEMMA KeysApart ==
  ASSUME NEW seps, Sorted(seps), NEW i \in 1 .. Len(seps) + 1, NEW h \in 1 .. Len(seps) + 1, i < h,
         NEW k1 \in Nat, NEW k2 \in Nat, Between(seps, i, k1), Between(seps, h, k2)
  PROVE  k1 <= k2
<1>1. Len(seps) \in Nat
  BY SortedFacts
<1>2. PICK m \in Nat : m = Len(seps)
  BY <1>1
<1>3. i \in 1 .. m /\ h - 1 \in 1 .. m /\ h > 1 /\ i <= h - 1
  BY <1>2
<1>4. PICK a, b : a = seps[i] /\ b = seps[h - 1]
  OBVIOUS
<1>5. a \in Nat /\ b \in Nat
  BY <1>2, <1>3, <1>4, SortedFacts
<1>6. k1 <= a /\ b <= k2
  BY <1>2, <1>3, <1>4 DEF Between
<1>7. a <= b
  <2>1. i < h - 1 => a < b
    BY <1>2, <1>3, <1>4, SortedFacts
  <2>2. i = h - 1 => a = b
    BY <1>4
  <2> QED BY <1>3, <1>5, <2>1, <2>2
<1> QED BY <1>5, <1>6, <1>7

(* They begin with the s-th leaf and have all of it and of those behind.   *)
Covers(t, L, s, at) ==
  /\ Len(at) > 0 /\ at[1][1] = L[s]
  /\ \A i \in s .. Len(L) : \A j \in 1 .. Len(t.node[L[i]].keys) :
       \E a \in 1 .. Len(at) : at[a] = <<L[i], j>>

(* The places of a scan from one of the leaves.                            *)
LEMMA PlacedFrom ==
  ASSUME NEW t, Stocked(t, {}), NEW L, Threaded(t, L), Shallow(t) => InOrder(t, L),
         NEW s \in 1 .. Len(L), NEW at, at = Positions(t, L[s])
  PROVE  Placed(t, at) /\ Covers(t, L, s, at)
<1>1. PICK m \in Nat : m = Len(L)
  BY DEF Threaded
<1>2. s \in 1 .. m
  BY <1>1
<1>3. PICK n \in Nat : n = m - s + 1
  BY <1>2
<1>4. PICK K : K = [i \in 1 .. n |-> L[s + i - 1]]
  OBVIOUS
<1>5. PICK lens : lens = [i \in 1 .. n |-> Len(t.node[K[i]].keys)]
  OBVIOUS
<1>6. LeavesFrom(t, L, s, n, K, lens)
  BY <1>1, <1>3, <1>4, <1>5 DEF LeavesFrom
<1>7. PICK f : f = at
  OBVIOUS
<1>8. /\ Distinct(K, lens, n) /\ n > 0
      /\ f \in Seq(Places(K, n)) /\ Listed(f, K, lens, n) /\ \A i \in 1 .. n : K[i] \in Leaves(t)
  BY <1>6, <1>7, PositionsListed
<1>9. Len(f) \in Nat /\ DOMAIN f = 1 .. Len(f)
  BY <1>8
<1>10. PICK c \in Nat : c = Len(f)
  BY <1>9
<1>11. \A i, j \in 1 .. n : K[i] = K[j] => i = j
  BY <1>8 DEF Distinct
<1>12. /\ \A a \in 1 .. c : \E i \in 1 .. n : \E j \in 1 .. lens[i] : f[a] = <<K[i], j>>
       /\ \A i \in 1 .. n : \A j \in 1 .. lens[i] : \E a \in 1 .. c : f[a] = <<K[i], j>>
       /\ \A a, b \in 1 .. c, i, h \in 1 .. n : \A j \in 1 .. lens[i], l \in 1 .. lens[h] :
            f[a] = <<K[i], j>> /\ f[b] = <<K[h], l>> /\ a < b => i < h \/ (i = h /\ j < l)
  BY <1>8, <1>10 DEF Listed
<1>13. ASSUME NEW a \in 1 .. c, NEW b \in 1 .. c, NEW i \in 1 .. n, NEW h \in 1 .. n,
              NEW j \in 1 .. lens[i], NEW l \in 1 .. lens[h],
              f[a] = <<K[i], j>>, f[b] = <<K[h], l>>, a < b
       PROVE  i < h \/ (i = h /\ j < l)
  BY <1>12, <1>13
<1>14. ASSUME NEW i \in 1 .. n
       PROVE  /\ LeafHas(t.node[K[i]].keys, t.node[K[i]].vals) /\ lens[i] \in Nat /\ lens[i] > 0
              /\ lens[i] = Len(t.node[K[i]].keys) /\ K[i] = L[s + i - 1] /\ K[i] \in Leaves(t)
  <2>1. LeafHas(t.node[K[i]].keys, t.node[K[i]].vals) /\ Len(t.node[K[i]].keys) \in 1 .. degree
    BY <1>8 DEF Stocked
  <2>2. Len(t.node[K[i]].keys) \in Nat /\ Len(t.node[K[i]].keys) > 0
    BY <2>1, IndexAssumption
  <2> QED BY <1>4, <1>5, <1>8, <2>1, <2>2
<1>15. ASSUME NEW i \in 1 .. n, NEW j \in 1 .. lens[i]
       PROVE  LET r == t.node[K[i]].vals[j]
              IN r \in Rows /\ r \in ToSet(t.node[K[i]].vals) /\ Key[r] = t.node[K[i]].keys[j]
                 /\ Key[r] \in Nat /\ Key[r] \in ToSet(t.node[K[i]].keys)
  <2>1. PICK x, y : x = t.node[K[i]].keys /\ y = t.node[K[i]].vals
    OBVIOUS
  <2>2. LeafHas(x, y) /\ lens[i] = Len(x)
    BY <1>14, <2>1
  <2>3. y[j] \in Rows /\ Key[y[j]] = x[j] /\ x[j] \in Nat /\ y[j] \in ToSet(y) /\ x[j] \in ToSet(x)
    BY <2>2, LeafFacts
  <2> QED BY <2>1, <2>3
<1>16. ASSUME NEW i \in 1 .. n, NEW h \in 1 .. n, NEW j \in 1 .. lens[i], NEW l \in 1 .. lens[h],
              t.node[K[i]].vals[j] = t.node[K[h]].vals[l]
       PROVE  i = h /\ j = l
  <2>1. PICK r : r = t.node[K[i]].vals[j] /\ r = t.node[K[h]].vals[l]
    BY <1>16
  <2>2. r \in ToSet(t.node[K[i]].vals) /\ r \in ToSet(t.node[K[h]].vals)
        /\ Key[r] = t.node[K[i]].keys[j] /\ Key[r] = t.node[K[h]].keys[l]
    BY <1>15, <2>1
  <2>3. K[i] = K[h]
    BY <1>8, <2>2 DEF Stocked
  <2>4. i = h
    BY <1>11, <2>3
  <2>5. PICK x, y : x = t.node[K[i]].keys /\ y = t.node[K[i]].vals
    OBVIOUS
  <2>6. LeafHas(x, y) /\ lens[i] = Len(x) /\ x[j] = x[l]
    BY <1>14, <2>2, <2>4, <2>5
  <2>7. j \in 1 .. Len(x) /\ l \in 1 .. Len(x)
    BY <2>4, <2>6
  <2>8. j = l
    BY <2>6, <2>7, LeafFacts
  <2> QED BY <2>4, <2>8
<1>17. ASSUME NEW a \in 1 .. c
       PROVE  /\ f[a][1] \in Leaves(t) /\ RowAt(t, f[a]) \in ToSet(t.node[f[a][1]].vals)
              /\ RowAt(t, f[a]) \in Rows /\ Key[RowAt(t, f[a])] = KeyAt(t, f[a])
  <2>1. PICK i \in 1 .. n : \E j \in 1 .. lens[i] : f[a] = <<K[i], j>>
    BY <1>12
  <2>2. PICK j \in 1 .. lens[i] : f[a] = <<K[i], j>>
    BY <2>1
  <2>3. f[a][1] = K[i] /\ f[a][2] = j
    BY <2>2
  <2>4. RowAt(t, f[a]) = t.node[K[i]].vals[j] /\ KeyAt(t, f[a]) = t.node[K[i]].keys[j]
    BY <2>3 DEF RowAt, KeyAt
  <2> QED BY <1>14, <1>15, <2>3, <2>4
<1>18. ASSUME NEW a \in 1 .. c, NEW b \in 1 .. c, a < b
       PROVE  RowAt(t, f[a]) # RowAt(t, f[b]) /\ (Shallow(t) => KeyAt(t, f[a]) <= KeyAt(t, f[b]))
  <2>1. PICK i \in 1 .. n : \E j \in 1 .. lens[i] : f[a] = <<K[i], j>>
    BY <1>12
  <2>2. PICK j \in 1 .. lens[i] : f[a] = <<K[i], j>>
    BY <2>1
  <2>3. PICK h \in 1 .. n : \E l \in 1 .. lens[h] : f[b] = <<K[h], l>>
    BY <1>12
  <2>4. PICK l \in 1 .. lens[h] : f[b] = <<K[h], l>>
    BY <2>3
  <2>5. i < h \/ (i = h /\ j < l)
    BY <1>13, <1>18, <2>2, <2>4
  <2>6. /\ RowAt(t, f[a]) = t.node[K[i]].vals[j] /\ KeyAt(t, f[a]) = t.node[K[i]].keys[j]
        /\ RowAt(t, f[b]) = t.node[K[h]].vals[l] /\ KeyAt(t, f[b]) = t.node[K[h]].keys[l]
    <3>1. f[a][1] = K[i] /\ f[a][2] = j /\ f[b][1] = K[h] /\ f[b][2] = l
      BY <2>2, <2>4
    <3> QED BY <3>1 DEF RowAt, KeyAt
  <2>7. RowAt(t, f[a]) # RowAt(t, f[b])
    <3>1. lens[i] \in Nat /\ lens[h] \in Nat
      BY <1>14
    <3>2. ~(i = h /\ j = l)
      BY <2>5, <3>1
    <3> QED BY <1>16, <2>6, <3>2
  <2>8. ASSUME Shallow(t) PROVE KeyAt(t, f[a]) <= KeyAt(t, f[b])
    <3>1. PICK k1, k2 : k1 = t.node[K[i]].keys[j] /\ k2 = t.node[K[h]].keys[l]
      OBVIOUS
    <3>2. /\ k1 \in Nat /\ k1 \in ToSet(t.node[K[i]].keys)
          /\ k2 \in Nat /\ k2 \in ToSet(t.node[K[h]].keys)
      BY <1>15, <3>1
    <3>3. CASE i = h
      <4>1. PICK x, y : x = t.node[K[i]].keys /\ y = t.node[K[i]].vals
        OBVIOUS
      <4>2. LeafHas(x, y) /\ lens[i] = Len(x) /\ k1 = x[j] /\ k2 = x[l]
        BY <1>14, <3>1, <3>3, <4>1
      <4>3. j \in 1 .. Len(x) /\ l \in 1 .. Len(x) /\ j < l
        BY <2>5, <3>3, <4>2
      <4>4. k1 < k2
        BY <4>2, <4>3, LeafFacts
      <4>5. k1 \in Nat /\ k2 \in Nat
        BY <3>2
      <4>6. k1 <= k2
        BY <4>4, <4>5
      <4> QED BY <2>6, <3>1, <4>6
    <3>4. CASE i < h
      <4>1. PICK seps : seps = Seps(t)
        OBVIOUS
      <4>2. /\ Sorted(seps) /\ m = Len(seps) + 1
            /\ \A g \in 1 .. m : \A k \in ToSet(t.node[L[g]].keys) : Between(seps, g, k)
        BY <1>1, <2>8, <4>1 DEF InOrder
      <4>3. PICK i1 \in 1 .. m, h1 \in 1 .. m : i1 = s + i - 1 /\ h1 = s + h - 1 /\ i1 < h1
        BY <1>2, <1>3, <3>4
      <4>4. K[i] = L[i1] /\ K[h] = L[h1]
        BY <1>14, <4>3
      <4>5. Between(seps, i1, k1) /\ Between(seps, h1, k2)
        BY <3>2, <4>2, <4>4
      <4>6. i1 \in 1 .. Len(seps) + 1 /\ h1 \in 1 .. Len(seps) + 1
        BY <4>2
      <4>7. Sorted(seps) /\ i1 < h1 /\ k1 \in Nat /\ k2 \in Nat
        BY <3>2, <4>2, <4>3
      <4>8. k1 <= k2
        BY <4>5, <4>6, <4>7, KeysApart
      <4> QED BY <2>6, <3>1, <4>8
    <3> QED BY <2>5, <3>3, <3>4
  <2> QED BY <2>7, <2>8
<1>19. Placed(t, at)
  <2>1. \A a, b \in 1 .. c : RowAt(t, f[a]) = RowAt(t, f[b]) => a = b
    <3> TAKE a, b \in 1 .. c
    <3>1. a < b \/ b < a \/ a = b
      OBVIOUS
    <3> QED BY <1>18, <3>1
  <2>2. Shallow(t) => \A a, b \in 1 .. c : a < b => KeyAt(t, f[a]) <= KeyAt(t, f[b])
    BY <1>18
  <2> QED BY <1>7, <1>9, <1>10, <1>17, <2>1, <2>2 DEF Placed
<1>20. 1 \in 1 .. n /\ 1 \in 1 .. lens[1] /\ K[1] = L[s]
  <2>1. 1 \in 1 .. n
    BY <1>8
  <2>2. lens[1] \in Nat /\ lens[1] > 0 /\ K[1] = L[s + 1 - 1] /\ s + 1 - 1 = s
    BY <1>2, <1>14, <2>1
  <2> QED BY <2>1, <2>2
<1>21. PICK a \in 1 .. c : f[a] = <<K[1], 1>>
  BY <1>12, <1>20
<1>22. c > 0 /\ 1 \in 1 .. c
  OBVIOUS
<1>23. f[1][1] = L[s]
  <2>1. PICK i \in 1 .. n : \E j \in 1 .. lens[i] : f[1] = <<K[i], j>>
    BY <1>12, <1>22
  <2>2. PICK j \in 1 .. lens[i] : f[1] = <<K[i], j>>
    BY <2>1
  <2>3. f[1][1] = K[i]
    BY <2>2
  <2>4. CASE a = 1
    <3>1. <<K[i], j>> = <<K[1], 1>>
      BY <1>21, <2>2, <2>4
    <3> QED BY <1>20, <2>3, <3>1
  <2>5. CASE a # 1
    <3>1. 1 < a
      BY <2>5
    <3>2. i < 1 \/ (i = 1 /\ j < 1)
      <4>1. PICK o \in 1 .. c : o = 1 /\ o < a
        BY <1>22, <3>1
      <4>2. PICK h \in 1 .. n : h = 1 /\ 1 \in 1 .. lens[h]
        BY <1>20
      <4>3. PICK l \in 1 .. lens[h] : l = 1
        BY <4>2
      <4>4. f[o] = <<K[i], j>> /\ f[a] = <<K[h], l>>
        BY <1>21, <2>2, <4>1, <4>2, <4>3
      <4>5. i < h \/ (i = h /\ j < l)
        BY <1>13, <4>1, <4>4
      <4> QED BY <4>2, <4>3, <4>5
    <3>3. i = 1
      BY <3>2
    <3> QED BY <1>20, <2>3, <3>3
  <2> QED BY <2>4, <2>5
<1>24. ASSUME NEW i \in s .. Len(L), NEW j \in 1 .. Len(t.node[L[i]].keys)
       PROVE  \E b \in 1 .. Len(at) : at[b] = <<L[i], j>>
  <2>1. i - s + 1 \in 1 .. n /\ s + (i - s + 1) - 1 = i
    BY <1>1, <1>2, <1>3
  <2>2. K[i - s + 1] = L[i] /\ lens[i - s + 1] = Len(t.node[L[i]].keys)
    BY <1>14, <2>1
  <2>3. PICK b \in 1 .. c : f[b] = <<K[i - s + 1], j>>
    BY <1>12, <2>1, <2>2
  <2> QED BY <1>7, <1>10, <2>2, <2>3
<1> QED BY <1>7, <1>10, <1>19, <1>22, <1>23, <1>24 DEF Covers

(* The places of a scan from any page.                                     *)
LEMMA PlacedAlways ==
  ASSUME NEW t, NEW rows, Grown(t, rows, {}), NEW p
  PROVE  Placed(t, Positions(t, p))
<1>1. CASE p \notin Leaves(t)
  <2>1. Positions(t, p) = << >>
    BY <1>1, NoPositions
  <2>2. Placed(t, << >>)
    BY DEF Placed
  <2> QED BY <2>1, <2>2
<1>2. CASE p \in Leaves(t)
  <2>1. t.rootPage # IX_NO_PAGE
    BY <1>2, PageKinds DEF Grown
  <2>2. Stocked(t, {})
    BY <2>1 DEF Grown
  <2>3. PICK L : Threaded(t, L) /\ (Shallow(t) => InOrder(t, L))
    BY <2>1 DEF Grown
  <2>4. PICK s \in 1 .. Len(L) : L[s] = p
    <3>1. ToSet(L) = Leaves(t) /\ DOMAIN L = 1 .. Len(L)
      BY <2>3 DEF Threaded
    <3> QED BY <1>2, <3>1 DEF ToSet
  <2>5. PICK at : at = Positions(t, L[s])
    OBVIOUS
  <2>6. Placed(t, at)
    BY <2>2, <2>3, <2>5, PlacedFrom
  <2> QED BY <2>4, <2>5, <2>6
<1> QED BY <1>1, <1>2
-----------------------------------------------------------------------------
(* The rows of a scan are those of the places from the first that matches  *)
(* in the first leaf to the last before one that does not.                 *)
Window(t, compOp, v, at, rows, first, n) ==
  /\ n > 0 /\ first + n - 1 <= Len(at) /\ rows = [i \in 1 .. n |-> RowAt(t, at[first + i - 1])]
  /\ \A i \in 1 .. n : Matches(t, at[first + i - 1], compOp, v)
  /\ first \in MatchesInLeaf(t, at, compOp, v)
  /\ \A a \in MatchesInLeaf(t, at, compOp, v) : first <= a
  /\ (\A a \in first .. Len(at) : Matches(t, at[a], compOp, v)) => first + n - 1 = Len(at)
(* No key of the first leaf matches.                                       *)
NoWindow(t, compOp, v, at, rows) == rows = << >> /\ MatchesInLeaf(t, at, compOp, v) = {}

(* A scan returns either.                                                  *)
LEMMA ScanRowsAre ==
  ASSUME NEW t, NEW compOp, NEW v, NEW at, at = Positions(t, getFirstEntry(t, compOp, v)),
         Placed(t, at), NEW rows, rows = ScanRows(t, compOp, v)
  PROVE  \/ NoWindow(t, compOp, v, at, rows)
         \/ \E first \in 1 .. Len(at), n \in Nat : Window(t, compOp, v, at, rows, first, n)
<1>1. PICK c \in Nat : c = Len(at) /\ DOMAIN at = 1 .. c
  BY DEF Placed
<1>2. PICK f : f = at
  OBVIOUS
<1>3. PICK found : found = MatchesInLeaf(t, f, compOp, v)
  OBVIOUS
<1>4. PICK first : first = Min(found)
  OBVIOUS
<1>5. PICK past : past = {i \in first .. c : ~Matches(t, f[i], compOp, v)}
  OBVIOUS
<1>6. PICK last : last = IF past = {} THEN c ELSE Min(past) - 1
  OBVIOUS
<1>7. PICK rs : rs = rows
  OBVIOUS
<1>8. rs = IF found = {} THEN << >>
           ELSE [i \in 1 .. last - first + 1 |-> RowAt(t, f[first + i - 1])]
  BY <1>1, <1>2, <1>3, <1>4, <1>5, <1>6, <1>7 DEF ScanRows, RowAt
<1>9. CASE found = {}
  BY <1>2, <1>3, <1>7, <1>8, <1>9 DEF NoWindow
<1>10. CASE found # {}
  <2>1. found \in SUBSET Nat /\ found \subseteq 1 .. c
        /\ \A a \in found : Matches(t, f[a], compOp, v)
    BY <1>1, <1>2, <1>3 DEF MatchesInLeaf
  <2>2. first \in found /\ \A a \in found : first <= a
    <3>1. \E m \in found : \A a \in found : m <= a
      BY <1>10, <2>1, LeastNatural
    <3> QED BY <1>4, <3>1 DEF Min
  <2>3. first \in 1 .. c /\ Matches(t, f[first], compOp, v)
    BY <2>1, <2>2
  <2>4. /\ last \in first .. c /\ \A a \in first .. last : Matches(t, f[a], compOp, v)
        /\ past = {} => last = c
    <3>1. CASE past = {}
      BY <1>5, <1>6, <2>3, <3>1
    <3>2. CASE past # {}
      <4>1. past \in SUBSET Nat
        BY <1>5, <2>3
      <4>2. \E m \in past : \A a \in past : m <= a
        BY <3>2, <4>1, LeastNatural
      <4>3. PICK m : m = Min(past)
        OBVIOUS
      <4>4. m \in past /\ \A a \in past : m <= a
        BY <4>2, <4>3 DEF Min
      <4>5. m \in first .. c /\ m # first
        BY <1>5, <2>3, <4>4
      <4>6. last = m - 1
        BY <1>6, <3>2, <4>3
      <4>7. last \in first .. c /\ \A a \in first .. last : a \in first .. c /\ ~(m <= a)
        BY <2>3, <4>5, <4>6
      <4>8. \A a \in first .. last : Matches(t, f[a], compOp, v)
        BY <1>5, <4>4, <4>7
      <4> QED BY <3>2, <4>7, <4>8
    <3> QED BY <3>1, <3>2
  <2>5. PICK n \in Nat : n = last - first + 1
    BY <2>3, <2>4
  <2>6. n > 0 /\ first + n - 1 <= c /\ first + n - 1 = last
        /\ \A i \in 1 .. n : first + i - 1 \in first .. last
    BY <2>3, <2>4, <2>5
  <2>7. rs = [i \in 1 .. n |-> RowAt(t, f[first + i - 1])]
    BY <1>8, <1>10, <2>5
  <2>8. \A i \in 1 .. n : Matches(t, f[first + i - 1], compOp, v)
    BY <2>4, <2>6
  <2>9. (\A a \in first .. c : Matches(t, f[a], compOp, v)) => first + n - 1 = c
    BY <1>5, <2>4, <2>6
  <2>10. Window(t, compOp, v, f, rs, first, n)
    BY <1>1, <1>2, <1>3, <2>2, <2>6, <2>7, <2>8, <2>9 DEF Window
  <2> QED BY <1>1, <1>2, <1>7, <2>3, <2>10
<1> QED BY <1>9, <1>10

(* No row is returned twice, and they come in order where the places do.   *)
LEMMA WindowSound ==
  ASSUME NEW t, NEW compOp, NEW v, NEW at, Placed(t, at), NEW rows,
         \/ NoWindow(t, compOp, v, at, rows)
         \/ \E first \in 1 .. Len(at), n \in Nat : Window(t, compOp, v, at, rows, first, n)
  PROVE  IsInjective(rows) /\ (Shallow(t) => KeyOrder(rows))
<1>1. CASE NoWindow(t, compOp, v, at, rows)
  <2>1. rows = << >>
    BY <1>1 DEF NoWindow
  <2> QED BY <2>1 DEF IsInjective, KeyOrder
<1>2. CASE \E first \in 1 .. Len(at), n \in Nat : Window(t, compOp, v, at, rows, first, n)
  <2>1. PICK first \in 1 .. Len(at), n \in Nat : Window(t, compOp, v, at, rows, first, n)
    BY <1>2
  <2>2. PICK c \in Nat : c = Len(at)
    BY DEF Placed
  <2>3. rows = [i \in 1 .. n |-> RowAt(t, at[first + i - 1])] /\ first + n - 1 <= c
    BY <2>1, <2>2 DEF Window
  <2>4. /\ \A a \in 1 .. c : Key[RowAt(t, at[a])] = KeyAt(t, at[a])
        /\ \A a, b \in 1 .. c : RowAt(t, at[a]) = RowAt(t, at[b]) => a = b
        /\ Shallow(t) => \A a, b \in 1 .. c : a < b => KeyAt(t, at[a]) <= KeyAt(t, at[b])
    BY <2>2 DEF Placed
  <2>5. first \in 1 .. c
    BY <2>2
  <2>6. \A i, j \in 1 .. n : /\ first + i - 1 \in 1 .. c
                             /\ (i < j => first + i - 1 < first + j - 1)
                             /\ (first + i - 1 = first + j - 1 => i = j)
    BY <2>3, <2>5
  <2>7. DOMAIN rows = 1 .. n /\ \A i \in 1 .. n : rows[i] = RowAt(t, at[first + i - 1])
    BY <2>3
  <2>8. IsInjective(rows)
    <3>1. ASSUME NEW i \in 1 .. n, NEW j \in 1 .. n, rows[i] = rows[j] PROVE i = j
      <4>1. PICK a \in 1 .. c, b \in 1 .. c : a = first + i - 1 /\ b = first + j - 1
        BY <2>6
      <4>2. RowAt(t, at[a]) = RowAt(t, at[b])
        BY <2>7, <3>1, <4>1
      <4>3. a = b
        BY <2>4, <4>2
      <4> QED BY <2>6, <4>1, <4>3
    <3> QED BY <2>7, <3>1 DEF IsInjective
  <2>9. ASSUME Shallow(t), NEW i \in 1 .. n, NEW j \in 1 .. n, i < j
        PROVE  Key[rows[i]] <= Key[rows[j]]
    <3>1. PICK a \in 1 .. c, b \in 1 .. c : a = first + i - 1 /\ b = first + j - 1 /\ a < b
      BY <2>6, <2>9
    <3>2. KeyAt(t, at[a]) <= KeyAt(t, at[b])
      BY <2>4, <2>9, <3>1
    <3>3. Key[rows[i]] = KeyAt(t, at[a]) /\ Key[rows[j]] = KeyAt(t, at[b])
      BY <2>4, <2>7, <3>1
    <3> QED BY <3>2, <3>3
  <2>10. Shallow(t) => KeyOrder(rows)
    BY <2>7, <2>9 DEF KeyOrder
  <2> QED BY <2>8, <2>10
<1> QED BY <1>1, <1>2

(* What a scan without a condition starts with: the first leaf.            *)
LEMMA FirstLeaf ==
  ASSUME NEW t, NEW Q, NEW leaf \in Leaves(t), LeftmostPath(t, Q, leaf), NEW v
  PROVE  getFirstEntry(t, "NO_OP", v) = leaf
<1>1. PICK succ :
        succ = [p \in InnerNodes(t) |-> getIntervalFromNode(t.node[p], "NO_OP", v)]
  OBVIOUS
<1>2. succ = [p \in InnerNodes(t) |-> t.node[p].vals[1]]
  BY <1>1 DEF getIntervalFromNode
<1>3. DOMAIN succ = InnerNodes(t) /\ IsFiniteSet(DOMAIN succ) /\ leaf \notin InnerNodes(t)
  <2>1. InnerNodes(t) \subseteq IndexPages /\ IsFiniteSet(IndexPages)
        /\ Leaves(t) \cap InnerNodes(t) = {}
    BY PageKinds
  <2> QED BY <1>2, <2>1, FS_Subset
<1>4. /\ Q \in Seq(IndexPages) /\ Q # << >> /\ IsInjective(Q) /\ Q[1] = t.rootPage
      /\ Q[Len(Q)] = leaf
      /\ \A i \in 1 .. Len(Q) - 1 : Q[i] \in InnerNodes(t) /\ t.node[Q[i]].vals[1] = Q[i + 1]
  BY DEF LeftmostPath
<1>5. Len(Q) \in Nat /\ DOMAIN Q = 1 .. Len(Q) /\ Len(Q) > 0
  BY <1>4
<1>6. PICK m \in Nat : m = Len(Q) /\ m > 0
  BY <1>5
<1>7. PICK n \in Nat : n = m - 1 /\ n + 1 = m
  BY <1>6
<1>8. n = Len(Q) - 1 /\ n + 1 = Len(Q)
  BY <1>6, <1>7
<1>9. \A i, j \in 1 .. n : Q[i] = Q[j] => i = j
  <2>1. \A i \in 1 .. n : i \in DOMAIN Q
    BY <1>5, <1>8
  <2> QED BY <1>4, <2>1 DEF IsInjective
<1>10. \A i \in 1 .. n : Q[i] \in DOMAIN succ /\ succ[Q[i]] = Q[i + 1]
  BY <1>2, <1>3, <1>4, <1>8
<1>11. PICK inner : inner = Chain(succ, Q[1])
  OBVIOUS
<1>12. getFirstEntry(t, "NO_OP", v)
       = Last(Append(inner, IF inner = << >> THEN Q[1] ELSE succ[Last(inner)]))
  BY <1>1, <1>4, <1>11 DEF getFirstEntry, Down
<1>13. CASE n = 0
  <2>1. Q[1] = leaf
    BY <1>4, <1>8, <1>13
  <2>2. inner = << >>
    BY <1>3, <1>11, <2>1, ShortChains
  <2>3. Last(Append(<< >>, leaf)) = leaf
    BY DEF Last
  <2> QED BY <1>12, <2>1, <2>2, <2>3
<1>14. CASE n # 0
  <2>1. n > 0 /\ n \in 1 .. n /\ \A i \in 1 .. n - 1 : i \in 1 .. n
    BY <1>14
  <2>2. succ[Q[n]] = leaf /\ succ[Q[n]] \notin DOMAIN succ
    BY <1>3, <1>4, <1>8, <1>10, <2>1
  <2>3. \A i \in 1 .. n - 1 : succ[Q[i]] = Q[i + 1]
    BY <1>10, <2>1
  <2>4. inner = [i \in 1 .. n |-> Q[i]]
    BY <1>3, <1>9, <1>10, <1>11, <2>1, <2>2, <2>3, PathChain
  <2>5. Len(inner) = n /\ inner[n] = Q[n] /\ inner # << >>
    BY <2>1, <2>4
  <2>6. succ[Last(inner)] = leaf
    BY <2>2, <2>5 DEF Last
  <2>7. PICK d : d = Append(inner, leaf)
    OBVIOUS
  <2>8. Len(d) = n + 1 /\ d[n + 1] = leaf
    BY <2>4, <2>7
  <2> QED BY <1>12, <2>5, <2>6, <2>7, <2>8 DEF Last
<1> QED BY <1>13, <1>14

(* The leaf a scan for one key starts in is the one a search gets to.      *)
LEMMA KeyLeaf ==
  ASSUME NEW t, Planted(t), \A p \in InnerNodes(t) : p = t.rootPage,
         \A i \in 1 .. Len(Kids(t)) : Kids(t)[i] \in Leaves(t), NEW k \in Nat
  PROVE  getFirstEntry(t, "EQ_OP", k) = SearchLeaf(t, k)
<1>1. PICK root : root = t.rootPage
  OBVIOUS
<1>2. PICK succ :
        succ = [p \in InnerNodes(t) |-> getIntervalFromNode(t.node[p], "EQ_OP", k)]
  OBVIOUS
<1>3. succ = [p \in InnerNodes(t) |-> t.node[p].vals[SearchPos(t.node[p].keys, k)]]
  BY <1>2 DEF getIntervalFromNode
<1>4. DOMAIN succ = InnerNodes(t) /\ IsFiniteSet(DOMAIN succ) /\ Leaves(t) \cap InnerNodes(t) = {}
  <2>1. InnerNodes(t) \subseteq IndexPages /\ IsFiniteSet(IndexPages)
        /\ Leaves(t) \cap InnerNodes(t) = {}
    BY PageKinds
  <2> QED BY <1>3, <2>1, FS_Subset
<1>5. PICK inner : inner = Chain(succ, root)
  OBVIOUS
<1>6. getFirstEntry(t, "EQ_OP", k)
      = Last(Append(inner, IF inner = << >> THEN root ELSE succ[Last(inner)]))
  BY <1>1, <1>2, <1>5 DEF getFirstEntry, Down
<1>7. PICK leaf : leaf = SearchLeaf(t, k)
  OBVIOUS
<1>8. leaf \in Leaves(t)
  BY <1>7, SearchLeafIs
<1>9. CASE root \in InnerNodes(t)
  <2>1. t.node[root].type # "ROOT_LEAF"
    BY <1>9 DEF InnerNodes
  <2>2. succ[root] = leaf
    BY <1>1, <1>3, <1>7, <1>9, <2>1 DEF SearchLeaf
  <2>3. inner = <<root>>
    BY <1>4, <1>5, <1>8, <1>9, <2>2, ShortChains
  <2>4. Last(<<root>>) = root /\ <<root>> # << >>
    BY DEF Last
  <2>5. PICK d : d = Append(<<root>>, leaf)
    OBVIOUS
  <2>6. Len(d) = 2 /\ d[2] = leaf
    BY <2>5
  <2>7. Last(d) = leaf
    BY <2>6 DEF Last
  <2> QED BY <1>6, <1>7, <2>2, <2>3, <2>4, <2>5, <2>7
<1>10. CASE root \notin InnerNodes(t)
  <2>1. inner = << >>
    BY <1>4, <1>5, <1>10, ShortChains
  <2>2. t.node[root].type = "ROOT_LEAF"
    BY <1>1, <1>10 DEF Planted, Rooted, IsRoot, InnerNodes
  <2>3. leaf = root
    BY <1>1, <1>7, <2>2 DEF SearchLeaf
  <2>4. Append(<< >>, root) = <<root>> /\ Last(<<root>>) = root
    BY DEF Last
  <2> QED BY <1>6, <1>7, <2>1, <2>3, <2>4
<1> QED BY <1>9, <1>10

(* A scan without a condition returns all rows.                            *)
LEMMA FullScan ==
  ASSUME NEW t, NEW S, Grown(t, S, {}), NEW rows, rows = ScanRows(t, "NO_OP", 0)
  PROVE  Len(rows) = Cardinality(S) /\ ToSet(rows) = S /\ (Shallow(t) => KeyOrder(rows))
<1>1. PICK at : at = Positions(t, getFirstEntry(t, "NO_OP", 0))
  OBVIOUS
<1>2. Placed(t, at)
  BY <1>1, PlacedAlways
<1>3. PICK c \in Nat : c = Len(at) /\ DOMAIN at = 1 .. c
  BY <1>2 DEF Placed
<1>4. PICK rs : rs = rows
  OBVIOUS
<1>5. \/ NoWindow(t, "NO_OP", 0, at, rs)
      \/ \E first \in 1 .. Len(at), n \in Nat : Window(t, "NO_OP", 0, at, rs, first, n)
  BY <1>1, <1>2, <1>4, ScanRowsAre
<1>6. Shallow(t) => KeyOrder(rs)
  BY <1>2, <1>5, WindowSound
<1>7. ASSUME NEW pos PROVE Matches(t, pos, "NO_OP", 0)
  BY DEF Matches, matchIndex
<1>8. c > 0 => 1 \in MatchesInLeaf(t, at, "NO_OP", 0)
  BY <1>3, <1>7 DEF MatchesInLeaf
<1>9. Len(rs) = c /\ DOMAIN rs = 1 .. c /\ \A i \in 1 .. c : rs[i] = RowAt(t, at[i])
  <2>1. CASE NoWindow(t, "NO_OP", 0, at, rs)
    <3>1. rs = << >> /\ c = 0
      BY <1>3, <1>8, <2>1 DEF NoWindow
    <3> QED BY <3>1
  <2>2. CASE \E first \in 1 .. Len(at), n \in Nat : Window(t, "NO_OP", 0, at, rs, first, n)
    <3>1. PICK first \in 1 .. c, n \in Nat : Window(t, "NO_OP", 0, at, rs, first, n)
      BY <1>3, <2>2
    <3>2. first <= 1
      <4>1. 1 \in MatchesInLeaf(t, at, "NO_OP", 0)
        BY <1>8
      <4> QED BY <3>1, <4>1 DEF Window
    <3>3. first + n - 1 = c
      BY <1>3, <1>7, <3>1 DEF Window
    <3>4. first = 1 /\ n = c /\ \A i \in 1 .. n : first + i - 1 = i
      BY <3>2, <3>3
    <3>5. rs = [i \in 1 .. n |-> RowAt(t, at[first + i - 1])]
      BY <3>1 DEF Window
    <3> QED BY <3>4, <3>5
  <2> QED BY <1>5, <2>1, <2>2
<1>10. \A i, j \in 1 .. c : rs[i] = rs[j] => i = j
  BY <1>2, <1>3, <1>9 DEF Placed
<1>11. ToSet(rs) = {rs[i] : i \in 1 .. c}
  BY <1>9 DEF ToSet
<1>12. ToSet(rs) = S
  <2>1. CASE t.rootPage = IX_NO_PAGE
    <3>1. S = {} /\ Leaves(t) = {}
      BY <2>1, PageKinds DEF Grown
    <3>2. c = 0
      BY <1>2, <1>3, <3>1 DEF Placed
    <3> QED BY <1>11, <3>1, <3>2
  <2>2. CASE t.rootPage # IX_NO_PAGE
    <3>1. Stocked(t, {}) /\ S = LeafRows(t)
      BY <2>2 DEF Grown
    <3>2. PICK L, Q : /\ Threaded(t, L) /\ LeftmostPath(t, Q, L[1])
                      /\ Shallow(t) => InOrder(t, L)
      BY <2>2 DEF Grown
    <3>3. Len(L) \in Nat /\ 1 \in 1 .. Len(L) /\ DOMAIN L = 1 .. Len(L) /\ ToSet(L) = Leaves(t)
      BY <3>2 DEF Threaded
    <3>4. L[1] \in Leaves(t)
      BY <3>3 DEF ToSet
    <3>5. at = Positions(t, L[1])
      <4>1. PICK leaf \in Leaves(t) : leaf = L[1]
        BY <3>4
      <4>2. getFirstEntry(t, "NO_OP", 0) = leaf
        BY <3>2, <4>1, FirstLeaf
      <4> QED BY <1>1, <4>1, <4>2
    <3>6. \A i \in 1 .. Len(L) : \A j \in 1 .. Len(t.node[L[i]].keys) :
            \E a \in 1 .. c : at[a] = <<L[i], j>>
      <4>1. PICK s \in 1 .. Len(L) : s = 1
        BY <3>3
      <4>2. \A i \in s .. Len(L) : \A j \in 1 .. Len(t.node[L[i]].keys) :
              \E a \in 1 .. Len(at) : at[a] = <<L[i], j>>
        <5>1. Stocked(t, {}) /\ Threaded(t, L) /\ (Shallow(t) => InOrder(t, L))
          BY <3>1, <3>2
        <5>2. at = Positions(t, L[s])
          BY <3>5, <4>1
        <5>3. Covers(t, L, s, at)
          BY <5>1, <5>2, PlacedFrom
        <5> QED BY <5>3 DEF Covers
      <4> QED BY <1>3, <4>1, <4>2
    <3>7. ASSUME NEW r \in S PROVE r \in ToSet(rs)
      <4>1. PICK p \in Leaves(t) : r \in ToSet(t.node[p].vals)
        BY <3>1 DEF LeafRows
      <4>2. PICK i \in 1 .. Len(L) : L[i] = p
        BY <3>3 DEF ToSet
      <4>3. PICK x, y : x = t.node[p].keys /\ y = t.node[p].vals
        OBVIOUS
      <4>4. LeafHas(x, y) /\ r \in ToSet(y)
        BY <3>1, <4>1, <4>3 DEF Stocked
      <4>5. PICK j \in 1 .. Len(x) : y[j] = r
        BY <4>4, LeafFacts
      <4>6. PICK a \in 1 .. c : at[a] = <<p, j>>
        BY <3>6, <4>2, <4>3
      <4>7. RowAt(t, at[a]) = r
        <5>1. at[a][1] = p /\ at[a][2] = j
          BY <4>6
        <5> QED BY <4>3, <4>5, <5>1 DEF RowAt
      <4> QED BY <1>9, <1>11, <4>7
    <3>8. ASSUME NEW i \in 1 .. c PROVE rs[i] \in S
      <4>1. at[i][1] \in Leaves(t) /\ RowAt(t, at[i]) \in ToSet(t.node[at[i][1]].vals)
        BY <1>2, <1>3 DEF Placed
      <4> QED BY <1>9, <3>1, <4>1 DEF LeafRows
    <3> QED BY <1>11, <3>7, <3>8
  <2> QED BY <2>1, <2>2
<1>13. Cardinality(ToSet(rs)) = c
  <2>1. PICK T : T = {rs[i] : i \in 1 .. c}
    OBVIOUS
  <2>2. IsFiniteSet(T) /\ Cardinality(T) = c
    BY <1>10, <2>1, OnceCounted
  <2> QED BY <1>11, <2>1, <2>2
<1> QED BY <1>4, <1>6, <1>9, <1>12, <1>13

(* With one level of inner nodes and separators that lead to each leaf, a  *)
(* scan for one key returns the rows that have it.                         *)
LEMMA KeyScan ==
  ASSUME NEW t, NEW S, Grown(t, S, {}), Holds(t, S), Shallow(t), NEW k \in Nat,
         NEW rows, rows = ScanRows(t, "EQ_OP", k)
  PROVE  ToSet(rows) = {r \in S : Key[r] = k}
<1>1. PICK at : at = Positions(t, getFirstEntry(t, "EQ_OP", k))
  OBVIOUS
<1>2. Placed(t, at)
  BY <1>1, PlacedAlways
<1>3. PICK c \in Nat : c = Len(at) /\ DOMAIN at = 1 .. c
  BY <1>2 DEF Placed
<1>4. PICK rs : rs = rows
  OBVIOUS
<1>5. \/ NoWindow(t, "EQ_OP", k, at, rs)
      \/ \E first \in 1 .. Len(at), n \in Nat : Window(t, "EQ_OP", k, at, rs, first, n)
  BY <1>1, <1>2, <1>4, ScanRowsAre
<1>6. ASSUME NEW pos PROVE Matches(t, pos, "EQ_OP", k) <=> KeyAt(t, pos) = k
  BY DEF Matches, matchIndex, KeyAt
<1>7. ASSUME NEW a \in 1 .. c
      PROVE  /\ Key[RowAt(t, at[a])] = KeyAt(t, at[a]) /\ at[a][1] \in Leaves(t)
             /\ RowAt(t, at[a]) \in ToSet(t.node[at[a][1]].vals)
  BY <1>2, <1>3 DEF Placed
<1>8. ASSUME NEW x \in ToSet(rs) PROVE x \in S /\ Key[x] = k
  <2>1. PICK first \in 1 .. c, n \in Nat : Window(t, "EQ_OP", k, at, rs, first, n)
    BY <1>3, <1>5 DEF NoWindow, ToSet
  <2>2. rs = [i \in 1 .. n |-> RowAt(t, at[first + i - 1])] /\ first + n - 1 <= c
    BY <1>3, <2>1 DEF Window
  <2>3. PICK i \in 1 .. n : x = RowAt(t, at[first + i - 1])
    BY <2>2 DEF ToSet
  <2>4. PICK a \in 1 .. c : a = first + i - 1
    BY <2>2
  <2>5. x = RowAt(t, at[a]) /\ Matches(t, at[a], "EQ_OP", k)
    BY <2>1, <2>3, <2>4 DEF Window
  <2>6. Key[x] = k
    BY <1>6, <1>7, <2>5
  <2>7. t.rootPage # IX_NO_PAGE
    BY <1>7, PageKinds DEF Grown
  <2>8. S = LeafRows(t)
    BY <2>7 DEF Grown
  <2> QED BY <1>7, <2>5, <2>6, <2>8 DEF LeafRows
<1>9. ASSUME NEW x \in S, Key[x] = k PROVE x \in ToSet(rs)
  <2>1. t.rootPage # IX_NO_PAGE
    BY <1>9 DEF Grown
  <2>2. Planted(t) /\ S = RowsIn(Kids(t), t.node)
    BY <2>1 DEF Holds, Planted
  <2>3. Stocked(t, {})
    BY <2>1 DEF Grown
  <2>4. PICK L : Threaded(t, L) /\ InOrder(t, L)
    BY <2>1 DEF Grown
  <2>5. L = Kids(t) /\ \A p \in InnerNodes(t) : p = t.rootPage
    BY <2>4 DEF InOrder
  <2>6. Len(L) \in Nat /\ DOMAIN L = 1 .. Len(L) /\ \A i \in 1 .. Len(L) : L[i] \in Leaves(t)
    BY <2>4 DEF Threaded, ToSet
  <2>7. PICK s \in 1 .. Len(L) : x \in ToSet(t.node[L[s]].vals)
    BY <2>2, <2>5 DEF RowsIn
  <2>8. PICK p \in Leaves(t) : p = L[s]
    BY <2>6
  <2>9. PICK y, z : y = t.node[p].keys /\ z = t.node[p].vals
    OBVIOUS
  <2>10. LeafHas(y, z)
    BY <2>3, <2>9 DEF Stocked
  <2>11. PICK j \in 1 .. Len(y) : z[j] = x
    BY <2>7, <2>8, <2>9, <2>10, LeafFacts
  <2>12. y[j] = k /\ k \in ToSet(y)
    BY <1>9, <2>10, <2>11, LeafFacts
  <2>13. SearchPos(Seps(t), k) = s
    BY <2>2, <2>5, <2>8, <2>9, <2>12, TiledFacts DEF Planted
  <2>14. getFirstEntry(t, "EQ_OP", k) = L[s]
    <3>1. getFirstEntry(t, "EQ_OP", k) = SearchLeaf(t, k)
      BY <2>2, <2>5, <2>6, KeyLeaf
    <3>2. SearchLeaf(t, k) = Kids(t)[s]
      BY <2>2, <2>13, SearchLeafIs
    <3> QED BY <2>5, <3>1, <3>2
  <2>15. /\ at[1][1] = L[s]
         /\ \A i \in s .. Len(L) : \A l \in 1 .. Len(t.node[L[i]].keys) :
              \E a \in 1 .. Len(at) : at[a] = <<L[i], l>>
    <3>1. Stocked(t, {}) /\ Threaded(t, L) /\ (Shallow(t) => InOrder(t, L))
      BY <2>3, <2>4
    <3>2. at = Positions(t, L[s])
      BY <1>1, <2>14
    <3>3. Covers(t, L, s, at)
      BY <3>1, <3>2, PlacedFrom
    <3> QED BY <3>3 DEF Covers
  <2>16. PICK a \in 1 .. c : at[a] = <<p, j>>
    <3>1. s \in s .. Len(L) /\ j \in 1 .. Len(t.node[L[s]].keys)
      BY <2>6, <2>8, <2>9
    <3> QED BY <1>3, <2>8, <2>15, <3>1
  <2>17. at[a][1] = p /\ at[a][2] = j
    BY <2>16
  <2>18. KeyAt(t, at[a]) = k /\ RowAt(t, at[a]) = x
    BY <2>9, <2>11, <2>12, <2>17 DEF KeyAt, RowAt
  <2>19. a \in MatchesInLeaf(t, at, "EQ_OP", k)
    BY <1>3, <1>6, <2>8, <2>15, <2>17, <2>18 DEF MatchesInLeaf
  <2>20. PICK first \in 1 .. c, n \in Nat : Window(t, "EQ_OP", k, at, rs, first, n)
    BY <1>3, <1>5, <2>19 DEF NoWindow
  <2>21. first = a
    <3>1. first \in MatchesInLeaf(t, at, "EQ_OP", k)
      BY <2>20 DEF Window
    <3>2. at[first][1] = p /\ KeyAt(t, at[first]) = k
      BY <1>6, <2>8, <2>15, <3>1 DEF MatchesInLeaf
    <3>3. PICK w : w = RowAt(t, at[first])
      OBVIOUS
    <3>4. w \in ToSet(z) /\ Key[w] = k
      BY <1>7, <2>9, <3>2, <3>3
    <3>5. PICK l \in 1 .. Len(y) : z[l] = w
      BY <2>10, <3>4, LeafFacts
    <3>6. y[l] = k
      BY <2>10, <3>4, <3>5, LeafFacts
    <3>7. l = j
      BY <2>10, <2>12, <3>6, LeafFacts
    <3>8. RowAt(t, at[first]) = RowAt(t, at[a])
      BY <2>11, <2>18, <3>3, <3>5, <3>7
    <3> QED BY <1>2, <1>3, <3>8 DEF Placed
  <2>22. rs = [i \in 1 .. n |-> RowAt(t, at[first + i - 1])] /\ n > 0
    BY <2>20 DEF Window
  <2>23. 1 \in 1 .. n /\ first + 1 - 1 = a
    BY <2>21, <2>22
  <2>24. rs[1] = x /\ 1 \in DOMAIN rs
    BY <2>18, <2>22, <2>23
  <2> QED BY <2>24 DEF ToSet
<1> QED BY <1>4, <1>8, <1>9

(* FullScanExact: getNextEntry then returns every row once, whatever the   *)
(* rows, their keys, the degree and the size of the file are, and however  *)
(* high the tree has grown.                                                *)
THEOREM IndexFullScanExact == IndexSpec => []FullScanExact
<1>1. GrownInv => FullScanExact
  <2> SUFFICES ASSUME GrownInv, trouble \subseteq {"separator"}
               PROVE  LET rows == ScanRows(tree, "NO_OP", 0)
                      IN /\ Len(rows) = Cardinality(entries) /\ ToSet(rows) = entries
                         /\ Shallow(tree) => KeyOrder(rows)
    BY DEF FullScanExact
  <2>1. Grown(tree, entries, {})
    BY DEF GrownInv
  <2> QED BY <2>1, FullScan
<1> QED BY <1>1, GrownInvariant, PTL

(* ScansSound: whatever the condition is, getNextEntry then returns no row *)
(* twice, and for EQ_OP the rows that have the key, at any size.           *)
THEOREM IndexScansSound == IndexSpec => []ScansSound
<1>1. GrownInv /\ IndexInv => ScansSound
  <2> SUFFICES ASSUME GrownInv, IndexInv, trouble \subseteq {"separator"},
                      NEW compOp \in CompOps, NEW v \in Values,
                      NEW rows, rows = ScanRows(tree, compOp, v)
               PROVE  /\ IsInjective(rows)
                      /\ Shallow(tree) => KeyOrder(rows)
                      /\ compOp = "EQ_OP" /\ Shallow(tree) /\ trouble = {}
                           => ToSet(rows) = {r \in entries : Key[r] = v}
    BY DEF ScansSound
  <2>1. Grown(tree, entries, {})
    BY DEF GrownInv
  <2>2. PICK at : at = Positions(tree, getFirstEntry(tree, compOp, v))
    OBVIOUS
  <2>3. Placed(tree, at)
    BY <2>1, <2>2, PlacedAlways
  <2>4. \/ NoWindow(tree, compOp, v, at, rows)
        \/ \E first \in 1 .. Len(at), n \in Nat : Window(tree, compOp, v, at, rows, first, n)
    BY <2>2, <2>3, ScanRowsAre
  <2>5. IsInjective(rows) /\ (Shallow(tree) => KeyOrder(rows))
    BY <2>3, <2>4, WindowSound
  <2>6. ASSUME compOp = "EQ_OP", Shallow(tree), trouble = {}
        PROVE  ToSet(rows) = {r \in entries : Key[r] = v}
    <3>1. Holds(tree, entries)
      BY <2>6 DEF IndexInv
    <3>2. v \in Nat
      BY IndexAssumption DEF Values
    <3>3. rows = ScanRows(tree, "EQ_OP", v)
      BY <2>6
    <3> QED BY <2>1, <2>6, <3>1, <3>2, <3>3, KeyScan
  <2> QED BY <2>5, <2>6
<1> QED BY <1>1, GrownInvariant, IndexInvariant, PTL
=============================================================================
