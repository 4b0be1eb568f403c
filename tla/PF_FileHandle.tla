---------------------------- MODULE PF_FileHandle ----------------------------
(***************************************************************************)
(* One paged file: storage/pf_filehandle.cpp and the open and close of     *)
(* storage/pf_manager.cpp.  The header (first free page, number of pages)  *)
(* lives in the handle and reaches the file only with flushPages and       *)
(* forcePages; a page carries the link of the free list in its own header. *)
(* The buffer pool below is what PageCache promises: content is the        *)
(* current content of a page, disk what the file holds, pins the pins.     *)
(***************************************************************************)
EXTENDS Integers, FiniteSets, Sequences, Chains

CONSTANTS MaxPages,  \* bound on the pages of the file
          MaxPins,   \* bound on the pins on one page
          Data,      \* what a client stores in a page
          Zero, Absent

ASSUME FileAssumption ==
  /\ MaxPages \in Nat \ {0} /\ MaxPins \in Nat \ {0}
  /\ Zero \in Data /\ Absent \notin [nextFree : Int, data : Data]

PF_PAGE_LIST_END == -1
PF_PAGE_USED == -2
Pages == 0 .. MaxPages - 1

VARIABLES hdr, bHdrChanged, bFileOpen,  \* the handle
          fileHdr,                      \* the header in the file
          content, disk, pins,          \* the pages
          rc                            \* what the last call returned

handle == <<hdr, bHdrChanged, bFileOpen>>
vars == <<handle, fileHdr, content, disk, pins, rc>>

Page(link, data) == [nextFree |-> link, data |-> data]
Hole == Page(0, Zero)   \* bytes the file system fills in
NoPages == [firstFree |-> PF_PAGE_LIST_END, numPages |-> 0]

(* After createFile. *)
Init ==
  /\ fileHdr = NoPages /\ hdr = NoPages
  /\ bHdrChanged = FALSE /\ bFileOpen = FALSE
  /\ content = [p \in Pages |-> Absent] /\ disk = content
  /\ pins = [p \in Pages |-> 0]
  /\ rc = "OK"

isValidPageNum(p) == p >= 0 /\ p < hdr.numPages
IsUsed(p) == content[p].nextFree = PF_PAGE_USED

Return(code) ==
  rc' = code /\ UNCHANGED <<handle, fileHdr, content, disk, pins>>

(* The pool has no frame, or cannot read or write: the call returns its    *)
(* error before it has changed anything.                                   *)
PoolFails == bFileOpen /\ Return("PF_ERROR")

OpenFile ==
  /\ ~bFileOpen
  /\ hdr' = fileHdr /\ bHdrChanged' = FALSE /\ bFileOpen' = TRUE
  /\ rc' = "OK"
  /\ UNCHANGED <<fileHdr, content, disk, pins>>

(* The new page starts zeroed, pinned and dirty. *)
HandOut(p) ==
  /\ content' = [content EXCEPT ![p] = Page(PF_PAGE_USED, Zero)]
  /\ pins' = [pins EXCEPT ![p] = @ + 1]
  /\ bHdrChanged' = TRUE
  /\ rc' = "OK"
  /\ UNCHANGED <<bFileOpen, fileHdr, disk>>

(* Bugs the properties must reject: the rest of the free list is lost, or  *)
(* the page stays its head.                                                *)
AllocateReuseLosesWrong ==
  /\ bFileOpen /\ hdr.firstFree # PF_PAGE_LIST_END
  /\ hdr' = [hdr EXCEPT !.firstFree = PF_PAGE_LIST_END]
  /\ HandOut(hdr.firstFree)
AllocateReuseTwiceWrong ==
  /\ bFileOpen /\ hdr.firstFree \in Pages
  /\ hdr' = hdr
  /\ HandOut(hdr.firstFree)

AllocateReuse ==
  /\ bFileOpen /\ hdr.firstFree # PF_PAGE_LIST_END
  /\ hdr' = [hdr EXCEPT !.firstFree = content[@].nextFree]
  /\ HandOut(hdr.firstFree)

AllocateNew ==
  /\ bFileOpen /\ hdr.firstFree = PF_PAGE_LIST_END
  /\ hdr.numPages < MaxPages
  /\ hdr' = [hdr EXCEPT !.numPages = @ + 1]
  /\ HandOut(hdr.numPages)

DisposePage(p) ==
  /\ bFileOpen
  /\ \/ ~isValidPageNum(p) /\ Return("PF_INVALIDPAGE")
     \/ isValidPageNum(p) /\ pins[p] > 0 /\ Return("PF_PAGEPINNED")
     \/ isValidPageNum(p) /\ pins[p] = 0 /\ ~IsUsed(p) /\ Return("PF_PAGEFREE")
     \/ /\ isValidPageNum(p) /\ pins[p] = 0 /\ IsUsed(p)
        /\ content' = [content EXCEPT ![p].nextFree = hdr.firstFree]
        /\ hdr' = [hdr EXCEPT !.firstFree = p]
        /\ bHdrChanged' = TRUE
        /\ rc' = "OK"
        /\ UNCHANGED <<bFileOpen, fileHdr, disk, pins>>

Pin(p) ==
  /\ pins[p] < MaxPins
  /\ pins' = [pins EXCEPT ![p] = @ + 1]
  /\ rc' = "OK"
  /\ UNCHANGED <<handle, fileHdr, content, disk>>

GetThisPage(p) ==
  /\ bFileOpen
  /\ IF isValidPageNum(p) /\ IsUsed(p) THEN Pin(p) ELSE Return("PF_INVALIDPAGE")

(* getNextPage and getPrevPage: the nearest used page after or before p;   *)
(* getFirstPage and getLastPage start outside the file.                    *)
UsedPages == {p \in 0 .. hdr.numPages - 1 : IsUsed(p)}
GetNextPage(p) ==
  /\ bFileOpen
  /\ \/ p # -1 /\ ~isValidPageNum(p) /\ Return("PF_INVALIDPAGE")
     \/ /\ p = -1 \/ isValidPageNum(p)
        /\ LET after == {q \in UsedPages : q > p}
           IN \/ after = {} /\ Return("PF_EOF")
              \/ \E q \in after : (\A r \in after : q <= r) /\ Pin(q)
GetPrevPage(p) ==
  /\ bFileOpen
  /\ \/ p # hdr.numPages /\ ~isValidPageNum(p) /\ Return("PF_INVALIDPAGE")
     \/ /\ p = hdr.numPages \/ isValidPageNum(p)
        /\ LET before == {q \in UsedPages : q < p}
           IN \/ before = {} /\ Return("PF_EOF")
              \/ \E q \in before : (\A r \in before : q >= r) /\ Pin(q)

UnpinPage(p) ==
  /\ bFileOpen
  /\ \/ ~isValidPageNum(p) /\ Return("PF_INVALIDPAGE")
     \/ isValidPageNum(p) /\ pins[p] = 0 /\ Return("PF_PAGEUNPINNED")
     \/ /\ isValidPageNum(p) /\ pins[p] > 0
        /\ pins' = [pins EXCEPT ![p] = @ - 1]
        /\ rc' = "OK"
        /\ UNCHANGED <<handle, fileHdr, content, disk>>

(* A client stores into a page it has pinned and calls markDirty. *)
MarkDirty(p, d) ==
  /\ bFileOpen /\ isValidPageNum(p) /\ pins[p] > 0
  /\ content' = [content EXCEPT ![p].data = d]
  /\ rc' = "OK"
  /\ UNCHANGED <<handle, fileHdr, disk, pins>>
-----------------------------------------------------------------------------
(* The file with the pages of S written, and the holes that leaves. *)
Written(S) ==
  [p \in Pages |-> IF p \in S THEN content[p]
                   ELSE IF disk[p] = Absent /\ \E q \in S : p < q THEN Hole ELSE disk[p]]
Loaded == {p \in Pages : content[p] # Absent}

(* The flag is cleared and the header not written. *)
WriteHdrWrong ==
  /\ bHdrChanged' = FALSE
  /\ UNCHANGED <<hdr, fileHdr>>

WriteHdr ==
  /\ fileHdr' = IF bHdrChanged THEN hdr ELSE fileHdr
  /\ bHdrChanged' = FALSE
  /\ UNCHANGED hdr

(* The pool evicts a page to make room. *)
Evict(p) ==
  /\ p \in Loaded /\ pins[p] = 0 /\ disk[p] # content[p]
  /\ disk' = Written({p})
  /\ UNCHANGED <<handle, fileHdr, content, pins, rc>>

(* forcePages(ALL_PAGES): the header, then every dirty page; or pages of   *)
(* S, and then a write fails.                                              *)
ForcePages ==
  /\ bFileOpen
  /\ WriteHdr
  /\ \/ disk' = Written(Loaded) /\ rc' = "OK"
     \/ \E S \in SUBSET Loaded : disk' = Written(S) /\ rc' = "PF_ERROR"
  /\ UNCHANGED <<bFileOpen, content, pins>>

(* forcePages of one page: the pool writes it unless it is clean or its    *)
(* walk stops at another file's page of that number (BufferMgr).           *)
ForceSinglePage(p) ==
  /\ bFileOpen /\ p \in Loaded
  /\ WriteHdr
  /\ disk' \in {disk, Written({p})}
  /\ rc' = "OK"
  /\ UNCHANGED <<bFileOpen, content, pins>>

(* flushPages: the header, then every unpinned page, and a warning for the *)
(* pinned ones; or pages of S, and then a write fails.                     *)
Unpinned == {p \in Loaded : pins[p] = 0}
Flushed ==
  /\ bFileOpen
  /\ WriteHdr
  /\ \/ /\ disk' = Written(Unpinned)
        /\ rc' = IF Unpinned = Loaded THEN "OK" ELSE "PF_PAGEPINNED"
     \/ \E S \in SUBSET Unpinned : disk' = Written(S) /\ rc' = "PF_ERROR"
  /\ UNCHANGED <<content, pins>>

FlushPages == Flushed /\ UNCHANGED bFileOpen

(* The handle is closed whatever flushPages reports. *)
CloseFileWrong == Flushed /\ bFileOpen' = FALSE

(* PF_Manager's closeFile: whatever flushPages reports keeps it open.      *)
CloseFile == Flushed /\ bFileOpen' = (rc' # "OK")

Next ==
  \/ OpenFile \/ AllocateReuse \/ AllocateNew \/ PoolFails
  \/ \E p \in Pages :
       \/ DisposePage(p) \/ GetThisPage(p) \/ UnpinPage(p)
       \/ ForceSinglePage(p) \/ Evict(p)
       \/ \E d \in Data : MarkDirty(p, d)
  \/ \E p \in -1 .. MaxPages : GetNextPage(p) \/ GetPrevPage(p)
  \/ ForcePages \/ FlushPages \/ CloseFile

Spec == Init /\ [][Next]_vars
-----------------------------------------------------------------------------
Link == {PF_PAGE_USED, PF_PAGE_LIST_END} \cup Pages
PageOrAbsent == [nextFree : Link, data : Data] \cup {Absent}
Header == [firstFree : Link, numPages : 0 .. MaxPages]

TypeOK ==
  /\ hdr \in Header /\ fileHdr \in Header
  /\ bHdrChanged \in BOOLEAN /\ bFileOpen \in BOOLEAN
  /\ content \in [Pages -> PageOrAbsent] /\ disk \in [Pages -> PageOrAbsent]
  /\ pins \in [Pages -> 0 .. MaxPins]

(* Header h and pages f make a file: it has the pages the header counts,   *)
(* and the free list from firstFree is every page not in use, each once.   *)
FileSound(h, f) ==
  /\ \A p \in Pages : p < h.numPages <=> f[p] # Absent
  /\ LET in == 0 .. h.numPages - 1
     IN ChainIs([p \in in |-> f[p].nextFree], h.firstFree,
                {p \in in : f[p].nextFree # PF_PAGE_USED}, PF_PAGE_LIST_END)

(* The handle and the pool make a sound file at all times, across reuse,   *)
(* disposal, failed calls, evictions and reopening.                        *)
FreeListExact == bFileOpen => FileSound(hdr, content)

(* A file that has been closed is sound as it lies on the disk, and has    *)
(* the bytes its clients stored.                                           *)
ClosedFileSound == ~bFileOpen => FileSound(fileHdr, disk) /\ disk = content

(* When forcePages returns 0 the file on the disk is sound by itself, with *)
(* the handle still open and pages still pinned.                           *)
ForcedFileSound ==
  [][ForcePages /\ rc' = "OK" => FileSound(fileHdr', disk') /\ disk' = content']_vars

(* The data of a page in use changes only while a client has it pinned:    *)
(* no allocation hands out (and zeroes) a page somebody uses, and no       *)
(* disposal takes one away from a client that has it pinned.               *)
UsedPageKept ==
  [][\A p \in Pages :
       content[p] # Absent /\ IsUsed(p) /\ content'[p] # content[p] =>
         IF content'[p].nextFree = PF_PAGE_USED THEN pins[p] > 0 ELSE pins[p] = 0]_vars
=============================================================================
