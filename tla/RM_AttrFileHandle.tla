-------------------------- MODULE RM_AttrFileHandle --------------------------
(***************************************************************************)
(* The variable-length values of one record file: storage/                 *)
(* attrfilehandle.cpp and the calls of rm_filehandle.cpp that keep the     *)
(* descriptor of a value in its record.  No call knows whether the slot a  *)
(* descriptor names still has its value.  The values live in a file of     *)
(* their own whose pages each hold values of one size class; for each      *)
(* class the pages with room form a list.  The heads of the lists are kept *)
(* in the handle and reach page 0 in closeFile, which writes 16 of their   *)
(* 28 bytes: those of the classes in KeptClasses.                          *)
(*                                                                         *)
(* The record itself is RM_FileHandle's matter: here it is a place that    *)
(* holds a descriptor or none.  The pool is PageCache's content.           *)
(***************************************************************************)
EXTENDS Integers, FiniteSetsExt, Functions, Chains

CONSTANTS Places,       \* the variable-length attributes of the records
          Classes,      \* size classes
          KeptClasses,  \* those whose list heads closeFile writes back
          NumRecords,   \* class -> values in a page
          BitmapBits,   \* class -> bits in a page's bitmap
          MaxPages,     \* bound on the pages of values
          Values, None, NoAttr

ASSUME AttrAssumption ==
  /\ KeptClasses \subseteq Classes
  /\ \A k \in Classes : /\ NumRecords[k] \in Nat \ {0}
                        /\ BitmapBits[k] \in Nat /\ BitmapBits[k] >= NumRecords[k]
  /\ MaxPages \in Nat \ {0} /\ None \notin Values \cup Classes

RM_NO_FREE_PAGE == -1
Pages == 1 .. MaxPages

VARIABLES file,                        \* list heads, pages, number of pages
          bHdrPageChanged, bFileOpen,  \* the handle
          page0,                       \* the list heads in page 0
          attr,                        \* the descriptor in each record
          leaked,   \* whether a call has left a page pinned
          stored,   \* the value a place was given and has not given up (history)
          robbed,   \* places whose value a call for another place has freed
          strayed   \* whether a call left the descriptor of a slot it had freed

history == <<stored, robbed, strayed>>
vars == <<file, bHdrPageChanged, bFileOpen, page0, attr, leaked, history>>

NoHeads == [k \in Classes |-> RM_NO_FREE_PAGE]
NoPage == [class |-> None, nextPage |-> RM_NO_FREE_PAGE, slots |-> << >>]

(* slots maps the slots whose bit is set to their values.  A page's class  *)
(* is nowhere in the page: the lists and the descriptors know it.          *)
Init ==
  /\ file = [heads |-> NoHeads, pages |-> [p \in Pages |-> NoPage], numPages |-> 1]
  /\ bHdrPageChanged = FALSE /\ bFileOpen = FALSE
  /\ page0 = NoHeads
  /\ attr = [o \in Places |-> NoAttr]
  /\ leaked = FALSE
  /\ stored = [o \in Places |-> None] /\ robbed = {} /\ strayed = FALSE
-----------------------------------------------------------------------------
isBitmapFull(k, slots) == 1 .. NumRecords[k] \subseteq DOMAIN slots

(* Wrong on purpose: the first bit that is set. *)
calcFirstZeroBitWrong(k, slots) ==
  Min(IF DOMAIN slots = {} THEN {1} ELSE DOMAIN slots)
calcFirstZeroBit(k, slots) == Min((1 .. BitmapBits[k]) \ DOMAIN slots)

(* Where insertVarValue of the attribute file puts a value of class k: the *)
(* first page of the list, or a new one.                                   *)
Target(f, k) ==
  IF f.heads[k] # RM_NO_FREE_PAGE THEN f.heads[k] ELSE f.numPages
TargetPage(f, k) ==
  IF f.heads[k] # RM_NO_FREE_PAGE THEN f.pages[f.heads[k]]
  ELSE [NoPage EXCEPT !.class = k]
Spot(f, k) ==
  [page |-> Target(f, k), slot |-> calcFirstZeroBit(k, TargetPage(f, k).slots),
   class |-> k]
CanInsert(f, k) == Target(f, k) \in Pages

(* The file with the value v of class k in it. *)
Filled(f, k, v) ==
  LET page == TargetPage(f, k)
      s == Spot(f, k).slot
  IN [t \in DOMAIN page.slots \cup {s} |-> IF t = s THEN v ELSE page.slots[t]]
Inserted(f, k, v) ==
  LET p == Target(f, k)
      page == TargetPage(f, k)
      full == isBitmapFull(k, Filled(f, k, v))
  IN [heads |-> [f.heads EXCEPT ![k] = IF full THEN page.nextPage ELSE p],
      pages |-> [f.pages EXCEPT ![p] =
                   [class |-> page.class, slots |-> Filled(f, k, v),
                    nextPage |-> IF full THEN RM_NO_FREE_PAGE ELSE page.nextPage]],
      numPages |-> IF p = f.numPages THEN p + 1 ELSE f.numPages]
InsertTouchesHdr(f, k, v) ==
  f.heads[k] = RM_NO_FREE_PAGE \/ isBitmapFull(k, Filled(f, k, v))

(* The file without the value at a; its page goes back to the head of its  *)
(* list if it was full.  A bug on purpose: asked after the bit is cleared. *)
DeletedWrong(f, a) ==
  LET page == f.pages[a.page]
      left == Restrict(page.slots, DOMAIN page.slots \ {a.slot})
      full == isBitmapFull(a.class, left)
  IN [heads |-> [f.heads EXCEPT ![a.class] = IF full THEN a.page ELSE @],
      pages |-> [f.pages EXCEPT ![a.page] =
                   [class |-> page.class, slots |-> left,
                    nextPage |-> IF full THEN f.heads[a.class] ELSE page.nextPage]],
      numPages |-> f.numPages]
Deleted(f, a) ==
  LET page == f.pages[a.page]
      left == Restrict(page.slots, DOMAIN page.slots \ {a.slot})
      full == isBitmapFull(a.class, page.slots)
  IN [heads |-> [f.heads EXCEPT ![a.class] = IF full THEN a.page ELSE @],
      pages |-> [f.pages EXCEPT ![a.page] =
                   [class |-> page.class, slots |-> left,
                    nextPage |-> IF full THEN f.heads[a.class] ELSE page.nextPage]],
      numPages |-> f.numPages]
DeleteTouchesHdr(f, a) == isBitmapFull(a.class, f.pages[a.page].slots)
-----------------------------------------------------------------------------
(* insertVarValue.  The descriptor is written into the record, over one    *)
(* that may be there, unless the record's page cannot be got: then the     *)
(* slot is taken and nobody knows it.  A call that fails before changes    *)
(* nothing: no step.                                                       *)
InsertVarValue(o, k, v) ==
  /\ bFileOpen /\ CanInsert(file, k)
  /\ file' = Inserted(file, k, v)
  /\ bHdrPageChanged' = (bHdrPageChanged \/ InsertTouchesHdr(file, k, v))
  /\ \/ /\ attr' = [attr EXCEPT ![o] = Spot(file, k)]
        /\ stored' = [stored EXCEPT ![o] = v] /\ robbed' = robbed \ {o}
     \/ UNCHANGED <<attr, stored, robbed>>
  /\ UNCHANGED <<bFileOpen, page0, leaked, strayed>>

(* insertVarValue of a value above the largest class returns 0, and the    *)
(* record gets the descriptor its caller came with, which names nothing;   *)
(* or the record is deleted alone.  The slot stays taken.                  *)
ForgetValue(o) ==
  /\ bFileOpen /\ attr[o] # NoAttr
  /\ attr' = [attr EXCEPT ![o] = NoAttr]
  /\ stored' = [stored EXCEPT ![o] = None] /\ robbed' = robbed \ {o}
  /\ UNCHANGED <<file, bHdrPageChanged, bFileOpen, page0, leaked, strayed>>

(* deleteVarValue of the attribute file on the descriptor of o, when the   *)
(* bit of the slot is set.  The value it frees is that of o, or of whoever *)
(* got the slot after a call that left o the descriptor of a freed slot.   *)
Taken(o) ==
  /\ bFileOpen /\ attr[o] # NoAttr
  /\ attr[o].slot \in DOMAIN file.pages[attr[o].page].slots
Robs(o) ==
  robbed' = (robbed \ {o}) \cup {q \in Places \ {o} : stored[q] # None /\ attr[q] = attr[o]}

(* deleteVarValue.  Its caller deletes the record as well, or does not. *)
DeleteVarValue(o) ==
  /\ Taken(o)
  /\ file' = Deleted(file, attr[o])
  /\ bHdrPageChanged' = (bHdrPageChanged \/ DeleteTouchesHdr(file, attr[o]))
  /\ \/ attr' = [attr EXCEPT ![o] = NoAttr] /\ UNCHANGED strayed
     \/ UNCHANGED attr /\ strayed' = TRUE
  /\ stored' = [stored EXCEPT ![o] = None] /\ Robs(o)
  /\ UNCHANGED <<bFileOpen, page0, leaked>>

(* updateVarValue: the old value deleted, the new one inserted, perhaps    *)
(* elsewhere, and the descriptor rewritten, or not (as above).             *)
UpdateVarValue(o, k, v) ==
  /\ Taken(o)
  /\ LET f == Deleted(file, attr[o])
     IN /\ CanInsert(f, k)
        /\ file' = Inserted(f, k, v)
        /\ bHdrPageChanged' = (\/ bHdrPageChanged \/ DeleteTouchesHdr(file, attr[o])
                               \/ InsertTouchesHdr(f, k, v))
        /\ \/ /\ attr' = [attr EXCEPT ![o] = Spot(f, k)]
              /\ stored' = [stored EXCEPT ![o] = v] /\ UNCHANGED strayed
           \/ /\ UNCHANGED attr
              /\ stored' = [stored EXCEPT ![o] = None] /\ strayed' = TRUE
  /\ Robs(o)
  /\ UNCHANGED <<bFileOpen, page0, leaked>>

(* updateVarValue whose insertion fails, or returns 0 without storing a    *)
(* value above the largest class: the old value is gone all the same, and  *)
(* the record keeps the descriptor of its slot.                            *)
UpdateLosesValue(o) ==
  /\ Taken(o)
  /\ file' = Deleted(file, attr[o])
  /\ bHdrPageChanged' = (bHdrPageChanged \/ DeleteTouchesHdr(file, attr[o]))
  /\ stored' = [stored EXCEPT ![o] = None] /\ strayed' = TRUE /\ Robs(o)
  /\ UNCHANGED <<bFileOpen, page0, attr, leaked>>

(* RM_INCONSISTENT_BITMAP from deleteVarValue or updateVarValue: the slot  *)
(* is free already.  The page stays pinned.                                *)
FreedBefore(o) ==
  /\ bFileOpen /\ attr[o] # NoAttr /\ ~Taken(o)
  /\ leaked' = TRUE
  /\ UNCHANGED <<file, bHdrPageChanged, bFileOpen, page0, attr, history>>
-----------------------------------------------------------------------------
OpenFile ==
  /\ ~bFileOpen
  /\ file' = [file EXCEPT !.heads = page0]
  /\ bHdrPageChanged' = FALSE /\ bFileOpen' = TRUE
  /\ UNCHANGED <<page0, attr, leaked, history>>

(* The list heads go to page 0; then the paged files are closed, which may *)
(* fail, and does as long as a page is pinned, and leave the handle open.  *)
HeadsWritten ==
  [k \in Classes |-> IF bHdrPageChanged /\ k \in KeptClasses
                     THEN file.heads[k] ELSE page0[k]]
CloseFile ==
  /\ bFileOpen
  /\ page0' = HeadsWritten
  /\ \/ ~leaked /\ bFileOpen' = FALSE /\ bHdrPageChanged' = FALSE
     \/ UNCHANGED <<bFileOpen, bHdrPageChanged>>
  /\ UNCHANGED <<file, attr, leaked, history>>

Next ==
  \/ OpenFile \/ CloseFile
  \/ \E o \in Places :
       \/ DeleteVarValue(o) \/ UpdateLosesValue(o) \/ FreedBefore(o) \/ ForgetValue(o)
       \/ \E k \in Classes, v \in Values : InsertVarValue(o, k, v) \/ UpdateVarValue(o, k, v)

Spec == Init /\ [][Next]_vars
-----------------------------------------------------------------------------
(* getVarValue finds a value where its record says, in a page of its own   *)
(* class, and no two records name the same slot: across updates that move  *)
(* values, pages that fill and come back, reopening, and calls that fail.  *)
(* Only a call for a record whose descriptor names the same slot can rob   *)
(* it, and there is such a record only after an updateVarValue that failed *)
(* or got too long a value, or a deleteVarValue without its deleteRec.     *)
Seen(o) == file.pages[attr[o].page].slots[attr[o].slot]
Keeping == {o \in Places \ robbed : stored[o] # None}
ValuesKept ==
  /\ \A o \in Keeping :
       LET page == file.pages[attr[o].page]
       IN /\ page.class = attr[o].class
          /\ attr[o].slot \in DOMAIN page.slots /\ attr[o].slot <= NumRecords[page.class]
          /\ Seen(o) = stored[o]
  /\ \A o, q \in Keeping : attr[o] = attr[q] => o = q
  /\ robbed # {} => strayed

(* The list of a class has pages of that class with room, each once; every *)
(* such page, if closeFile writes the head of that list back.              *)
WithRoom(k) ==
  {p \in Pages : file.pages[p].class = k /\ ~isBitmapFull(k, file.pages[p].slots)}
RoomListsSound ==
  bFileOpen => \A k \in Classes :
    \E on \in SUBSET WithRoom(k) :
      /\ ChainIs([p \in Pages |-> file.pages[p].nextPage], file.heads[k], on, RM_NO_FREE_PAGE)
      /\ k \in KeptClasses => on = WithRoom(k)
=============================================================================
