# MyDatabase in TLA+

MyDatabase is a small relational database in C++: a buffer pool over paged
files, record files and B+ trees on top of it, and a catalog and a row
interface on top of those. This directory holds TLA+ modules of these layers,
the TLC configurations that check them, and proofs that what the runs check on
small instances holds for every size: of the reader-writer lock, the page table,
the buffer pool and the links of its lists, paged files, record files and scans,
variable-length values, the searches of the index, the catalog and the rows.

Paths below are relative to `src/`.

## 1. The system

| Component | Source | State it keeps | Operations |
| --- | --- | --- | --- |
| Reader-writer lock | `atomic/RWLock.*` | readCount, writeCount, two condition variables, one mutex | readLock, readUnlock, writeLock, writeUnlock, and guards that pair them |
| Page table | `storage/bufhashtable.*` | buckets of heap-allocated, doubly linked entries | find, insert, remove |
| Buffer pool | `storage/bufmgr.*` | frames, their descriptors (file, page, dirty, pin count), used list in MRU order, free list, threaded by next/prev | getPage, allocatePage, markDirty, unpinPage, flushPages, forcePages, forceSinglePage |
| Paged files (PF) | `storage/pf_*` | per open file: first free page, number of pages, changed flag; in each page its free-list link | createFile, openFile, closeFile, destroyFile; allocate, dispose, get this/next/prev, unpin, markDirty, flush, force |
| Record files (RM) | `storage/rm_filehandle.cpp`, `rm_manager.cpp`, `rm_bitmap.cpp` | per open file: first page with room, record count; in each page a bitmap, the records and the link of that list | insertRec, deleteRec, updateRec, getRec, forcePages, create, open, close |
| Variable-length values | `storage/attrfilehandle.cpp`, `rm_varlenattr.cpp` | a second file with one list of pages with room per size class (seven) | insertVarValue, updateVarValue, deleteVarValue, getVarValue |
| File scan | `storage/rm_filescan.cpp` | a copy of the record file's handle, a position | openScan, getNextRec, closeScan |
| B+ tree index (IX) | `storage/ix_manager.cpp`, `ix_indexhandle.cpp` | header with the root page; node pages, overflow pages for duplicate keys | insertEntry, deleteEntry, searches, create, open, close |
| Index scan | `storage/ix_indexscan.cpp` | leaf and position | openScan, getNextEntry, closeScan |
| Catalog (DDL) | `sql/ddl_manager.cpp` | two record files, relcat and attrcat | createTable, dropTable, createIndex, dropIndex, openDb, closeDb, and functions that read or print |
| Rows (DML) | `sql/dml_manager.cpp` | none between calls, but files it leaves open | insert (delete, update and select are not in the code) |
| Drivers, messages, tests | `main.cpp`, `playground.cpp`, `error_message/`, `test/` | none | |

**How they interact.** Everything is a direct call downwards: DML calls DDL
for the catalog, RM for the record, the attribute file for its variable-length
values and IX for its index entries; RM and IX call PF; PF calls the buffer
pool, and the pool calls its page table and the operating system. There are no
messages and no callbacks. What is shared is the pool: all open files of all
handles use one `BufferMgr`, which guards the frame lists with `listLock` and
the page table with a lock of its own. The README of the repository (line 27)
promises thread-safe operations on these reader-writer locks, and
`test/concurrent_test.cpp` starts threads; the drivers have one thread.

**What is hard here.**

- *Threads.* The lock itself; the helpers of the pool take and drop `listLock`
  one by one, so other threads run in the middle of a getPage; the page table
  removes entries without a lock.
- *Failing calls.* A read or write of a page can fail in the middle of an
  eviction, a flush or a force, with frames already moved; and a call of DDL or
  DML between the files it changes one after the other, with no way back.
- *Linked state that two places hold.* The free list of a paged file, the list
  of pages with room of a record file, leaf chains of the tree, and headers that
  are cached in a handle and written only now and then.
- *Crashes.* There is no log. What a crash leaves is what happened to be written.
- *Copies.* Record, scan and index handles copy the PF handle with its header.

**What makes each component right.** The lock: exclusion, and no thread asleep
on a lock nobody holds. The page table: a map, each call atomic. The pool: no
frame, pin or update is ever lost, and it fails only when every frame is pinned.
PF: the free list is exactly the free pages, in the handle and, after a close or
a force, on disk. RM: a record inserted is found with its bytes until deleted,
every page with room is found. Attribute file: like RM,
per size class. Scans: every record that is there all along is returned once.
IX: keys in order, every entry reachable from the root and along the leaves.
DDL and DML: catalog, record, values and index entries agree.

`PROJECT.json` lists the hazards one by one, each at its line, with the
properties that cover it.

## 2. Modules

| Module | Models | Instantiated by |
| --- | --- | --- |
| `AbstractRWLock` | what a reader-writer lock promises | `RWLock`, `BufHashTable` |
| `RWLock` | `atomic/RWLock.cpp`, one action per method up to where it returns or sleeps | `MCRWLock`, `BufferMgrProofs` |
| `SlotMap` | a map from pages to slots with atomic insert and remove | `BufHashTable` |
| `BufHashTable` | `storage/bufhashtable.cpp`, one step per access to memory that `remove` can interfere with | `MCBufHashTable`, `BufHashTableProofs` |
| `SlotLists` | two lists of frames and the three ways to change them | `BufferThreads` |
| `PageCache` | one current content per page, a file that trails behind it | `BufferMgr` |
| `BufferMgr` | `storage/bufmgr.cpp` as one thread calls it: every operation and every error path | `MCBufferMgr`, `BufferMgrProofs` |
| `BufferThreads` | the same file as threads interleave in it: links, lock scopes, pins | `MCBufferThreads`, `BufferThreadsProofs` |
| `PF_FileHandle` | `pf_filehandle.cpp` and create/open/close of `pf_manager.cpp` | `MCPF_FileHandle`, `PF_IX_Proofs` |
| `RM_FileHandle` | `rm_filehandle.cpp`, `rm_bitmap.cpp` and create/open/close of `rm_manager.cpp` | `MCRM_FileHandle`, `RM_FileScan` |
| `RM_FileScan` | `rm_filescan.cpp` over `RM_FileHandle` | `MCRM_FileScan`, `RM_FileHandleProofs` |
| `IX_IndexHandle` | `ix_indexhandle.cpp` and create/open/close of `ix_manager.cpp` | `IX_IndexScan` |
| `IX_IndexScan` | `ix_indexscan.cpp` over `IX_IndexHandle` | `MCIX_IndexScan`, `PF_IX_Proofs` |
| `RM_AttrFileHandle` | `attrfilehandle.cpp` and the calls of `rm_filehandle.cpp` that keep a value's descriptor in its record | `MCRM_AttrFileHandle`, `RM_AttrFileHandleProofs` |
| `DDL_Manager` | `sql/ddl_manager.cpp` and `dbcreate.cpp` over record files that are sets of rows and indexes that are sets of entries | `DML_Manager` |
| `DML_Manager` | insert of `sql/dml_manager.cpp`, with the calls of `DDL_Manager` in between | `MCDML_Manager`, `DML_ManagerProofs` |
| `Chains` | a linked list read out of a successor function | several |
| `Lemmas` | nothing: facts about lists and least elements that proofs share | the proofs of the page table, the links, PF, IX, RM, values and DML |

The `...Proofs` modules and `Lemmas` hold the theorems.

The layers meet at the abstract modules. `BufHashTable` uses `AbstractRWLock`
for its lock, and `RWLock` implements that. `BufferMgr` has sequences where the
code has links; `BufferThreads`, which has the links, implements those sequences
as `SlotLists` has them. `PF_FileHandle` and `RM_FileHandle` see the pool as content, disk
and pins, which is what `PageCache` says and `BufferMgr` implements: any
unpinned page may be written at any time (`Evict`), a pinned one stays.
`RM_FileScan` and `IX_IndexScan` extend the modules they scan. `DDL_Manager` and
`DML_Manager` take of a record file or an index only what the modules below them
say: a set of rows, or of entries in the leaves, in the handle until it is forced,
closed or written. An index is no lossless set: a row whose key is there already
may get no entry although insertEntry returns 0 (`Entered`, for what
`IX_IndexHandle!InOverflow` does with it).

**`RWLock`.** `pc[t]` is where a thread stands: outside, asleep on one of the
condition variables, woken and waiting for `rwMutex`, or inside. Each method
runs under `rwMutex`, so it is atomic up to a wait; a wakeup and the second look
at the predicate are two steps, and wakeups may be spurious.

**`BufHashTable`.** `hashTable`, `next`, `prev`, `key` and `slot` are the heads
and fields of entries, `live` the entries allocated. find holds the lock for
reading, insert for writing; remove has `WriteGuard` commented out (line 97), so
its loads and stores are steps of their own.

**`BufferMgr`.** A frame's descriptor is `bufTable[s]`; `used` and `free` are
the lists; `hashTable` the page table as a map; `disk` the files, where a page
may be absent or torn by a write cut short. `held` (the pins clients have been
given) and `fresh` (pages from allocatePage not marked dirty yet) are history:
no guard of the pool reads `held`, and `fresh` only restricts the client, which
is PF and marks a new page dirty before it unpins it. flushPages and forcePages
take one step per frame so that a failing write can end them in the middle.
markDirty carries the bytes the client has just stored.

**`BufferThreads`.** Every `pc` is a place where the thread holds no lock (or,
`holder`, keeps `listLock` across steps, as flushPages does). Contents and dirty
bits are left to `BufferMgr`. `Spec` lets calls overlap at every such place;
`SerialSpec` lets a call begin only while no thread is inside one (`NoneInside`),
which is how the drivers of the repository use the pool.

**`PF_FileHandle`.** `hdr` is the header in the handle and `fileHdr` the one in
the file. A page has its link (`nextFree`: used, end of list, or a page) and its
data. Where a call fails before it has changed anything there is one step,
`PoolFails`. A force or flush writes any set of pages and then fails, or all.

**`RM_FileHandle`.** A page has its link, its bitmap (a set of bits) and its
record slots; `BitmapBits` is `NumberRecords` rounded up to bytes. insertRec sent to
a full page with a spare bit, as a crash can make it, takes the bit and writes the
record past the end of the page (`rm_filehandle.cpp:151-169`): `InsertPastPage`, after
which page 0 or some other page in memory may hold anything (`Overwrites`). `live` and
`forced` are history: what the callers have been told is stored, and is durable.
The disk side has the pages, page 0 with the RM header, and the number of pages
PF's header has. In this code no record page is ever disposed of, so the PF free
list is empty and allocatePage appends. `crashed` is history too: a closed file
is exact until the first crash (`ClosedFileExact`); and so is `overrun`, whether a
record was written past a page.

**`RM_FileScan`.** `at` is the scan's `pageNum` and `slotNum`, the slot it looks
at next, and `scanPages` the number of pages in the handle that openScan copied.
A call of getNextRec is one step: all its calls of PF come back with the page
unpinned, so nothing of it remains but the position. `due` is history: the
matching records that were there at openScan and have not been deleted, changed
or returned since. `returned` is the record last given back.

**`RM_AttrFileHandle`.** A place is one variable-length attribute of one record,
`attr` the descriptor stored in it (page, slot, class). `file.heads` are the
list heads in the handle and `page0` those in the file: closeFile writes only 16
of their 28 bytes (`rm_manager.cpp:222`), so of the seven classes only the first
four are in `KeptClasses`. The calls go by the descriptor in the record and know
nothing else. An update that cannot insert the new value has freed the old one
all the same and the record keeps the descriptor; with a value above the largest
class it even returns 0 (`attrfilehandle.cpp:28`, 81, 89-95; `UpdateLosesValue`).
The slot goes to the next value of the class, and the next update or delete of the
first record frees it under that value. Nothing keeps a caller from making these
calls, and nothing in the model does: a place with any descriptor may be updated,
deleted or given another value at any time, and where the slot is free already the
call fails and leaves the page pinned (`FreedBefore`), so that the file can never be
closed (`leaked`). `stored`, `robbed` and `strayed` are history, read by no guard:
the value a place was given and has not given up; the places whose value a call for
another place has freed (`Robs`); and whether any call has left a record the
descriptor of a slot it had freed.

**`IX_IndexHandle`.** `tree` is one value: the header in the handle, the node
pages, and the pages PF has got back, in the order it reuses them. Helpers take a
tree and give the next one, in the order of the code: `spliteTwoNodes` halves a
node and goes up as long as parents fill. A right inner node gets one child
fewer than it needs (line 408) and its children keep the old parent; both are in
the model, and so is the insertion that gets to the missing child and fails.
Insertion looks for the first key not below (`InsertPos`), search goes past
equal ones (`SearchPos`). Keys are naturals: a root without keys compares with
`keyArray[-1]`, which is its parent field, -1. Deletion is modelled while no page
is a NODE, where every leaf's parent is the root; after an inner split the
parents are wrong. A call that fails leaves pages pinned (`leaked`) and the index
cannot be closed any more; nothing after that is followed. `entries`, `gone` and
`trouble` are history: what was put in, what was taken out, and which events
have happened (a duplicate, a key equal to a separator, an emptied leaf) that
the properties name as their limits.

**`IX_IndexScan`.** A scan of a tree at rest is a function of the tree, the
comparison and the value: `getFirstEntry` goes down, `MatchesInLeaf` has the matches
in the leaf, of which the scan starts at the first, and `ScanRows` is what the calls
of getNextEntry return until the first IX_EOF. `Positions` is the way justifyNextPos
takes.

**`DDL_Manager`.** `relcat` has the indexCount of a table, `attrcat` its rows in
the order a scan meets them (attribute and index number), as the handles see them.
That order is the one of pages and slots, while insertRec takes the head of the list
of pages with room, which deleteRec has put there in any order
(`rm_filehandle.cpp:175-186`, 255-262): `CreateAttrRow` puts a row at any place among
those of its table, so that attribute 2 may be scanned before attribute 1.
`relDisk` and `attrDisk` as the files have them. `file` has the rows of each
table's file, under the number -1, and the entries of each index file, a row with
its key. `Key` gives the value a row has in each column of its record. A call is a
sequence of steps, one for each change of the catalog or a file, and `call` is where
it stands; the four calls force the catalog by the same two steps. After any step
the next one may fail (`StepFails`), the pool may write (`Evict`), or the process
may end (`Crash`). What a failed call leaves open stays in `lost` with the
contents its dirty pages have, and may be written over the file later. A
getNextRec that fails ends a search or a loop where it is, as the code has it:
`DropNoMoreRows`, `FillIndex` and the lookups with `Found` have that case. `hurt`
and `faults` are history: the tables a call was cut short for, and what has gone
wrong so far.

**`DML_Manager`.** A row stands for its rid and its keys. insert goes by the rows of
attrcat as they come and adds to the index of the i-th one the i-th value it was given,
which is also column i of the record (`dml_manager.cpp:47-56`, 99), while createIndex
takes the column of the attribute (`ddl_manager.cpp:519`, 561): `InsertIndex` and
`FillIndex` differ in the same way when the rows come in another order than the
attributes. insert keeps the table open with the new row (`call.rows`), opens one index after the other
(`call.entries`), and closes the table last. `kept` is history: the rows whose
insert has returned 0 while no handle left open had the table without them.

Definitions named `...Wrong` are bugs on purpose, one for each property: what a
slip in the code would make of the definition they are named after (a missing
unlink, an off-by-one, a guard left out). No specification uses them. Put in
place of that definition, TLC must find the property violated; it is how we
know that a property says something about the code.

## 3. What the runs check

| Run | Instance | What it shows |
| --- | --- | --- |
| `rwlock` | three threads, each reading and writing | exclusion; no reader asleep without a writer to wait for; no lone writer asleep on a free lock; no reader passes a waiting writer; a lone writer and, once writers stop, every reader get in; implements `AbstractRWLock` |
| `rwlock_two_writers` | two writers | **fails**: a waiting writer can wait for ever |
| `pool` | two frames, pages 0 and 1 of one file and 0 of another, two contents, two pins, any write or read failing | frames partitioned between the lists; page table exact; clean frames equal their file; pins balanced; PF_NOBUF only when every frame is held; a pinned frame stays; a force or flush that returns 0 has written all, and a flush leaves nothing; implements `PageCache` |
| `links` | `SerialSpec` with one thread, three frames, four pages | the links are two sound lists at every step, also in the middle of a call; flushPages ends; implements `SlotLists`; no step meant for a second thread is needed (the run checks for deadlock) |
| `self_wait` | two threads, one frame | **fails**: bufferAlloc waits for a lock it holds itself |
| `hash_alone` | two threads, two pages in one of two buckets, removals alone | chains sound, find answers right, implements `SlotMap` |
| `paged_file` | three pages, contents in one of them | free list exact in the handle; a closed or forced file sound as it lies on disk; a used page changes only under a pin |
| `records_crash` | two pages of one record and a spare bit, two values, a crash at any time | a record that was forced is found afterwards, also after inserts on the stale header, unless one of them went past the end of a page, which takes a crash and a spare bit; until a crash a closed file has exactly the records, their count and the list of pages with room |
| `values` | two places, a class with two values to a page and a spare bit and one with a single value, whose head is lost at a close, three pages | every value is found where its record says, and in nobody else's slot, but one whose slot was freed through another record's stale descriptor, and that only after a call has left such a descriptor; the lists of pages with room are sound, and exact where closeFile writes their head, all the same |
| `index` | degree 3, seven rows of which two have the same key, each inserted and deleted once in any order | in a tree with one level of inner nodes the search finds exactly the rows that are in, across splits, emptied leaves, a root given up, and reopening, until a duplicate or a separator's key is inserted; until a leaf is emptied or a key inserted twice a scan without a condition returns every row once, at any height, no scan returns a row twice or out of order, and one for an equal key returns it if a search finds it |
| `scan` | three pages of two records, five records at a time, two values of which one matches | records kept with their bytes and count; list of pages with room exact; nothing that is there all along is skipped, whatever else comes, changes and goes; no slot is returned twice |
| `database` | two tables of two attributes, two rows with the same value in the first column, one step that fails and one end of the process, in calls for one table | every table in the catalog has its file, in the handle and on disk; catalog, index counts, index numbers and files agree for every table no call was cut short for, whatever the order of its rows in attrcat; its indexes have an entry for the key of every row and entries of its rows only; a row whose insert returned 0 stays |

**Bounds, and why they are enough.**
The lock tells apart only no, one, or more than one waiting writer, and readers
or none: three threads in both roles give every combination with one to spare.
In `pool` two frames for three pages make every miss after the second an
eviction, with both orders of the list, a victim that is not the last (the last
pinned), and two files of which a walk must skip one; `MaxPins` 2 separates the
first, a further and the last unpin. `links` needs a frame at the head, in the
middle and at the tail of the used list: three, and four pages so that evictions
go on. A free list or a list of pages with room can be empty, have one element,
or more; three pages give every order for both, and in `scan` two records to a
page give full, half-full and empty ones (with at most five records at a time one
page always has room). The spare bit of `scan` is the only way in which more spare bits matter: the
first zero bit is always found among the real ones while the page has room. `MaxTotal` is
there because after crashes the count in the header drifts from the real one,
also below zero; the code never reads it for a decision. `records_crash` has a spare
bit, so that a stale header leads to an insert past the end of a page. What comes
after that is followed only in a file of one page whose page 0 it has left alone
(`InsidePages`), since `overrun` stays and no property says anything of the records
then; it is what takes insertRec to a page without a zero bit
(`InsertInconsistent`). In `values` two places fill a page of one class, empty it
again and move between classes while the other place stands still, so that pages leave
their list and come back; the lost head of class 1 leaves pages with room that
no list has, which is what `RoomListsSound` allows there and only there. Two
places are also what a value and a descriptor that strays into its slot take. What
follows a page left pinned is left out (`NotLeaked`): only closeFile notices it, by
failing as it may anyhow. `scan` has a first, a middle and a last page, and on each
a first and a last slot: the only places where getNextRec behaves differently; pages may be added after
openScan, which the copied handle does not know.
In `index` a leaf splits at its third key, the root at its fourth leaf: seven
rows split leaves at the left end, in the middle and at the right end, make a
second level of inner nodes and insert into it, also where the child is missing;
the row with a key of its own twice gives duplicates in a leaf, in a root leaf
(an overflow page) and across a separator. `MaxNodes` leaves room for every split.
In `database` one failure and one end of the process, in either order, give every
place where a call can be cut short, and the way on from it with what it has left
in the catalog, in the files and in open handles; the second table, with no call
of its own cut short, shows that nothing else suffers. Two attributes give index
numbers that differ; `MaxAttrRows` lets one row of attrcat be left behind and found
by the next table of that name, `MaxIndexCount` bounds an indexCount that drifts.
With two rows one can be inserted before and one after a failure, or before and
after an index is created; equal values in one column make the second a duplicate,
different ones in the other tell the columns apart. A row is not
inserted twice, and nothing is inserted into a table whose rows in attrcat are
not complete: insert would read uninitialised ones. All attributes are INT; tables
are not named like another's index or attribute file. Rows of attrcat out of the
order of the attributes are followed for one table at a time, with no index on the
other then, and with a failing step or an end of the process but not with both;
after both one table has indexes at most (`OneOutOfOrder`). The theorems have no
such limit.

**State views.** `pool` and `paged_file` leave `rc` out of the fingerprint
(`VIEW AllButReturnCode`): no action reads it, so states that differ in it have
the same futures, and the properties that mention it are about a step's `rc'`.
`paged_file` explores only states where page 1 alone has data
(`OnePageWithData`): contents never decide a step, one page shows what becomes
of them. `values` uses symmetry: places and values are interchangeable, and it
checks safety only. `database` does the same for tables and rows, `records_crash`
for values. No other run does.

**Fairness.** `RWLock`: a thread inside leaves (the guards do it in their
destructors) and a woken thread runs; nothing obliges a thread to ask for the
lock, and no wakeup is assumed to be spurious. `BufferThreads`: a thread inside
a call goes on. Nothing else assumes fairness.

**Deadlock** is checked except in the failing runs, `rwlock_two_writers` and
`self_wait`, where threads really stop, and in `index`, where a failed call is
the last thing that is followed. In `links` and `hash_alone` it means most; in
`database` the pool can always write.

### Findings

1. *Two writers can stop for good* (`atomic/RWLock.cpp:34`). writeCount counts
   waiting writers too and the predicate wants exactly 1. Writer A releases with
   notify_one; before B has looked, A calls writeLock again; B sees 2 and sleeps,
   A sees 2 and sleeps. `LoneWriterProgress` and `LockNoForgottenWriter` say what
   does hold: without a competitor a writer gets in.
2. *bufferAlloc can wait for itself* (`storage/bufmgr.cpp:118`). It calls itself
   with `listLock` held for writing when another thread took the last free frame.

Each has the run that shows it (`rwlock_two_writers`, `self_wait`). More things
the models contain as the code has them, met while reading and not stated as a
property of their own:

- remove has the comment that it takes the write lock and the lock commented
  out (`storage/bufhashtable.cpp:96-97`), so another call in the same bucket can
  stand on the entry it deletes. This is why `hash_alone` keeps removals alone.
- forceSinglePage stops at the first frame with that page number, whatever its
  file, and can return 0 without having written the page
  (`storage/bufmgr.cpp:477-489`; `BufferMgr!ForceTarget`).
- deleteRec of an empty slot keeps its pin (`storage/rm_filehandle.cpp:251`;
  `RM_FileHandle!DeleteEmpty`); the file can then never be closed.
- closeFile writes 16 of the 28 bytes of the attribute file's list heads
  (`storage/rm_manager.cpp:222`; `RM_AttrFileHandle!HeadsWritten`). Pages of the
  upper three classes with room are forgotten; no value is lost.
- updateVarValue with a value above the largest class deletes the old value, stores
  nothing, keeps the descriptor and returns 0 (`storage/attrfilehandle.cpp:28`, 81,
  89-95). The next call on that descriptor frees a slot that may be somebody else's by
  then; if it is free still, the call fails and keeps the page pinned (129-131).
  (`RM_VarLenAttr::getPageNum` compares its own output parameter with -1,
  `storage/rm_varlenattr.cpp:19-25`; a call on a descriptor that names nothing is
  refused by getSlotNum all the same.)
- An error return of insertRec keeps the page pinned
  (`storage/rm_filehandle.cpp:153`; `RM_FileHandle!InsertInconsistent`). After a crash
  insertRec may not even fail: with spare bits in the bitmap it writes the record past
  the end of a page that is full (151-169; `RM_FileHandle!InsertPastPage`).
- In the B+ tree (`storage/ix_indexhandle.cpp`): a key equal to a separator is
  inserted to its left and searched to its right (168, 900); the page of a
  duplicate is never linked (250); an inner split loses a child and leaves
  parents stale (408); the leaf after a split leaf keeps its prePage (448), so
  that emptying leaves can unlink a full one or stop at a page that is gone; the
  last key of a root leaf cannot be deleted without an error (810); a deleteEntry
  that finds nothing keeps the root pinned (604, 616).
- After a leaf was emptied the leaves may link past others or to a page PF has
  got back, by the prePage of line 448; then scans miss rows.
- A scan looks for its first match in the leaf of the value only
  (`storage/ix_indexscan.cpp:149`, 216-233): LT_OP, LE_OP and NE_OP miss the
  leaves before it, GT_OP and GE_OP return nothing when that leaf has no greater
  key, although the comment (45-49) speaks of the first entry that matches.
  `ScansSound` promises completeness for EQ_OP alone.
- A failed getNextRec ends dropTable's loop and createIndex's as if it were the
  end of the scan (`sql/ddl_manager.cpp:359`, 552), and createTable does not look
  at the return code of insertRec in relcat (80): the calls return 0.
- dropIndex for an attribute the table does not have drops the index of its last
  attribute, since getAttrcatRec returns 0 with the last row
  (`sql/ddl_manager.cpp:662-676`); createIndex for one creates an index with an
  uninitialised type (500-537). createIndex on a STRING passes the address of its
  pointer as the key (576), insert the pointer (`sql/dml_manager.cpp:112`).
- The rows of a table in attrcat come out in the order of pages and slots, not of
  the attributes: insert takes the i-th row for the i-th value and createIndex the
  attribute's own column (`sql/dml_manager.cpp:47-56`, 99, `sql/ddl_manager.cpp:519`).
  When deletions have left room on an earlier page of attrcat the two may differ, and
  an index then gets keys of two columns (`DML_Manager!Columns`).
- createIndex forces the catalog and then creates the file
  (`sql/ddl_manager.cpp:532-537`): ended in between, the table has an index that
  cannot be opened, and insert and dropTable fail on it from then on.
- closeDb that fails on attrcat has closed relcat but leaves the database open
  (`sql/ddl_manager.cpp:111`); openDb that fails on attrcat leaves relcat open (40).
  Neither can be called again with success.
- insert that fails leaves its files open with dirty pages
  (`sql/dml_manager.cpp:72-119`); the pool may write them over rows and entries
  that later inserts have stored. This is why `kept` leaves such rows out.

## 4. What is proved

`tlapm` checks every leaf of the eight modules with theorems. The theorems hold
for all values of the constants that satisfy the named assumptions:

| Assumption | Says |
| --- | --- |
| `ThreadsAssumption` of `RWLock` | finite sets of readers and writers, possibly overlapping |
| `ThreadsAssumption` of `BufferThreads` | at least one thread and one frame, markers that are no threads and no pages |
| `BufferAssumption` | at least one frame, pages that are pairs of naturals, distinct markers |
| `FileAssumption` | at least one page, a content for a new page, a marker for "no page" that is no page |
| `RecordAssumption`, `AbsentAssumption`, `MatchingAssumption` | at least one page and one slot, no fewer bits than slots, markers that are no values and no pages; some of the values match the scan |
| `IndexAssumption` | keys that are naturals, a degree of at least three, at least one page |
| `AttrAssumption` | per class at least one slot and no fewer bits, a marker that is no value and no class |
| `TableAssumption` | at least one bucket, finitely many pages that are pairs of naturals, more heap blocks than pages, markers that are no blocks and no frames |
| `CatalogAssumption` | at least one attribute, markers that are no numbers and no sets of rows and entries |

The bounds that keep a run finite (`MaxPages`, `MaxNodes`, `MaxPins`, `MaxTotal`) are any
numbers in the theorems.

Where a run has three pages of two records, a theorem has any number of each.

**The lock** (last section of `BufferMgrProofs`). Exclusion alone is not inductive: that a writer
enters alone depends on what the counters say. The strengthening is
`CountsExact`: readCount is the number of readers inside, writeCount the number
of writers inside, asleep or woken. `LockInv == TypeOK /\ CountsExact /\
MutualExclusion` is inductive; the rest follows: `LockNoForgottenReader`,
`LockNoForgottenWriter` (each with its own induction on top), the action property
`LockWriterPreference`, and `LockImplementsAbstract`, the refinement of
`AbstractRWLock`, step by step.

**The page table** (`BufHashTableProofs`). The chains are not sound in the
middle of insert and remove, so `IInv` says for each of their steps what is: which
entries the lists hold, and which single entry may have a wrong back-link (`Tidy`);
where an entry that is being cut out stands (`Unlinked`, `Inside`); and of every
loop, a concurrent find's too, that what it has not met yet is a list holding
every entry of its page (`Loop`). `Turns` ties the lock to the steps: a thread
that writes or removes is alone. The theorems have the assumption of the run,
that the callers keep a remove to itself (`RemoveAloneSpec`): the code's remove
takes no lock. `TableChainsSound` follows, `TableFindsRight` says that a find
answers what the map holds, and `TableIsMap` is the refinement of `SlotMap`: the
map changes at the store of the head in insert, and in remove at the store that
takes the entry off its list, whichever of the two it is.

**The pool** (`BufferMgrProofs`). `Inv == TypeOK /\ SlotsPartitioned /\ HashExact
/\ PinsBalanced`. None of them is inductive alone: a step that moves a frame
needs the hash table to know that the frame is a used one, the hash table needs
the lists to know that the frame it fills was not somebody else's, and an
eviction needs the pin counts to know that the page it drops is held by nobody.
One lemma per action (`GetHitKeeps`, `FlushFrameKeeps`, ...) shows that it keeps
all four. From `Inv` follow the four invariants, `PoolNoBufMeansAllHeld`, and,
with an induction of its own on top, `PoolCleanMatchesDisk`. Three results say
what clients may rely on:

- `PoolPinnedFrameStable`: no step takes the frame of a page somebody holds.
- `PoolImplementsPageCache`: the refinement. A page has one current content; the
  file trails behind it; whatever the pool does by itself, evictions with
  failing writes included, is a write of the current content or a stutter.
- `PoolLoopDelivers`: a force or a flush that returns 0 has written every page
  it should, and a flush leaves none. `LoopInv` says what holds in the middle:
  the frames the walk has behind it are clean, or of another file.

**The links** (`BufferThreadsProofs`). `BufferMgr` has sequences; this is about
the `next` and `prev` that the code has, at every step of every call. For calls
that do not overlap, of any number of threads, `SerialListsSound` says that they
are two sound lists, `SerialImplements` that a call changes them as `SlotLists`
says and keeps the order of the frames it does not move, and
`SerialNoSelfDeadlock` that bufferAlloc does not come to wait for itself.
`SerialInv(t, u, f)` names the lists: `u` and `f` are threaded by the links in both
directions; every frame is on exactly one of them or in the hand of the call `t`,
between the helper that took it off and the one that puts it back (`Placed`); and
the hash table has exactly the pages of the frames in use, but for the one the call
is bringing in (`TableExact`), without which a hit could name a frame of the free
list. The inductive invariant says that there are such a `t`, `u` and `f`
(`CallsInv`). `AloneIsSerial`: one thread alone needs no such restriction. Calls
that overlap break the lists (two of them can choose the same victim,
`bufmgr.cpp:131`), so nothing of this holds for `Spec` with two threads; what does is `ThreadsTypeCorrect`: links, ends,
hash entries and the frames calls work on stay in the pool, and no pin count goes
below zero, however calls interleave.

**Paged files** (`PF_IX_Proofs`). The free list is exact, in the handle
and, once closed or forced, as it lies on disk. `FileInv` adds to these what
makes them inductive: an unchanged header in the handle is the one in the file
(closeFile then writes nothing and the file is sound all the same), only pages
in use are pinned, and a page the pool lacks is not on the disk either.
`FileUsedPageKept`, an action property, follows.

**The index** (second part of `PF_IX_Proofs`). `IndexSearchExact`: the search that
deleteEntry makes finds the rows that were inserted and not deleted, and no
others. What it needs is the shape of the tree, `Holds`: every leaf has its rows
with their keys in order and fewer keys than the degree, and the separators of the
root lead to each leaf for the keys it has (`Tiled`). Its lemmas say what the code
does to that shape: a row put in at `InsertPos` is where `SearchPos` looks
(`InLeafHolds`), a leaf halved brings its first right key into the root as the
separator (`TiledSplit`), a leaf emptied takes the separator on its left with it, or the
first one (`TiledLess`), and the root without children is given up. `IndexInv`
adds the header (what closeIndex does not write is in the file already: leaves
that are split leave the root alone, a new root marks the header as changed) and
the pages (those PF has got back are free and listed once: `NewPage` hands out no
page of the tree). For trees with NODE pages only header and pages are claimed;
since no NODE becomes another page by an insertion (`InLeafKeeps`) and deletion is
modelled without them, a tree that has one keeps it. The links between the leaves
are no part of the invariant. SearchExact holds although some are wrong, which is
what `SameTreeHolds` and `PassedByKeeps` say. It ends where `trouble` does: the
code loses a row with a second equal key, and one with the key of a separator.

**Index scans** (third part of `PF_IX_Proofs`). `IndexFullScanExact` and
`IndexScansSound` hold in trees of any height, also where searches miss rows, and
need another invariant, `GrownInv`, which speaks of trees that have never lost a
leaf: no row is in two leaves; there is a sequence of all leaves such that each
links to the next (`Threaded`), whose first one the first children lead to from the
root (`LeftmostPath`); and while there is one level of inner nodes that sequence
is the root's children, with their keys between the separators (`InOrder`), on
either of them even, so that a key inserted on the wrong side of its separator is
still in order. Most of the proof is about splits. spliteTwoNodes goes up from the
leaf while nodes get full. One split of a leaf puts the right half behind the left
one, in the links (`SplitThreaded`) and among the children (`SplitInOrder`); one
above the leaves loses a child and stale parents are left, but never a first child
(`SplitLeftmost`), and every page keeps an inner node for its parent
(`SplitBranched`), so that the way up ends at the root. `SplitUpGrown` is the
induction over the nodes split. A full leaf exists only in between: `Grown(t, rows,
full)` names the one that may be. What a scan returns is then counted out:
`PositionsListed` says that the leaves' entries, put together, are a list of all
places behind the first, in order, and `ScanRowsAre` that the rows are a window of
it. For EQ_OP the leaf where the scan starts is the one a search gets to
(`KeyLeaf`), and completeness (`KeyScan`) needs `IndexInv` too.

**Record files and scans** (`RM_FileHandleProofs`). `RecordInv` says it page by
page: a slot is taken if and only if a record is live there, with its bytes; what
was forced is on disk and still live; and until the first crash the list of pages
with room and the record count are exact, in the handle while the file is open
and on disk while it is closed. A crash makes the last part false, and the others
do not need it: insertRec takes a zero bit, whatever list has led it to the page.
After a crash and with spare bits that may be a bit without a slot, and the record
goes past the end of the page. `RecordInv` says what was forced only as long as that
has not happened, and that it happens only after a crash and with spare bits:
`RecordsForcedSurvive`. Where there are none, `ForcedNeverLost` has the forced records
on disk whatever comes. `ScanInv` adds that what
a scan owes is ahead of its position and that what is ahead comes after the last
record it returned; with it no record that stays is skipped (`ScanSkipsNothing`)
and none comes twice (`ScanReturnsEachOnce`).

**Values** (`RM_AttrFileHandleProofs`). `AttrInv`: every page has slots of its
class only; the list of each class runs through pages of the class with room,
through all of them for the classes whose head closeFile writes, also while the
file is closed; a descriptor, good or stale, is of the class of its page (`Named`);
every place that was not robbed finds its value in a slot no other such place has
(`Own`); and until a call has left the descriptor of a slot it had freed, every
descriptor has its value and nobody is robbed (`Strays`).
`Own` needs the first two: a value is put at the first zero bit of the head of a
list, which is a free slot only if that page is of the class and has room. `Named`
is what keeps the lists sound when a stale descriptor frees a slot.

**Catalog and rows** (`DML_ManagerProofs`). `TablesHaveFiles`
and `RowsStay` follow from `SafeInv`: what a half-done call has established by
the step it is at, and that every content that may still be written over a file,
by this call or through the handles a failed one has left open, has the rows that
are kept. `CatalogExact` and `IndexesExact` speak of tables between two calls;
`ExactInv` says for every call and step what catalog, files and both disk images
hold at that moment (`DropTableExact`, `CreateIndexExact`, ...), for all tables
that no failed call and no crash has hurt. The order of the rows in attrcat is left
open: there is one for each attribute (`Named`), and the index of the row at place i
has number i - 1. That an index covers the rows of its table (`Holds`) is kept by an
insertEntry that adds an entry for a new key and may leave out one for a key that is
there (`HoldsFilled`, `HoldsInserted`).

**Lists without recursion.** `Chains` says what a list is with a recursive
function, and what such a function computes cannot be shown by induction here.
`Lemmas` says the same by a path, a function from `0 .. Cardinality(S)` to the
nodes, which a proof can make longer, cut or copy. `LinkedIsChain` shows once
that walk and path agree, from the first place where they would differ; that
there is a first place is `LeastNatural`. The lists of leaves and the ways up to
the root of the index rest on the same bridge (`ChainIsPath`, `PathChain`).

**Only model-checked.** Liveness (`LoneWriterProgress`, `ReaderProgress`,
`FlushTerminates`) is outside what the provers do. Every other property of a passing
run is stated by a theorem. The inductive invariants `FileInv`, `RecordInv`, `ScanInv`,
`AttrInv`, `IndexInv` and `GrownInv`, the `IInv` of the page table (also with three pages in one
bucket) and the `SerialInv` of the links were checked with TLC on the instances of
section 3 before they were proved.

## 5. What is not modelled

- Deletion in trees with NODE pages, the index after a call that failed, and
  index scans while the tree changes: the scan's position then names keys that a
  split or a delete has moved, and getNextEntry reads whatever is there.
- createIndex on an unknown attribute (uninitialised variables), dbdestroy, the
  functions of DDL that only read or print, insertForTest (it makes no index
  entries), and variable-length values as part of a row.
- What a caller does with the pointer getVarValue returns: it points into a
  frame already unpinned (`attrfilehandle.cpp:171`).
- Scan conditions on variable-length values, and closing a file under its scan.
- Two handles on one file, destroyFile, and headers left uninitialised when
  openFile fails half-way.
- Crashes below RM: PF has no recovery and promises nothing about one; a crash
  is modelled where a caller is told that data is safe (`forced`). A crash in
  the middle of a single write is not.
- Dirty bits, contents and the force operations in `BufferThreads`.
- Printing, error texts, the drivers and the tests: no state of their own.

## 6. Plan

1. `BufferThreads` with two threads and dirty bits: which held pages stay, and
   what forcePages loses when markDirty comes in between (`bufmgr.cpp:131`, 256,
   459).
2. Deletion in deep trees, and what a scan returns while entries come and go.
3. `RM_AttrFileHandle` over the pool: the pointer that getVarValue hands out of
   an unpinned frame, and insert with variable-length values.
4. A composition of `RM_FileScan` and `RM_AttrFileHandle`: a scan whose condition
   reads variable-length values.
