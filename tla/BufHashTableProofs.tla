-------------------------- MODULE BufHashTableProofs --------------------------
(***************************************************************************)
(* The page table as the buffer pool uses it, for any number of threads,   *)
(* pages, frames, buckets and heap blocks: its chains are sound between    *)
(* calls, find answers what the map holds, and insert and remove change    *)
(* the map of one page in one step.                                        *)
(*                                                                         *)
(* Chains are not sound in the middle of insert and remove.  The induction *)
(* says of every point of the two which entries the lists hold and which   *)
(* entry alone may have a wrong back-link (Tidy), and of every loop that   *)
(* what it has not met yet is a list that holds every entry of its page.   *)
(***************************************************************************)
EXTENDS BufHashTable, Lemmas

OfBucket(L, b) == {e \in L : Hash(key[e]) = b}

(* The lists hold the entries of L, and every back-link among them is      *)
(* right but for that of late.                                             *)
Tidy(L, late) ==
  /\ \A b \in Buckets : Linked(next, hashTable[b], OfBucket(L, b), Null)
  /\ \A b \in Buckets : hashTable[b] \notin {Null, late} => prev[hashTable[b]] = Null
  /\ \A e \in L : next[e] \notin {Null, late} => prev[next[e]] = e

(* No page is entered twice. *)
KeysOnce == \A d, e \in live : key[d] = key[e] => d = e

(* No entry of the page is behind the loop's. *)
Loop(t) ==
  \E S \in SUBSET live :
    /\ Linked(next, cur[t], S, Null)
    /\ \A e \in live : key[e] = Key(t) => e \in S

Held(t) == cur[t] \in live /\ key[cur[t]] = Key(t)

Fresh(t) ==
  /\ Held(t)
  /\ next[cur[t]] = hashTable[Bucket(t)] /\ prev[cur[t]] = Null

(* The entry is on no list; its neighbours are linked past it, but for the *)
(* back-link of the next.                                                  *)
Unlinked(t) ==
  /\ Tidy(live \ {cur[t]}, next[cur[t]])
  /\ IF prev[cur[t]] = Null
     THEN hashTable[Bucket(t)] = next[cur[t]]
     ELSE prev[cur[t]] \in live \ {cur[t]} /\ next[prev[cur[t]]] = next[cur[t]]

(* The entry is on the list, not its first. *)
Inside(t) ==
  /\ Tidy(live, Null)
  /\ prev[cur[t]] \in live /\ next[prev[cur[t]]] = cur[t]

(* What the step a thread is at tells of the lists. *)
ThreadOK(t) ==
  /\ pc[t] \in {"find", "insert", "remove"} => Loop(t)
  /\ pc[t] = "backLink" => Fresh(t) /\ Tidy(live \ {cur[t]}, Null)
  /\ pc[t] = "setHead" =>
       /\ Fresh(t) /\ Tidy(live \ {cur[t]}, hashTable[Bucket(t)])
       /\ hashTable[Bucket(t)] # Null => prev[hashTable[Bucket(t)]] = cur[t]
  /\ pc[t] = "cutHead" => Held(t) /\ cur[t] = hashTable[Bucket(t)]
  /\ pc[t] = "cutNext" =>
       Held(t) /\ IF prev[cur[t]] = Null THEN Unlinked(t) ELSE Inside(t)
  /\ pc[t] = "cutPrev" => Held(t) /\ Unlinked(t)
  /\ pc[t] = "delete" => cur[t] \in live /\ Tidy(live \ {cur[t]}, Null)

Writing == {"insert", "backLink", "setHead", "verify"}
Steps == {"idle", "find"} \cup Writing \cup Removing

(* A thread that writes or removes is alone in the table. *)
Turns ==
  /\ pc \in [Threads -> Steps]
  /\ readers = {t \in Threads : pc[t] = "find"}
  /\ writers = {t \in Threads : pc[t] \in Writing}
  /\ \A t, u \in Threads : pc[t] \in Writing \cup Removing => u = t \/ pc[u] = "idle"

(* The steps at which the lists hold every entry. *)
Whole == {"idle", "find", "insert", "verify", "remove", "cutHead"}

IInv ==
  /\ TypeOK /\ Turns /\ KeysOnce
  /\ (\A t \in Threads : pc[t] \in Whole) => Tidy(live, Null)
  /\ \A t \in Threads : ThreadOK(t)
-----------------------------------------------------------------------------
(* The constants, as the proofs use them. *)
LEMMA ConstantFacts ==
  /\ \A k \in Keys : Hash(k) \in Buckets
  /\ AnyKey \in Keys /\ AnySlot \in Slots
  /\ Null \notin Entries
<1>1. NumBuckets \in Nat \ {0} /\ Keys \subseteq Nat \X Nat /\ Keys # {} /\ Slots # {}
      /\ Null \notin Entries
  BY TableAssumption
<1>2. ASSUME NEW k \in Keys PROVE Hash(k) \in Buckets
  <2>1. k[1] \in Nat /\ k[2] \in Nat
    BY <1>1
  <2>2. k[1] + k[2] \in Nat
    BY <2>1
  <2>3. PICK s \in Nat : s = k[1] + k[2]
    BY <2>2
  <2>4. s % NumBuckets \in 0 .. NumBuckets - 1
    BY <1>1
  <2> QED BY <2>3, <2>4 DEF Hash, Buckets
<1> QED BY <1>1, <1>2 DEF AnyKey, AnySlot

(* Heads, links and back-links of tidy lists. *)
LEMMA TidyLists ==
  ASSUME TypeOK, NEW L \in SUBSET Entries, NEW late, Tidy(L, late)
  PROVE  /\ \A b \in Buckets : hashTable[b] = Null \/ hashTable[b] \in OfBucket(L, b)
         /\ \A e \in L : next[e] = Null \/ next[e] \in OfBucket(L, Hash(key[e]))
         /\ \A e \in L : next[e] # e
         /\ \A e \in L : \/ e = hashTable[Hash(key[e])]
                         \/ \E p \in OfBucket(L, Hash(key[e])) : next[p] = e
         /\ \A b \in Buckets, e \in L : next[e] # Null => next[e] # hashTable[b]
         /\ \A d, e \in L : next[d] = next[e] /\ next[d] # Null => d = e
<1>1. \A b \in Buckets : Null \notin OfBucket(L, b) /\ OfBucket(L, b) \subseteq L
  BY ConstantFacts DEF OfBucket
<1>2. \A e \in L : Hash(key[e]) \in Buckets /\ e \in OfBucket(L, Hash(key[e]))
  BY ConstantFacts DEF OfBucket, TypeOK
<1>3. ASSUME NEW b \in Buckets
      PROVE  /\ hashTable[b] # Null => hashTable[b] \in OfBucket(L, b)
             /\ \A e \in OfBucket(L, b) : next[e] \in OfBucket(L, b) \cup {Null}
  <2>1. Linked(next, hashTable[b], OfBucket(L, b), Null)
    BY DEF Tidy
  <2> QED BY <1>1, <2>1, LinkedHead
<1>4. ASSUME NEW b \in Buckets
      PROVE  /\ \A x \in OfBucket(L, b) :
                   x = hashTable[b] \/ \E p \in OfBucket(L, b) : next[p] = x
             /\ \A p \in OfBucket(L, b) : next[p] # hashTable[b] /\ next[p] # p
             /\ \A p, q \in OfBucket(L, b) : next[p] = next[q] /\ next[p] # Null => p = q
  <2>1. Linked(next, hashTable[b], OfBucket(L, b), Null)
    BY DEF Tidy
  <2> QED BY <1>1, <2>1, LinkedOnce
<1>5. ASSUME NEW b \in Buckets, NEW c \in Buckets, NEW x,
             x \in OfBucket(L, b), x \in OfBucket(L, c)
      PROVE  b = c
  BY <1>5 DEF OfBucket
<1>6. ASSUME NEW b \in Buckets, NEW e \in L, next[e] # Null PROVE next[e] # hashTable[b]
  BY <1>2, <1>3, <1>4, <1>5, <1>6
<1>7. ASSUME NEW d \in L, NEW e \in L, next[d] = next[e], next[d] # Null PROVE d = e
  <2>1. next[d] \in OfBucket(L, Hash(key[d])) /\ next[d] \in OfBucket(L, Hash(key[e]))
    BY <1>2, <1>3, <1>7
  <2>2. Hash(key[d]) = Hash(key[e])
    BY <1>2, <1>5, <2>1
  <2> QED BY <1>2, <1>4, <1>7, <2>2
<1>8. ASSUME NEW e \in L
      PROVE  e = hashTable[Hash(key[e])] \/ \E p \in OfBucket(L, Hash(key[e])) : next[p] = e
  BY <1>2, <1>4
<1>9. \A e \in L : next[e] = Null \/ next[e] \in OfBucket(L, Hash(key[e]))
  BY <1>2, <1>3
<1>10. \A e \in L : next[e] # e
  BY <1>2, <1>4
<1> QED BY <1>3, <1>6, <1>7, <1>8, <1>9, <1>10

(* The map, when the lists hold the entries of L. *)
InMap(L, k) == SlotOf({e \in L : key[e] = k})

(* A look-up on tidy lists is one among the entries they hold. *)
LEMMA TidyLookup ==
  ASSUME TypeOK, NEW L \in SUBSET Entries, NEW late, Tidy(L, late), NEW k \in Keys
  PROVE  Lookup(k) = InMap(L, k)
<1>1. Hash(k) \in Buckets /\ Null \notin Entries /\ DOMAIN next = Entries
  BY ConstantFacts DEF TypeOK
<1>2. Linked(next, hashTable[Hash(k)], OfBucket(L, Hash(k)), Null)
  BY <1>1 DEF Tidy
<1>3. Reach(next, hashTable[Hash(k)]) = OfBucket(L, Hash(k))
  BY <1>1, <1>2, TableAssumption, LinkedReach
<1>4. {e \in Reach(next, hashTable[Hash(k)]) : key[e] = k} = {e \in L : key[e] = k}
  BY <1>3 DEF OfBucket
<1> QED BY <1>4 DEF Lookup, InMap

(* A thread that writes or removes finds all others idle. *)
LEMMA Alone ==
  ASSUME Turns, NEW t \in Threads, pc[t] \in Writing \cup Removing
  PROVE  \A u \in Threads \ {t} : pc[u] = "idle"
BY DEF Turns

(* What a loop meets. *)
LEMMA LoopMeets ==
  ASSUME TypeOK, NEW t \in Threads, Loop(t)
  PROVE  /\ cur[t] = Null => \A e \in live : key[e] # Key(t)
         /\ cur[t] # Null => cur[t] \in live
<1>1. PICK S \in SUBSET live :
        Linked(next, cur[t], S, Null) /\ \A e \in live : key[e] = Key(t) => e \in S
  BY DEF Loop
<1>2. Null \notin S
  BY ConstantFacts DEF TypeOK
<1>3. (cur[t] = Null <=> S = {}) /\ (cur[t] # Null => cur[t] \in S)
  BY <1>1, <1>2, LinkedHead
<1> QED BY <1>1, <1>3
-----------------------------------------------------------------------------
(* The empty table: every bucket is the empty list. *)
LEMMA InitInv ==
  ASSUME Init
  PROVE  IInv
<1>1. TypeOK
  BY ConstantFacts DEF Init, TypeOK, EntryOrNull
<1>2. Turns
  BY DEF Init, Turns, Lock!Init, Steps, Writing, Removing
<1>3. Tidy({}, Null)
  <2>1. ASSUME NEW b \in Buckets PROVE Linked(next, hashTable[b], OfBucket({}, b), Null)
    <3>1. OfBucket({}, b) = {} /\ hashTable[b] = Null
      BY DEF OfBucket, Init
    <3> QED BY <3>1, LinkedEmpty
  <2> QED BY <2>1 DEF Tidy, Init
<1>4. \A t \in Threads : ThreadOK(t)
  BY DEF ThreadOK, Init
<1> QED BY <1>1, <1>2, <1>3, <1>4 DEF IInv, KeysOnce, Init

(* The entry a thread is at is one of the blocks. *)
LEMMA CurEntry ==
  ASSUME IInv, NEW t \in Threads
  PROVE  /\ pc[t] \in {"find", "insert", "remove"} => cur[t] = Null \/ cur[t] \in live
         /\ pc[t] \in {"backLink", "setHead", "cutHead", "cutNext", "cutPrev", "delete"} =>
              cur[t] \in live
         /\ live \subseteq Entries /\ Key(t) \in Keys /\ Bucket(t) \in Buckets
<1>1. TypeOK /\ ThreadOK(t)
  BY DEF IInv
<1>2. pc[t] \in {"find", "insert", "remove"} => cur[t] = Null \/ cur[t] \in live
  BY <1>1, LoopMeets DEF ThreadOK
<1>3. Key(t) \in Keys
  BY <1>1 DEF TypeOK, Key
<1> QED BY <1>1, <1>2, <1>3, ConstantFacts DEF ThreadOK, Held, Fresh, TypeOK, Bucket

(* While the table is whole there is a block for one more entry. *)
LEMMA FreeBlock ==
  ASSUME TypeOK, KeysOnce
  PROVE  Entries \ live # {}
<1>1. SUFFICES ASSUME Entries \subseteq live PROVE FALSE
  OBVIOUS
<1>2. live = Entries
  BY <1>1 DEF TypeOK
<1>3. key \in Injection(Entries, Keys)
  <2>1. \A d, e \in Entries : key[d] = key[e] => d = e
    BY <1>2 DEF KeysOnce
  <2> QED BY <2>1, Fun_IsInj DEF TypeOK
<1>4. IsFiniteSet(Keys) /\ Cardinality(Entries) > Cardinality(Keys) /\ IsFiniteSet(Entries)
  BY TableAssumption
<1>5. Cardinality(Entries) <= Cardinality(Keys)
  BY <1>3, <1>4, FS_Injection
<1>6. Cardinality(Entries) \in Nat /\ Cardinality(Keys) \in Nat
  BY <1>4, FS_CardinalityType
<1> QED BY <1>4, <1>5, <1>6

(* The block an insert takes. *)
FreeEntry == CHOOSE x \in Entries \ live : TRUE

(* The block an insert takes is free. *)
LEMMA FreeEntryIs ==
  ASSUME IInv
  PROVE  FreeEntry \in Entries /\ FreeEntry \notin live
BY FreeBlock DEF IInv, FreeEntry

(* Every step keeps the types. *)
LEMMA TypeStep ==
  ASSUME IInv, RemoveAloneNext
  PROVE  TypeOK'
<1>1. TypeOK
  BY DEF IInv
<1>2. ASSUME NEW t \in Threads, NEW k \in Keys, NEW s \in Slots, NEW op, Call(t, op, k, s)
      PROVE  TypeOK'
  <2>1. hashTable[Hash(k)] \in EntryOrNull
    BY <1>1, ConstantFacts DEF TypeOK
  <2> QED BY <1>1, <1>2, <2>1 DEF TypeOK, Call, heap, fields
<1>3. ASSUME NEW t \in Threads, NEW from, NEW r, Return(t, from, r), UNCHANGED heap
      PROVE  TypeOK'
  BY <1>1, <1>3, ConstantFacts DEF TypeOK, Return, heap, fields, EntryOrNull
<1>4. ASSUME NEW t \in Threads, Locking(t) PROVE TypeOK'
  BY <1>2, <1>4, ConstantFacts DEF Locking, Find, Insert
<1>5. ASSUME NEW t \in Threads, NEW k \in Keys, Remove(t, k) PROVE TypeOK'
  BY <1>2, <1>5, ConstantFacts DEF Remove
<1>6. ASSUME NEW t \in Threads, Continue(t) PROVE TypeOK'
  <2>1. CASE Advance(t)
    <3>1. cur[t] \in Entries
      BY <2>1, CurEntry DEF Advance
    <3>2. next[cur[t]] \in EntryOrNull
      BY <1>1, <3>1 DEF TypeOK
    <3> QED BY <1>1, <2>1, <3>2 DEF Advance, TypeOK, heap, fields
  <2>2. CASE FindReturns(t)
    BY <1>3, <2>2 DEF FindReturns
  <2>3. CASE InsertExists(t)
    BY <1>3, <2>3 DEF InsertExists
  <2>4. CASE NewEntry(t)
    <3>1. PICK e : e = FreeEntry
      OBVIOUS
    <3>2. e \in Entries
      BY <3>1, FreeEntryIs
    <3>3. /\ live' = live \cup {e}
          /\ key' = [key EXCEPT ![e] = Key(t)]
          /\ slot' = [slot EXCEPT ![e] = arg[t][2]]
          /\ next' = [next EXCEPT ![e] = hashTable[Bucket(t)]]
          /\ prev' = [prev EXCEPT ![e] = Null]
          /\ cur' = [cur EXCEPT ![t] = e]
          /\ UNCHANGED <<hashTable, arg, ret>>
      BY <2>4, <3>1 DEF NewEntry, FreeEntry
    <3>4. Key(t) \in Keys /\ arg[t][2] \in Slots /\ hashTable[Bucket(t)] \in EntryOrNull
      BY <1>1, CurEntry DEF TypeOK
    <3> QED BY <1>1, <3>2, <3>3, <3>4 DEF TypeOK, EntryOrNull
  <2>5. CASE BackLink(t)
    <3>1. cur[t] \in EntryOrNull
      BY <1>1 DEF TypeOK
    <3> QED BY <1>1, <2>5, <3>1 DEF BackLink, TypeOK
  <2>6. CASE SetHead(t)
    <3>1. cur[t] \in EntryOrNull
      BY <1>1 DEF TypeOK
    <3> QED BY <1>1, <2>6, <3>1 DEF SetHead, TypeOK, fields
  <2>7. CASE InsertReturns(t)
    BY <1>3, <2>7 DEF InsertReturns
  <2>8. CASE RemoveNotFound(t)
    BY <1>3, <2>8 DEF RemoveNotFound
  <2>9. CASE RemoveFound(t)
    BY <1>1, <2>9 DEF RemoveFound, TypeOK, heap, fields
  <2>10. CASE CutHead(t)
    <3>1. next[cur[t]] \in EntryOrNull
      BY <1>1, <2>10, CurEntry DEF CutHead, Goto, TypeOK
    <3> QED BY <1>1, <2>10, <3>1 DEF CutHead, TypeOK, fields
  <2>11. CASE CutNext(t)
    <3>1. next[cur[t]] \in EntryOrNull
      BY <1>1, <2>11, CurEntry DEF CutNext, Goto, TypeOK
    <3> QED BY <1>1, <2>11, <3>1 DEF CutNext, TypeOK
  <2>12. CASE CutPrev(t)
    <3>1. prev[cur[t]] \in EntryOrNull
      BY <1>1, <2>12, CurEntry DEF CutPrev, Goto, TypeOK
    <3> QED BY <1>1, <2>12, <3>1 DEF CutPrev, TypeOK
  <2>13. CASE Delete(t)
    BY <1>1, <2>13, ConstantFacts DEF Delete, Return, TypeOK, EntryOrNull
  <2> QED BY <1>6, <2>1, <2>2, <2>3, <2>4, <2>5, <2>6, <2>7, <2>8, <2>9, <2>10, <2>11,
          <2>12, <2>13 DEF Continue
<1> QED BY <1>4, <1>5, <1>6 DEF RemoveAloneNext

(* The lock keeps the turns. *)
LEMMA TurnsStep ==
  ASSUME Turns, RemoveAloneNext
  PROVE  Turns'
<1> USE DEF Steps, Writing, Removing
<1>1. PICK t \in Threads :
        \/ (\A u \in Threads : pc[u] \notin Removing) /\ Locking(t)
        \/ Continue(t)
        \/ Idle /\ \E k \in Keys : Remove(t, k)
  BY DEF RemoveAloneNext
<1>2. CASE (\A u \in Threads : pc[u] \notin Removing) /\ Locking(t)
  <2>1. PICK k \in Keys : Find(t, k) \/ \E s \in Slots : Insert(t, k, s)
    BY <1>2 DEF Locking
  <2>2. CASE Find(t, k)
    BY <1>2, <2>2 DEF Find, Call, Goto, Lock!AcquireRead, Turns
  <2>3. ASSUME NEW s \in Slots, Insert(t, k, s) PROVE Turns'
    <3>1. /\ pc[t] = "idle" /\ pc' = [pc EXCEPT ![t] = "insert"]
          /\ readers = {} /\ writers = {} /\ writers' = {t} /\ readers' = readers
      BY <2>3 DEF Insert, Call, Goto, Lock!AcquireWrite
    <3>2. \A u \in Threads : pc[u] = "idle"
      BY <1>2, <3>1 DEF Turns
    <3> QED BY <3>1, <3>2 DEF Turns
  <2> QED BY <2>1, <2>2, <2>3
<1>3. CASE Idle /\ \E k \in Keys : Remove(t, k)
  BY <1>3 DEF Idle, Remove, Call, Goto, Turns, lock
<1>4. CASE Continue(t)
  <2>1. CASE Advance(t)
    BY <2>1 DEF Advance, Turns, lock
  <2>2. CASE FindReturns(t)
    BY <2>2 DEF FindReturns, Return, Goto, Lock!ReleaseRead, Turns
  <2>3. ASSUME NEW from \in Writing, NEW r, Return(t, from, r), Lock!ReleaseWrite(t)
        PROVE  Turns'
    BY <2>3 DEF Return, Goto, Lock!ReleaseWrite, Turns
  <2>4. ASSUME NEW from, NEW to, Goto(t, from, to), UNCHANGED lock,
               from \in {"insert", "backLink", "setHead"} /\ to \in Writing
        PROVE  Turns'
    BY <2>4 DEF Goto, Turns, lock
  <2>5. ASSUME NEW from \in Removing, NEW to \in Removing \cup {"idle"},
               Goto(t, from, to), UNCHANGED lock
        PROVE  Turns'
    BY <2>5 DEF Goto, Turns, lock
  <2>6. CASE InsertExists(t) \/ InsertReturns(t)
    BY <2>3, <2>6 DEF InsertExists, InsertReturns
  <2>7. CASE NewEntry(t) \/ BackLink(t) \/ SetHead(t)
    BY <2>4, <2>7 DEF NewEntry, BackLink, SetHead, lock
  <2>8. CASE RemoveNotFound(t) \/ RemoveFound(t) \/ Delete(t)
    BY <2>5, <2>8 DEF RemoveNotFound, RemoveFound, Delete, Return, lock
  <2>9. CASE CutHead(t) \/ CutNext(t) \/ CutPrev(t)
    BY <2>5, <2>9 DEF CutHead, CutNext, CutPrev, lock
  <2> QED BY <1>4, <2>1, <2>2, <2>6, <2>7, <2>8, <2>9 DEF Continue
<1> QED BY <1>1, <1>2, <1>3, <1>4
-----------------------------------------------------------------------------
(* A step of a thread that is alone disturbs the promises of no other. *)
LEMMA BusyStep ==
  ASSUME IInv, TypeOK', Turns', KeysOnce',
         NEW t \in Threads, pc[t] \in Writing \cup Removing,
         NEW to, pc' = [pc EXCEPT ![t] = to], ThreadOK(t)',
         to \in Whole => Tidy(live, Null)'
  PROVE  IInv'
<1>1. Turns /\ t \in DOMAIN pc
  BY DEF IInv, Turns
<1>2. pc'[t] = to /\ \A u \in Threads \ {t} : pc'[u] = "idle"
  BY <1>1, Alone
<1>3. \A u \in Threads : ThreadOK(u)'
  <2>1. \A u \in Threads \ {t} : ThreadOK(u)'
    BY <1>2 DEF ThreadOK
  <2> QED BY <2>1
<1>4. (\A u \in Threads : pc[u] \in Whole)' => Tidy(live, Null)'
  BY <1>2
<1> QED BY <1>3, <1>4 DEF IInv

(* Nor does a step that changes no list. *)
LEMMA HeapStays ==
  ASSUME IInv, TypeOK', Turns', UNCHANGED heap,
         NEW t \in Threads, pc[t] \in Whole,
         NEW to \in Whole, pc' = [pc EXCEPT ![t] = to], ThreadOK(t)',
         \A u \in Threads \ {t} : cur'[u] = cur[u] /\ arg'[u] = arg[u]
  PROVE  IInv'
<1>1. UNCHANGED <<hashTable, next, prev, key, slot, live>>
  BY DEF heap, fields
<1>2. t \in DOMAIN pc /\ \A u \in Threads \ {t} : pc'[u] = pc[u]
  BY DEF IInv, Turns
<1>3. \A u \in Threads \ {t} : ThreadOK(u)'
  <2>1. ASSUME NEW u \in Threads \ {t} PROVE ThreadOK(u)'
    <3>1. ThreadOK(u) /\ pc'[u] = pc[u] /\ cur'[u] = cur[u] /\ arg'[u] = arg[u]
      BY <1>2 DEF IInv
    <3>2. Key(u)' = Key(u) /\ Bucket(u)' = Bucket(u)
      BY <3>1 DEF Key, Bucket
    <3>3. Loop(u)' = Loop(u) /\ Held(u)' = Held(u) /\ Fresh(u)' = Fresh(u)
      BY <1>1, <3>1, <3>2 DEF Loop, Fresh, Held
    <3>4. /\ Tidy(live, Null)' = Tidy(live, Null)
          /\ Tidy(live \ {cur[u]}, Null)' = Tidy(live \ {cur[u]}, Null)
          /\ Tidy(live \ {cur[u]}, next[cur[u]])' = Tidy(live \ {cur[u]}, next[cur[u]])
          /\ Tidy(live \ {cur[u]}, hashTable[Bucket(u)])'
               = Tidy(live \ {cur[u]}, hashTable[Bucket(u)])
      BY <1>1, <3>1, <3>2 DEF Tidy, OfBucket
    <3>5. Unlinked(u)' = Unlinked(u) /\ Inside(u)' = Inside(u)
      BY <1>1, <3>1, <3>2, <3>4 DEF Unlinked, Inside
    <3> QED BY <1>1, <3>1, <3>2, <3>3, <3>4, <3>5 DEF ThreadOK
  <2> QED BY <2>1
<1>4. KeysOnce'
  BY <1>1 DEF IInv, KeysOnce
<1>5. (\A u \in Threads : pc[u] \in Whole)' => Tidy(live, Null)'
  <2>1. ASSUME \A u \in Threads : pc'[u] \in Whole PROVE Tidy(live, Null)'
    <3>1. \A u \in Threads : pc[u] \in Whole
      BY <1>2, <2>1
    <3>2. Tidy(live, Null)
      BY <3>1 DEF IInv
    <3> QED BY <1>1, <3>2 DEF Tidy, OfBucket
  <2> QED BY <2>1
<1> QED BY <1>3, <1>4, <1>5 DEF IInv

(* A loop begins at the head of its bucket. *)
LEMMA LoopStarts ==
  ASSUME TypeOK, Tidy(live, Null), UNCHANGED heap, NEW t \in Threads, NEW k \in Keys,
         cur'[t] = hashTable[Hash(k)], Key(t)' = k
  PROVE  Loop(t)'
<1>1. Linked(next, hashTable[Hash(k)], OfBucket(live, Hash(k)), Null)
  BY ConstantFacts DEF Tidy
<1>2. next' = next /\ key' = key /\ live' = live
  BY DEF heap, fields
<1>3. OfBucket(live, Hash(k)) \in SUBSET live
      /\ \A e \in live : key[e] = k => e \in OfBucket(live, Hash(k))
  BY DEF OfBucket
<1> QED BY <1>1, <1>2, <1>3 DEF Loop

(* The calls begin on lists that hold every entry. *)
LEMMA CallStep ==
  ASSUME IInv, TypeOK', Turns', NEW t \in Threads, NEW k \in Keys, NEW s \in Slots,
         NEW op \in {"find", "insert", "remove"}, Call(t, op, k, s),
         \A u \in Threads : pc[u] \in Whole
  PROVE  IInv'
<1>1. TypeOK /\ Turns /\ Tidy(live, Null)
  BY DEF IInv
<1>2. /\ pc[t] = "idle" /\ pc' = [pc EXCEPT ![t] = op] /\ pc'[t] = op
      /\ cur'[t] = hashTable[Hash(k)] /\ Key(t)' = k /\ UNCHANGED heap
      /\ \A u \in Threads \ {t} : cur'[u] = cur[u] /\ arg'[u] = arg[u]
  BY <1>1 DEF Call, Goto, Key, TypeOK, Turns
<1>3. Loop(t)'
  BY <1>1, <1>2, LoopStarts
<1>4. ThreadOK(t)'
  BY <1>2, <1>3 DEF ThreadOK
<1> QED BY <1>2, <1>4, HeapStays DEF Whole

(* A call that has changed nothing, or is done, returns. *)
LEMMA ReturnStep ==
  ASSUME IInv, TypeOK', Turns', NEW t \in Threads, NEW from \in Whole, NEW r,
         Return(t, from, r), UNCHANGED heap
  PROVE  IInv'
<1>1. TypeOK /\ Turns
  BY DEF IInv
<1>2. /\ pc[t] = from /\ pc' = [pc EXCEPT ![t] = "idle"] /\ pc'[t] = "idle"
      /\ \A u \in Threads \ {t} : cur'[u] = cur[u] /\ arg'[u] = arg[u]
  BY <1>1 DEF Return, Goto, TypeOK, Turns
<1>3. ThreadOK(t)'
  BY <1>2 DEF ThreadOK
<1> QED BY <1>2, <1>3, HeapStays DEF Whole

(* The loop goes on behind an entry that is not its page's. *)
LEMMA AdvanceStep ==
  ASSUME IInv, TypeOK', Turns', NEW t \in Threads, Advance(t)
  PROVE  IInv'
<1>1. TypeOK /\ Turns /\ Loop(t)
  BY DEF IInv, Advance, ThreadOK
<1>2. PICK S \in SUBSET live :
        Linked(next, cur[t], S, Null) /\ \A e \in live : key[e] = Key(t) => e \in S
  BY <1>1 DEF Loop
<1>3. cur[t] # Null /\ key[cur[t]] # Key(t) /\ Null \notin S
  BY <1>1, ConstantFacts DEF Advance, Matches, TypeOK
<1>4. Linked(next, next[cur[t]], S \ {cur[t]}, Null)
  BY <1>2, <1>3, LinkedPop
<1>5. /\ UNCHANGED <<heap, pc, arg>> /\ cur'[t] = next[cur[t]]
      /\ \A u \in Threads \ {t} : cur'[u] = cur[u]
      /\ pc[t] \in {"find", "insert", "remove"}
  BY <1>1 DEF Advance, TypeOK
<1>6. Loop(t)'
  <2>1. next' = next /\ key' = key /\ live' = live /\ Key(t)' = Key(t)
    BY <1>5 DEF heap, fields, Key
  <2>2. S \ {cur[t]} \in SUBSET live
        /\ \A e \in live : key[e] = Key(t) => e \in S \ {cur[t]}
    BY <1>2, <1>3
  <2> QED BY <1>4, <1>5, <2>1, <2>2 DEF Loop
<1>7. ThreadOK(t)'
  BY <1>5, <1>6 DEF ThreadOK
<1>8. pc' = [pc EXCEPT ![t] = pc[t]]
  BY <1>1, <1>5 DEF Turns
<1>9. pc[t] \in Whole
  BY <1>5 DEF Whole
<1> QED BY <1>5, <1>7, <1>8, <1>9, HeapStays

(* An entry with no predecessor is the head of its bucket; any other has *)
(* one, and its back-link names it.                                      *)
LEMMA RemoveFoundStep ==
  ASSUME IInv, TypeOK', Turns', NEW t \in Threads, RemoveFound(t)
  PROVE  IInv'
<1>1. TypeOK /\ Turns /\ Loop(t) /\ KeysOnce
  BY DEF IInv, RemoveFound, ThreadOK
<1>2. /\ pc[t] = "remove" /\ pc[t] \in Removing
      /\ cur[t] # Null /\ key[cur[t]] = Key(t) /\ UNCHANGED <<heap, arg, cur>>
  BY DEF RemoveFound, Matches, Removing
<1>3. Held(t) /\ Bucket(t) = Hash(key[cur[t]])
  BY <1>1, <1>2, LoopMeets DEF Held, Bucket
<1>4. Tidy(live, Null)
  <2>1. \A u \in Threads : pc[u] \in Whole
    BY <1>1, <1>2, Alone DEF Whole
  <2> QED BY <2>1 DEF IInv
<1>5. UNCHANGED <<hashTable, next, prev, key, live>> /\ Key(t)' = Key(t)
      /\ Bucket(t)' = Bucket(t)
  BY <1>2 DEF heap, fields, Key, Bucket
<1>6. Held(t)' /\ Tidy(live, Null)' /\ KeysOnce'
  BY <1>1, <1>2, <1>3, <1>4, <1>5 DEF Held, Tidy, OfBucket, KeysOnce
<1>7. CASE cur[t] = hashTable[Bucket(t)]
  <2>1. pc' = [pc EXCEPT ![t] = "cutHead"] /\ pc'[t] = "cutHead"
    BY <1>1, <1>7 DEF RemoveFound, Goto, Turns
  <2>2. ThreadOK(t)'
    BY <1>2, <1>5, <1>6, <1>7, <2>1 DEF ThreadOK
  <2> QED BY <1>2, <1>6, <2>1, <2>2, BusyStep
<1>8. CASE cur[t] # hashTable[Bucket(t)]
  <2>1. pc' = [pc EXCEPT ![t] = "cutNext"] /\ pc'[t] = "cutNext"
    BY <1>1, <1>8 DEF RemoveFound, Goto, Turns
  <2>2. live \subseteq Entries
    BY <1>1 DEF TypeOK
  <2>3. PICK p \in OfBucket(live, Bucket(t)) : next[p] = cur[t]
    BY <1>1, <1>3, <1>4, <1>8, <2>2, TidyLists DEF Held
  <2>4. prev[cur[t]] = p /\ p \in live /\ p # Null
    BY <1>1, <1>2, <1>4, <2>2, <2>3, ConstantFacts DEF Tidy, OfBucket
  <2>5. prev'[cur'[t]] # Null /\ Inside(t)'
    BY <1>2, <1>5, <1>6, <2>3, <2>4 DEF Inside
  <2>6. ThreadOK(t)'
    BY <1>6, <2>1, <2>5 DEF ThreadOK
  <2>7. "cutNext" \notin Whole
    BY DEF Whole
  <2> QED BY <1>2, <1>6, <2>1, <2>6, <2>7, BusyStep
<1> QED BY <1>7, <1>8
-----------------------------------------------------------------------------
(* The entry is filled in before any list holds it. *)
LEMMA NewEntryStep ==
  ASSUME IInv, TypeOK', Turns', NEW t \in Threads, NewEntry(t)
  PROVE  IInv'
<1>1. TypeOK /\ Turns /\ Loop(t) /\ KeysOnce
  BY DEF IInv, NewEntry, ThreadOK
<1>2. PICK e : e = FreeEntry
  OBVIOUS
<1>3. e \in Entries /\ e \notin live /\ live \subseteq Entries
  BY <1>1, <1>2, FreeEntryIs DEF TypeOK
<1>4. /\ pc[t] = "insert" /\ cur[t] = Null
      /\ pc' = [pc EXCEPT ![t] = "backLink"]
      /\ live' = live \cup {e}
      /\ key' = [key EXCEPT ![e] = Key(t)]
      /\ next' = [next EXCEPT ![e] = hashTable[Bucket(t)]]
      /\ prev' = [prev EXCEPT ![e] = Null]
      /\ cur' = [cur EXCEPT ![t] = e]
      /\ UNCHANGED <<hashTable, arg>>
  BY <1>2 DEF NewEntry, Goto, FreeEntry
<1>5. /\ pc[t] \in Writing /\ pc'[t] = "backLink" /\ cur'[t] = e
      /\ Key(t)' = Key(t) /\ Bucket(t)' = Bucket(t)
      /\ key'[e] = Key(t) /\ next'[e] = hashTable[Bucket(t)] /\ prev'[e] = Null
      /\ \A d \in live : key'[d] = key[d] /\ next'[d] = next[d] /\ prev'[d] = prev[d]
      /\ DOMAIN next' = Entries
  BY <1>1, <1>3, <1>4 DEF TypeOK, Turns, Writing, Key, Bucket
<1>6. Tidy(live, Null)
  <2>1. \A u \in Threads : pc[u] \in Whole
    BY <1>1, <1>4, <1>5, Alone DEF Whole
  <2> QED BY <2>1 DEF IInv
<1>7. PICK L : L = live
  OBVIOUS
<1>8. Tidy(L, Null)'
  <2>1. ASSUME NEW b \in Buckets
        PROVE  Linked(next', hashTable'[b], OfBucket(L, b)', Null)
    <3>1. OfBucket(L, b)' = OfBucket(live, b) /\ OfBucket(live, b) \subseteq live
      BY <1>5, <1>7 DEF OfBucket
    <3>2. Linked(next, hashTable[b], OfBucket(live, b), Null)
      BY <1>6 DEF Tidy
    <3>3. OfBucket(live, b) \subseteq DOMAIN next'
          /\ \A x \in OfBucket(live, b) : next'[x] = next[x]
      BY <1>3, <1>5, <3>1
    <3>4. Linked(next', hashTable[b], OfBucket(live, b), Null)
      BY <3>2, <3>3, LinkedSame
    <3> QED BY <1>4, <3>1, <3>4
  <2>2. ASSUME NEW b \in Buckets, hashTable'[b] # Null PROVE prev'[hashTable'[b]] = Null
    <3>1. hashTable'[b] = hashTable[b] /\ hashTable[b] \in live
      BY <1>1, <1>3, <1>4, <1>6, <2>2, TidyLists DEF OfBucket
    <3> QED BY <1>5, <1>6, <2>2, <3>1 DEF Tidy
  <2>3. ASSUME NEW d \in L, next'[d] # Null PROVE prev'[next'[d]] = d
    <3>1. next'[d] = next[d] /\ next[d] \in live
      BY <1>1, <1>3, <1>5, <1>6, <1>7, <2>3, TidyLists DEF OfBucket
    <3> QED BY <1>5, <1>6, <1>7, <2>3, <3>1 DEF Tidy
  <2> QED BY <2>1, <2>2, <2>3 DEF Tidy
<1>9. Tidy(live \ {cur[t]}, Null)'
  <2>1. (live \ {cur[t]})' = L
    BY <1>3, <1>4, <1>5, <1>7
  <2> QED BY <1>8, <2>1 DEF Tidy, OfBucket
<1>10. KeysOnce'
  <2>1. \A d \in live : key[d] # Key(t)
    BY <1>1, <1>4, LoopMeets
  <2> QED BY <1>1, <1>4, <1>5, <2>1 DEF KeysOnce
<1>11. ThreadOK(t)'
  BY <1>4, <1>5, <1>9 DEF ThreadOK, Fresh, Held
<1>12. "backLink" \notin Whole
  BY DEF Whole
<1> QED BY <1>4, <1>5, <1>10, <1>11, <1>12, BusyStep

(* The old head names the new entry, which no list holds yet. *)
LEMMA BackLinkStep ==
  ASSUME IInv, TypeOK', Turns', NEW t \in Threads, BackLink(t)
  PROVE  IInv'
<1>1. /\ TypeOK /\ Turns /\ KeysOnce /\ pc[t] = "backLink"
      /\ Fresh(t) /\ Tidy(live \ {cur[t]}, Null)
  BY DEF IInv, BackLink, Goto, ThreadOK
<1>2. PICK h, x : h = hashTable[Bucket(t)] /\ x = cur[t]
  OBVIOUS
<1>3. /\ pc' = [pc EXCEPT ![t] = "setHead"] /\ pc'[t] = "setHead" /\ pc[t] \in Writing
      /\ prev' = IF h = Null THEN prev ELSE [prev EXCEPT ![h] = x]
      /\ UNCHANGED <<hashTable, next, key, live, arg, cur>>
      /\ Key(t)' = Key(t) /\ Bucket(t)' = Bucket(t)
  BY <1>1, <1>2 DEF BackLink, Goto, Turns, Writing, Key, Bucket
<1>4. /\ x \in live /\ live \subseteq Entries /\ Bucket(t) \in Buckets
      /\ h = Null \/ h \in live \ {x}
  <2>1. cur[t] \in live /\ live \ {cur[t]} \in SUBSET Entries /\ Bucket(t) \in Buckets
    BY <1>1, CurEntry DEF TypeOK
  <2>2. hashTable[Bucket(t)] = Null \/ hashTable[Bucket(t)] \in OfBucket(live \ {cur[t]}, Bucket(t))
    BY <1>1, <2>1, TidyLists
  <2> QED BY <1>1, <1>2, <2>1, <2>2 DEF OfBucket, TypeOK
<1>5. /\ h # Null => prev'[h] = x
      /\ \A d \in Entries : d # h => prev'[d] = prev[d]
  BY <1>1, <1>3, <1>4 DEF TypeOK
<1>6. Fresh(t)'
  BY <1>1, <1>2, <1>3, <1>4, <1>5 DEF Fresh, Held
<1>7. Tidy(live \ {cur[t]}, hashTable[Bucket(t)])'
  <2>1. PICK L : L = live \ {x}
    OBVIOUS
  <2>2. Tidy(L, Null) /\ L \in SUBSET Entries
    BY <1>1, <1>2, <1>4, <2>1
  <2>3. ASSUME NEW b \in Buckets, hashTable[b] # Null, hashTable[b] # h
        PROVE  prev'[hashTable[b]] = Null
    <3>1. hashTable[b] \in Entries
      BY <1>1, <2>3 DEF TypeOK, EntryOrNull
    <3> QED BY <1>5, <2>2, <2>3, <3>1 DEF Tidy
  <2>4. ASSUME NEW d \in L, next[d] # Null, next[d] # h PROVE prev'[next[d]] = d
    <3>1. next[d] \in Entries
      BY <1>1, <2>2, <2>4 DEF TypeOK, EntryOrNull
    <3> QED BY <1>5, <2>2, <2>4, <3>1 DEF Tidy
  <2>5. Tidy(L, h)'
    <3>1. \A b \in Buckets : Linked(next, hashTable[b], OfBucket(L, b), Null)
      BY <2>2 DEF Tidy
    <3> QED BY <1>3, <2>3, <2>4, <3>1 DEF Tidy, OfBucket
  <2> QED BY <1>2, <1>3, <2>1, <2>5 DEF Tidy, OfBucket
<1>8. ThreadOK(t)'
  BY <1>2, <1>3, <1>5, <1>6, <1>7 DEF ThreadOK
<1>9. "setHead" \notin Whole /\ KeysOnce'
  BY <1>1, <1>3 DEF Whole, KeysOnce
<1> QED BY <1>3, <1>8, <1>9, BusyStep

(* The new entry goes in front of its list. *)
LEMMA SetHeadStep ==
  ASSUME IInv, TypeOK', Turns', NEW t \in Threads, SetHead(t)
  PROVE  IInv' /\ Tidy(live, Null)'
<1>1. /\ TypeOK /\ Turns /\ KeysOnce /\ pc[t] = "setHead"
      /\ Fresh(t) /\ Tidy(live \ {cur[t]}, hashTable[Bucket(t)])
      /\ hashTable[Bucket(t)] # Null => prev[hashTable[Bucket(t)]] = cur[t]
  BY DEF IInv, SetHead, Goto, ThreadOK
<1>2. PICK h, x, c, L : h = hashTable[Bucket(t)] /\ x = cur[t] /\ c = Bucket(t) /\ L = live \ {x}
  OBVIOUS
<1>3. /\ pc' = [pc EXCEPT ![t] = "verify"] /\ pc'[t] = "verify" /\ pc[t] \in Writing
      /\ hashTable' = [hashTable EXCEPT ![c] = x]
      /\ UNCHANGED <<next, prev, key, live, arg, cur>>
  BY <1>1, <1>2 DEF SetHead, Goto, Turns, Writing, fields
<1>4. /\ x \in live /\ L \in SUBSET Entries /\ c \in Buckets /\ Tidy(L, h) /\ h = hashTable[c]
      /\ live = L \cup {x} /\ x \notin L /\ x \in Entries /\ Hash(key[x]) = c
      /\ next[x] = h /\ prev[x] = Null /\ (h # Null => prev[h] = x)
  <2>1. cur[t] \in live /\ live \subseteq Entries /\ Bucket(t) \in Buckets
    BY <1>1, CurEntry
  <2> QED BY <1>1, <1>2, <2>1 DEF Fresh, Held, Bucket
<1>5. /\ hashTable'[c] = x
      /\ \A b \in Buckets : b # c => hashTable'[b] = hashTable[b]
  BY <1>1, <1>3, <1>4 DEF TypeOK
<1>6. ASSUME NEW b \in Buckets
      PROVE  Linked(next, hashTable'[b], OfBucket(live, b), Null)
  <2>1. Linked(next, hashTable[b], OfBucket(L, b), Null)
    BY <1>4 DEF Tidy
  <2>2. CASE b = c
    <3>1. OfBucket(live, b) = OfBucket(L, b) \cup {x} /\ x \notin OfBucket(L, b)
      BY <1>4, <2>2 DEF OfBucket
    <3>2. x \in DOMAIN next /\ OfBucket(L, b) \subseteq DOMAIN next /\ next[x] = hashTable[b]
      BY <1>1, <1>4, <2>2 DEF TypeOK, OfBucket
    <3>3. Linked(next, x, OfBucket(L, b) \cup {x}, Null)
      BY <2>1, <3>1, <3>2, LinkedPush
    <3> QED BY <1>5, <2>2, <3>1, <3>3
  <2>3. CASE b # c
    <3>1. OfBucket(live, b) = OfBucket(L, b)
      BY <1>4, <2>3 DEF OfBucket
    <3> QED BY <1>5, <2>1, <2>3, <3>1
  <2> QED BY <2>2, <2>3
<1>7. /\ \A b \in Buckets : hashTable[b] = Null \/ hashTable[b] \in OfBucket(L, b)
      /\ \A b \in Buckets, e \in L : next[e] # Null => next[e] # hashTable[b]
  BY <1>1, <1>4, TidyLists
<1>8. ASSUME NEW b \in Buckets, hashTable'[b] # Null PROVE prev[hashTable'[b]] = Null
  <2>1. CASE b = c
    BY <1>4, <1>5, <2>1
  <2>2. CASE b # c
    <3>1. hashTable[b] # h
      BY <1>4, <1>5, <1>7, <1>8, <2>2 DEF OfBucket
    <3> QED BY <1>4, <1>5, <1>8, <2>2, <3>1 DEF Tidy
  <2> QED BY <2>1, <2>2
<1>9. ASSUME NEW d \in live, next[d] # Null PROVE prev[next[d]] = d
  <2>1. CASE d = x
    BY <1>4, <1>9, <2>1
  <2>2. CASE d \in L
    BY <1>4, <1>7, <1>9, <2>2 DEF Tidy
  <2> QED BY <1>4, <2>1, <2>2
<1>10. Tidy(live, Null)'
  BY <1>3, <1>6, <1>8, <1>9 DEF Tidy, OfBucket
<1>11. ThreadOK(t)' /\ KeysOnce'
  BY <1>1, <1>3 DEF ThreadOK, KeysOnce
<1> QED BY <1>3, <1>10, <1>11, BusyStep

(* The head comes off its list; its back-link names no entry. *)
LEMMA CutHeadStep ==
  ASSUME IInv, TypeOK', Turns', NEW t \in Threads, CutHead(t)
  PROVE  IInv'
<1>1. /\ TypeOK /\ Turns /\ KeysOnce /\ pc[t] = "cutHead"
      /\ Held(t) /\ cur[t] = hashTable[Bucket(t)]
  BY DEF IInv, CutHead, Goto, ThreadOK
<1>2. PICK x, c, L : x = cur[t] /\ c = Bucket(t) /\ L = live \ {x}
  OBVIOUS
<1>3. /\ pc' = [pc EXCEPT ![t] = "cutNext"] /\ pc'[t] = "cutNext" /\ pc[t] \in Removing
      /\ hashTable' = [hashTable EXCEPT ![c] = next[x]]
      /\ UNCHANGED <<next, prev, key, live, arg, cur>>
      /\ Key(t)' = Key(t) /\ Bucket(t)' = Bucket(t)
  BY <1>1, <1>2 DEF CutHead, Goto, Turns, Removing, fields, Key, Bucket
<1>4. /\ x \in live /\ live \in SUBSET Entries /\ L \in SUBSET Entries /\ c \in Buckets
      /\ x = hashTable[c] /\ live = L \cup {x} /\ x \notin L /\ x \in Entries
      /\ Hash(key[x]) = c /\ x # Null
  <2>1. cur[t] \in live /\ live \subseteq Entries /\ Bucket(t) \in Buckets
    BY <1>1, CurEntry
  <2> QED BY <1>1, <1>2, <2>1, ConstantFacts DEF Held, Bucket
<1>5. Tidy(live, Null)
  <2>1. \A u \in Threads : pc[u] \in Whole
    BY <1>1, <1>3, Alone DEF Whole
  <2> QED BY <2>1 DEF IInv
<1>6. /\ hashTable'[c] = next[x]
      /\ \A b \in Buckets : b # c => hashTable'[b] = hashTable[b]
  BY <1>1, <1>3, <1>4 DEF TypeOK
<1>7. ASSUME NEW b \in Buckets
      PROVE  Linked(next, hashTable'[b], OfBucket(L, b), Null)
  <2>1. Linked(next, hashTable[b], OfBucket(live, b), Null)
    BY <1>5 DEF Tidy
  <2>2. CASE b = c
    <3>1. OfBucket(L, b) = OfBucket(live, b) \ {x} /\ Null \notin OfBucket(live, b)
      BY <1>4, ConstantFacts DEF OfBucket
    <3>2. hashTable[b] = x /\ x # Null
      BY <1>4, <2>2
    <3>3. Linked(next, next[x], OfBucket(live, b) \ {x}, Null)
      BY <2>1, <3>1, <3>2, LinkedPop
    <3> QED BY <1>6, <2>2, <3>1, <3>3
  <2>3. CASE b # c
    <3>1. OfBucket(live, b) = OfBucket(L, b)
      BY <1>4, <2>3 DEF OfBucket
    <3> QED BY <1>6, <2>1, <2>3, <3>1
  <2> QED BY <2>2, <2>3
<1>8. ASSUME NEW b \in Buckets, hashTable'[b] \notin {Null, next[x]}
      PROVE  prev[hashTable'[b]] = Null
  <2>1. hashTable'[b] = hashTable[b]
    BY <1>6, <1>8
  <2> QED BY <1>5, <1>8, <2>1 DEF Tidy
<1>9. Tidy(L, next[x])'
  <2>1. \A d \in L : next[d] # Null => prev[next[d]] = d
    BY <1>4, <1>5 DEF Tidy
  <2> QED BY <1>3, <1>7, <1>8, <2>1 DEF Tidy, OfBucket
<1>10. Tidy(live \ {cur[t]}, next[cur[t]])'
  BY <1>2, <1>3, <1>9 DEF Tidy, OfBucket
<1>11. prev[x] = Null
  BY <1>4, <1>5 DEF Tidy
<1>12. Unlinked(t)' /\ Held(t)'
  BY <1>1, <1>2, <1>3, <1>6, <1>10, <1>11 DEF Unlinked, Held
<1>13. ThreadOK(t)' /\ KeysOnce' /\ "cutNext" \notin Whole
  BY <1>1, <1>2, <1>3, <1>11, <1>12 DEF ThreadOK, KeysOnce, Whole
<1> QED BY <1>3, <1>13, BusyStep

(* An entry that is not the head is cut out behind its predecessor; nothing *)
(* happens to one that was the head.                                        *)
LEMMA CutNextStep ==
  ASSUME IInv, TypeOK', Turns', NEW t \in Threads, CutNext(t)
  PROVE  IInv'
<1>1. /\ TypeOK /\ Turns /\ KeysOnce /\ pc[t] = "cutNext" /\ Held(t)
      /\ IF prev[cur[t]] = Null THEN Unlinked(t) ELSE Inside(t)
  BY DEF IInv, CutNext, Goto, ThreadOK
<1>2. PICK x, p, c, L : x = cur[t] /\ p = prev[x] /\ c = Bucket(t) /\ L = live \ {x}
  OBVIOUS
<1>3. /\ pc' = [pc EXCEPT ![t] = "cutPrev"] /\ pc'[t] = "cutPrev" /\ pc[t] \in Removing
      /\ next' = IF p = Null THEN next ELSE [next EXCEPT ![p] = next[x]]
      /\ UNCHANGED <<hashTable, prev, key, live, arg, cur>>
      /\ Key(t)' = Key(t) /\ Bucket(t)' = Bucket(t)
  BY <1>1, <1>2 DEF CutNext, Goto, Turns, Removing, Key, Bucket
<1>4. KeysOnce' /\ Held(t)' /\ "cutPrev" \notin Whole
  BY <1>1, <1>3 DEF KeysOnce, Held, Whole
<1>5. CASE p = Null
  <2>1. Unlinked(t)'
    <3>1. Unlinked(t) /\ next' = next
      BY <1>1, <1>2, <1>3, <1>5
    <3> QED BY <1>3, <3>1 DEF Unlinked, Tidy, OfBucket
  <2>2. ThreadOK(t)'
    BY <1>3, <1>4, <2>1 DEF ThreadOK
  <2> QED BY <1>3, <1>4, <2>2, BusyStep
<1>6. CASE p # Null
  <2>1. /\ x \in live /\ live \in SUBSET Entries /\ L \in SUBSET Entries /\ c \in Buckets
        /\ live = L \cup {x} /\ x \notin L /\ x \in Entries /\ x # Null
        /\ Hash(key[x]) = c /\ p \in live /\ next[p] = x /\ Tidy(live, Null)
    <3>1. cur[t] \in live /\ live \subseteq Entries /\ Bucket(t) \in Buckets
      BY <1>1, CurEntry
    <3> QED BY <1>1, <1>2, <1>6, <3>1, ConstantFacts DEF Held, Bucket, Inside
  <2>2. p # x /\ Hash(key[p]) = c
    <3>1. next[p] # p /\ next[p] \in OfBucket(live, Hash(key[p]))
      BY <1>1, <2>1, TidyLists
    <3> QED BY <2>1, <3>1 DEF OfBucket
  <2>3. /\ next'[p] = next[x] /\ next'[x] = next[x] /\ DOMAIN next' = Entries
        /\ \A d \in live : d # p => next'[d] = next[d]
    BY <1>1, <1>3, <1>6, <2>1, <2>2 DEF TypeOK
  <2>4. ASSUME NEW b \in Buckets
        PROVE  Linked(next', hashTable[b], OfBucket(L, b), Null)
    <3>1. /\ Linked(next, hashTable[b], OfBucket(live, b), Null)
          /\ OfBucket(live, b) \subseteq DOMAIN next'
          /\ \A d \in OfBucket(live, b) : d # p => next'[d] = next[d]
          /\ Null \notin OfBucket(live, b)
      BY <2>1, <2>3, ConstantFacts DEF Tidy, OfBucket
    <3>2. CASE b = c
      <4>1. OfBucket(L, b) = OfBucket(live, b) \ {x} /\ p \in OfBucket(live, b)
            /\ x \in OfBucket(live, b)
        BY <2>1, <2>2, <3>2 DEF OfBucket
      <4>2. Linked(next', hashTable[b], OfBucket(live, b) \ {x}, Null)
        BY <2>1, <2>3, <3>1, <4>1, LinkedCut
      <4> QED BY <4>1, <4>2
    <3>3. CASE b # c
      <4>1. OfBucket(L, b) = OfBucket(live, b) /\ p \notin OfBucket(live, b)
        BY <2>1, <2>2, <3>3 DEF OfBucket
      <4>2. Linked(next', hashTable[b], OfBucket(live, b), Null)
        BY <3>1, <4>1, LinkedSame
      <4> QED BY <4>1, <4>2
    <3> QED BY <3>2, <3>3
  <2>5. ASSUME NEW d \in L, next'[d] \notin {Null, next[x]} PROVE prev[next'[d]] = d
    <3>1. next'[d] = next[d]
      BY <2>1, <2>3, <2>5
    <3> QED BY <2>1, <2>5, <3>1 DEF Tidy
  <2>6. Tidy(L, next[x])'
    <3>1. \A b \in Buckets : hashTable[b] # Null => prev[hashTable[b]] = Null
      BY <2>1 DEF Tidy
    <3>2. PICK y : y = next[x]
      OBVIOUS
    <3>3. Tidy(L, y)'
      BY <1>3, <2>4, <2>5, <3>1, <3>2 DEF Tidy, OfBucket
    <3> QED BY <2>3, <3>2, <3>3 DEF Tidy
  <2>7. Tidy(live \ {cur[t]}, next[cur[t]])'
    BY <1>2, <1>3, <2>6 DEF Tidy, OfBucket
  <2>8. Unlinked(t)'
    BY <1>2, <1>3, <1>6, <2>1, <2>2, <2>3, <2>7 DEF Unlinked
  <2>9. ThreadOK(t)'
    BY <1>3, <1>4, <2>8 DEF ThreadOK
  <2> QED BY <1>3, <1>4, <2>9, BusyStep
<1> QED BY <1>5, <1>6

(* The successor names the predecessor, or none: no other entry links to it. *)
LEMMA CutPrevStep ==
  ASSUME IInv, TypeOK', Turns', NEW t \in Threads, CutPrev(t)
  PROVE  IInv'
<1>1. TypeOK /\ Turns /\ KeysOnce /\ pc[t] = "cutPrev" /\ Held(t) /\ Unlinked(t)
  BY DEF IInv, CutPrev, Goto, ThreadOK
<1>2. PICK x, y, p, c, L :
        x = cur[t] /\ y = next[x] /\ p = prev[x] /\ c = Bucket(t) /\ L = live \ {x}
  OBVIOUS
<1>3. /\ pc' = [pc EXCEPT ![t] = "delete"] /\ pc'[t] = "delete" /\ pc[t] \in Removing
      /\ prev' = IF y = Null THEN prev ELSE [prev EXCEPT ![y] = p]
      /\ UNCHANGED <<hashTable, next, key, live, arg, cur>>
  BY <1>1, <1>2 DEF CutPrev, Goto, Turns, Removing
<1>4. /\ x \in live /\ L \in SUBSET Entries /\ c \in Buckets /\ Tidy(L, y)
      /\ IF p = Null THEN hashTable[c] = y ELSE p \in L /\ next[p] = y
  <2>1. cur[t] \in live /\ live \subseteq Entries /\ Bucket(t) \in Buckets
    BY <1>1, CurEntry
  <2> QED BY <1>1, <1>2, <2>1 DEF Unlinked
<1>5. /\ y # Null => prev'[y] = p
      /\ \A d \in Entries : d # y => prev'[d] = prev[d]
  <2>1. y \in EntryOrNull
    BY <1>1, <1>2, <1>4, CurEntry DEF TypeOK
  <2> QED BY <1>1, <1>3, <2>1 DEF TypeOK, EntryOrNull
<1>6. /\ \A b \in Buckets : hashTable[b] = Null \/ hashTable[b] \in OfBucket(L, b)
      /\ \A e \in L : next[e] = Null \/ next[e] \in OfBucket(L, Hash(key[e]))
      /\ \A b \in Buckets, e \in L : next[e] # Null => next[e] # hashTable[b]
      /\ \A d, e \in L : next[d] = next[e] /\ next[d] # Null => d = e
  BY <1>1, <1>4, TidyLists
<1>7. ASSUME NEW b \in Buckets, hashTable[b] # Null PROVE prev'[hashTable[b]] = Null
  <2>1. hashTable[b] \in Entries
    BY <1>4, <1>6, <1>7 DEF OfBucket
  <2>2. CASE hashTable[b] = y
    BY <1>4, <1>5, <1>6, <1>7, <2>2
  <2>3. CASE hashTable[b] # y
    BY <1>4, <1>5, <1>7, <2>1, <2>3 DEF Tidy
  <2> QED BY <2>2, <2>3
<1>8. ASSUME NEW d \in L, next[d] # Null PROVE prev'[next[d]] = d
  <2>1. next[d] \in Entries
    BY <1>4, <1>6, <1>8 DEF OfBucket
  <2>2. CASE next[d] = y
    BY <1>4, <1>5, <1>6, <1>8, <2>2
  <2>3. CASE next[d] # y
    BY <1>4, <1>5, <1>8, <2>1, <2>3 DEF Tidy
  <2> QED BY <2>2, <2>3
<1>9. Tidy(live \ {cur[t]}, Null)'
  <2>1. \A b \in Buckets : Linked(next, hashTable[b], OfBucket(L, b), Null)
    BY <1>4 DEF Tidy
  <2>2. Tidy(L, Null)'
    BY <1>3, <1>7, <1>8, <2>1 DEF Tidy, OfBucket
  <2> QED BY <1>2, <1>3, <2>2 DEF Tidy, OfBucket
<1>10. ThreadOK(t)' /\ KeysOnce' /\ "delete" \notin Whole
  BY <1>1, <1>2, <1>3, <1>4, <1>9 DEF ThreadOK, KeysOnce, Whole
<1> QED BY <1>3, <1>10, BusyStep

(* No list holds the entry that is freed. *)
LEMMA DeleteStep ==
  ASSUME IInv, TypeOK', Turns', NEW t \in Threads, Delete(t)
  PROVE  IInv' /\ Tidy(live, Null)'
<1>1. /\ TypeOK /\ Turns /\ KeysOnce /\ pc[t] = "delete"
      /\ cur[t] \in live /\ Tidy(live \ {cur[t]}, Null)
  BY DEF IInv, Delete, ThreadOK
<1>2. PICK x, L : x = cur[t] /\ L = live \ {x}
  OBVIOUS
<1>3. /\ pc' = [pc EXCEPT ![t] = "idle"] /\ pc'[t] = "idle" /\ pc[t] \in Removing
      /\ live' = L /\ hashTable' = hashTable
      /\ next' = [next EXCEPT ![x] = Null] /\ prev' = [prev EXCEPT ![x] = Null]
      /\ key' = [key EXCEPT ![x] = AnyKey]
  BY <1>1, <1>2 DEF Delete, Return, Goto, Turns, Removing
<1>4. x \in Entries /\ L \in SUBSET Entries /\ L \subseteq live /\ x \notin L /\ Tidy(L, Null)
  BY <1>1, <1>2 DEF TypeOK
<1>5. /\ \A d \in L : next'[d] = next[d] /\ prev'[d] = prev[d] /\ key'[d] = key[d]
      /\ DOMAIN next' = Entries
  BY <1>1, <1>3, <1>4 DEF TypeOK
<1>6. /\ \A b \in Buckets : hashTable[b] = Null \/ hashTable[b] \in L
      /\ \A e \in L : next[e] = Null \/ next[e] \in L
  BY <1>1, <1>4, TidyLists DEF OfBucket
<1>7. ASSUME NEW b \in Buckets PROVE Linked(next', hashTable[b], OfBucket(L, b)', Null)
  <2>1. OfBucket(L, b)' = OfBucket(L, b) /\ OfBucket(L, b) \subseteq L
    BY <1>5 DEF OfBucket
  <2>2. Linked(next, hashTable[b], OfBucket(L, b), Null)
    BY <1>4 DEF Tidy
  <2>3. OfBucket(L, b) \subseteq DOMAIN next'
        /\ \A d \in OfBucket(L, b) : next'[d] = next[d]
    BY <1>4, <1>5, <2>1
  <2>4. Linked(next', hashTable[b], OfBucket(L, b), Null)
    BY <2>2, <2>3, LinkedSame
  <2> QED BY <2>1, <2>4
<1>8. Tidy(L, Null)'
  <2>1. \A b \in Buckets : hashTable[b] # Null => prev'[hashTable[b]] = Null
    BY <1>4, <1>5, <1>6 DEF Tidy
  <2>2. \A d \in L : next'[d] # Null => prev'[next'[d]] = d
    BY <1>4, <1>5, <1>6 DEF Tidy
  <2> QED BY <1>3, <1>7, <2>1, <2>2 DEF Tidy
<1>9. Tidy(live, Null)'
  BY <1>3, <1>8 DEF Tidy, OfBucket
<1>10. KeysOnce' /\ ThreadOK(t)'
  BY <1>1, <1>3, <1>4, <1>5 DEF KeysOnce, ThreadOK
<1> QED BY <1>3, <1>9, <1>10, BusyStep
-----------------------------------------------------------------------------
(* Every step preserves the invariant. *)
LEMMA NextInv ==
  ASSUME IInv, RemoveAloneNext
  PROVE  IInv'
<1>1. TypeOK' /\ Turns' /\ Turns
  BY TypeStep, TurnsStep DEF IInv
<1>2. PICK t \in Threads :
        \/ (\A u \in Threads : pc[u] \notin Removing) /\ Locking(t)
        \/ Continue(t)
        \/ Idle /\ \E k \in Keys : Remove(t, k)
  BY DEF RemoveAloneNext
<1>3. CASE (\A u \in Threads : pc[u] \notin Removing) /\ Locking(t)
  <2>1. PICK k \in Keys : Find(t, k) \/ \E s \in Slots : Insert(t, k, s)
    BY <1>3 DEF Locking
  <2>2. CASE Find(t, k)
    <3>1. \A u \in Threads : pc[u] \in Whole
      <4>1. \A u \in Threads : pc[u] \notin Writing /\ pc[u] \notin Removing
        BY <1>1, <1>3, <2>2 DEF Find, Lock!AcquireRead, Turns
      <4> QED BY <1>1, <4>1 DEF Turns, Steps, Whole
    <3>2. Call(t, "find", k, AnySlot)
      BY <2>2 DEF Find
    <3> QED BY <1>1, <3>1, <3>2, CallStep, ConstantFacts
  <2>3. ASSUME NEW s \in Slots, Insert(t, k, s) PROVE IInv'
    <3>1. \A u \in Threads : pc[u] \in Whole
      <4>1. \A u \in Threads : pc[u] \notin Writing /\ pc[u] \notin Removing
        BY <1>1, <1>3, <2>3 DEF Insert, Lock!AcquireWrite, Turns
      <4> QED BY <1>1, <4>1 DEF Turns, Steps, Whole
    <3>2. Call(t, "insert", k, s)
      BY <2>3 DEF Insert
    <3> QED BY <1>1, <3>1, <3>2, CallStep
  <2> QED BY <2>1, <2>2, <2>3
<1>4. CASE Idle /\ \E k \in Keys : Remove(t, k)
  <2>1. PICK k \in Keys : Remove(t, k)
    BY <1>4
  <2>2. \A u \in Threads : pc[u] \in Whole
    BY <1>4 DEF Idle, Whole
  <2>3. Call(t, "remove", k, AnySlot)
    BY <2>1 DEF Remove
  <2> QED BY <1>1, <2>2, <2>3, CallStep, ConstantFacts
<1>5. CASE Continue(t)
  <2>1. CASE Advance(t)
    BY <1>1, <2>1, AdvanceStep
  <2>2. CASE FindReturns(t) \/ InsertExists(t) \/ InsertReturns(t) \/ RemoveNotFound(t)
    <3>1. UNCHANGED heap /\ \E from \in Whole : \E r : Return(t, from, r)
      <4>1. CASE FindReturns(t)
        <5>1. UNCHANGED heap /\ \E r : Return(t, "find", r)
          BY <4>1, Zenon DEF FindReturns
        <5> QED BY <5>1 DEF Whole
      <4>2. CASE InsertExists(t)
        <5>1. UNCHANGED heap /\ \E r : Return(t, "insert", r)
          BY <4>2, Zenon DEF InsertExists
        <5> QED BY <5>1 DEF Whole
      <4>3. CASE InsertReturns(t)
        <5>1. UNCHANGED heap /\ \E r : Return(t, "verify", r)
          BY <4>3, Zenon DEF InsertReturns
        <5> QED BY <5>1 DEF Whole
      <4>4. CASE RemoveNotFound(t)
        <5>1. UNCHANGED heap /\ \E r : Return(t, "remove", r)
          BY <4>4, Zenon DEF RemoveNotFound
        <5> QED BY <5>1 DEF Whole
      <4> QED BY <2>2, <4>1, <4>2, <4>3, <4>4
    <3> QED BY <1>1, <3>1, ReturnStep
  <2>3. CASE NewEntry(t)
    BY <1>1, <2>3, NewEntryStep
  <2>4. CASE BackLink(t)
    BY <1>1, <2>4, BackLinkStep
  <2>5. CASE SetHead(t)
    BY <1>1, <2>5, SetHeadStep
  <2>6. CASE RemoveFound(t)
    BY <1>1, <2>6, RemoveFoundStep
  <2>7. CASE CutHead(t)
    BY <1>1, <2>7, CutHeadStep
  <2>8. CASE CutNext(t)
    BY <1>1, <2>8, CutNextStep
  <2>9. CASE CutPrev(t)
    BY <1>1, <2>9, CutPrevStep
  <2>10. CASE Delete(t)
    BY <1>1, <2>10, DeleteStep
  <2> QED BY <1>5, <2>1, <2>2, <2>3, <2>4, <2>5, <2>6, <2>7, <2>8, <2>9, <2>10 DEF Continue
<1> QED BY <1>2, <1>3, <1>4, <1>5

(* So does a stutter. *)
LEMMA StutterInv ==
  ASSUME IInv, UNCHANGED vars
  PROVE  IInv'
<1>1. UNCHANGED <<hashTable, next, prev, key, slot, live, readers, writers, pc, arg, cur, ret>>
  BY DEF vars, heap, fields, lock
<1>2. TypeOK' /\ Turns' /\ KeysOnce'
  BY <1>1 DEF IInv, TypeOK, Turns, KeysOnce
<1>3. ASSUME NEW t \in Threads PROVE ThreadOK(t)'
  <2>1. ThreadOK(t) /\ Key(t)' = Key(t) /\ Bucket(t)' = Bucket(t)
    BY <1>1 DEF IInv, Key, Bucket
  <2>2. Loop(t)' = Loop(t) /\ Held(t)' = Held(t) /\ Fresh(t)' = Fresh(t)
    BY <1>1, <2>1 DEF Loop, Fresh, Held
  <2>3. /\ Tidy(live, Null)' = Tidy(live, Null)
        /\ Tidy(live \ {cur[t]}, Null)' = Tidy(live \ {cur[t]}, Null)
        /\ Tidy(live \ {cur[t]}, next[cur[t]])' = Tidy(live \ {cur[t]}, next[cur[t]])
        /\ Tidy(live \ {cur[t]}, hashTable[Bucket(t)])'
             = Tidy(live \ {cur[t]}, hashTable[Bucket(t)])
    BY <1>1, <2>1 DEF Tidy, OfBucket
  <2>4. Unlinked(t)' = Unlinked(t) /\ Inside(t)' = Inside(t)
    BY <1>1, <2>1, <2>3 DEF Unlinked, Inside
  <2> QED BY <1>1, <2>1, <2>2, <2>3, <2>4 DEF ThreadOK
<1>4. (\A t \in Threads : pc[t] \in Whole)' => Tidy(live, Null)'
  BY <1>1 DEF IInv, Tidy, OfBucket
<1> QED BY <1>2, <1>3, <1>4 DEF IInv

(* The invariant holds in every reachable state. *)
LEMMA Invariance ==
  RemoveAloneSpec => []IInv
<1>1. Init => IInv
  BY InitInv
<1>2. IInv /\ [RemoveAloneNext]_vars => IInv'
  BY NextInv, StutterInv
<1> QED BY <1>1, <1>2, PTL DEF RemoveAloneSpec

(* Between calls every bucket is a sound doubly linked list of exactly the *)
(* allocated entries that hash to it (bufhashtable.cpp 59-121).            *)
THEOREM TableChainsSound ==
  RemoveAloneSpec => []ChainsSound
<1>1. ASSUME IInv, Idle PROVE Tidy(live, Null) /\ KeysOnce
  BY <1>1 DEF IInv, Idle, Whole
<1>2. ASSUME IInv, Idle, NEW b \in Buckets
      PROVE  ChainIs(next, hashTable[b], {e \in live : Hash(key[e]) = b}, Null)
  <2>1. Linked(next, hashTable[b], OfBucket(live, b), Null)
    BY <1>1, <1>2 DEF Tidy
  <2>2. ChainIs(next, hashTable[b], OfBucket(live, b), Null)
    BY <2>1, LinkedIsChain
  <2> QED BY <2>2 DEF OfBucket
<1>3. IInv => ChainsSound
  <2>1. ASSUME IInv, Idle
        PROVE  /\ \A b \in Buckets : hashTable[b] # Null => prev[hashTable[b]] = Null
               /\ \A e \in live : next[e] # Null => prev[next[e]] = e
               /\ \A d, e \in live : key[d] = key[e] => d = e
    BY <1>1, <2>1 DEF Tidy, KeysOnce
  <2> QED BY <1>2, <2>1 DEF ChainsSound
<1> QED BY <1>3, Invariance, PTL
-----------------------------------------------------------------------------
(* A find ends with the step of the thread itself. *)
LEMMA FindEnds ==
  ASSUME Turns, RemoveAloneNext, NEW t \in Threads, pc[t] = "find", pc'[t] = "idle"
  PROVE  FindReturns(t)
<1>1. PICK u \in Threads :
        Locking(u) \/ Continue(u) \/ \E k \in Keys : Remove(u, k)
  BY DEF RemoveAloneNext
<1>2. CASE u # t
  <2>1. ASSUME NEW from, NEW to, Goto(u, from, to) PROVE pc'[t] = pc[t]
    BY <1>2, <2>1 DEF Goto, Turns
  <2>2. pc'[t] = pc[t]
    BY <1>1, <2>1 DEF Locking, Continue, Find, Insert, Remove, Call, Return, Advance, FindReturns,
       InsertExists, NewEntry, BackLink, SetHead, InsertReturns, RemoveNotFound, RemoveFound,
       CutHead, CutNext, CutPrev, Delete
  <2> QED BY <2>2
<1>3. CASE u = t
  <2>1. ~Locking(t) /\ ~\E k \in Keys : Remove(t, k)
    BY DEF Locking, Find, Insert, Remove, Call, Goto
  <2>2. ~Advance(t)
    BY DEF Advance
  <2>3. ~InsertExists(t) /\ ~NewEntry(t) /\ ~BackLink(t) /\ ~SetHead(t) /\ ~InsertReturns(t)
        /\ ~RemoveNotFound(t) /\ ~RemoveFound(t) /\ ~CutHead(t) /\ ~CutNext(t) /\ ~CutPrev(t)
        /\ ~Delete(t)
    BY DEF InsertExists, NewEntry, BackLink, SetHead, InsertReturns, RemoveNotFound, RemoveFound,
       CutHead, CutNext, CutPrev, Delete, Goto
  <2> QED BY <1>1, <1>3, <2>1, <2>2, <2>3 DEF Continue
<1> QED BY <1>2, <1>3

(* The frame of a page that one entry of the lists has, or no entry has. *)
LEMMA InMapIs ==
  ASSUME TypeOK, KeysOnce, NEW L \in SUBSET live, NEW k
  PROVE  /\ \A e \in L : key[e] = k => InMap(L, k) = slot[e] /\ slot[e] # Absent
         /\ (\A e \in L : key[e] # k) => InMap(L, k) = Absent
<1>1. ASSUME NEW e \in L, key[e] = k
      PROVE  InMap(L, k) = slot[e] /\ slot[e] # Absent
  <2>1. {d \in L : key[d] = k} = {e}
    BY <1>1 DEF KeysOnce
  <2>2. SlotOf({e}) = slot[e]
    BY DEF SlotOf
  <2>3. slot[e] \in Slots
    BY DEF TypeOK
  <2> QED BY <2>1, <2>2, <2>3, TableAssumption DEF InMap
<1>2. ASSUME \A e \in L : key[e] # k PROVE InMap(L, k) = Absent
  <2>1. {d \in L : key[d] = k} = {}
    BY <1>2
  <2> QED BY <2>1 DEF InMap, SlotOf
<1> QED BY <1>1, <1>2

(* find answers with what the map holds when it returns, while other       *)
(* threads find and insert (bufhashtable.cpp 38-54).                       *)
THEOREM TableFindsRight ==
  RemoveAloneSpec => FindAnswersRight
<1>1. ASSUME IInv, RemoveAloneNext, NEW t \in Threads, pc[t] = "find", pc'[t] = "idle"
      PROVE  ret'[t] = IF Lookup(Key(t)) = Absent THEN "PF_HASHNOTFOUND" ELSE Lookup(Key(t))
  <2>1. TypeOK /\ Turns /\ KeysOnce /\ Loop(t) /\ FindReturns(t)
    BY <1>1, FindEnds DEF IInv, ThreadOK
  <2>2. Tidy(live, Null)
    <3>1. \A u \in Threads : pc[u] \notin Writing \cup Removing
      BY <1>1, <2>1 DEF Turns, Writing, Removing
    <3>2. \A u \in Threads : pc[u] \in Whole
      BY <2>1, <3>1 DEF Turns, Steps, Whole
    <3> QED BY <1>1, <3>2 DEF IInv
  <2>3. PICK k \in Keys : k = Key(t)
    BY <2>1 DEF TypeOK, Key
  <2>4. Lookup(k) = InMap(live, k) /\ live \in SUBSET live
    BY <2>1, <2>2, TidyLookup DEF TypeOK
  <2>5. CASE Matches(t) /\ Return(t, "find", slot[cur[t]])
    <3>1. cur[t] \in live /\ key[cur[t]] = k
      BY <2>1, <2>3, <2>5, LoopMeets DEF Matches
    <3>2. Lookup(k) = slot[cur[t]] /\ slot[cur[t]] # Absent
      BY <2>1, <2>4, <3>1, InMapIs
    <3> QED BY <2>1, <2>3, <2>5, <3>2 DEF Return, TypeOK
  <2>6. CASE cur[t] = Null /\ Return(t, "find", "PF_HASHNOTFOUND")
    <3>1. Lookup(k) = Absent
      BY <2>1, <2>3, <2>4, <2>6, LoopMeets, InMapIs
    <3> QED BY <2>1, <2>3, <2>6, <3>1 DEF Return, TypeOK
  <2> QED BY <2>1, <2>5, <2>6 DEF FindReturns
<1> DEFINE Answers ==
      \A t \in Threads :
        pc[t] = "find" /\ pc'[t] = "idle" =>
          ret'[t] = IF Lookup(Key(t)) = Absent THEN "PF_HASHNOTFOUND" ELSE Lookup(Key(t))
<1>2. IInv /\ [RemoveAloneNext]_vars => [Answers]_vars
  BY <1>1
<1> HIDE DEF Answers
<1>3. [][Answers]_vars => FindAnswersRight
  BY DEF FindAnswersRight, Answers
<1> QED BY <1>2, <1>3, Invariance, PTL DEF RemoveAloneSpec
-----------------------------------------------------------------------------
(* The map of the lists, said of a state so that a step can use it of both *)
(* of its states.                                                          *)
MapFacts ==
  /\ \A L \in SUBSET Entries : \A late :
       Tidy(L, late) => \A k \in Keys : Lookup(k) = InMap(L, k)
  /\ \A L \in SUBSET live : \A k \in Keys :
       /\ \A e \in L : key[e] = k => InMap(L, k) = slot[e] /\ slot[e] # Absent
       /\ (\A e \in L : key[e] # k) => InMap(L, k) = Absent

(* The map facts follow from the invariant. *)
LEMMA MapFactsHold ==
  IInv => MapFacts
<1>1. ASSUME IInv
      PROVE  MapFacts
  <2>1. TypeOK /\ KeysOnce
    BY <1>1 DEF IInv
  <2>2. ASSUME NEW L \in SUBSET Entries, NEW late, Tidy(L, late), NEW k \in Keys
        PROVE  Lookup(k) = InMap(L, k)
    BY <2>1, <2>2, TidyLookup
  <2>3. ASSUME NEW L \in SUBSET live, NEW k \in Keys
        PROVE  /\ \A e \in L : key[e] = k => InMap(L, k) = slot[e] /\ slot[e] # Absent
               /\ (\A e \in L : key[e] # k) => InMap(L, k) = Absent
    BY <2>1, InMapIs
  <2> QED BY <2>2, <2>3 DEF MapFacts
<1> QED BY <1>1

(* The maps of L and of L with one more entry of live. *)
LEMMA OneMore ==
  ASSUME TypeOK, KeysOnce, MapFacts, NEW x \in live, NEW L, L = live \ {x}
  PROVE  /\ InMap(L, key[x]) = Absent
         /\ InMap(live, key[x]) = slot[x] /\ slot[x] # Absent /\ slot[x] \in Slots
         /\ key[x] \in Keys
         /\ \A k \in Keys : k # key[x] => InMap(live, k) = InMap(L, k)
<1>1. key[x] \in Keys /\ slot[x] \in Slots /\ L \in SUBSET live /\ live \in SUBSET live
  BY DEF TypeOK
<1>2. \A e \in L : key[e] # key[x]
  BY <1>1 DEF KeysOnce
<1>3. ASSUME NEW k \in Keys, k # key[x] PROVE InMap(live, k) = InMap(L, k)
  <2>1. {e \in live : key[e] = k} = {e \in L : key[e] = k}
    BY <1>3
  <2> QED BY <2>1 DEF InMap
<1>4. InMap(live, key[x]) = slot[x] /\ slot[x] # Absent
  BY <1>1 DEF MapFacts
<1>5. InMap(L, key[x]) = Absent
  BY <1>1, <1>2 DEF MapFacts
<1> QED BY <1>1, <1>3, <1>4, <1>5

(* The map depends on the keys and frames of the entries of L alone. *)
LEMMA SameInMap ==
  ASSUME MapFacts, MapFacts', NEW L, L \in SUBSET live, L \in SUBSET live',
         \A e \in L : key'[e] = key[e] /\ slot'[e] = slot[e]
  PROVE  \A k \in Keys : InMap(L, k)' = InMap(L, k)
<1>1. ASSUME NEW k \in Keys PROVE InMap(L, k)' = InMap(L, k)
  <2>1. CASE \E e \in L : key[e] = k
    <3>1. PICK e \in L : key[e] = k
      BY <2>1
    <3>2. InMap(L, k) = slot[e]
      BY <3>1 DEF MapFacts
    <3>3. InMap(L, k)' = slot'[e]
      BY <3>1 DEF MapFacts
    <3> QED BY <3>2, <3>3
  <2>2. CASE \A e \in L : key[e] # k
    <3>1. InMap(L, k) = Absent
      BY <2>2 DEF MapFacts
    <3>2. InMap(L, k)' = Absent
      BY <2>2 DEF MapFacts
    <3> QED BY <3>1, <3>2
  <2> QED BY <2>1, <2>2
<1> QED BY <1>1

(* The map depends on heads, links, keys and frames alone. *)
LEMMA MapSame ==
  ASSUME UNCHANGED <<hashTable, next, key, slot>>
  PROVE  \A k \in Keys : Lookup(k)' = Lookup(k)
BY DEF Lookup, SlotOf

(* An entry that no list holds yet is not in the map. *)
LEMMA NewEntrySame ==
  ASSUME IInv, IInv', MapFacts, MapFacts', NEW t \in Threads, NewEntry(t)
  PROVE  \A k \in Keys : Lookup(k)' = Lookup(k)
<1>1. TypeOK /\ Turns /\ TypeOK'
  BY DEF IInv
<1>2. PICK e, L : e = FreeEntry /\ L = live
  OBVIOUS
<1>3. /\ pc[t] = "insert" /\ pc'[t] = "backLink" /\ cur'[t] = e /\ e \notin live
      /\ live' = live \cup {e}
      /\ key' = [key EXCEPT ![e] = Key(t)] /\ slot' = [slot EXCEPT ![e] = arg[t][2]]
  BY <1>1, <1>2, FreeEntryIs DEF NewEntry, Goto, FreeEntry, TypeOK, Turns
<1>4. Tidy(L, Null)
  <2>1. \A u \in Threads : pc[u] \in Whole
    BY <1>1, <1>3, Alone DEF Whole, Writing
  <2> QED BY <1>2, <2>1 DEF IInv
<1>5. Tidy(L, Null)'
  <2>1. ThreadOK(t)' /\ (live \ {cur[t]})' = L
    BY <1>2, <1>3 DEF IInv
  <2>2. Tidy(live \ {cur[t]}, Null)'
    BY <1>3, <2>1 DEF ThreadOK
  <2> QED BY <2>1, <2>2 DEF Tidy, OfBucket
<1>6. L \in SUBSET live /\ L \in SUBSET live' /\ L \in SUBSET Entries
      /\ \A d \in L : key'[d] = key[d] /\ slot'[d] = slot[d]
  BY <1>1, <1>2, <1>3 DEF TypeOK
<1>7. \A k \in Keys : Lookup(k) = InMap(L, k)
  BY <1>4, <1>6 DEF MapFacts
<1>8. \A k \in Keys : Lookup(k)' = InMap(L, k)'
  BY <1>5, <1>6 DEF MapFacts
<1> QED BY <1>6, <1>7, <1>8, SameInMap

(* An entry that no list holds any more is not in the map. *)
LEMMA DeleteSame ==
  ASSUME IInv, IInv', MapFacts, MapFacts', NEW t \in Threads, Delete(t)
  PROVE  \A k \in Keys : Lookup(k)' = Lookup(k)
<1>1. TypeOK /\ Turns /\ TypeOK' /\ Turns'
  BY DEF IInv
<1>2. PICK x, L : x = cur[t] /\ L = live \ {x}
  OBVIOUS
<1>3. /\ pc[t] = "delete" /\ live' = L /\ x \in live
      /\ key' = [key EXCEPT ![x] = AnyKey] /\ slot' = [slot EXCEPT ![x] = AnySlot]
      /\ Tidy(live \ {cur[t]}, Null)
  BY <1>2 DEF Delete, Return, Goto, IInv, ThreadOK
<1>4. Tidy(L, Null)
  BY <1>2, <1>3
<1>5. Tidy(L, Null)'
  <2>1. Tidy(live, Null)'
    BY <1>1, DeleteStep
  <2> QED BY <1>3, <2>1 DEF Tidy, OfBucket
<1>6. L \in SUBSET live /\ L \in SUBSET live' /\ L \in SUBSET Entries
      /\ \A d \in L : key'[d] = key[d] /\ slot'[d] = slot[d]
  BY <1>1, <1>2, <1>3 DEF TypeOK
<1>7. \A k \in Keys : Lookup(k) = InMap(L, k)
  BY <1>4, <1>6 DEF MapFacts
<1>8. \A k \in Keys : Lookup(k)' = InMap(L, k)'
  BY <1>5, <1>6 DEF MapFacts
<1> QED BY <1>6, <1>7, <1>8, SameInMap

(* insert enters its page when it stores the head. *)
LEMMA SetHeadInserts ==
  ASSUME IInv, IInv', MapFacts, MapFacts', NEW t \in Threads, SetHead(t)
  PROVE  \E q \in Keys : \E s \in Slots :
           /\ Lookup(q) = Absent /\ Lookup(q)' = s
           /\ \A k \in Keys : k # q => Lookup(k)' = Lookup(k)
<1>1. TypeOK /\ Turns /\ KeysOnce /\ TypeOK' /\ Turns'
  BY DEF IInv
<1>2. PICK x, L, M : x = cur[t] /\ L = live \ {x} /\ M = live
  OBVIOUS
<1>3. pc[t] = "setHead" /\ UNCHANGED <<next, key, slot, live>> /\ x \in live
      /\ Tidy(live \ {cur[t]}, hashTable[Bucket(t)])
  BY <1>2 DEF SetHead, Goto, fields, IInv, ThreadOK, Fresh, Held
<1>4. M \in SUBSET Entries /\ L \in SUBSET Entries /\ M \in SUBSET live /\ M \in SUBSET live'
  BY <1>1, <1>2, <1>3 DEF TypeOK
<1>5. \A k \in Keys : Lookup(k) = InMap(L, k)
  BY <1>2, <1>3, <1>4 DEF MapFacts
<1>6. Tidy(M, Null)'
  <2>1. Tidy(live, Null)'
    BY <1>1, SetHeadStep
  <2> QED BY <1>2, <1>3, <2>1 DEF Tidy, OfBucket
<1>7. \A k \in Keys : Lookup(k)' = InMap(M, k)'
  BY <1>4, <1>6 DEF MapFacts
<1>8. \A k \in Keys : InMap(M, k)' = InMap(M, k)
  BY <1>3, <1>4, SameInMap
<1>9. /\ InMap(L, key[x]) = Absent /\ InMap(M, key[x]) = slot[x]
      /\ key[x] \in Keys /\ slot[x] \in Slots
      /\ \A k \in Keys : k # key[x] => InMap(M, k) = InMap(L, k)
  BY <1>1, <1>2, <1>3, OneMore
<1> QED BY <1>5, <1>7, <1>8, <1>9

(* remove takes its page away when no list holds the entry any more. *)
LEMMA CutRemoves ==
  ASSUME IInv, IInv', MapFacts, MapFacts', NEW t \in Threads,
         NEW x, x = cur[t], x \in live, Tidy(live, Null), Unlinked(t)',
         UNCHANGED <<key, slot, live, cur>>
  PROVE  \E q \in Keys :
           /\ Lookup(q) # Absent /\ Lookup(q)' = Absent
           /\ \A k \in Keys : k # q => Lookup(k)' = Lookup(k)
<1>1. TypeOK /\ Turns /\ KeysOnce /\ TypeOK' /\ Turns'
  BY DEF IInv
<1>2. PICK L, M : L = live \ {x} /\ M = live
  OBVIOUS
<1>4. M \in SUBSET Entries /\ L \in SUBSET Entries /\ L \in SUBSET live /\ L \in SUBSET live'
  BY <1>1, <1>2 DEF TypeOK
<1>5. \A k \in Keys : Lookup(k) = InMap(M, k)
  BY <1>2, <1>4 DEF MapFacts
<1>6. \A k \in Keys : Lookup(k)' = InMap(L, k)'
  <2>1. PICK y : y = (next[cur[t]])'
    OBVIOUS
  <2>2. Tidy(L, y)'
    BY <1>2, <2>1 DEF Unlinked, Tidy, OfBucket
  <2> QED BY <1>4, <2>2 DEF MapFacts
<1>8. \A k \in Keys : InMap(L, k)' = InMap(L, k)
  BY <1>4, SameInMap
<1>9. /\ InMap(L, key[x]) = Absent /\ InMap(M, key[x]) = slot[x] /\ slot[x] # Absent
      /\ key[x] \in Keys
      /\ \A k \in Keys : k # key[x] => InMap(M, k) = InMap(L, k)
  BY <1>1, <1>2, OneMore
<1> QED BY <1>5, <1>6, <1>8, <1>9

(* remove takes a head's page away when it stores the new head. *)
LEMMA CutHeadRemoves ==
  ASSUME IInv, IInv', MapFacts, MapFacts', NEW t \in Threads, CutHead(t)
  PROVE  \E q \in Keys :
           /\ Lookup(q) # Absent /\ Lookup(q)' = Absent
           /\ \A k \in Keys : k # q => Lookup(k)' = Lookup(k)
<1>1. TypeOK /\ Turns
  BY DEF IInv
<1>2. /\ pc[t] = "cutHead" /\ pc'[t] = "cutNext" /\ Held(t) /\ cur[t] = hashTable[Bucket(t)]
      /\ UNCHANGED <<key, slot, live, cur, prev>>
  BY <1>1 DEF CutHead, Goto, fields, IInv, ThreadOK, Turns
<1>3. Tidy(live, Null)
  <2>1. \A u \in Threads : pc[u] \in Whole
    BY <1>1, <1>2, Alone DEF Whole, Removing
  <2> QED BY <2>1 DEF IInv
<1>4. cur[t] \in live /\ cur[t] # Null /\ Bucket(t) \in Buckets
  BY <1>1, <1>2, CurEntry, ConstantFacts DEF Held, TypeOK
<1>5. Unlinked(t)'
  <2>1. prev'[cur'[t]] = Null
    BY <1>2, <1>3, <1>4 DEF Tidy
  <2>2. ThreadOK(t)'
    BY DEF IInv
  <2> QED BY <1>2, <2>1, <2>2 DEF ThreadOK
<1> QED BY <1>2, <1>3, <1>4, <1>5, CutRemoves

(* remove takes another page away when it links its predecessor past it. *)
LEMMA CutNextRemoves ==
  ASSUME IInv, IInv', MapFacts, MapFacts', NEW t \in Threads, CutNext(t)
  PROVE  \/ \A k \in Keys : Lookup(k)' = Lookup(k)
         \/ \E q \in Keys :
              /\ Lookup(q) # Absent /\ Lookup(q)' = Absent
              /\ \A k \in Keys : k # q => Lookup(k)' = Lookup(k)
<1>1. TypeOK /\ Turns
  BY DEF IInv
<1>2. /\ pc[t] = "cutNext" /\ pc'[t] = "cutPrev" /\ cur[t] \in live
      /\ prev[cur[t]] # Null => Inside(t)
      /\ UNCHANGED <<hashTable, key, slot, live, cur, prev>>
  BY <1>1 DEF CutNext, Goto, IInv, ThreadOK, Held, Turns
<1>3. CASE prev[cur[t]] = Null
  <2>1. next' = next
    BY <1>3 DEF CutNext
  <2> QED BY <1>2, <2>1, MapSame
<1>4. CASE prev[cur[t]] # Null
  <2>1. Tidy(live, Null)
    BY <1>2, <1>4 DEF Inside
  <2>2. Unlinked(t)'
    BY <1>2 DEF IInv, ThreadOK
  <2> QED BY <1>2, <2>1, <2>2, CutRemoves
<1> QED BY <1>3, <1>4

(* A step changes the map of no page, or enters one, or removes one. *)
LEMMA StepOfMap ==
  ASSUME IInv, IInv', MapFacts, MapFacts', RemoveAloneNext
  PROVE  \/ \A k \in Keys : Lookup(k)' = Lookup(k)
         \/ \E q \in Keys : \E s \in Slots :
              /\ Lookup(q) = Absent /\ Lookup(q)' = s
              /\ \A k \in Keys : k # q => Lookup(k)' = Lookup(k)
         \/ \E q \in Keys :
              /\ Lookup(q) # Absent /\ Lookup(q)' = Absent
              /\ \A k \in Keys : k # q => Lookup(k)' = Lookup(k)
<1>1. PICK t \in Threads : Locking(t) \/ Continue(t) \/ \E k \in Keys : Remove(t, k)
  BY DEF RemoveAloneNext
<1>2. CASE Locking(t) \/ \E k \in Keys : Remove(t, k)
  <2>1. UNCHANGED heap
    BY <1>2 DEF Locking, Find, Insert, Remove, Call
  <2> QED BY <2>1, MapSame DEF heap, fields
<1>3. CASE Advance(t) \/ FindReturns(t) \/ InsertExists(t) \/ InsertReturns(t)
           \/ RemoveNotFound(t) \/ RemoveFound(t)
  <2>1. UNCHANGED heap
    BY <1>3 DEF Advance, FindReturns, InsertExists, InsertReturns, RemoveNotFound, RemoveFound
  <2> QED BY <2>1, MapSame DEF heap, fields
<1>4. CASE BackLink(t) \/ CutPrev(t)
  BY <1>4, MapSame DEF BackLink, CutPrev
<1>5. CASE NewEntry(t)
  BY <1>5, NewEntrySame
<1>6. CASE Delete(t)
  BY <1>6, DeleteSame
<1>7. CASE SetHead(t)
  BY <1>7, SetHeadInserts
<1>8. CASE CutHead(t)
  BY <1>8, CutHeadRemoves
<1>9. CASE CutNext(t)
  BY <1>9, CutNextRemoves
<1> QED BY <1>1, <1>2, <1>3, <1>4, <1>5, <1>6, <1>7, <1>8, <1>9 DEF Continue

(* insert and remove each change the map in one step, for their page alone *)
(* (bufhashtable.cpp 59-121): the table implements SlotMap.                *)
THEOREM TableIsMap ==
  RemoveAloneSpec => ImplementsMap
<1> DEFINE Table == [k \in Keys |-> Lookup(k)]
<1>1. Init /\ IInv /\ MapFacts => Map!Init
  <2>1. ASSUME Init, IInv, MapFacts, NEW k \in Keys PROVE Lookup(k) = Absent
    <3>1. live = {} /\ Tidy(live, Null) /\ live \in SUBSET Entries
      BY <2>1 DEF Init, IInv, Whole
    <3>2. Lookup(k) = InMap(live, k) /\ live \in SUBSET live
      BY <2>1, <3>1 DEF MapFacts
    <3> QED BY <2>1, <3>1, <3>2 DEF MapFacts
  <2> QED BY <2>1 DEF Map!Init
<1>2. ASSUME IInv, IInv', MapFacts, MapFacts', RemoveAloneNext
      PROVE  [Map!Next]_Table
  <2>1. PICK m, n : m = Table /\ n = Table'
    OBVIOUS
  <2>2. m = [k \in Keys |-> m[k]] /\ n = [k \in Keys |-> n[k]]
        /\ \A k \in Keys : m[k] = Lookup(k) /\ n[k] = Lookup(k)'
    BY <2>1
  <2>3. CASE \A k \in Keys : Lookup(k)' = Lookup(k)
    BY <2>1, <2>2, <2>3
  <2>4. ASSUME NEW q \in Keys, NEW s \in Slots, Lookup(q) = Absent, Lookup(q)' = s,
               \A k \in Keys : k # q => Lookup(k)' = Lookup(k)
        PROVE  Map!Next
    <3>1. n = [m EXCEPT ![q] = s] /\ m[q] = Absent
      BY <2>2, <2>4
    <3>2. Map!Insert(q, s)
      BY <2>1, <3>1 DEF Map!Insert
    <3> QED BY <3>2 DEF Map!Next
  <2>5. ASSUME NEW q \in Keys, Lookup(q) # Absent, Lookup(q)' = Absent,
               \A k \in Keys : k # q => Lookup(k)' = Lookup(k)
        PROVE  Map!Next
    <3>1. n = [m EXCEPT ![q] = Absent] /\ m[q] # Absent
      BY <2>2, <2>5
    <3>2. Map!Remove(q)
      BY <2>1, <3>1 DEF Map!Remove
    <3> QED BY <3>2 DEF Map!Next
  <2> QED BY <1>2, <2>3, <2>4, <2>5, StepOfMap
<1>3. UNCHANGED vars => UNCHANGED Table
  BY MapSame DEF vars, heap, fields
<1>4. IInv /\ IInv' /\ MapFacts /\ MapFacts' /\ [RemoveAloneNext]_vars => [Map!Next]_Table
  BY <1>2, <1>3
<1> HIDE DEF Table
<1>5. RemoveAloneSpec => Map!Init /\ [][Map!Next]_Table
  BY <1>1, <1>4, Invariance, MapFactsHold, PTL DEF RemoveAloneSpec
<1> QED BY <1>5, PTL DEF ImplementsMap, Map!Spec, Table
=============================================================================
