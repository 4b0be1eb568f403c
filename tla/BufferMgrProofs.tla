--------------------------- MODULE BufferMgrProofs ---------------------------
(***************************************************************************)
(* Proofs about BufferMgr, for every pool size and every set of pages.     *)
(*                                                                         *)
(* First the frames: the two lists partition them, the hash table is exact, *)
(* pins balance and clean frames match their file.  Then what the buffer   *)
(* manager promises its clients, from those invariants: a pinned page stays *)
(* where it is, the pool implements PageCache, and flushPages and          *)
(* forcePages deliver.                                                     *)
(*                                                                         *)
(* The last section is about the reader-writer lock under the pool, the    *)
(* listLock of bufmgr.h and the hash table's rwLock: module RWLock, whose  *)
(* state is apart from the pool's, for any finite sets of threads.         *)
(***************************************************************************)
EXTENDS BufferMgr, RWLock, SequenceTheorems, FiniteSetTheorems, TLAPS

-----------------------------------------------------------------------------
(* The list operations on lists without duplicates. *)

List(S, s) == s \in Seq(S) /\ IsInjective(s)

LEMMA LinkHeadFacts ==
  ASSUME NEW S, NEW s, List(S, s), NEW e \in S, e \notin ToSet(s)
  PROVE  /\ List(S, LinkHead(s, e))
         /\ ToSet(LinkHead(s, e)) = ToSet(s) \cup {e}
<1> DEFINE r == LinkHead(s, e)
<1>1. /\ r \in Seq(S) /\ Len(r) = Len(s) + 1
      /\ \A i \in 1 .. Len(r) : r[i] = IF i = 1 THEN e ELSE s[i - 1]
  BY DEF List, LinkHead, Cons
<1>2. DOMAIN r = 1 .. Len(r) /\ DOMAIN s = 1 .. Len(s) /\ Len(s) \in Nat
  BY <1>1 DEF List
<1> HIDE DEF r
<1>3. \A i \in 1 .. Len(s) : s[i] # e
  BY <1>2 DEF ToSet
<1>4. \A i, j \in 1 .. Len(s) : s[i] = s[j] => i = j
  BY <1>2 DEF List, IsInjective
<1>5. ASSUME NEW a \in 1 .. Len(r), NEW b \in 1 .. Len(r), r[a] = r[b]
      PROVE  a = b
  <2>1. a # 1 => a - 1 \in 1 .. Len(s) /\ r[a] = s[a - 1]
    BY <1>1, <1>2
  <2>2. b # 1 => b - 1 \in 1 .. Len(s) /\ r[b] = s[b - 1]
    BY <1>1, <1>2
  <2>3. r[1] = e
    BY <1>1, <1>2
  <2>4. a # 1 /\ b # 1 => a - 1 = b - 1
    BY <1>4, <1>5, <2>1, <2>2
  <2> QED BY <1>3, <1>5, <2>1, <2>2, <2>3, <2>4
<1>6. IsInjective(r)
  BY <1>2, <1>5 DEF IsInjective
<1>7. ToSet(r) = ToSet(s) \cup {e}
  <2>1. ASSUME NEW i \in DOMAIN r PROVE r[i] \in ToSet(s) \cup {e}
    <3>1. CASE i = 1
      BY <3>1, <1>1, <1>2
    <3>2. CASE i # 1
      <4>1. i - 1 \in DOMAIN s /\ r[i] = s[i - 1]
        BY <3>2, <1>1, <1>2
      <4> QED BY <4>1 DEF ToSet
    <3> QED BY <3>1, <3>2
  <2>2. e \in ToSet(r)
    <3>1. 1 \in DOMAIN r /\ r[1] = e
      BY <1>1, <1>2
    <3> QED BY <3>1 DEF ToSet
  <2>3. ASSUME NEW i \in DOMAIN s PROVE s[i] \in ToSet(r)
    <3>1. i + 1 \in DOMAIN r /\ r[i + 1] = s[i]
      BY <1>1, <1>2
    <3> QED BY <3>1 DEF ToSet
  <2> QED BY <2>1, <2>2, <2>3 DEF ToSet
<1> QED BY <1>1, <1>6, <1>7 DEF r, List

LEMMA UnlinkFacts ==
  ASSUME NEW S, NEW s, List(S, s), NEW e \in ToSet(s)
  PROVE  /\ List(S, Unlink(s, e))
         /\ ToSet(Unlink(s, e)) = ToSet(s) \ {e}
<1>1. Len(s) \in Nat /\ DOMAIN s = 1 .. Len(s) /\ \A i \in 1 .. Len(s) : s[i] \in S
  BY DEF List
<1> DEFINE k == CHOOSE i \in DOMAIN s : s[i] = e
           r == Unlink(s, e)
<1>2. k \in 1 .. Len(s) /\ s[k] = e
  BY <1>1 DEF ToSet
<1>3. r = SubSeq(s, 1, k - 1) \o SubSeq(s, k + 1, Len(s))
  BY DEF Unlink, RemoveAt
<1> HIDE DEF k, r
<1>4. /\ SubSeq(s, 1, k - 1) \in Seq(S) /\ Len(SubSeq(s, 1, k - 1)) = k - 1
      /\ \A i \in 1 .. k - 1 : SubSeq(s, 1, k - 1)[i] = s[i]
  BY <1>1, <1>2, SubSeqProperties
<1>5. /\ SubSeq(s, k + 1, Len(s)) \in Seq(S)
      /\ Len(SubSeq(s, k + 1, Len(s))) = Len(s) - k
      /\ \A i \in 1 .. Len(s) - k : SubSeq(s, k + 1, Len(s))[i] = s[i + k]
  <2>1. \A i \in k + 1 .. Len(s) : s[i] \in S
    BY <1>1, <1>2
  <2> DEFINE t == SubSeq(s, k + 1, Len(s))
  <2>2. /\ t \in Seq(S)
        /\ Len(t) = IF k + 1 <= Len(s) THEN Len(s) - (k + 1) + 1 ELSE 0
        /\ \A i \in 1 .. Len(s) - (k + 1) + 1 : t[i] = s[k + 1 + i - 1]
    BY <1>1, <1>2, <2>1, SubSeqProperties
  <2> HIDE DEF t
  <2>3. \A i \in 1 .. Len(s) - k : t[i] = s[i + k]
    <3> TAKE i \in 1 .. Len(s) - k
    <3>1. i \in 1 .. Len(s) - (k + 1) + 1 /\ k + 1 + i - 1 = i + k
      BY <1>1, <1>2
    <3> QED BY <3>1, <2>2
  <2>4. Len(t) = Len(s) - k
    <3> DEFINE n == Len(s)
    <3>0. n \in Nat /\ k \in Nat /\ k <= n
      BY <1>1, <1>2
    <3> HIDE DEF n
    <3>1. CASE k + 1 <= Len(s)
      <4>1. Len(t) = Len(s) - (k + 1) + 1
        BY <3>1, <2>2
      <4> QED BY <4>1, <1>1, <1>2
    <3>2. CASE ~(k + 1 <= Len(s))
      <4>1. Len(s) - k = 0
        BY <3>0, <3>2 DEF n
      <4> QED BY <3>2, <4>1, <2>2
    <3> QED BY <3>1, <3>2
  <2>5. t \in Seq(S) /\ Len(t) = Len(s) - k /\ \A i \in 1 .. Len(s) - k : t[i] = s[i + k]
    BY <2>2, <2>3, <2>4
  <2> QED BY ONLY <2>5 DEF t
<1> DEFINE u == SubSeq(s, 1, k - 1)
           v == SubSeq(s, k + 1, Len(s))
<1> HIDE DEF u, v
<1>6. /\ r \in Seq(S) /\ Len(r) = Len(s) - 1
      /\ \A i \in 1 .. Len(r) : r[i] = IF i < k THEN s[i] ELSE s[i + 1]
  <2>0. /\ u \in Seq(S) /\ Len(u) = k - 1 /\ \A i \in 1 .. k - 1 : u[i] = s[i]
        /\ v \in Seq(S) /\ Len(v) = Len(s) - k
        /\ \A i \in 1 .. Len(s) - k : v[i] = s[i + k]
    BY <1>4, <1>5 DEF u, v
  <2>1. /\ r \in Seq(S) /\ Len(r) = Len(u) + Len(v)
        /\ \A i \in 1 .. Len(u) + Len(v) :
             r[i] = IF i <= Len(u) THEN u[i] ELSE v[i - Len(u)]
    BY <1>3, <2>0, ConcatProperties DEF u, v
  <2>2. Len(r) = Len(s) - 1
    BY <1>1, <1>2, <2>0, <2>1
  <2>3. ASSUME NEW i \in 1 .. Len(r)
        PROVE  r[i] = IF i < k THEN s[i] ELSE s[i + 1]
    <3>1. CASE i < k
      <4>1. i \in 1 .. Len(u) + Len(v) /\ i <= Len(u) /\ i \in 1 .. k - 1
        BY <3>1, <2>0, <2>1, <1>1, <1>2
      <4>2. r[i] = u[i] /\ u[i] = s[i]
        BY <4>1, <2>0, <2>1
      <4> QED BY <3>1, <4>2
    <3>2. CASE i >= k
      <4>1. i - (k - 1) \in 1 .. Len(s) - k /\ i - (k - 1) + k = i + 1
        BY <3>2, <2>2, <1>1, <1>2
      <4>2. r[i] = v[i - (k - 1)]
        BY <3>2, <2>0, <2>1, <2>2, <1>1, <1>2
      <4>3. v[i - (k - 1)] = s[i - (k - 1) + k]
        BY <4>1, <2>0
      <4>4. ~(i < k)
        BY <3>2, <1>1, <1>2, <2>2
      <4> QED BY <4>1, <4>2, <4>3, <4>4
    <3> QED BY <3>1, <3>2, <1>2, <2>2
  <2> QED BY <2>1, <2>2, <2>3
<1>7. DOMAIN r = 1 .. Len(r)
  BY <1>6
<1>8. IsInjective(r)
  <2>1. \A i, j \in 1 .. Len(s) : s[i] = s[j] => i = j
    BY <1>1 DEF List, IsInjective
  <2>2. ASSUME NEW a \in 1 .. Len(r), NEW b \in 1 .. Len(r), r[a] = r[b]
        PROVE  a = b
    <3> DEFINE x == IF a < k THEN a ELSE a + 1
               y == IF b < k THEN b ELSE b + 1
    <3>1. x \in 1 .. Len(s) /\ y \in 1 .. Len(s)
      BY <1>1, <1>2, <1>6
    <3>2. s[x] = s[y]
      BY <1>6, <2>2
    <3>3. x = y
      BY <3>1, <3>2, <2>1
    <3> QED BY <3>3, <1>1, <1>2, <1>6
  <2> QED BY <1>7, <2>2 DEF IsInjective
<1>9. ToSet(r) = ToSet(s) \ {e}
  <2>1. ASSUME NEW i \in DOMAIN r PROVE r[i] \in ToSet(s) \ {e}
    <3>1. \A j \in 1 .. Len(s) : s[j] = s[k] => j = k
      BY <1>1, <1>2 DEF List, IsInjective
    <3>2. \E j \in 1 .. Len(s) : j # k /\ r[i] = s[j]
      <4>1. CASE i < k
        BY <4>1, <1>1, <1>2, <1>6, <1>7
      <4>2. CASE i >= k
        <5>1. i + 1 \in 1 .. Len(s) /\ i + 1 # k /\ r[i] = s[i + 1]
          BY <4>2, <1>1, <1>2, <1>6, <1>7
        <5> QED BY <5>1
      <4> QED BY <4>1, <4>2, <1>1, <1>2, <1>6, <1>7
    <3> QED BY <3>1, <3>2, <1>1, <1>2 DEF ToSet
  <2>2. ASSUME NEW i \in DOMAIN s, s[i] # e PROVE s[i] \in ToSet(r)
    <3>1. CASE i < k
      BY <3>1, <1>1, <1>2, <1>6, <1>7 DEF ToSet
    <3>2. CASE i > k
      <4>1. i - 1 \in DOMAIN r /\ r[i - 1] = s[i]
        BY <3>2, <1>1, <1>2, <1>6, <1>7
      <4> QED BY <4>1 DEF ToSet
    <3> QED BY <3>1, <3>2, <2>2, <1>1, <1>2
  <2> QED BY <2>1, <2>2 DEF ToSet
<1> QED BY <1>6, <1>8, <1>9 DEF r, List

LEMMA HeadTailFacts ==
  ASSUME NEW S, NEW s, List(S, s), s # << >>
  PROVE  /\ Head(s) \in ToSet(s) /\ List(S, Tail(s))
         /\ ToSet(Tail(s)) = ToSet(s) \ {Head(s)}
<1>1. /\ Len(s) \in Nat \ {0} /\ DOMAIN s = 1 .. Len(s) /\ Head(s) = s[1]
      /\ Tail(s) \in Seq(S) /\ Len(Tail(s)) = Len(s) - 1
      /\ \A i \in 1 .. Len(Tail(s)) : Tail(s)[i] = s[i + 1]
  BY HeadTailProperties DEF List
<1> DEFINE r == Tail(s)
<1> HIDE DEF r
<1>2. DOMAIN r = 1 .. Len(r) /\ Len(r) = Len(s) - 1 /\ \A i \in 1 .. Len(r) : r[i] = s[i + 1]
  BY <1>1 DEF r
<1>3. IsInjective(r)
  <2> SUFFICES ASSUME NEW a \in 1 .. Len(r), NEW b \in 1 .. Len(r), r[a] = r[b]
               PROVE  a = b
    BY <1>2 DEF IsInjective
  <2>1. a \in Nat /\ b \in Nat /\ a + 1 \in 1 .. Len(s) /\ b + 1 \in 1 .. Len(s)
    BY <1>1, <1>2
  <2>2. a + 1 = b + 1
    BY <1>1, <1>2, <2>1 DEF List, IsInjective
  <2> QED BY <2>1, <2>2
<1>4. ASSUME NEW i \in DOMAIN r PROVE r[i] \in ToSet(s) \ {s[1]}
  BY <1>1, <1>2, <1>4 DEF ToSet, List, IsInjective
<1>5. ASSUME NEW i \in DOMAIN s, s[i] # s[1] PROVE s[i] \in ToSet(r)
  <2>1. i - 1 \in DOMAIN r /\ r[i - 1] = s[i]
    BY <1>1, <1>2, <1>5
  <2> QED BY <2>1 DEF ToSet
<1>6. ToSet(r) = ToSet(s) \ {s[1]}
  BY <1>4, <1>5 DEF ToSet
<1>7. Head(s) \in ToSet(s)
  BY <1>1 DEF ToSet
<1> QED BY <1>1, <1>3, <1>6, <1>7 DEF r, List

-----------------------------------------------------------------------------
(* The inductive invariant.  The lists need the hash table (an eviction    *)
(* finds the frame's page through its descriptor), and the hash table and  *)
(* the pins need the lists.                                                *)
Inv == TypeOK /\ SlotsPartitioned /\ HashExact /\ PinsBalanced

(* Files and contents keep their types. *)
LEMMA WrittenType ==
  ASSUME TypeOK, NEW k \in Keys, NEW bytes \in Bytes
  PROVE  Written(disk, k, bytes) \in [Keys -> Bytes \cup {Absent}]
<1>1. Zero \in Bytes
  BY BufferAssumption DEF Bytes
<1> QED BY <1>1 DEF Written, TypeOK

LEMMA VictimFacts ==
  ASSUME NEW s \in Victims
  PROVE  s \in ToSet(used) /\ bufTable[s].pinCount = 0
BY DEF Victims, Unpinned, ToSet

(* What bufferAlloc returns, in terms of the sets the lists hold.          *)
LEMMA AllocatedLists ==
  ASSUME Inv, NEW a \in Allocated
  PROVE  /\ a.slot \in Slots
         /\ List(Slots, a.used) /\ ToSet(a.used) = ToSet(used) \cup {a.slot}
         /\ List(Slots, a.free) /\ ToSet(a.free) = ToSet(free) \ {a.slot}
<1>1. List(Slots, used) /\ List(Slots, free)
  BY DEF Inv, TypeOK, SlotsPartitioned, List
<1>2. ToSet(used) \cap ToSet(free) = {} /\ ToSet(used) \cup ToSet(free) = Slots
  BY DEF Inv, SlotsPartitioned
<1>3. CASE free # << >>
  <2>1. a.slot = Head(free) /\ a.used = LinkHead(used, Head(free)) /\ a.free = Tail(free)
    BY <1>3 DEF Allocated
  <2>2. /\ Head(free) \in ToSet(free) /\ List(Slots, Tail(free))
        /\ ToSet(Tail(free)) = ToSet(free) \ {Head(free)}
    BY <1>1, <1>3, HeadTailFacts
  <2>3. Head(free) \in Slots /\ Head(free) \notin ToSet(used)
    BY <1>2, <2>2
  <2>4. /\ List(Slots, LinkHead(used, Head(free)))
        /\ ToSet(LinkHead(used, Head(free))) = ToSet(used) \cup {Head(free)}
    BY <1>1, <2>3, LinkHeadFacts
  <2> QED BY <2>1, <2>2, <2>3, <2>4
<1>4. CASE free = << >>
  <2>1. PICK s \in Victims :
          a.slot = s /\ a.used = LinkHead(Unlink(used, s), s) /\ a.free = free
    BY <1>4 DEF Allocated
  <2>2. s \in ToSet(used) /\ s \in Slots /\ s \notin ToSet(free)
    BY <1>2, VictimFacts
  <2>3. List(Slots, Unlink(used, s)) /\ ToSet(Unlink(used, s)) = ToSet(used) \ {s}
    BY <1>1, <2>2, UnlinkFacts
  <2>4. s \notin ToSet(Unlink(used, s))
    BY <2>3
  <2>5. /\ List(Slots, LinkHead(Unlink(used, s), s))
        /\ ToSet(LinkHead(Unlink(used, s), s)) = ToSet(Unlink(used, s)) \cup {s}
    BY <2>2, <2>3, <2>4, LinkHeadFacts
  <2> QED BY <1>1, <2>1, <2>2, <2>3, <2>5
<1> QED BY <1>3, <1>4

(* The hash table loses the page whose frame was taken, and that page was  *)
(* pinned by nobody.                                                       *)
LEMMA AllocatedHash ==
  ASSUME Inv, NEW a \in Allocated
  PROVE  /\ a.hash = [j \in Keys |-> IF hashTable[j] = a.slot THEN INVALID_SLOT
                                      ELSE hashTable[j]]
         /\ \A j \in Keys : hashTable[j] = a.slot => bufTable[a.slot].pinCount = 0
         /\ a.disk \in [Keys -> Bytes \cup {Absent}]
<1>1. hashTable \in [Keys -> Slots \cup {INVALID_SLOT}] /\ bufTable \in [Slots -> Desc]
  BY DEF Inv, TypeOK
<1>2. \A j \in Keys : hashTable[j] # INVALID_SLOT =>
         hashTable[j] \in ToSet(used) /\ bufTable[hashTable[j]].page = j
  BY DEF Inv, HashExact, Resident, Frame
<1>3. a.slot \in Slots /\ INVALID_SLOT \notin Slots
  BY AllocatedLists DEF Slots, INVALID_SLOT
<1>4. CASE free # << >>
  <2>1. a.slot = Head(free) /\ a.hash = hashTable /\ a.disk = disk
    BY <1>4 DEF Allocated
  <2>2. Head(free) \in ToSet(free)
    BY <1>4, HeadTailFacts DEF Inv, TypeOK, SlotsPartitioned, List
  <2>3. \A j \in Keys : hashTable[j] # a.slot
    BY <1>2, <1>3, <2>1, <2>2 DEF Inv, SlotsPartitioned
  <2> QED BY <1>1, <2>1, <2>3 DEF Inv, TypeOK
<1>5. CASE free = << >>
  <2>1. PICK s \in Victims :
          /\ a.slot = s
          /\ a.hash = [hashTable EXCEPT ![bufTable[s].page] = INVALID_SLOT]
          /\ a.disk = IF bufTable[s].bDirty
                      THEN Written(disk, bufTable[s].page, bufTable[s].pData) ELSE disk
    BY <1>5 DEF Allocated
  <2>2. s \in ToSet(used) /\ bufTable[s].pinCount = 0
    BY VictimFacts
  <2>3. bufTable[s].page \in Keys /\ hashTable[bufTable[s].page] = s
    BY <2>2 DEF Inv, HashExact
  <2>4. \A j \in Keys : hashTable[j] = s => j = bufTable[s].page
    BY <1>2, <1>3, <2>1
  <2>5. a.hash = [j \in Keys |-> IF hashTable[j] = s THEN INVALID_SLOT ELSE hashTable[j]]
    BY <1>1, <2>1, <2>3, <2>4
  <2>6. bufTable[s].pData \in Bytes
    BY <1>1, <1>3, <2>1 DEF Desc
  <2>7. a.disk \in [Keys -> Bytes \cup {Absent}]
    BY <2>1, <2>3, <2>6, WrittenType DEF Inv, TypeOK
  <2> QED BY <2>1, <2>2, <2>5, <2>7
<1> QED BY <1>4, <1>5

-----------------------------------------------------------------------------
(* Steps that move or change frames without giving them to other pages. *)

LEMMA MoveFacts ==
  ASSUME Inv, NEW s \in ToSet(used), MoveToHead(s)
  PROVE  List(Slots, used') /\ ToSet(used') = ToSet(used)
<1>1. List(Slots, used) /\ s \in Slots
  BY DEF Inv, TypeOK, SlotsPartitioned, List
<1>2. List(Slots, Unlink(used, s)) /\ ToSet(Unlink(used, s)) = ToSet(used) \ {s}
  BY <1>1, UnlinkFacts
<1>3. s \notin ToSet(Unlink(used, s))
  BY <1>2
<1>4. /\ List(Slots, LinkHead(Unlink(used, s), s))
      /\ ToSet(LinkHead(Unlink(used, s), s)) = ToSet(Unlink(used, s)) \cup {s}
  BY <1>1, <1>2, <1>3, LinkHeadFacts
<1> QED BY <1>2, <1>4 DEF MoveToHead

(* A resident page has a used frame of its own. *)
LEMMA ResidentFacts ==
  ASSUME Inv, NEW k \in Keys, Resident(k)
  PROVE  /\ hashTable[k] \in ToSet(used) /\ hashTable[k] \in Slots
         /\ bufTable[hashTable[k]] \in Desc /\ bufTable[hashTable[k]].page = k
         /\ \A j \in Keys : hashTable[j] = hashTable[k] => j = k
<1>1. hashTable[k] \in ToSet(used) /\ bufTable[hashTable[k]].page = k
  BY DEF Inv, HashExact, Frame
<1>2. hashTable[k] \in Slots
  BY <1>1 DEF Inv, SlotsPartitioned
<1>3. ASSUME NEW j \in Keys, hashTable[j] = hashTable[k] PROVE j = k
  BY <1>1, <1>3 DEF Inv, HashExact, Frame, Resident
<1> QED BY <1>1, <1>2, <1>3 DEF Inv, TypeOK

LEMMA SameFrames ==
  ASSUME Inv, List(Slots, used'), ToSet(used') = ToSet(used),
         free' = free, hashTable' = hashTable,
         \A s \in Slots : bufTable'[s].page = bufTable[s].page
  PROVE  SlotsPartitioned' /\ HashExact'
<1>1. SlotsPartitioned'
  BY DEF Inv, SlotsPartitioned, List
<1>2. ToSet(used) \subseteq Slots
  BY DEF Inv, SlotsPartitioned
<1>3. \A k \in Keys : Resident(k)' =>
         hashTable'[k] \in ToSet(used') /\ Frame(k)'.page = k
  BY <1>2 DEF Inv, HashExact, Resident, Frame
<1>4. \A s \in ToSet(used') :
         bufTable'[s].page \in Keys /\ hashTable'[bufTable'[s].page] = s
  BY <1>2 DEF Inv, HashExact
<1> QED BY <1>1, <1>3, <1>4 DEF HashExact

(* Nothing changes but the pins of one page, by the same amount in its     *)
(* frame and in what its clients hold.                                     *)
LEMMA SamePins ==
  ASSUME Inv, hashTable' = hashTable, fresh' \subseteq fresh,
         \A k \in Keys : Resident(k) =>
           held'[k] = bufTable'[hashTable[k]].pinCount /\ (k \in fresh' => held'[k] > 0),
         \A k \in Keys : ~Resident(k) => held'[k] = held[k]
  PROVE  PinsBalanced'
BY DEF Inv, PinsBalanced, Resident, Frame

LEMMA TypeStep ==
  ASSUME used' \in Seq(Slots), free' \in Seq(Slots), bufTable' \in [Slots -> Desc],
         hashTable' \in [Keys -> Slots \cup {INVALID_SLOT}],
         disk' \in [Keys -> Bytes \cup {Absent}], loop' \in LoopCall,
         rc' \in ReturnCode, held' \in [Keys -> Nat], fresh' \in SUBSET Keys
  PROVE  TypeOK'
BY DEF TypeOK

(* The part of TypeOK that steps leaving free, hashTable, disk and loop    *)
(* alone keep.                                                             *)
LEMMA FrameTypeStep ==
  ASSUME Inv, List(Slots, used'), bufTable' \in [Slots -> Desc],
         held' \in [Keys -> Nat], fresh' \subseteq fresh, rc' = "OK",
         UNCHANGED <<free, hashTable, disk, loop>>
  PROVE  TypeOK'
<1>1. free' \in Seq(Slots) /\ hashTable' \in [Keys -> Slots \cup {INVALID_SLOT}]
  BY DEF Inv, TypeOK
<1>2. disk' \in [Keys -> Bytes \cup {Absent}] /\ loop' \in LoopCall
  BY DEF Inv, TypeOK
<1>3. used' \in Seq(Slots) /\ fresh' \in SUBSET Keys
  BY DEF Inv, TypeOK, List
<1>4. rc' \in ReturnCode
  BY DEF ReturnCode
<1> QED BY <1>1, <1>2, <1>3, <1>4, TypeStep

LEMMA GetHitKeeps ==
  ASSUME Inv, NEW k \in Keys, GetHit(k)
  PROVE  Inv'
<1> DEFINE s == hashTable[k]
<1>1. /\ s \in ToSet(used) /\ s \in Slots
      /\ bufTable[s] \in Desc /\ bufTable[s].page = k
      /\ \A j \in Keys : hashTable[j] = s => j = k
  BY ResidentFacts DEF GetHit
<1>2. /\ bufTable' = [bufTable EXCEPT ![s].pinCount = @ + 1]
      /\ held' = [held EXCEPT ![k] = @ + 1]
      /\ MoveToHead(s) /\ rc' = "OK"
      /\ UNCHANGED <<free, hashTable, disk, loop, fresh>>
  BY DEF GetHit
<1> HIDE DEF s
<1>3. List(Slots, used') /\ ToSet(used') = ToSet(used)
  BY <1>1, <1>2, MoveFacts
<1>4. bufTable \in [Slots -> Desc] /\ held \in [Keys -> Nat]
  BY DEF Inv, TypeOK
<1>5. /\ bufTable' \in [Slots -> Desc]
      /\ \A i \in Slots : bufTable'[i].page = bufTable[i].page
      /\ \A i \in Slots : bufTable'[i].pinCount =
           IF i = s THEN bufTable[i].pinCount + 1 ELSE bufTable[i].pinCount
  BY <1>1, <1>2, <1>4 DEF Desc
<1>6. held' \in [Keys -> Nat] /\ \A j \in Keys : held'[j] = IF j = k THEN held[j] + 1 ELSE held[j]
  BY <1>2, <1>4
<1>7. TypeOK'
  BY <1>2, <1>3, <1>5, <1>6, FrameTypeStep
<1>8. SlotsPartitioned' /\ HashExact'
  BY <1>2, <1>3, <1>5, SameFrames
<1>9. ASSUME NEW j \in Keys, Resident(j)
      PROVE  held'[j] = bufTable'[hashTable[j]].pinCount /\ (j \in fresh' => held'[j] > 0)
  <2>1. hashTable[j] \in Slots /\ held[j] = bufTable[hashTable[j]].pinCount
    BY <1>9, ResidentFacts DEF Inv, PinsBalanced, Frame
  <2>2. hashTable[j] = s <=> j = k
    BY <1>1 DEF s
  <2>3. held[j] \in Nat /\ (j \in fresh => held[j] > 0)
    BY <1>4 DEF Inv, PinsBalanced
  <2> QED BY <1>2, <1>5, <1>6, <2>1, <2>2, <2>3
<1>10. \A j \in Keys : ~Resident(j) => held'[j] = held[j]
  BY <1>6 DEF GetHit
<1>11. PinsBalanced'
  BY <1>2, <1>9, <1>10, SamePins
<1> QED BY <1>7, <1>8, <1>11 DEF Inv

LEMMA UnpinPageKeeps ==
  ASSUME Inv, NEW k \in Keys, UnpinPage(k)
  PROVE  Inv'
<1> DEFINE s == hashTable[k]
<1>1. /\ s \in ToSet(used) /\ s \in Slots
      /\ bufTable[s] \in Desc /\ bufTable[s].page = k
      /\ \A j \in Keys : hashTable[j] = s => j = k
  BY ResidentFacts DEF UnpinPage
<1>2. /\ bufTable' = [bufTable EXCEPT ![s].pinCount = @ - 1]
      /\ bufTable[s].pinCount > 0 /\ k \notin fresh
      /\ held' = [held EXCEPT ![k] = @ - 1]
      /\ MoveToHead(s) \/ used' = used
      /\ rc' = "OK"
      /\ UNCHANGED <<free, hashTable, disk, loop, fresh>>
  BY DEF UnpinPage, Frame
<1> HIDE DEF s
<1>3. List(Slots, used') /\ ToSet(used') = ToSet(used)
  <2>1. List(Slots, used)
    BY DEF Inv, TypeOK, SlotsPartitioned, List
  <2> QED BY <1>1, <1>2, <2>1, MoveFacts
<1>4. bufTable \in [Slots -> Desc] /\ held \in [Keys -> Nat]
  BY DEF Inv, TypeOK
<1>5. /\ bufTable' \in [Slots -> Desc]
      /\ \A i \in Slots : bufTable'[i].page = bufTable[i].page
      /\ \A i \in Slots : bufTable'[i].pinCount =
           IF i = s THEN bufTable[i].pinCount - 1 ELSE bufTable[i].pinCount
  BY <1>1, <1>2, <1>4 DEF Desc
<1>6. held[k] = bufTable[s].pinCount
  BY DEF Inv, PinsBalanced, Frame, UnpinPage, s
<1>7. held' \in [Keys -> Nat] /\ \A j \in Keys : held'[j] = IF j = k THEN held[j] - 1 ELSE held[j]
  BY <1>2, <1>4, <1>6
<1>8. TypeOK'
  BY <1>2, <1>3, <1>5, <1>7, FrameTypeStep
<1>9. SlotsPartitioned' /\ HashExact'
  BY <1>2, <1>3, <1>5, SameFrames
<1>10. ASSUME NEW j \in Keys, Resident(j)
       PROVE  held'[j] = bufTable'[hashTable[j]].pinCount /\ (j \in fresh' => held'[j] > 0)
  <2>1. hashTable[j] \in Slots /\ held[j] = bufTable[hashTable[j]].pinCount
    BY <1>10, ResidentFacts DEF Inv, PinsBalanced, Frame
  <2>2. hashTable[j] = s <=> j = k
    BY <1>1 DEF s
  <2>3. held[j] \in Nat /\ (j \in fresh => held[j] > 0)
    BY <1>4 DEF Inv, PinsBalanced
  <2> QED BY <1>2, <1>5, <1>7, <2>1, <2>2, <2>3
<1>11. \A j \in Keys : ~Resident(j) => held'[j] = held[j]
  BY <1>7 DEF UnpinPage
<1>12. PinsBalanced'
  BY <1>2, <1>10, <1>11, SamePins
<1> QED BY <1>8, <1>9, <1>12 DEF Inv

(* Steps that leave every frame its page and its pins. *)
LEMMA FramesKept ==
  ASSUME Inv, List(Slots, used'), ToSet(used') = ToSet(used),
         UNCHANGED <<free, hashTable, held>>, fresh' \subseteq fresh,
         bufTable' \in [Slots -> Desc],
         \A s \in Slots : /\ bufTable'[s].page = bufTable[s].page
                          /\ bufTable'[s].pinCount = bufTable[s].pinCount,
         disk' \in [Keys -> Bytes \cup {Absent}], loop' \in LoopCall, rc' \in ReturnCode
  PROVE  Inv'
<1>1. /\ free' \in Seq(Slots) /\ hashTable' \in [Keys -> Slots \cup {INVALID_SLOT}]
      /\ held' \in [Keys -> Nat]
  BY DEF Inv, TypeOK
<1>2. used' \in Seq(Slots) /\ fresh' \in SUBSET Keys
  BY DEF Inv, TypeOK, List
<1>3. TypeOK'
  BY <1>1, <1>2, TypeStep
<1>4. SlotsPartitioned' /\ HashExact'
  BY SameFrames
<1>5. ASSUME NEW k \in Keys, Resident(k)
      PROVE  held'[k] = bufTable'[hashTable[k]].pinCount /\ (k \in fresh' => held'[k] > 0)
  <2>1. hashTable[k] \in Slots
    BY <1>5, ResidentFacts
  <2> QED BY <1>5, <2>1 DEF Inv, PinsBalanced, Frame
<1>6. PinsBalanced'
  BY <1>5, SamePins
<1> QED BY <1>3, <1>4, <1>6 DEF Inv

LEMMA UsedKept ==
  ASSUME Inv, used' = used
  PROVE  List(Slots, used') /\ ToSet(used') = ToSet(used)
BY DEF Inv, TypeOK, SlotsPartitioned, List

LEMMA ReturnKeeps ==
  ASSUME Inv, NEW code \in ReturnCode, Return(code)
  PROVE  Inv'
<1>1. /\ UNCHANGED <<used, free, bufTable, hashTable, disk, loop, held, fresh>>
      /\ rc' \in ReturnCode
  BY DEF Return
<1>2. /\ bufTable' \in [Slots -> Desc] /\ disk' \in [Keys -> Bytes \cup {Absent}]
      /\ loop' \in LoopCall
  BY <1>1 DEF Inv, TypeOK
<1> QED BY <1>1, <1>2, UsedKept, FramesKept

LEMMA WriteFailsType ==
  ASSUME Inv, NEW k \in Keys, WriteFails(k)
  PROVE  disk' \in [Keys -> Bytes \cup {Absent}] /\ rc' \in ReturnCode
<1>1. Torn \in Bytes
  BY DEF Bytes
<1>2. Written(disk, k, Torn) \in [Keys -> Bytes \cup {Absent}]
  BY <1>1, WrittenType DEF Inv
<1>3. disk' \in [Keys -> Bytes \cup {Absent}]
  BY <1>2 DEF WriteFails, Inv, TypeOK
<1> QED BY <1>3 DEF WriteFails, ReturnCode

LEMMA AllocFailsKeeps ==
  ASSUME Inv, AllocFails
  PROVE  Inv'
<1>1. UNCHANGED <<used, free, bufTable, hashTable, loop, held, fresh>>
  BY DEF AllocFails
<1>2. disk' \in [Keys -> Bytes \cup {Absent}] /\ rc' \in ReturnCode
  <2>1. CASE rc' = "PF_NOBUF" /\ UNCHANGED disk
    BY <2>1 DEF Inv, TypeOK, ReturnCode
  <2>2. ASSUME NEW s \in Victims, WriteFails(bufTable[s].page)
        PROVE  disk' \in [Keys -> Bytes \cup {Absent}] /\ rc' \in ReturnCode
    <3>1. bufTable[s].page \in Keys
      BY VictimFacts DEF Inv, HashExact
    <3> QED BY <2>2, <3>1, WriteFailsType
  <2> QED BY <2>1, <2>2 DEF AllocFails
<1>3. bufTable' \in [Slots -> Desc] /\ loop' \in LoopCall
  BY <1>1 DEF Inv, TypeOK
<1> QED BY <1>1, <1>2, <1>3, UsedKept, FramesKept

LEMMA MarkDirtyKeeps ==
  ASSUME Inv, NEW k \in Keys, NEW v \in Values, MarkDirty(k, v)
  PROVE  Inv'
<1> DEFINE s == hashTable[k]
<1>1. s \in ToSet(used) /\ s \in Slots
  BY ResidentFacts DEF MarkDirty
<1>2. /\ bufTable' = [bufTable EXCEPT ![s].bDirty = TRUE, ![s].pData = v]
      /\ MoveToHead(s) /\ rc' = "OK" /\ fresh' = fresh \ {k}
      /\ UNCHANGED <<free, hashTable, disk, loop, held>>
  BY DEF MarkDirty
<1> HIDE DEF s
<1>3. List(Slots, used') /\ ToSet(used') = ToSet(used)
  BY <1>1, <1>2, MoveFacts
<1>4. bufTable \in [Slots -> Desc]
  BY DEF Inv, TypeOK
<1>5. /\ bufTable' \in [Slots -> Desc]
      /\ \A i \in Slots : /\ bufTable'[i].page = bufTable[i].page
                          /\ bufTable'[i].pinCount = bufTable[i].pinCount
  BY <1>1, <1>2, <1>4 DEF Desc, Bytes
<1>6. disk' \in [Keys -> Bytes \cup {Absent}] /\ loop' \in LoopCall
  BY <1>2 DEF Inv, TypeOK
<1>7. rc' \in ReturnCode
  BY <1>2 DEF ReturnCode
<1> QED BY <1>2, <1>3, <1>5, <1>6, <1>7, FramesKept

(* A frame written back: the step forceSinglePage and forcePages share. *)
LEMMA CleanKeeps ==
  ASSUME Inv, NEW s \in ToSet(used),
         disk' = Written(disk, bufTable[s].page, bufTable[s].pData),
         bufTable' = [bufTable EXCEPT ![s].bDirty = FALSE],
         UNCHANGED <<used, free, hashTable, held, fresh>>,
         loop' \in LoopCall, rc' \in ReturnCode
  PROVE  Inv'
<1>1. s \in Slots /\ bufTable[s].page \in Keys
  BY DEF Inv, SlotsPartitioned, HashExact
<1>2. bufTable \in [Slots -> Desc]
  BY DEF Inv, TypeOK
<1>3. bufTable[s].pData \in Bytes
  BY <1>1, <1>2 DEF Desc
<1>4. disk' \in [Keys -> Bytes \cup {Absent}]
  BY <1>1, <1>3, WrittenType DEF Inv
<1>5. /\ bufTable' \in [Slots -> Desc]
      /\ \A i \in Slots : /\ bufTable'[i].page = bufTable[i].page
                          /\ bufTable'[i].pinCount = bufTable[i].pinCount
  BY <1>1, <1>2 DEF Desc
<1> QED BY <1>4, <1>5, UsedKept, FramesKept

LEMMA ForceSinglePageKeeps ==
  ASSUME Inv, NEW k \in Keys, ForceSinglePage(k)
  PROVE  Inv'
<1>1. CASE Return("OK")
  BY <1>1, ReturnKeeps DEF ReturnCode
<1>2. ASSUME NEW s \in ForceTarget(k),
             disk' = Written(disk, k, bufTable[s].pData),
             bufTable' = [bufTable EXCEPT ![s].bDirty = FALSE], rc' = "OK",
             UNCHANGED <<used, free, hashTable, loop, held, fresh>>
      PROVE  Inv'
  <2>1. s \in ToSet(used) /\ bufTable[s].page = k
    BY DEF ForceTarget
  <2>2. loop' \in LoopCall /\ rc' \in ReturnCode
    BY <1>2 DEF Inv, TypeOK, ReturnCode
  <2> QED BY <1>2, <2>1, <2>2, CleanKeeps
<1>3. ASSUME WriteFails(k), UNCHANGED bufTable,
             UNCHANGED <<used, free, hashTable, loop, held, fresh>>
      PROVE  Inv'
  <2>1. disk' \in [Keys -> Bytes \cup {Absent}] /\ rc' \in ReturnCode
    BY <1>3, WriteFailsType
  <2>2. loop' \in LoopCall /\ bufTable' \in [Slots -> Desc]
    BY <1>3 DEF Inv, TypeOK
  <2> QED BY <1>3, <2>1, <2>2, UsedKept, FramesKept
<1> QED BY <1>1, <1>2, <1>3 DEF ForceSinglePage

-----------------------------------------------------------------------------
(* The steps of flushPages and forcePages. *)

LEMMA CursorFacts ==
  ASSUME Inv, NEW op, Walking(op)
  PROVE  /\ Cursor \in ToSet(used) /\ Cursor \in Slots
         /\ bufTable[Cursor] \in Desc
         /\ bufTable[Cursor].page \in Keys
         /\ hashTable[bufTable[Cursor].page] = Cursor
<1>1. loop.at \in Nat \ {0} /\ loop.at <= Len(used) /\ used \in Seq(Slots)
  BY DEF Inv, TypeOK, LoopCall, Walking
<1>2. loop.at \in DOMAIN used
  BY <1>1
<1>3. Cursor \in ToSet(used)
  BY <1>2 DEF ToSet, Cursor
<1>4. Cursor \in Slots
  BY <1>3 DEF Inv, SlotsPartitioned
<1> QED BY <1>3, <1>4 DEF Inv, TypeOK, HashExact

(* Steps that touch only the loop, the disk and the return code. *)
LEMMA OutsideKept ==
  ASSUME Inv, UNCHANGED <<used, free, bufTable, hashTable, held, fresh>>,
         disk' \in [Keys -> Bytes \cup {Absent}], loop' \in LoopCall, rc' \in ReturnCode
  PROVE  Inv'
<1>1. bufTable' \in [Slots -> Desc]
  BY DEF Inv, TypeOK
<1> QED BY <1>1, UsedKept, FramesKept

LEMMA StartLoopKeeps ==
  ASSUME Inv, NEW op \in {"flush", "force"}, NEW fd \in Fds, StartLoop(op, fd)
  PROVE  Inv'
<1>1. loop' \in LoopCall
  BY DEF StartLoop, LoopCall
<1>2. disk' \in [Keys -> Bytes \cup {Absent}] /\ rc' \in ReturnCode
  BY DEF StartLoop, Inv, TypeOK
<1> QED BY <1>1, <1>2, OutsideKept DEF StartLoop

LEMMA LoopSkipKeeps ==
  ASSUME Inv, LoopSkip
  PROVE  Inv'
<1>1. loop \in LoopCall
  BY DEF Inv, TypeOK
<1>2. \/ loop' = [loop EXCEPT !.at = @ + 1, !.warn = @ \/ Ours]
      \/ loop' = [loop EXCEPT !.at = @ + 1]
  BY DEF LoopSkip
<1>3. Ours \in BOOLEAN
  BY DEF Ours
<1>4. loop.at + 1 \in Nat \ {0} /\ (loop.warn \/ Ours) \in BOOLEAN
  BY <1>1, <1>3 DEF LoopCall
<1>5. loop' \in LoopCall
  BY <1>1, <1>2, <1>4 DEF LoopCall
<1>6. disk' \in [Keys -> Bytes \cup {Absent}] /\ rc' \in ReturnCode
  BY DEF LoopSkip, Inv, TypeOK
<1> QED BY <1>5, <1>6, OutsideKept DEF LoopSkip

LEMMA IdleType == Idle \in LoopCall
BY DEF Idle, LoopCall

LEMMA LoopWriteFailsKeeps ==
  ASSUME Inv, LoopWriteFails
  PROVE  Inv'
<1>1. \E op \in {"flush", "force"} : Walking(op)
  BY DEF LoopWriteFails
<1>2. bufTable[Cursor].page \in Keys
  BY <1>1, CursorFacts
<1>3. WriteFails(bufTable[Cursor].page) /\ loop' = Idle
  BY DEF LoopWriteFails
<1>4. disk' \in [Keys -> Bytes \cup {Absent}] /\ rc' \in ReturnCode
  BY <1>2, <1>3, WriteFailsType
<1> QED BY <1>3, <1>4, IdleType, OutsideKept DEF LoopWriteFails

LEMMA LoopReturnsKeeps ==
  ASSUME Inv, LoopReturns
  PROVE  Inv'
<1>1. rc' \in ReturnCode /\ loop' \in LoopCall
  BY IdleType DEF LoopReturns, ReturnCode
<1>2. disk' \in [Keys -> Bytes \cup {Absent}]
  BY DEF LoopReturns, Inv, TypeOK
<1> QED BY <1>1, <1>2, OutsideKept DEF LoopReturns

LEMMA ForceFrameKeeps ==
  ASSUME Inv, ForceFrame
  PROVE  Inv'
<1>1. Walking("force")
  BY DEF ForceFrame
<1>2. Cursor \in ToSet(used)
  BY <1>1, CursorFacts
<1>3. /\ disk' = Written(disk, bufTable[Cursor].page, bufTable[Cursor].pData)
      /\ bufTable' = [bufTable EXCEPT ![Cursor].bDirty = FALSE]
      /\ loop' = [loop EXCEPT !.at = @ + 1]
      /\ UNCHANGED <<used, free, hashTable, rc, held, fresh>>
  BY DEF ForceFrame
<1>4. loop' \in LoopCall
  <2>1. loop \in LoopCall
    BY DEF Inv, TypeOK
  <2>2. loop.at + 1 \in Nat \ {0}
    BY <2>1 DEF LoopCall
  <2> QED BY <1>3, <2>1, <2>2 DEF LoopCall
<1>5. rc' \in ReturnCode
  BY <1>3 DEF Inv, TypeOK
<1> QED BY <1>2, <1>3, <1>4, <1>5, CleanKeeps
-----------------------------------------------------------------------------
(* Steps that take frames away from pages and give them to others. *)

(* A frame leaves the used list for the free list: flushPages, and the     *)
(* frame of a failed read, which has been taken from its page before.      *)
LEMMA FlushFrameKeeps ==
  ASSUME Inv, FlushFrame
  PROVE  Inv'
<1> DEFINE s == Cursor
           k == bufTable[Cursor].page
<1>1. /\ s \in ToSet(used) /\ s \in Slots /\ bufTable[s] \in Desc
      /\ k \in Keys /\ hashTable[k] = s
  BY CursorFacts DEF FlushFrame
<1>2. /\ bufTable[s].pinCount = 0
      /\ disk' = IF bufTable[s].bDirty THEN Written(disk, k, bufTable[s].pData) ELSE disk
      /\ bufTable' = [bufTable EXCEPT ![s].bDirty = FALSE]
      /\ hashTable' = [hashTable EXCEPT ![k] = INVALID_SLOT]
      /\ used' = Unlink(used, s) /\ free' = LinkHead(free, s)
      /\ UNCHANGED <<loop, rc, held, fresh>>
  BY DEF FlushFrame
<1> HIDE DEF s, k
<1>3. List(Slots, used) /\ List(Slots, free)
  BY DEF Inv, TypeOK, SlotsPartitioned, List
<1>4. ToSet(used) \cap ToSet(free) = {} /\ ToSet(used) \cup ToSet(free) = Slots
  BY DEF Inv, SlotsPartitioned
<1>5. List(Slots, used') /\ ToSet(used') = ToSet(used) \ {s}
  BY <1>1, <1>2, <1>3, UnlinkFacts
<1>6. List(Slots, free') /\ ToSet(free') = ToSet(free) \cup {s}
  <2>1. s \notin ToSet(free)
    BY <1>1, <1>4
  <2> QED BY <1>1, <1>2, <1>3, <2>1, LinkHeadFacts
<1>7. /\ bufTable' \in [Slots -> Desc]
      /\ \A i \in Slots : /\ bufTable'[i].page = bufTable[i].page
                          /\ bufTable'[i].pinCount = bufTable[i].pinCount
  <2>1. bufTable \in [Slots -> Desc]
    BY DEF Inv, TypeOK
  <2> QED BY <1>1, <1>2, <2>1 DEF Desc
<1>8. /\ hashTable' \in [Keys -> Slots \cup {INVALID_SLOT}]
      /\ \A j \in Keys : hashTable'[j] = IF j = k THEN INVALID_SLOT ELSE hashTable[j]
  BY <1>1, <1>2 DEF Inv, TypeOK
<1>9. disk' \in [Keys -> Bytes \cup {Absent}]
  <2>1. bufTable[s].pData \in Bytes
    BY <1>1 DEF Desc
  <2> QED BY <1>1, <1>2, <2>1, WrittenType DEF Inv, TypeOK
<1>10. TypeOK'
  <2>1. /\ loop' \in LoopCall /\ rc' \in ReturnCode
        /\ held' \in [Keys -> Nat] /\ fresh' \in SUBSET Keys
    BY <1>2 DEF Inv, TypeOK
  <2> QED BY <1>5, <1>6, <1>7, <1>8, <1>9, <2>1, TypeStep DEF List
<1>11. SlotsPartitioned'
  BY <1>1, <1>4, <1>5, <1>6 DEF SlotsPartitioned, List
<1>12. INVALID_SLOT \notin Slots
  BY DEF INVALID_SLOT, Slots
<1>13. HashExact'
  <2>1. ASSUME NEW j \in Keys, Resident(j)'
        PROVE  hashTable'[j] \in ToSet(used') /\ Frame(j)'.page = j
    <3>1. j # k /\ hashTable'[j] = hashTable[j] /\ Resident(j)
      BY <1>8, <2>1 DEF Resident
    <3>2. /\ hashTable[j] \in ToSet(used) /\ hashTable[j] \in Slots
          /\ bufTable[hashTable[j]].page = j
      BY <3>1, ResidentFacts
    <3>3. hashTable[j] # s
      BY <1>1, <3>1, <3>2 DEF k, s
    <3> QED BY <1>5, <1>7, <3>1, <3>2, <3>3 DEF Frame
  <2>2. ASSUME NEW i \in ToSet(used')
        PROVE  bufTable'[i].page \in Keys /\ hashTable'[bufTable'[i].page] = i
    <3>1. i \in ToSet(used) /\ i # s /\ i \in Slots
      BY <1>4, <1>5, <2>2
    <3>2. bufTable[i].page \in Keys /\ hashTable[bufTable[i].page] = i
      BY <3>1 DEF Inv, HashExact
    <3>3. bufTable[i].page # k
      BY <1>1, <3>1, <3>2
    <3> QED BY <1>7, <1>8, <3>1, <3>2, <3>3
  <2> QED BY <2>1, <2>2 DEF HashExact
<1>14. PinsBalanced'
  <2>1. ASSUME NEW j \in Keys
        PROVE  /\ held'[j] = IF Resident(j)' THEN Frame(j)'.pinCount ELSE 0
               /\ j \in fresh' => held'[j] > 0
    <3>1. /\ held[j] = IF Resident(j) THEN bufTable[hashTable[j]].pinCount ELSE 0
          /\ j \in fresh => held[j] > 0
      BY DEF Inv, PinsBalanced, Frame
    <3>2. CASE j = k
      <4>1. held[j] = 0
        BY <1>1, <1>2, <1>12, <3>1, <3>2 DEF Resident
      <4> QED BY <1>2, <1>8, <3>1, <3>2, <4>1 DEF Resident
    <3>3. CASE j # k
      <4>1. hashTable'[j] = hashTable[j]
        BY <1>8, <3>3
      <4>2. Resident(j) => hashTable[j] \in Slots
        BY ResidentFacts
      <4> QED BY <1>2, <1>7, <3>1, <4>1, <4>2 DEF Resident, Frame
    <3> QED BY <3>2, <3>3
  <2> QED BY <2>1 DEF PinsBalanced
<1> QED BY <1>10, <1>11, <1>13, <1>14 DEF Inv


LEMMA InstallKeeps ==
  ASSUME Inv, NEW k \in Keys, ~Resident(k), NEW a \in Allocated, NEW bytes \in Bytes,
         Install(a, k, bytes), fresh' \in {fresh, fresh \cup {k}}
  PROVE  Inv'
<1> DEFINE s == a.slot
<1>1. /\ s \in Slots
      /\ List(Slots, a.used) /\ ToSet(a.used) = ToSet(used) \cup {s}
      /\ List(Slots, a.free) /\ ToSet(a.free) = ToSet(free) \ {s}
  BY AllocatedLists
<1>2. /\ a.hash = [j \in Keys |-> IF hashTable[j] = s THEN INVALID_SLOT ELSE hashTable[j]]
      /\ \A j \in Keys : hashTable[j] = s => bufTable[s].pinCount = 0
      /\ a.disk \in [Keys -> Bytes \cup {Absent}]
  BY AllocatedHash
<1>3. /\ used' = a.used /\ free' = a.free /\ disk' = a.disk
      /\ hashTable' = [a.hash EXCEPT ![k] = s]
      /\ bufTable' = [bufTable EXCEPT ![s] =
                        [page |-> k, bDirty |-> FALSE, pinCount |-> 1, pData |-> bytes]]
      /\ held' = [held EXCEPT ![k] = @ + 1]
      /\ rc' = "OK" /\ UNCHANGED loop
  BY DEF Install
<1> HIDE DEF s
<1>4. ToSet(used) \cap ToSet(free) = {} /\ ToSet(used) \cup ToSet(free) = Slots
  BY DEF Inv, SlotsPartitioned
<1>5. hashTable \in [Keys -> Slots \cup {INVALID_SLOT}] /\ INVALID_SLOT \notin Slots
  BY DEF Inv, TypeOK, INVALID_SLOT, Slots
<1>6. /\ hashTable' \in [Keys -> Slots \cup {INVALID_SLOT}]
      /\ \A j \in Keys : hashTable'[j] = IF j = k THEN s
                                         ELSE IF hashTable[j] = s THEN INVALID_SLOT
                                         ELSE hashTable[j]
  BY <1>1, <1>2, <1>3, <1>5
<1>7. /\ bufTable' \in [Slots -> Desc]
      /\ bufTable'[s].page = k /\ bufTable'[s].pinCount = 1
      /\ \A i \in Slots \ {s} : bufTable'[i] = bufTable[i]
  <2>1. bufTable \in [Slots -> Desc]
    BY DEF Inv, TypeOK
  <2>2. [page |-> k, bDirty |-> FALSE, pinCount |-> 1, pData |-> bytes] \in Desc
    BY DEF Desc
  <2> QED BY <1>1, <1>3, <2>1, <2>2
<1>8. held' \in [Keys -> Nat] /\ \A j \in Keys : held'[j] = IF j = k THEN held[j] + 1 ELSE held[j]
  BY <1>3 DEF Inv, TypeOK
<1>9. TypeOK'
  <2>1. loop' \in LoopCall /\ fresh' \in SUBSET Keys
    BY <1>3 DEF Inv, TypeOK
  <2>2. rc' \in ReturnCode
    BY <1>3 DEF ReturnCode
  <2> QED BY <1>1, <1>2, <1>3, <1>6, <1>7, <1>8, <2>1, <2>2, TypeStep DEF List
<1>10. SlotsPartitioned'
  BY <1>1, <1>3, <1>4 DEF SlotsPartitioned, List
<1>11. HashExact'
  <2>1. ASSUME NEW j \in Keys, Resident(j)'
        PROVE  hashTable'[j] \in ToSet(used') /\ Frame(j)'.page = j
    <3>1. CASE j = k
      BY <3>1, <1>1, <1>3, <1>6, <1>7 DEF Frame
    <3>2. CASE j # k
      <4>1. hashTable'[j] = hashTable[j] /\ hashTable[j] # s /\ Resident(j)
        BY <1>6, <2>1, <3>2 DEF Resident
      <4>2. /\ hashTable[j] \in ToSet(used) /\ hashTable[j] \in Slots
            /\ bufTable[hashTable[j]].page = j
        BY <4>1, ResidentFacts
      <4> QED BY <1>1, <1>3, <1>7, <4>1, <4>2 DEF Frame
    <3> QED BY <3>1, <3>2
  <2>2. ASSUME NEW i \in ToSet(used')
        PROVE  bufTable'[i].page \in Keys /\ hashTable'[bufTable'[i].page] = i
    <3>1. CASE i = s
      BY <3>1, <1>6, <1>7
    <3>2. CASE i # s
      <4>1. i \in ToSet(used) /\ i \in Slots
        BY <1>1, <1>3, <1>4, <2>2, <3>2
      <4>2. bufTable[i].page \in Keys /\ hashTable[bufTable[i].page] = i
        BY <4>1 DEF Inv, HashExact
      <4>3. bufTable[i].page # k
        BY <4>1, <4>2, <1>5 DEF Resident
      <4> QED BY <1>6, <1>7, <3>2, <4>1, <4>2, <4>3
    <3> QED BY <3>1, <3>2
  <2> QED BY <2>1, <2>2 DEF HashExact
<1>12. PinsBalanced'
  <2>1. ASSUME NEW j \in Keys
        PROVE  /\ held'[j] = IF Resident(j)' THEN Frame(j)'.pinCount ELSE 0
               /\ j \in fresh' => held'[j] > 0
    <3>1. /\ held[j] = IF Resident(j) THEN bufTable[hashTable[j]].pinCount ELSE 0
          /\ j \in fresh => held[j] > 0
      BY DEF Inv, PinsBalanced, Frame
    <3>2. CASE j = k
      <4>1. held[j] = 0 /\ held'[j] = 1
        BY <1>8, <3>1, <3>2
      <4>2. hashTable'[j] = s /\ Resident(j)'
        BY <1>1, <1>5, <1>6, <3>2 DEF Resident
      <4> QED BY <1>7, <4>1, <4>2 DEF Frame
    <3>3. CASE j # k /\ hashTable[j] = s
      <4>1. held[j] = 0 /\ held'[j] = held[j] /\ ~Resident(j)'
        BY <1>1, <1>2, <1>5, <1>6, <1>8, <3>1, <3>3 DEF Resident
      <4>2. j \notin fresh'
        BY <3>1, <3>3, <4>1
      <4> QED BY <4>1, <4>2
    <3>4. CASE j # k /\ hashTable[j] # s
      <4>1. hashTable'[j] = hashTable[j] /\ held'[j] = held[j] /\ (j \in fresh' <=> j \in fresh)
        BY <1>6, <1>8, <3>4
      <4>2. Resident(j) => bufTable'[hashTable[j]] = bufTable[hashTable[j]]
        BY <1>7, <3>4, ResidentFacts
      <4> QED BY <3>1, <4>1, <4>2 DEF Resident, Frame
    <3> QED BY <3>2, <3>3, <3>4
  <2> QED BY <2>1 DEF PinsBalanced
<1> QED BY <1>9, <1>10, <1>11, <1>12 DEF Inv

LEMMA GetMissKeeps ==
  ASSUME Inv, NEW k \in Keys, GetMiss(k)
  PROVE  Inv'
<1>1. PICK a \in Allocated : a.disk[k] # Absent /\ Install(a, k, a.disk[k])
  BY DEF GetMiss
<1>2. a.disk[k] \in Bytes
  BY <1>1, AllocatedHash
<1> QED BY <1>1, <1>2, InstallKeeps DEF GetMiss

LEMMA AllocatePageKeeps ==
  ASSUME Inv, NEW k \in Keys, AllocatePage(k)
  PROVE  Inv'
<1>1. PICK a \in Allocated : Install(a, k, bufTable[a.slot].pData)
  BY DEF AllocatePage
<1>2. bufTable[a.slot].pData \in Bytes
  BY AllocatedLists DEF Inv, TypeOK, Desc
<1> QED BY <1>1, <1>2, InstallKeeps DEF AllocatePage

(* The evicted page leaves the pool, and its frame goes to the free list. *)
LEMMA GetMissReadFailsKeeps ==
  ASSUME Inv, NEW k \in Keys, GetMissReadFails(k)
  PROVE  Inv'
<1>1. PICK a \in Allocated, bytes \in Bytes :
        /\ rc' \in ReturnCode
        /\ used' = Unlink(a.used, a.slot) /\ free' = LinkHead(a.free, a.slot)
        /\ hashTable' = a.hash /\ disk' = a.disk
        /\ bufTable' = [bufTable EXCEPT ![a.slot].pData = bytes,
                          ![a.slot].bDirty = IF free = << >> THEN FALSE ELSE @]
        /\ UNCHANGED <<loop, held, fresh>>
  BY DEF GetMissReadFails, ReturnCode
<1> DEFINE s == a.slot
<1>2. /\ s \in Slots
      /\ List(Slots, a.used) /\ ToSet(a.used) = ToSet(used) \cup {s}
      /\ List(Slots, a.free) /\ ToSet(a.free) = ToSet(free) \ {s}
  BY AllocatedLists
<1>3. /\ a.hash = [j \in Keys |-> IF hashTable[j] = s THEN INVALID_SLOT ELSE hashTable[j]]
      /\ \A j \in Keys : hashTable[j] = s => bufTable[s].pinCount = 0
      /\ a.disk \in [Keys -> Bytes \cup {Absent}]
  BY AllocatedHash
<1>4. /\ used' = Unlink(a.used, s) /\ free' = LinkHead(a.free, s)
      /\ bufTable' = [bufTable EXCEPT ![s].pData = bytes,
                        ![s].bDirty = IF free = << >> THEN FALSE ELSE @]
  BY <1>1
<1> HIDE DEF s
<1>5. List(Slots, used') /\ ToSet(used') = ToSet(used) \ {s}
  BY <1>2, <1>4, UnlinkFacts
<1>6. List(Slots, free') /\ ToSet(free') = ToSet(free) \cup {s}
  BY <1>2, <1>4, LinkHeadFacts
<1>7. /\ bufTable' \in [Slots -> Desc]
      /\ \A i \in Slots : /\ bufTable'[i].page = bufTable[i].page
                          /\ bufTable'[i].pinCount = bufTable[i].pinCount
  <2>1. bufTable \in [Slots -> Desc]
    BY DEF Inv, TypeOK
  <2> QED BY <1>2, <1>4, <2>1 DEF Desc
<1>8. hashTable \in [Keys -> Slots \cup {INVALID_SLOT}] /\ INVALID_SLOT \notin Slots
  BY DEF Inv, TypeOK, INVALID_SLOT, Slots
<1>9. /\ hashTable' \in [Keys -> Slots \cup {INVALID_SLOT}]
      /\ \A j \in Keys : hashTable'[j] = IF hashTable[j] = s THEN INVALID_SLOT
                                         ELSE hashTable[j]
  BY <1>1, <1>3, <1>8
<1>10. TypeOK'
  <2>1. loop' \in LoopCall /\ held' \in [Keys -> Nat] /\ fresh' \in SUBSET Keys
    BY <1>1 DEF Inv, TypeOK
  <2> QED BY <1>1, <1>3, <1>5, <1>6, <1>7, <1>9, <2>1, TypeStep DEF List
<1>11. ToSet(used) \cap ToSet(free) = {} /\ ToSet(used) \cup ToSet(free) = Slots
  BY DEF Inv, SlotsPartitioned
<1>12. SlotsPartitioned'
  BY <1>2, <1>5, <1>6, <1>11 DEF SlotsPartitioned, List
<1>13. HashExact'
  <2>1. ASSUME NEW j \in Keys, Resident(j)'
        PROVE  hashTable'[j] \in ToSet(used') /\ Frame(j)'.page = j
    <3>1. hashTable'[j] = hashTable[j] /\ hashTable[j] # s /\ Resident(j)
      BY <1>9, <2>1 DEF Resident
    <3>2. /\ hashTable[j] \in ToSet(used) /\ hashTable[j] \in Slots
          /\ bufTable[hashTable[j]].page = j
      BY <3>1, ResidentFacts
    <3> QED BY <1>5, <1>7, <3>1, <3>2 DEF Frame
  <2>2. ASSUME NEW i \in ToSet(used')
        PROVE  bufTable'[i].page \in Keys /\ hashTable'[bufTable'[i].page] = i
    <3>1. i \in ToSet(used) /\ i # s /\ i \in Slots
      BY <1>5, <1>11, <2>2
    <3>2. bufTable[i].page \in Keys /\ hashTable[bufTable[i].page] = i
      BY <3>1 DEF Inv, HashExact
    <3> QED BY <1>7, <1>9, <3>1, <3>2
  <2> QED BY <2>1, <2>2 DEF HashExact
<1>14. PinsBalanced'
  <2>1. ASSUME NEW j \in Keys
        PROVE  /\ held'[j] = IF Resident(j)' THEN Frame(j)'.pinCount ELSE 0
               /\ j \in fresh' => held'[j] > 0
    <3>1. /\ held[j] = IF Resident(j) THEN bufTable[hashTable[j]].pinCount ELSE 0
          /\ j \in fresh => held[j] > 0
      BY DEF Inv, PinsBalanced, Frame
    <3>2. CASE hashTable[j] = s
      <4>1. held[j] = 0 /\ ~Resident(j)'
        BY <1>2, <1>3, <1>8, <1>9, <3>1, <3>2 DEF Resident
      <4> QED BY <1>1, <3>1, <4>1
    <3>3. CASE hashTable[j] # s
      <4>1. hashTable'[j] = hashTable[j]
        BY <1>9, <3>3
      <4>2. Resident(j) => hashTable[j] \in Slots
        BY ResidentFacts
      <4> QED BY <1>1, <1>7, <3>1, <4>1, <4>2 DEF Resident, Frame
    <3> QED BY <3>2, <3>3
  <2> QED BY <2>1 DEF PinsBalanced
<1> QED BY <1>10, <1>12, <1>13, <1>14 DEF Inv

-----------------------------------------------------------------------------
(* The invariant holds at the start and every step keeps it. *)

LEMMA InitInv == Init => Inv
<1> SUFFICES ASSUME Init PROVE Inv
  OBVIOUS
<1> DEFINE n == NumPages
<1>1. n \in Nat \ {0} /\ Slots = 0 .. n - 1
  BY BufferAssumption DEF Slots
<1>2. used = << >> /\ free = [i \in 1 .. n |-> i - 1]
  BY DEF Init
<1> HIDE DEF n
<1>3. used \in Seq(Slots) /\ ToSet(used) = {} /\ IsInjective(used)
  BY <1>2 DEF ToSet, IsInjective
<1>4. free \in Seq(Slots) /\ DOMAIN free = 1 .. n
  BY <1>1, <1>2
<1>5. IsInjective(free)
  BY <1>1, <1>2, <1>4 DEF IsInjective
<1>6. ToSet(free) = Slots
  <2>1. \A i \in 1 .. n : free[i] \in Slots
    BY <1>1, <1>2
  <2>2. ASSUME NEW s \in Slots PROVE s \in ToSet(free)
    <3>1. s + 1 \in DOMAIN free /\ free[s + 1] = s
      BY <1>1, <1>2, <1>4
    <3> QED BY <3>1 DEF ToSet
  <2> QED BY <1>4, <2>1, <2>2 DEF ToSet
<1>7. SlotsPartitioned
  BY <1>3, <1>5, <1>6 DEF SlotsPartitioned
<1>8. /\ bufTable \in [Slots -> Desc] /\ disk \in [Keys -> Bytes \cup {Absent}]
      /\ rc \in ReturnCode
  BY BufferAssumption DEF Init, Desc, Bytes, ReturnCode
<1>9. /\ hashTable \in [Keys -> Slots \cup {INVALID_SLOT}] /\ held \in [Keys -> Nat]
      /\ fresh \in SUBSET Keys /\ loop \in LoopCall
  BY IdleType DEF Init
<1>10. TypeOK
  BY <1>3, <1>4, <1>8, <1>9 DEF TypeOK
<1>11. HashExact
  BY <1>3 DEF Init, HashExact, Resident
<1>12. PinsBalanced
  BY DEF Init, PinsBalanced, Resident
<1> QED BY <1>7, <1>10, <1>11, <1>12 DEF Inv

LEMMA PageCallKeeps ==
  ASSUME Inv, NEW k \in Keys, PageCall(k)
  PROVE  Inv'
<1>1. CASE GetHit(k)
  BY <1>1, GetHitKeeps
<1>2. CASE GetPinned(k)
  BY <1>2, ReturnKeeps DEF GetPinned, ReturnCode
<1>3. CASE GetMiss(k)
  BY <1>3, GetMissKeeps
<1>4. CASE GetMissReadFails(k)
  BY <1>4, GetMissReadFailsKeeps
<1>5. CASE GetMissNoFrame(k)
  BY <1>5, AllocFailsKeeps DEF GetMissNoFrame
<1>6. CASE AllocatePage(k)
  BY <1>6, AllocatePageKeeps
<1>7. CASE AllocateInBuf(k)
  BY <1>7, ReturnKeeps DEF AllocateInBuf, ReturnCode
<1>8. CASE \E v \in Values : MarkDirty(k, v)
  BY <1>8, MarkDirtyKeeps
<1>9. CASE UnpinPage(k)
  BY <1>9, UnpinPageKeeps
<1>10. CASE NotPinned(k)
  BY <1>10, ReturnKeeps DEF NotPinned, ReturnCode
<1>11. CASE ForceSinglePage(k)
  BY <1>11, ForceSinglePageKeeps
<1> QED BY <1>1, <1>2, <1>3, <1>4, <1>5, <1>6, <1>7, <1>8, <1>9, <1>10, <1>11 DEF PageCall

LEMMA NextInv == Inv /\ [Next]_vars => Inv'
<1> SUFFICES ASSUME Inv, [Next]_vars PROVE Inv'
  OBVIOUS
<1>1. ASSUME NEW k \in Keys, PageCall(k) PROVE Inv'
  BY <1>1, PageCallKeeps
<1>2. ASSUME NEW fd \in Fds, StartLoop("flush", fd) \/ StartLoop("force", fd) PROVE Inv'
  BY <1>2, StartLoopKeeps
<1>3. CASE Loop
  BY <1>3, LoopSkipKeeps, LoopWriteFailsKeeps, FlushFrameKeeps, ForceFrameKeeps,
     LoopReturnsKeeps DEF Loop
<1>4. CASE UNCHANGED vars
  <2>1. UNCHANGED <<used, free, bufTable, hashTable, disk, loop, rc, held, fresh>>
    BY <1>4 DEF vars
  <2>2. /\ disk' \in [Keys -> Bytes \cup {Absent}] /\ loop' \in LoopCall
        /\ rc' \in ReturnCode
    BY <2>1 DEF Inv, TypeOK
  <2> QED BY <2>1, <2>2, OutsideKept
<1> QED BY <1>1, <1>2, <1>3, <1>4 DEF Next

THEOREM PoolInvariant == Spec => []Inv
<1> QED BY InitInv, NextInv, PTL DEF Spec

(* Every variable keeps its type, in particular a pin count never goes     *)
(* below zero.                                                             *)
THEOREM PoolTypeCorrect == Spec => []TypeOK
<1>1. Inv => TypeOK
  BY DEF Inv
<1> QED BY <1>1, PoolInvariant, PTL

(* No frame is lost or linked twice, on any path of any call. *)
THEOREM PoolSlotsPartitioned == Spec => []SlotsPartitioned
<1>1. Inv => SlotsPartitioned
  BY DEF Inv
<1> QED BY <1>1, PoolInvariant, PTL

(* The hash table has an entry for exactly the used frames. *)
THEOREM PoolHashExact == Spec => []HashExact
<1>1. Inv => HashExact
  BY DEF Inv
<1> QED BY <1>1, PoolInvariant, PTL

(* Pin counts are what clients hold, and a page somebody holds is never    *)
(* evicted.                                                                *)
THEOREM PoolPinsBalanced == Spec => []PinsBalanced
<1>1. Inv => PinsBalanced
  BY DEF Inv
<1> QED BY <1>1, PoolInvariant, PTL

(* PF_NOBUF is returned only when clients hold every frame. *)
THEOREM PoolNoBufMeansAllHeld == Spec => NoBufMeansAllHeld
<1>1. Inv /\ (\E k \in Keys : GetMissNoFrame(k)) /\ rc' = "PF_NOBUF" => AllHeld
  <2> SUFFICES ASSUME Inv, NEW k \in Keys, GetMissNoFrame(k), rc' = "PF_NOBUF"
               PROVE  AllHeld
    OBVIOUS
  <2>1. free = << >> /\ Unpinned = {}
    BY DEF GetMissNoFrame, AllocFails, WriteFails
  <2>2. ASSUME NEW s \in Slots
        PROVE  \E j \in Keys : hashTable[j] = s /\ held[j] > 0
    <3>1. s \in ToSet(used)
      BY <2>1 DEF Inv, SlotsPartitioned, ToSet
    <3>2. bufTable[s].page \in Keys /\ hashTable[bufTable[s].page] = s
      BY <3>1 DEF Inv, HashExact
    <3>3. bufTable[s].pinCount \in Nat /\ bufTable[s].pinCount # 0
      BY <2>1, <3>1 DEF Unpinned, ToSet, Inv, TypeOK, Desc
    <3>4. s # INVALID_SLOT
      BY DEF Slots, INVALID_SLOT
    <3>5. held[bufTable[s].page] = bufTable[s].pinCount
      BY <3>2, <3>4 DEF Inv, PinsBalanced, Resident, Frame
    <3> QED BY <3>2, <3>3, <3>5
  <2> QED BY <2>2 DEF AllHeld
<1>2. Inv /\ [Next]_vars =>
        [(\E k \in Keys : GetMissNoFrame(k)) /\ rc' = "PF_NOBUF" => AllHeld]_vars
  BY <1>1
<1> QED BY <1>2, PoolInvariant, PTL DEF Spec, NoBufMeansAllHeld

-----------------------------------------------------------------------------
(* A clean frame holds what the file holds. *)

LEMMA CleanUntouched ==
  ASSUME Inv, CleanMatchesDisk, NEW p \in Keys, NEW x, NEW k \in Keys \ fresh,
         k # p, Resident(k), ~Frame(k).bDirty
  PROVE  Written(disk, p, x)[k] = Frame(k).pData
<1>1. Frame(k).pData = disk[k]
  BY DEF CleanMatchesDisk
<1>2. Frame(k).pData \in Bytes
  BY ResidentFacts DEF Frame, Desc
<1>3. disk[k] # Absent
  BY <1>1, <1>2, BufferAssumption DEF Bytes
<1> QED BY <1>1, <1>3 DEF Written

LEMMA CleanStep ==
  ASSUME hashTable' = hashTable, fresh' = fresh,
         \A k \in Keys \ fresh :
           Resident(k) /\ ~bufTable'[hashTable[k]].bDirty
             => bufTable'[hashTable[k]].pData = disk'[k]
  PROVE  CleanMatchesDisk'
BY DEF CleanMatchesDisk, Resident, Frame

(* Every step that leaves contents, dirty bits and files alone. *)
LEMMA CleanUnchanged ==
  ASSUME Inv, CleanMatchesDisk, hashTable' = hashTable, fresh' = fresh, disk' = disk,
         \A s \in Slots : /\ bufTable'[s].bDirty = bufTable[s].bDirty
                          /\ bufTable'[s].pData = bufTable[s].pData
  PROVE  CleanMatchesDisk'
<1>1. ASSUME NEW k \in Keys \ fresh, Resident(k), ~bufTable'[hashTable[k]].bDirty
      PROVE  bufTable'[hashTable[k]].pData = disk'[k]
  <2>1. hashTable[k] \in Slots
    BY <1>1, ResidentFacts
  <2> QED BY <1>1, <2>1 DEF CleanMatchesDisk, Frame
<1> QED BY <1>1, CleanStep

LEMMA CleanPins ==
  ASSUME Inv, CleanMatchesDisk, NEW k \in Keys, GetHit(k) \/ UnpinPage(k)
  PROVE  CleanMatchesDisk'
<1>1. bufTable \in [Slots -> Desc]
  BY DEF Inv, TypeOK
<1>2. /\ \/ bufTable' = [bufTable EXCEPT ![hashTable[k]].pinCount = @ + 1]
         \/ bufTable' = [bufTable EXCEPT ![hashTable[k]].pinCount = @ - 1]
      /\ hashTable' = hashTable /\ fresh' = fresh /\ disk' = disk
  BY DEF GetHit, UnpinPage
<1>3. \A s \in Slots : /\ bufTable'[s].bDirty = bufTable[s].bDirty
                       /\ bufTable'[s].pData = bufTable[s].pData
  BY <1>1, <1>2 DEF Desc
<1> QED BY <1>2, <1>3, CleanUnchanged

LEMMA CleanMarkDirty ==
  ASSUME Inv, CleanMatchesDisk, NEW k \in Keys, NEW v \in Values, MarkDirty(k, v)
  PROVE  CleanMatchesDisk'
<1>1. bufTable \in [Slots -> Desc] /\ hashTable[k] \in Slots
  BY ResidentFacts DEF Inv, TypeOK, MarkDirty
<1>2. /\ bufTable' = [bufTable EXCEPT ![hashTable[k]].bDirty = TRUE,
                                      ![hashTable[k]].pData = v]
      /\ hashTable' = hashTable /\ fresh' = fresh \ {k} /\ disk' = disk
  BY DEF MarkDirty
<1>3. /\ bufTable'[hashTable[k]].bDirty
      /\ \A s \in Slots \ {hashTable[k]} : bufTable'[s] = bufTable[s]
  BY <1>1, <1>2 DEF Desc
<1>4. ASSUME NEW j \in Keys \ fresh', Resident(j)', ~Frame(j)'.bDirty
      PROVE  Frame(j)'.pData = disk'[j]
  <2>1. Resident(j) /\ hashTable'[j] = hashTable[j]
    BY <1>2, <1>4 DEF Resident
  <2>2. hashTable[j] \in Slots
    BY <2>1, ResidentFacts
  <2>3. hashTable[j] # hashTable[k]
    BY <1>3, <1>4, <2>1 DEF Frame
  <2>4. j \notin fresh
    BY <1>2, <1>4, <2>3
  <2>5. bufTable'[hashTable[j]] = bufTable[hashTable[j]]
    BY <1>3, <2>2, <2>3
  <2>6. ~Frame(j).bDirty /\ Frame(j)'.pData = Frame(j).pData
    BY <1>4, <2>1, <2>5 DEF Frame
  <2>7. Frame(j).pData = disk[j]
    BY <2>1, <2>4, <2>6 DEF CleanMatchesDisk
  <2> QED BY <1>2, <2>6, <2>7
<1> QED BY <1>4 DEF CleanMatchesDisk

(* A failed write tears a page that stays dirty. *)
LEMMA CleanWriteFails ==
  ASSUME Inv, CleanMatchesDisk, NEW s \in ToSet(used), bufTable[s].bDirty,
         WriteFails(bufTable[s].page), UNCHANGED <<bufTable, hashTable, fresh>>
  PROVE  CleanMatchesDisk'
<1>1. bufTable[s].page \in Keys /\ hashTable[bufTable[s].page] = s
  BY DEF Inv, HashExact
<1>2. ASSUME NEW k \in Keys \ fresh, Resident(k), ~bufTable'[hashTable[k]].bDirty
      PROVE  bufTable'[hashTable[k]].pData = disk'[k]
  <2>0. bufTable' = bufTable
    OBVIOUS
  <2>1. k # bufTable[s].page /\ ~Frame(k).bDirty
    BY <1>1, <1>2, <2>0 DEF Frame
  <2>2. disk' = disk \/ disk' = Written(disk, bufTable[s].page, Torn)
    BY DEF WriteFails
  <2>3. Frame(k).pData = disk[k]
    BY <1>2, <2>1 DEF CleanMatchesDisk
  <2> QED BY <1>1, <1>2, <2>1, <2>2, <2>3, CleanUntouched DEF Frame
<1> QED BY <1>2, CleanStep

LEMMA CleanWritten ==
  ASSUME Inv, CleanMatchesDisk, NEW s \in ToSet(used),
         disk' = Written(disk, bufTable[s].page, bufTable[s].pData),
         bufTable' = [bufTable EXCEPT ![s].bDirty = FALSE],
         UNCHANGED <<hashTable, fresh>>
  PROVE  CleanMatchesDisk'
<1>1. bufTable[s].page \in Keys /\ hashTable[bufTable[s].page] = s /\ s \in Slots
  BY DEF Inv, HashExact, SlotsPartitioned
<1>2. bufTable \in [Slots -> Desc]
  BY DEF Inv, TypeOK
<1>3. /\ bufTable'[s].pData = bufTable[s].pData
      /\ \A i \in Slots \ {s} : bufTable'[i] = bufTable[i]
  BY <1>1, <1>2 DEF Desc
<1>4. ASSUME NEW k \in Keys \ fresh, Resident(k), ~bufTable'[hashTable[k]].bDirty
      PROVE  bufTable'[hashTable[k]].pData = disk'[k]
  <2>1. hashTable[k] \in Slots /\ bufTable[hashTable[k]].page = k
    BY <1>4, ResidentFacts
  <2>2. CASE hashTable[k] = s
    BY <1>3, <2>1, <2>2 DEF Written
  <2>3. CASE hashTable[k] # s
    <3>1. k # bufTable[s].page /\ ~Frame(k).bDirty
      BY <1>1, <1>3, <1>4, <2>1, <2>3 DEF Frame
    <3> QED BY <1>1, <1>3, <1>4, <2>1, <2>3, <3>1, CleanUntouched DEF Frame
  <2> QED BY <2>2, <2>3
<1> QED BY <1>4, CleanStep

LEMMA CleanAllocFails ==
  ASSUME Inv, CleanMatchesDisk, AllocFails
  PROVE  CleanMatchesDisk'
<1>1. UNCHANGED <<bufTable, hashTable, fresh>>
  BY DEF AllocFails
<1>2. CASE UNCHANGED disk
  BY <1>1, <1>2, CleanUnchanged
<1>3. ASSUME NEW s \in Victims, bufTable[s].bDirty, WriteFails(bufTable[s].page)
      PROVE  CleanMatchesDisk'
  BY <1>1, <1>3, VictimFacts, CleanWriteFails
<1> QED BY <1>2, <1>3 DEF AllocFails

LEMMA CleanForceSingle ==
  ASSUME Inv, CleanMatchesDisk, NEW k \in Keys, ForceSinglePage(k)
  PROVE  CleanMatchesDisk'
<1>1. CASE Return("OK")
  BY <1>1, CleanUnchanged DEF Return
<1>2. ASSUME NEW s \in ForceTarget(k),
             disk' = Written(disk, k, bufTable[s].pData),
             bufTable' = [bufTable EXCEPT ![s].bDirty = FALSE],
             UNCHANGED <<hashTable, fresh>>
      PROVE  CleanMatchesDisk'
  <2>1. s \in ToSet(used) /\ bufTable[s].page = k
    BY DEF ForceTarget
  <2> QED BY <1>2, <2>1, CleanWritten
<1>3. ASSUME NEW s \in ForceTarget(k), WriteFails(k), UNCHANGED <<bufTable, hashTable, fresh>>
      PROVE  CleanMatchesDisk'
  <2>1. s \in ToSet(used) /\ bufTable[s].page = k /\ bufTable[s].bDirty
    BY DEF ForceTarget
  <2> QED BY <1>3, <2>1, CleanWriteFails
<1> QED BY <1>1, <1>2, <1>3 DEF ForceSinglePage

(* What an allocation leaves of the files, for the pages that stay. *)
LEMMA AllocatedClean ==
  ASSUME Inv, CleanMatchesDisk, NEW a \in Allocated, NEW k \in Keys \ fresh,
         Resident(k), hashTable[k] # a.slot, ~Frame(k).bDirty
  PROVE  a.disk[k] = Frame(k).pData
<1>1. CASE free # << >>
  BY <1>1 DEF Allocated, CleanMatchesDisk
<1>2. CASE free = << >>
  <2>1. PICK s \in Victims :
          /\ a.slot = s
          /\ a.disk = IF bufTable[s].bDirty
                      THEN Written(disk, bufTable[s].page, bufTable[s].pData) ELSE disk
    BY <1>2 DEF Allocated
  <2>2. bufTable[s].page \in Keys /\ hashTable[bufTable[s].page] = s
    BY VictimFacts DEF Inv, HashExact
  <2>3. k # bufTable[s].page
    BY <2>1, <2>2
  <2>4. Frame(k).pData = disk[k]
    BY DEF CleanMatchesDisk
  <2> QED BY <2>1, <2>2, <2>3, <2>4, CleanUntouched
<1> QED BY <1>1, <1>2

LEMMA CleanInstall ==
  ASSUME Inv, CleanMatchesDisk, NEW k \in Keys, NEW a \in Allocated, NEW bytes,
         Install(a, k, bytes),
         \/ bytes = a.disk[k] /\ fresh' = fresh
         \/ fresh' = fresh \cup {k}
  PROVE  CleanMatchesDisk'
<1>1. a.slot \in Slots /\ bufTable \in [Slots -> Desc]
  BY AllocatedLists DEF Inv, TypeOK
<1>2. /\ a.hash = [j \in Keys |-> IF hashTable[j] = a.slot THEN INVALID_SLOT
                                  ELSE hashTable[j]]
      /\ hashTable' = [a.hash EXCEPT ![k] = a.slot] /\ disk' = a.disk
      /\ bufTable' = [bufTable EXCEPT ![a.slot] =
                        [page |-> k, bDirty |-> FALSE, pinCount |-> 1, pData |-> bytes]]
  BY AllocatedHash DEF Install
<1>3. \A j \in Keys : hashTable'[j] = IF j = k THEN a.slot
                                      ELSE IF hashTable[j] = a.slot THEN INVALID_SLOT
                                      ELSE hashTable[j]
  BY <1>2
<1>4. /\ bufTable'[a.slot].pData = bytes
      /\ \A i \in Slots \ {a.slot} : bufTable'[i] = bufTable[i]
  BY <1>1, <1>2
<1>5. ASSUME NEW j \in Keys \ fresh', Resident(j)', ~Frame(j)'.bDirty
      PROVE  Frame(j)'.pData = disk'[j]
  <2>1. CASE j = k
    <3>1. bytes = a.disk[k]
      BY <1>5, <2>1
    <3>2. hashTable'[j] = a.slot
      BY <1>3, <2>1
    <3> QED BY <1>2, <1>4, <2>1, <3>1, <3>2 DEF Frame
  <2>2. CASE j # k
    <3>1. hashTable'[j] = hashTable[j] /\ hashTable[j] # a.slot /\ Resident(j)
      BY <1>3, <1>5, <2>2 DEF Resident
    <3>2. hashTable[j] \in Slots /\ j \in Keys \ fresh
      BY <1>5, <3>1, ResidentFacts
    <3>3. Frame(j)' = Frame(j)
      BY <1>4, <3>1, <3>2 DEF Frame
    <3>4. ~Frame(j).bDirty
      BY <1>5, <3>3
    <3>5. a.disk[j] = Frame(j).pData
      BY <3>1, <3>2, <3>4, AllocatedClean
    <3> QED BY <1>2, <3>3, <3>5
  <2> QED BY <2>1, <2>2
<1> QED BY <1>5 DEF CleanMatchesDisk

LEMMA CleanReadFails ==
  ASSUME Inv, CleanMatchesDisk, NEW k \in Keys, GetMissReadFails(k)
  PROVE  CleanMatchesDisk'
<1>1. PICK a \in Allocated, bytes \in Bytes :
        /\ hashTable' = a.hash /\ disk' = a.disk /\ fresh' = fresh
        /\ bufTable' = [bufTable EXCEPT ![a.slot].pData = bytes,
                          ![a.slot].bDirty = IF free = << >> THEN FALSE ELSE @]
  BY DEF GetMissReadFails
<1>2. a.slot \in Slots /\ bufTable \in [Slots -> Desc]
  BY AllocatedLists DEF Inv, TypeOK
<1>3. \A j \in Keys : hashTable'[j] = IF hashTable[j] = a.slot THEN INVALID_SLOT
                                      ELSE hashTable[j]
  BY <1>1, AllocatedHash
<1>4. \A i \in Slots \ {a.slot} : bufTable'[i] = bufTable[i]
  BY <1>1, <1>2
<1>5. ASSUME NEW j \in Keys \ fresh', Resident(j)', ~Frame(j)'.bDirty
      PROVE  Frame(j)'.pData = disk'[j]
  <2>1. hashTable'[j] = hashTable[j] /\ hashTable[j] # a.slot /\ Resident(j)
    BY <1>3, <1>5 DEF Resident
  <2>2. hashTable[j] \in Slots /\ j \in Keys \ fresh
    BY <1>1, <1>5, <2>1, ResidentFacts
  <2>3. Frame(j)' = Frame(j)
    BY <1>4, <2>1, <2>2 DEF Frame
  <2>4. ~Frame(j).bDirty
    BY <1>5, <2>3
  <2>5. a.disk[j] = Frame(j).pData
    BY <2>1, <2>2, <2>4, AllocatedClean
  <2> QED BY <1>1, <2>3, <2>5
<1> QED BY <1>5 DEF CleanMatchesDisk

LEMMA CleanFlushFrame ==
  ASSUME Inv, CleanMatchesDisk, FlushFrame
  PROVE  CleanMatchesDisk'
<1> DEFINE s == Cursor
           p == bufTable[Cursor].page
<1>1. s \in Slots /\ p \in Keys /\ hashTable[p] = s
  BY CursorFacts DEF FlushFrame
<1>2. /\ disk' = IF bufTable[s].bDirty THEN Written(disk, p, bufTable[s].pData) ELSE disk
      /\ bufTable' = [bufTable EXCEPT ![s].bDirty = FALSE]
      /\ hashTable' = [hashTable EXCEPT ![p] = INVALID_SLOT]
      /\ fresh' = fresh
  BY DEF FlushFrame
<1>3. p = bufTable[s].page
  OBVIOUS
<1> HIDE DEF s, p
<1>4. \A i \in Slots \ {s} : bufTable'[i] = bufTable[i]
  BY <1>1, <1>2 DEF Inv, TypeOK
<1>5. \A j \in Keys : hashTable'[j] = IF j = p THEN INVALID_SLOT ELSE hashTable[j]
  BY <1>1, <1>2 DEF Inv, TypeOK
<1>6. ASSUME NEW j \in Keys \ fresh', Resident(j)', ~Frame(j)'.bDirty
      PROVE  Frame(j)'.pData = disk'[j]
  <2>1. j # p /\ hashTable'[j] = hashTable[j] /\ Resident(j)
    BY <1>5, <1>6 DEF Resident
  <2>2. hashTable[j] \in Slots /\ j \in Keys \ fresh /\ bufTable[hashTable[j]].page = j
    BY <1>2, <1>6, <2>1, ResidentFacts
  <2>3. hashTable[j] # s
    BY <1>3, <2>1, <2>2
  <2>4. Frame(j)' = Frame(j)
    BY <1>4, <2>1, <2>2, <2>3 DEF Frame
  <2>5. ~Frame(j).bDirty
    BY <1>6, <2>4
  <2>6. Frame(j).pData = disk[j]
    BY <2>1, <2>2, <2>5 DEF CleanMatchesDisk
  <2>7. Written(disk, p, bufTable[s].pData)[j] = Frame(j).pData
    BY <1>1, <2>1, <2>2, <2>5, CleanUntouched
  <2> QED BY <1>2, <2>4, <2>6, <2>7
<1> QED BY <1>6 DEF CleanMatchesDisk

LEMMA CleanNext == Inv /\ CleanMatchesDisk /\ [Next]_vars => CleanMatchesDisk'
<1> SUFFICES ASSUME Inv, CleanMatchesDisk, [Next]_vars PROVE CleanMatchesDisk'
  OBVIOUS
<1>1. ASSUME NEW code, Return(code) PROVE CleanMatchesDisk'
  BY <1>1, CleanUnchanged DEF Return
<1>2. ASSUME NEW k \in Keys, PageCall(k) PROVE CleanMatchesDisk'
  <2>1. CASE GetHit(k) \/ UnpinPage(k)
    BY <2>1, CleanPins
  <2>2. CASE GetPinned(k) \/ AllocateInBuf(k) \/ NotPinned(k)
    BY <2>2, <1>1 DEF GetPinned, AllocateInBuf, NotPinned
  <2>3. CASE GetMiss(k)
    BY <2>3, CleanInstall DEF GetMiss
  <2>4. CASE AllocatePage(k)
    BY <2>4, CleanInstall DEF AllocatePage
  <2>5. CASE GetMissReadFails(k)
    BY <2>5, CleanReadFails
  <2>6. CASE GetMissNoFrame(k)
    BY <2>6, CleanAllocFails DEF GetMissNoFrame
  <2>7. CASE \E v \in Values : MarkDirty(k, v)
    BY <2>7, CleanMarkDirty
  <2>8. CASE ForceSinglePage(k)
    BY <2>8, CleanForceSingle
  <2> QED BY <1>2, <2>1, <2>2, <2>3, <2>4, <2>5, <2>6, <2>7, <2>8 DEF PageCall
<1>3. CASE \/ UNCHANGED vars \/ LoopSkip \/ LoopReturns
           \/ \E fd \in Fds : StartLoop("flush", fd) \/ StartLoop("force", fd)
  <2>1. UNCHANGED <<bufTable, hashTable, disk, fresh>>
    BY <1>3 DEF vars, LoopSkip, LoopReturns, StartLoop
  <2> QED BY <2>1, CleanUnchanged
<1>4. CASE LoopWriteFails
  <2>1. Cursor \in ToSet(used)
    BY <1>4, CursorFacts DEF LoopWriteFails
  <2> QED BY <1>4, <2>1, CleanWriteFails DEF LoopWriteFails
<1>5. CASE FlushFrame
  BY <1>5, CleanFlushFrame
<1>6. CASE ForceFrame
  <2>1. Cursor \in ToSet(used)
    BY <1>6, CursorFacts DEF ForceFrame
  <2> QED BY <1>6, <2>1, CleanWritten DEF ForceFrame
<1> QED BY <1>2, <1>3, <1>4, <1>5, <1>6 DEF Next, Loop

(* A frame not marked dirty can be dropped without a write. *)
THEOREM PoolCleanMatchesDisk == Spec => []CleanMatchesDisk
<1>1. Init => CleanMatchesDisk
  BY DEF Init, CleanMatchesDisk, Resident
<1> QED BY <1>1, CleanNext, PoolInvariant, PTL DEF Spec

-----------------------------------------------------------------------------
(* A page somebody has pinned is in a frame, and that frame is not taken.  *)
LEMMA PinnedFacts ==
  ASSUME Inv, NEW k \in Keys, held[k] > 0
  PROVE  /\ Resident(k) /\ hashTable[k] \in Slots /\ hashTable[k] # INVALID_SLOT
         /\ Frame(k).pinCount > 0
         /\ \A a \in Allocated : hashTable[k] # a.slot
<1>1. Resident(k) /\ Frame(k).pinCount > 0
  BY DEF Inv, PinsBalanced
<1>2. ASSUME NEW a \in Allocated, hashTable[k] = a.slot
      PROVE  FALSE
  <2>1. bufTable[a.slot].pinCount = 0
    BY <1>2, AllocatedHash
  <2> QED BY <1>1, <1>2, <2>1 DEF Frame
<1> QED BY <1>1, <1>2, ResidentFacts DEF Resident

StaysPut(k) ==
  /\ hashTable'[k] = hashTable[k]
  /\ \/ bufTable'[hashTable[k]].pData = Frame(k).pData
     \/ bufTable'[hashTable[k]].bDirty

(* Steps that give no page another frame. *)
LEMMA PutByFrames ==
  ASSUME Inv, NEW k \in Keys, held[k] > 0, hashTable' = hashTable,
         \A s \in Slots : bufTable'[s].pData = bufTable[s].pData \/ bufTable'[s].bDirty
  PROVE  StaysPut(k)
BY PinnedFacts DEF StaysPut, Frame

LEMMA PinnedStep ==
  ASSUME Inv, [Next]_vars, NEW k \in Keys, held[k] > 0
  PROVE  StaysPut(k)
<1>1. bufTable \in [Slots -> Desc] /\ hashTable \in [Keys -> Slots \cup {INVALID_SLOT}]
  BY DEF Inv, TypeOK
<1>2. Resident(k) /\ hashTable[k] \in Slots /\ Frame(k).pinCount > 0
  BY PinnedFacts
<1>3. ASSUME UNCHANGED <<hashTable, bufTable>>
      PROVE  StaysPut(k)
  BY <1>3 DEF StaysPut, Frame
<1>4. ASSUME NEW s \in Slots, UNCHANGED hashTable,
             \/ bufTable' = [bufTable EXCEPT ![s].bDirty = FALSE]
             \/ bufTable' = [bufTable EXCEPT ![s].pinCount = @ + 1]
             \/ bufTable' = [bufTable EXCEPT ![s].pinCount = @ - 1]
             \/ \E v : bufTable' = [bufTable EXCEPT ![s].bDirty = TRUE, ![s].pData = v]
      PROVE  StaysPut(k)
  <2>1. \A i \in Slots : bufTable'[i].pData = bufTable[i].pData \/ bufTable'[i].bDirty
    BY <1>1, <1>4 DEF Desc
  <2> QED BY <1>4, <2>1, PutByFrames
<1>5. ASSUME NEW j \in Keys, ~Resident(j), NEW a \in Allocated, NEW bytes, Install(a, j, bytes)
      PROVE  StaysPut(k)
  <2>1. k # j /\ hashTable[k] # a.slot /\ a.slot \in Slots
    BY <1>2, <1>5, PinnedFacts, AllocatedLists
  <2>2. a.hash \in [Keys -> Slots \cup {INVALID_SLOT}] /\ a.hash[k] = hashTable[k]
    BY <1>1, <2>1, AllocatedHash
  <2>3. hashTable'[k] = hashTable[k] /\ bufTable'[hashTable[k]] = bufTable[hashTable[k]]
    BY <1>1, <1>2, <1>5, <2>1, <2>2 DEF Install
  <2> QED BY <2>3 DEF StaysPut, Frame
<1>6. ASSUME NEW j \in Keys, PageCall(j)
      PROVE  StaysPut(k)
  <2>1. CASE GetHit(j) \/ UnpinPage(j) \/ \E v \in Values : MarkDirty(j, v)
    <3>1. hashTable[j] \in Slots
      BY <2>1, ResidentFacts DEF GetHit, UnpinPage, MarkDirty
    <3> QED BY <1>4, <2>1, <3>1 DEF GetHit, UnpinPage, MarkDirty
  <2>2. CASE GetPinned(j) \/ AllocateInBuf(j) \/ NotPinned(j) \/ GetMissNoFrame(j)
    BY <1>3, <2>2
       DEF GetPinned, AllocateInBuf, NotPinned, GetMissNoFrame, AllocFails, Return
  <2>3. CASE GetMiss(j) \/ AllocatePage(j)
    BY <1>5, <2>3 DEF GetMiss, AllocatePage
  <2>4. CASE GetMissReadFails(j)
    <3>1. PICK a \in Allocated, bytes \in Bytes :
            /\ hashTable' = a.hash
            /\ bufTable' = [bufTable EXCEPT ![a.slot].pData = bytes,
                              ![a.slot].bDirty = IF free = << >> THEN FALSE ELSE @]
      BY <2>4 DEF GetMissReadFails
    <3>2. hashTable[k] # a.slot /\ a.slot \in Slots
      BY PinnedFacts, AllocatedLists
    <3>3. hashTable'[k] = hashTable[k] /\ bufTable'[hashTable[k]] = bufTable[hashTable[k]]
      BY <1>1, <1>2, <3>1, <3>2, AllocatedHash
    <3> QED BY <3>3 DEF StaysPut, Frame
  <2>5. CASE ForceSinglePage(j)
    <3>1. ForceTarget(j) \subseteq Slots
      BY DEF ForceTarget, Inv, SlotsPartitioned
    <3> QED BY <1>3, <1>4, <2>5, <3>1 DEF ForceSinglePage, Return
  <2> QED BY <1>6, <2>1, <2>2, <2>3, <2>4, <2>5 DEF PageCall
<1>7. CASE UNCHANGED vars \/ LoopSkip \/ LoopReturns \/ LoopWriteFails
           \/ \E fd \in Fds : StartLoop("flush", fd) \/ StartLoop("force", fd)
  BY <1>3, <1>7 DEF vars, LoopSkip, LoopReturns, LoopWriteFails, StartLoop
<1>8. CASE ForceFrame
  BY <1>4, <1>8, CursorFacts DEF ForceFrame
<1>9. CASE FlushFrame
  <2>1. /\ Cursor \in Slots /\ hashTable[bufTable[Cursor].page] = Cursor
        /\ bufTable[Cursor].pinCount = 0
    BY <1>9, CursorFacts DEF FlushFrame
  <2>2. k # bufTable[Cursor].page /\ hashTable[k] # Cursor
    BY <1>2, <2>1 DEF Frame
  <2>3. PICK s, p : s = Cursor /\ p = bufTable[Cursor].page
    OBVIOUS
  <2>4. hashTable'[k] = hashTable[k] /\ bufTable'[hashTable[k]] = bufTable[hashTable[k]]
    BY <1>1, <1>2, <1>9, <2>1, <2>2, <2>3 DEF FlushFrame
  <2> QED BY <2>4 DEF StaysPut, Frame
<1> QED BY <1>6, <1>7, <1>8, <1>9 DEF Next, Loop

(* The pointer getPage handed out stays good until unpinPage: no eviction, *)
(* failed read, flush or force moves a pinned page or changes its bytes    *)
(* behind its clients.                                                     *)
THEOREM PoolPinnedFrameStable == Spec => PinnedFrameStable
<1>1. Inv /\ [Next]_vars =>
        [\A k \in Keys : held[k] > 0 /\ held'[k] > 0 =>
           /\ hashTable'[k] = hashTable[k]
           /\ \/ bufTable'[hashTable[k]].pData = Frame(k).pData
              \/ bufTable'[hashTable[k]].bDirty]_vars
  BY PinnedStep DEF StaysPut
<1> QED BY <1>1, PoolInvariant, PTL DEF Spec, PinnedFrameStable

-----------------------------------------------------------------------------
(* The refinement.  Stable and Advances are what PageCache asks of a step, *)
(* in terms of this module.                                                *)
Stable(K) ==
  \A j \in Keys \ K : \/ Content(j)' = Content(j)
                      \/ Content(j) = Absent /\ Content(j)' = Zero
Advances ==
  \A j \in Keys : \/ disk'[j] \in {disk[j], Content(j), Torn}
                  \/ disk[j] = Absent /\ disk'[j] = Zero

LEMMA AbsStep ==
  /\ \A K : Stable(K) => Abs!StableExcept(K)
  /\ Advances => Abs!DiskAdvances
<1>1. ASSUME NEW K, Stable(K)
      PROVE  Abs!StableExcept(K)
  BY <1>1 DEF Stable, Abs!StableExcept, Abs!FillsHole
<1>2. ASSUME Advances
      PROVE  Abs!DiskAdvances
  BY <1>2 DEF Advances, Abs!DiskAdvances, Abs!FillsHole
<1> QED BY <1>1, <1>2

(* A write of a resident page, whole or torn. *)
LEMMA WriteStep ==
  ASSUME Inv, NEW p \in Keys, Resident(p), NEW x, x \in {Frame(p).pData, Torn},
         disk' = Written(disk, p, x)
  PROVE  /\ Advances
         /\ \A j \in Keys \ {p} : disk'[j] = disk[j] \/ (disk[j] = Absent /\ disk'[j] = Zero)
<1>1. Content(p) = Frame(p).pData
  BY DEF Content
<1> QED BY <1>1 DEF Written, Advances

(* Steps that leave every page its frame and its bytes. *)
LEMMA ContentKept ==
  ASSUME Inv, hashTable' = hashTable,
         \A s \in Slots : bufTable'[s].pData = bufTable[s].pData,
         \A j \in Keys : ~Resident(j) =>
           disk'[j] = disk[j] \/ (disk[j] = Absent /\ disk'[j] = Zero)
  PROVE  Stable({})
<1>1. ASSUME NEW j \in Keys, Resident(j)
      PROVE  Content(j)' = Content(j)
  <2>1. hashTable[j] \in Slots
    BY <1>1, ResidentFacts
  <2> QED BY <1>1, <2>1 DEF Content, Resident, Frame
<1>2. ASSUME NEW j \in Keys, ~Resident(j)
      PROVE  Content(j)' = Content(j) \/ (Content(j) = Absent /\ Content(j)' = Zero)
  BY <1>2 DEF Content, Resident
<1> QED BY <1>1, <1>2 DEF Stable

(* An unpinned frame is given up: a free one, or a used one whose page is  *)
(* written first when it is dirty.                                         *)
GivesUp(s, d) ==
  /\ s \in Slots
  /\ IF s \in ToSet(used)
     THEN /\ bufTable[s].pinCount = 0
          /\ d = IF bufTable[s].bDirty
                 THEN Written(disk, bufTable[s].page, bufTable[s].pData) ELSE disk
     ELSE d = disk

LEMMA AllocatedGivesUp ==
  ASSUME Inv, NEW a \in Allocated
  PROVE  GivesUp(a.slot, a.disk)
<1>1. a.slot \in Slots
  BY AllocatedLists
<1>2. CASE free # << >>
  <2>1. a.slot = Head(free) /\ a.disk = disk
    BY <1>2 DEF Allocated
  <2>2. Head(free) \in ToSet(free)
    BY <1>2, HeadTailFacts DEF Inv, TypeOK, SlotsPartitioned, List
  <2> QED BY <1>1, <2>1, <2>2 DEF GivesUp, Inv, SlotsPartitioned
<1>3. CASE free = << >>
  BY <1>1, <1>3, VictimFacts DEF Allocated, GivesUp
<1> QED BY <1>2, <1>3

(* Its page keeps its content, which the file has from then on. *)
LEMMA GivenUp ==
  ASSUME Inv, CleanMatchesDisk, NEW s, NEW d, GivesUp(s, d), NEW j \in Keys
  PROVE  IF hashTable[j] = s THEN d[j] = Content(j)
         ELSE d[j] = disk[j] \/ (disk[j] = Absent /\ d[j] = Zero)
<1>1. s \in Slots /\ s # INVALID_SLOT
  BY DEF GivesUp, Slots, INVALID_SLOT
<1>2. CASE hashTable[j] = s
  <2>1. Resident(j) /\ s \in ToSet(used) /\ bufTable[s].page = j /\ Content(j) = bufTable[s].pData
    BY <1>1, <1>2, ResidentFacts DEF Resident, Content, Frame
  <2>2. bufTable[s].pinCount = 0
    BY <2>1 DEF GivesUp
  <2>3. j \notin fresh
    BY <1>2, <2>1, <2>2 DEF Inv, PinsBalanced, Frame
  <2>4. CASE bufTable[s].bDirty
    BY <1>2, <2>1, <2>4 DEF GivesUp, Written
  <2>5. CASE ~bufTable[s].bDirty
    BY <1>2, <2>1, <2>3, <2>5 DEF GivesUp, CleanMatchesDisk, Frame
  <2> QED BY <1>2, <2>4, <2>5
<1>3. CASE hashTable[j] # s
  <2>1. CASE s \in ToSet(used)
    <3>1. bufTable[s].page # j
      BY <1>3, <2>1 DEF Inv, HashExact
    <3> QED BY <1>3, <2>1, <3>1 DEF GivesUp, Written
  <2> QED BY <1>3, <2>1 DEF GivesUp
<1> QED BY <1>2, <1>3

LEMMA GiveUpStep ==
  ASSUME Inv, CleanMatchesDisk, NEW s, GivesUp(s, disk'), NEW K,
         \A j \in Keys \ K :
           hashTable'[j] = IF hashTable[j] = s THEN INVALID_SLOT ELSE hashTable[j],
         \A i \in Slots \ {s} : bufTable'[i] = bufTable[i]
  PROVE  Stable(K) /\ Advances
<1>1. ASSUME NEW j \in Keys
      PROVE  IF hashTable[j] = s THEN disk'[j] = Content(j)
             ELSE disk'[j] = disk[j] \/ (disk[j] = Absent /\ disk'[j] = Zero)
  BY GivenUp
<1>2. ASSUME NEW j \in Keys \ K
      PROVE  Content(j)' = Content(j) \/ (Content(j) = Absent /\ Content(j)' = Zero)
  <2>1. CASE hashTable[j] = s
    <3>1. Content(j)' = disk'[j]
      BY <1>2, <2>1 DEF Content, Resident
    <3> QED BY <1>1, <2>1, <3>1
  <2>2. CASE hashTable[j] # s /\ Resident(j)
    <3>1. hashTable'[j] = hashTable[j] /\ hashTable[j] \in Slots
      BY <1>2, <2>2, ResidentFacts
    <3>2. Content(j)' = bufTable'[hashTable[j]].pData
      BY <2>2, <3>1 DEF Content, Resident, Frame
    <3> QED BY <2>2, <3>1, <3>2 DEF Content, Frame
  <2>3. CASE hashTable[j] # s /\ ~Resident(j)
    <3>1. Content(j)' = disk'[j] /\ Content(j) = disk[j]
      BY <1>2, <2>3 DEF Content, Resident
    <3> QED BY <1>1, <2>3, <3>1
  <2> QED BY <2>1, <2>2, <2>3
<1> QED BY <1>1, <1>2 DEF Stable, Advances

(* A page that gets a frame is pinned for the first time. *)
LEMMA InstallStep ==
  ASSUME Inv, CleanMatchesDisk, NEW k \in Keys, ~Resident(k), NEW a \in Allocated,
         NEW bytes, Install(a, k, bytes)
  PROVE  /\ Stable({k}) /\ Advances
         /\ Content(k)' = bytes /\ disk' = a.disk
         /\ held[k] = 0 /\ held' = [held EXCEPT ![k] = 1]
         /\ a.disk[k] = disk[k] \/ (disk[k] = Absent /\ a.disk[k] = Zero)
<1>1. a.slot \in Slots /\ a.slot # INVALID_SLOT
  BY AllocatedLists DEF Slots, INVALID_SLOT
<1>2. /\ a.hash = [j \in Keys |-> IF hashTable[j] = a.slot THEN INVALID_SLOT ELSE hashTable[j]]
      /\ bufTable \in [Slots -> Desc] /\ held \in [Keys -> Nat]
  BY AllocatedHash DEF Inv, TypeOK
<1>3. /\ hashTable' = [a.hash EXCEPT ![k] = a.slot] /\ disk' = a.disk
      /\ bufTable' = [bufTable EXCEPT ![a.slot] =
                        [page |-> k, bDirty |-> FALSE, pinCount |-> 1, pData |-> bytes]]
      /\ held' = [held EXCEPT ![k] = @ + 1]
  BY DEF Install
<1>4. GivesUp(a.slot, disk')
  BY <1>3, AllocatedGivesUp
<1>5. Stable({k}) /\ Advances
  <2>1. \A j \in Keys \ {k} :
          hashTable'[j] = IF hashTable[j] = a.slot THEN INVALID_SLOT ELSE hashTable[j]
    BY <1>2, <1>3
  <2>2. \A i \in Slots \ {a.slot} : bufTable'[i] = bufTable[i]
    BY <1>2, <1>3
  <2> QED BY <1>4, <2>1, <2>2, GiveUpStep
<1>6. hashTable'[k] = a.slot /\ bufTable'[a.slot].pData = bytes
  BY <1>1, <1>2, <1>3
<1>7. Content(k)' = bytes
  BY <1>1, <1>6 DEF Content, Resident, Frame
<1>8. held[k] = 0 /\ held' = [held EXCEPT ![k] = 1]
  <2>1. held[k] = 0
    BY DEF Inv, PinsBalanced
  <2> QED BY <1>2, <1>3, <2>1
<1>9. hashTable[k] # a.slot
  BY <1>1 DEF Resident
<1> QED BY <1>3, <1>4, <1>5, <1>7, <1>8, <1>9, GivenUp

LEMMA PageCallImplements ==
  ASSUME Inv, CleanMatchesDisk, NEW k \in Keys, PageCall(k)
  PROVE  [Abs!Next]_(Abs!cacheVars)
<1>1. bufTable \in [Slots -> Desc] /\ held \in [Keys -> Nat]
  BY DEF Inv, TypeOK
<1>2. ASSUME UNCHANGED held, Stable({}), Advances
      PROVE  Abs!Next
  BY <1>2, AbsStep DEF Abs!Next, Abs!WriteBack
<1>3. ASSUME UNCHANGED <<held, hashTable, bufTable, disk>>
      PROVE  UNCHANGED Abs!cacheVars
  BY <1>3 DEF Abs!cacheVars, Content, Resident, Frame
<1>4. CASE GetHit(k) \/ UnpinPage(k)
  <2>1. hashTable[k] \in Slots /\ UNCHANGED <<hashTable, disk>>
    BY <1>4, ResidentFacts DEF GetHit, UnpinPage
  <2>2. \A s \in Slots : bufTable'[s].pData = bufTable[s].pData
    BY <1>1, <1>4, <2>1 DEF GetHit, UnpinPage, Desc
  <2>3. \A j \in Keys : Content(j)' = Content(j)
    BY <2>1, <2>2, ResidentFacts DEF Content, Resident, Frame
  <2>4. Stable({}) /\ Advances
    BY <2>1, <2>3 DEF Stable, Advances
  <2>5. CASE GetHit(k)
    BY <2>4, <2>5, AbsStep DEF GetHit, Abs!Next, Abs!Pin
  <2>6. CASE UnpinPage(k)
    <3>1. held[k] > 0
      BY <2>6 DEF UnpinPage, Inv, PinsBalanced
    <3> QED BY <2>1, <2>3, <2>6, <3>1 DEF UnpinPage, Abs!Next, Abs!Unpin
  <2> QED BY <1>4, <2>5, <2>6
<1>5. CASE GetPinned(k) \/ AllocateInBuf(k) \/ NotPinned(k)
  BY <1>3, <1>5 DEF GetPinned, AllocateInBuf, NotPinned, Return
<1>6. CASE GetMiss(k)
  <2>1. PICK a \in Allocated : a.disk[k] # Absent /\ Install(a, k, a.disk[k]) /\ ~Resident(k)
    BY <1>6 DEF GetMiss
  <2>2. /\ Stable({k}) /\ Advances /\ Content(k)' = a.disk[k]
        /\ held[k] = 0 /\ held' = [held EXCEPT ![k] = 1]
        /\ a.disk[k] = disk[k] \/ (disk[k] = Absent /\ a.disk[k] = Zero)
    BY <2>1, InstallStep
  <2>3. Content(k) = disk[k]
    BY <2>1 DEF Content
  <2>4. Stable({})
    BY <2>2, <2>3 DEF Stable
  <2>5. held' = [held EXCEPT ![k] = @ + 1]
    BY <2>2
  <2> QED BY <2>2, <2>4, <2>5, AbsStep DEF Abs!Next, Abs!Pin
<1>7. CASE AllocatePage(k)
  <2>1. PICK a \in Allocated : Install(a, k, bufTable[a.slot].pData) /\ ~Resident(k)
    BY <1>7 DEF AllocatePage
  <2>2. Stable({k}) /\ Advances /\ held[k] = 0 /\ held' = [held EXCEPT ![k] = 1]
    BY <2>1, InstallStep
  <2> QED BY <2>2, AbsStep DEF Abs!Next, Abs!New
<1>8. CASE GetMissReadFails(k)
  <2>1. PICK a \in Allocated, bytes \in Bytes :
          /\ hashTable' = a.hash /\ disk' = a.disk /\ UNCHANGED held
          /\ bufTable' = [bufTable EXCEPT ![a.slot].pData = bytes,
                            ![a.slot].bDirty = IF free = << >> THEN FALSE ELSE @]
    BY <1>8 DEF GetMissReadFails
  <2>2. GivesUp(a.slot, disk')
    BY <2>1, AllocatedGivesUp
  <2>3. \A j \in Keys \ {} :
          hashTable'[j] = IF hashTable[j] = a.slot THEN INVALID_SLOT ELSE hashTable[j]
    BY <2>1, AllocatedHash
  <2>4. \A i \in Slots \ {a.slot} : bufTable'[i] = bufTable[i]
    BY <1>1, <2>1
  <2>5. Stable({}) /\ Advances
    BY <2>2, <2>3, <2>4, GiveUpStep
  <2> QED BY <1>2, <2>1, <2>5
<1>9. CASE \E v \in Values : MarkDirty(k, v)
  <2>1. PICK v \in Values : MarkDirty(k, v)
    BY <1>9
  <2>2. /\ hashTable[k] \in Slots /\ UNCHANGED <<hashTable, disk, held>> /\ held[k] > 0
        /\ bufTable' = [bufTable EXCEPT ![hashTable[k]].bDirty = TRUE,
                                        ![hashTable[k]].pData = v]
        /\ Resident(k) /\ \A j \in Keys : hashTable[j] = hashTable[k] => j = k
    BY <2>1, ResidentFacts DEF MarkDirty, Inv, PinsBalanced
  <2>3. bufTable'[hashTable[k]].pData = v
        /\ \A i \in Slots \ {hashTable[k]} : bufTable'[i] = bufTable[i]
    BY <1>1, <2>2 DEF Desc
  <2>4. ASSUME NEW j \in Keys
        PROVE  Content(j)' = IF j = k THEN v ELSE Content(j)
    <3>1. CASE j = k
      BY <2>2, <2>3, <3>1 DEF Content, Resident, Frame
    <3>2. CASE j # k /\ Resident(j)
      <4>1. hashTable[j] \in Slots \ {hashTable[k]}
        BY <2>2, <3>2, ResidentFacts
      <4>2. bufTable'[hashTable[j]] = bufTable[hashTable[j]] /\ hashTable'[j] = hashTable[j]
        BY <2>2, <2>3, <4>1
      <4> QED BY <3>2, <4>2 DEF Content, Resident, Frame
    <3>3. CASE j # k /\ ~Resident(j)
      BY <2>2, <3>3 DEF Content, Resident
    <3> QED BY <3>1, <3>2, <3>3
  <2>5. [j \in Keys |-> Content(j)]' = [[j \in Keys |-> Content(j)] EXCEPT ![k] = v]
    BY <2>4
  <2> QED BY <2>2, <2>5 DEF Abs!Next, Abs!Update
<1>10. CASE GetMissNoFrame(k)
  <2>1. UNCHANGED <<hashTable, bufTable, held>>
    BY <1>10 DEF GetMissNoFrame, AllocFails
  <2>2. CASE UNCHANGED disk
    BY <1>3, <2>1, <2>2
  <2>3. CASE \E s \in Victims : bufTable[s].bDirty /\ WriteFails(bufTable[s].page) /\ disk' # disk
    <3>1. PICK s \in Victims : disk' = Written(disk, bufTable[s].page, Torn)
      BY <2>3 DEF WriteFails
    <3>2. PICK p \in Keys : p = bufTable[s].page /\ Resident(p)
      BY VictimFacts DEF Inv, HashExact, Resident, SlotsPartitioned, Slots, INVALID_SLOT
    <3>3. Advances /\ \A j \in Keys \ {p} : disk'[j] = disk[j] \/ (disk[j] = Absent /\ disk'[j] = Zero)
      BY <3>1, <3>2, WriteStep
    <3>4. Stable({})
      BY <2>1, <3>2, <3>3, ContentKept
    <3> QED BY <1>2, <2>1, <3>3, <3>4
  <2> QED BY <1>10, <2>2, <2>3 DEF GetMissNoFrame, AllocFails
<1>11. CASE ForceSinglePage(k)
  <2>1. CASE Return("OK") \/ UNCHANGED <<disk, bufTable, hashTable, held>>
    BY <1>3, <2>1 DEF Return
  <2>2. CASE \E s \in ForceTarget(k) : /\ UNCHANGED <<hashTable, held>>
                                       /\ \/ /\ disk' = Written(disk, k, bufTable[s].pData)
                                             /\ bufTable' = [bufTable EXCEPT ![s].bDirty = FALSE]
                                          \/ /\ disk' = Written(disk, k, Torn)
                                             /\ UNCHANGED bufTable
    <3>1. PICK s \in ForceTarget(k) : /\ \/ /\ disk' = Written(disk, k, bufTable[s].pData)
                                            /\ bufTable' = [bufTable EXCEPT ![s].bDirty = FALSE]
                                         \/ /\ disk' = Written(disk, k, Torn)
                                            /\ UNCHANGED bufTable
      BY <2>2
    <3>2. s \in Slots /\ Resident(k) /\ hashTable[k] = s
      BY DEF ForceTarget, Inv, HashExact, SlotsPartitioned, Resident, Slots, INVALID_SLOT
    <3>3. \A i \in Slots : bufTable'[i].pData = bufTable[i].pData
      BY <1>1, <3>1, <3>2 DEF Desc
    <3>4. Advances /\ \A j \in Keys \ {k} : disk'[j] = disk[j] \/ (disk[j] = Absent /\ disk'[j] = Zero)
      BY <3>1, <3>2, WriteStep DEF Frame
    <3>5. Stable({})
      BY <2>2, <3>2, <3>3, <3>4, ContentKept
    <3> QED BY <1>2, <2>2, <3>4, <3>5
  <2> QED BY <1>11, <2>1, <2>2 DEF ForceSinglePage, WriteFails
<1> QED BY <1>4, <1>5, <1>6, <1>7, <1>8, <1>9, <1>10, <1>11 DEF PageCall

LEMMA LoopImplements ==
  ASSUME Inv, CleanMatchesDisk, Loop
  PROVE  [Abs!Next]_(Abs!cacheVars)
<1>1. bufTable \in [Slots -> Desc] /\ hashTable \in [Keys -> Slots \cup {INVALID_SLOT}]
  BY DEF Inv, TypeOK
<1>2. ASSUME UNCHANGED held, Stable({}), Advances
      PROVE  Abs!Next
  BY <1>2, AbsStep DEF Abs!Next, Abs!WriteBack
<1>3. ASSUME UNCHANGED <<held, hashTable, bufTable, disk>>
      PROVE  UNCHANGED Abs!cacheVars
  BY <1>3 DEF Abs!cacheVars, Content, Resident, Frame
<1>4. PICK s, p : s = Cursor /\ p = bufTable[s].page
  OBVIOUS
<1>5. CASE LoopSkip \/ LoopReturns
  BY <1>3, <1>5 DEF LoopSkip, LoopReturns
<1>6. CASE LoopWriteFails \/ ForceFrame
  <2>1. /\ s \in Slots /\ p \in Keys /\ hashTable[p] = s /\ Resident(p)
    BY <1>4, <1>6, CursorFacts DEF LoopWriteFails, ForceFrame, Resident, Slots, INVALID_SLOT
  <2>2. /\ UNCHANGED <<hashTable, held>>
        /\ \/ UNCHANGED <<bufTable, disk>>
           \/ UNCHANGED bufTable /\ disk' = Written(disk, p, Torn)
           \/ /\ bufTable' = [bufTable EXCEPT ![s].bDirty = FALSE]
              /\ disk' = Written(disk, p, bufTable[s].pData)
    BY <1>4, <1>6 DEF LoopWriteFails, ForceFrame, WriteFails
  <2>3. CASE UNCHANGED <<bufTable, disk>>
    BY <1>3, <2>2, <2>3
  <2>4. CASE \E x \in {Frame(p).pData, Torn} : disk' = Written(disk, p, x)
    <3>1. Advances /\ \A j \in Keys \ {p} : disk'[j] = disk[j] \/ (disk[j] = Absent /\ disk'[j] = Zero)
      BY <2>1, <2>4, WriteStep
    <3>2. \A i \in Slots : bufTable'[i].pData = bufTable[i].pData
      BY <1>1, <2>1, <2>2 DEF Desc
    <3>3. Stable({})
      BY <2>1, <2>2, <3>1, <3>2, ContentKept
    <3> QED BY <1>2, <2>2, <3>1, <3>3
  <2> QED BY <2>1, <2>2, <2>3, <2>4 DEF Frame
<1>7. CASE FlushFrame
  <2>1. /\ s \in Slots /\ s \in ToSet(used) /\ p \in Keys /\ hashTable[p] = s
        /\ \A j \in Keys : hashTable[j] = s => j = p
    BY <1>4, <1>7, CursorFacts, ResidentFacts DEF FlushFrame, Resident, Slots, INVALID_SLOT
  <2>2. /\ bufTable[s].pinCount = 0 /\ UNCHANGED held
        /\ disk' = IF bufTable[s].bDirty THEN Written(disk, p, bufTable[s].pData) ELSE disk
        /\ bufTable' = [bufTable EXCEPT ![s].bDirty = FALSE]
        /\ hashTable' = [hashTable EXCEPT ![p] = INVALID_SLOT]
    BY <1>4, <1>7 DEF FlushFrame
  <2>3. GivesUp(s, disk')
    BY <1>4, <2>1, <2>2 DEF GivesUp
  <2>4. \A j \in Keys \ {} :
          hashTable'[j] = IF hashTable[j] = s THEN INVALID_SLOT ELSE hashTable[j]
    BY <1>1, <2>1, <2>2
  <2>5. \A i \in Slots \ {s} : bufTable'[i] = bufTable[i]
    BY <1>1, <2>2
  <2>6. Stable({}) /\ Advances
    BY <2>3, <2>4, <2>5, GiveUpStep
  <2> QED BY <1>2, <2>2, <2>6
<1> QED BY <1>5, <1>6, <1>7 DEF Loop

(* The pool implements the page cache the file layer relies on: whatever   *)
(* is evicted, read, torn or forced, only the client that pinned a page    *)
(* changes its content, and the file trails behind it.                     *)
THEOREM PoolImplementsPageCache == Spec => Implements
<1>1. Init => Abs!Init
  <2>1. Init => \A k \in Keys : Content(k) = disk[k]
    BY DEF Init, Content, Resident
  <2>2. Init => disk = [k \in Keys |-> disk[k]]
    BY DEF Init
  <2> QED BY <2>1, <2>2 DEF Init, Abs!Init
<1>2. Inv /\ CleanMatchesDisk /\ [Next]_vars => [Abs!Next]_(Abs!cacheVars)
  <2> SUFFICES ASSUME Inv, CleanMatchesDisk, [Next]_vars
               PROVE  [Abs!Next]_(Abs!cacheVars)
    OBVIOUS
  <2>1. CASE UNCHANGED vars \/ \E fd \in Fds : StartLoop("flush", fd) \/ StartLoop("force", fd)
    <3>1. UNCHANGED <<hashTable, bufTable, disk, held>>
      BY <2>1 DEF vars, StartLoop
    <3> QED BY <3>1 DEF Abs!cacheVars, Content, Resident, Frame
  <2> QED BY <2>1, PageCallImplements, LoopImplements DEF Next
<1> QED BY <1>1, <1>2, PoolInvariant, PoolCleanMatchesDisk, PTL DEF Spec, Implements, Abs!Spec

-----------------------------------------------------------------------------
(* flushPages and forcePages.  What the walk has behind it: flushPages     *)
(* leaves a frame of the file on the used list only when it is pinned, and *)
(* will say so; forcePages leaves it clean.                                *)
Behind(i) == LET f == bufTable[used[i]]
             IN f.page[1] = loop.fd => IF loop.op = "flush" THEN loop.warn ELSE ~f.bDirty
LoopInv ==
  ~NoLoop => /\ loop.at <= Len(used) + 1
             /\ \A i \in 1 .. loop.at - 1 : Behind(i)

LEMMA UnlinkBehind ==
  ASSUME NEW S, NEW s, List(S, s), NEW k \in DOMAIN s, NEW t, t = Unlink(s, s[k])
  PROVE  Len(t) = Len(s) - 1 /\ \A i \in 1 .. k - 1 : t[i] = s[i]
<1>1. /\ s \in Seq(S) /\ Len(s) \in Nat /\ DOMAIN s = 1 .. Len(s)
      /\ \A i \in 1 .. Len(s) : s[i] \in S
  BY DEF List
<1>2. (CHOOSE i \in DOMAIN s : s[i] = s[k]) = k
  BY DEF List, IsInjective
<1> DEFINE u == SubSeq(s, 1, k - 1)
           v == SubSeq(s, k + 1, Len(s))
<1>3. t = u \o v
  BY <1>2 DEF Unlink, RemoveAt
<1>4. u \in Seq(S) /\ Len(u) = k - 1 /\ \A i \in 1 .. k - 1 : u[i] = s[i]
  <2>1. \A i \in 1 .. k - 1 : s[i] \in S
    BY <1>1
  <2>2. /\ u \in Seq(S) /\ Len(u) = IF 1 <= k - 1 THEN (k - 1) - 1 + 1 ELSE 0
        /\ \A i \in 1 .. (k - 1) - 1 + 1 : u[i] = s[1 + i - 1]
    BY <1>1, <2>1, SubSeqProperties
  <2> HIDE DEF u
  <2> QED BY <1>1, <2>2
<1>5. v \in Seq(S) /\ Len(v) = Len(s) - k
  <2>1. \A i \in k + 1 .. Len(s) : s[i] \in S
    BY <1>1
  <2>2. v \in Seq(S) /\ Len(v) = IF k + 1 <= Len(s) THEN Len(s) - (k + 1) + 1 ELSE 0
    BY <1>1, <2>1, SubSeqProperties
  <2> HIDE DEF v
  <2> QED BY <1>1, <2>2
<1> HIDE DEF u, v
<1>6. /\ Len(u \o v) = Len(u) + Len(v)
      /\ \A i \in 1 .. Len(u) + Len(v) : (u \o v)[i] = IF i <= Len(u) THEN u[i] ELSE v[i - Len(u)]
  BY <1>4, <1>5, ConcatProperties
<1> QED BY <1>1, <1>3, <1>4, <1>5, <1>6

LEMMA LoopStep == Inv /\ LoopInv /\ [Next]_vars => LoopInv'
<1> SUFFICES ASSUME Inv, LoopInv, [Next]_vars PROVE LoopInv'
  OBVIOUS
<1>1. /\ bufTable \in [Slots -> Desc] /\ List(Slots, used) /\ loop \in LoopCall
      /\ Len(used) \in Nat /\ DOMAIN used = 1 .. Len(used) /\ loop.at \in Nat \ {0}
      /\ \A i \in 1 .. Len(used) : used[i] \in Slots
  BY DEF Inv, TypeOK, SlotsPartitioned, List, LoopCall
<1>0. PICK at : at = loop.at
  OBVIOUS
<1>2. CASE UNCHANGED vars
  BY <1>2 DEF vars, LoopInv, NoLoop, Behind
<1>3. ASSUME NEW k \in Keys, PageCall(k)
      PROVE  LoopInv'
  <2>1. NoLoop /\ UNCHANGED loop
    BY <1>3 DEF PageCall, GetHit, GetPinned, GetMiss, GetMissReadFails, GetMissNoFrame, AllocFails,
                AllocatePage, AllocateInBuf, MarkDirty, UnpinPage, NotPinned, ForceSinglePage,
                Return, Install
  <2> QED BY <2>1 DEF LoopInv, NoLoop
<1>4. ASSUME NEW op, NEW fd, StartLoop(op, fd)
      PROVE  LoopInv'
  <2>1. loop'.at = 1 /\ UNCHANGED used
    BY <1>4 DEF StartLoop
  <2> QED BY <1>1, <2>1 DEF LoopInv
<1>5. CASE LoopWriteFails \/ LoopReturns
  BY <1>5 DEF LoopWriteFails, LoopReturns, LoopInv, NoLoop, Idle
<1>6. CASE LoopSkip
  <2>1. /\ ~NoLoop /\ loop.at <= Len(used) /\ UNCHANGED <<used, bufTable>>
        /\ loop'.at = at + 1 /\ loop'.op = loop.op /\ loop'.fd = loop.fd
        /\ IF loop.op = "flush" THEN loop'.warn = (loop.warn \/ Ours)
                                ELSE ~(Ours /\ bufTable[Cursor].bDirty)
    BY <1>0, <1>1, <1>6 DEF LoopSkip, Walking, NoLoop, LoopCall
  <2>2. \A i \in 1 .. loop'.at - 1 : i \in 1 .. at - 1 \/ i = at
    BY <1>0, <1>1, <2>1
  <2>3. \A i \in 1 .. at - 1 : Behind(i)'
    BY <1>0, <2>1 DEF LoopInv, Behind
  <2>4. Behind(at)'
    BY <1>0, <2>1 DEF Behind, Ours, Cursor
  <2> QED BY <1>0, <1>1, <2>1, <2>2, <2>3, <2>4 DEF LoopInv
<1>7. CASE FlushFrame
  <2>1. /\ ~NoLoop /\ loop.op = "flush" /\ at \in 1 .. Len(used) /\ UNCHANGED loop
        /\ used' = Unlink(used, used[at]) /\ Cursor \in Slots
        /\ bufTable' = [bufTable EXCEPT ![Cursor].bDirty = FALSE]
    BY <1>0, <1>1, <1>7, CursorFacts DEF FlushFrame, Walking, NoLoop, Cursor
  <2>2. Len(used') = Len(used) - 1 /\ \A i \in 1 .. at - 1 : used'[i] = used[i]
    <3>1. List(Slots, used) /\ at \in DOMAIN used /\ used' = Unlink(used, used[at])
      BY <1>1, <2>1
    <3> QED BY <3>1, UnlinkBehind
  <2>3. \A i \in Slots : bufTable'[i].page = bufTable[i].page
    BY <1>0, <1>1, <2>1 DEF Desc
  <2>5. at \in 1 .. Len(used) /\ UNCHANGED loop /\ ~NoLoop /\ loop.op = "flush"
    BY <2>1
  <2>4. ASSUME NEW i \in 1 .. at - 1
        PROVE  Behind(i)'
    <3>1. used'[i] = used[i] /\ used[i] \in Slots
      BY <1>1, <2>2, <2>5
    <3> QED BY <1>0, <2>3, <2>5, <3>1 DEF LoopInv, Behind
  <2> QED BY <1>0, <1>1, <2>2, <2>4, <2>5 DEF LoopInv
<1>8. CASE ForceFrame
  <2>1. /\ ~NoLoop /\ loop.op = "force" /\ at \in 1 .. Len(used) /\ UNCHANGED used
        /\ loop'.at = at + 1 /\ loop'.op = loop.op /\ loop'.fd = loop.fd
        /\ Cursor \in Slots
        /\ bufTable' = [bufTable EXCEPT ![Cursor].bDirty = FALSE]
    BY <1>0, <1>1, <1>8, CursorFacts DEF ForceFrame, Walking, NoLoop, LoopCall
  <2>2. /\ ~bufTable'[Cursor].bDirty
        /\ \A i \in Slots : /\ bufTable'[i].page = bufTable[i].page
                            /\ bufTable'[i].bDirty => bufTable[i].bDirty
    BY <1>0, <1>1, <2>1 DEF Desc
  <2>3. \A i \in 1 .. loop'.at - 1 : i \in 1 .. at - 1 \/ i = at
    BY <1>0, <1>1, <2>1
  <2>4. ASSUME NEW i \in 1 .. at - 1
        PROVE  Behind(i)'
    <3>1. used'[i] = used[i] /\ used[i] \in Slots
      BY <1>0, <1>1, <2>1
    <3> QED BY <1>0, <2>1, <2>2, <3>1 DEF LoopInv, Behind
  <2>5. Behind(at)'
    BY <1>0, <2>1, <2>2 DEF Behind, Cursor
  <2> QED BY <1>0, <1>1, <2>1, <2>3, <2>4, <2>5 DEF LoopInv
<1> QED BY <1>2, <1>3, <1>4, <1>5, <1>6, <1>7, <1>8 DEF Next, Loop

(* When the walk has passed the end of the used list and has met no pinned *)
(* page of the file, no page of the file is dirty, and after flushPages    *)
(* none is resident.                                                       *)
LEMMA LoopDone ==
  ASSUME Inv, CleanMatchesDisk, LoopInv, ~NoLoop, loop.at > Len(used),
         loop.op = "flush" => ~loop.warn, NEW k \in Keys, k[1] = loop.fd
  PROVE  /\ k \notin fresh => disk[k] = Content(k)
         /\ loop.op = "flush" => ~Resident(k)
<1>1. ASSUME Resident(k)
      PROVE  loop.op # "flush" /\ ~Frame(k).bDirty
  <2>1. hashTable[k] \in ToSet(used) /\ Frame(k).page = k
    BY <1>1 DEF Inv, HashExact
  <2>2. PICK i \in DOMAIN used : used[i] = hashTable[k]
    BY <2>1 DEF ToSet
  <2>3. i \in 1 .. loop.at - 1
    BY <2>2 DEF Inv, TypeOK, LoopCall
  <2>4. Behind(i)
    BY <2>3 DEF LoopInv
  <2> QED BY <2>1, <2>2, <2>4 DEF Behind, Frame
<1> QED BY <1>1 DEF Content, CleanMatchesDisk

LEMMA DeliverStep ==
  ASSUME Inv, CleanMatchesDisk, LoopInv, [Next]_vars, ~NoLoop, NoLoop', rc' = "OK",
         NEW k \in Keys, k[1] = loop.fd
  PROVE  /\ k \notin fresh => disk'[k] = Content(k)'
         /\ loop.op = "flush" => ~Resident(k)'
<1>1. CASE LoopReturns
  <2>1. /\ loop.at > Len(used) /\ UNCHANGED <<hashTable, bufTable, disk>> /\ ~loop.warn
    BY <1>1 DEF LoopReturns
  <2>2. /\ k \notin fresh => disk[k] = Content(k)
        /\ loop.op = "flush" => ~Resident(k)
    BY <2>1, LoopDone
  <2> QED BY <2>1, <2>2 DEF Content, Resident, Frame
<1>2. ~LoopWriteFails
  BY DEF LoopWriteFails, WriteFails
<1>3. LoopSkip \/ FlushFrame \/ ForceFrame \/ UNCHANGED vars => (NoLoop' => NoLoop)
  BY DEF LoopSkip, FlushFrame, ForceFrame, vars, NoLoop, Inv, TypeOK, LoopCall
<1>4. ~\E j \in Keys : PageCall(j)
  BY DEF PageCall, GetHit, GetPinned, GetMiss, GetMissReadFails, GetMissNoFrame, AllocatePage,
         AllocateInBuf, MarkDirty, UnpinPage, NotPinned, ForceSinglePage
<1>5. ~\E op, fd : StartLoop(op, fd)
  BY DEF StartLoop
<1> QED BY <1>1, <1>2, <1>3, <1>4, <1>5 DEF Next, Loop

(* When flushPages or forcePages returns 0, the file holds the content of  *)
(* all its pages, and after flushPages none of them is left in the pool.   *)
THEOREM PoolLoopDelivers == Spec => LoopDelivers
<1>1. Init => LoopInv
  BY DEF Init, LoopInv, NoLoop, Idle
<1>2. Inv /\ CleanMatchesDisk /\ LoopInv /\ [Next]_vars =>
        [~NoLoop /\ NoLoop' /\ rc' = "OK"
           => \A k \in Keys : k[1] = loop.fd =>
                /\ k \notin fresh => disk'[k] = Content(k)'
                /\ loop.op = "flush" => ~Resident(k)']_vars
  BY DeliverStep
<1> QED BY <1>1, <1>2, LoopStep, PoolInvariant, PoolCleanMatchesDisk, PTL DEF Spec, LoopDelivers

-----------------------------------------------------------------------------
(***************************************************************************)
(* The lock, for any finite sets of reading and writing threads.           *)
(***************************************************************************)

(* The inductive invariant: the counters are exact, so each predicate that *)
(* lets a thread in says that nobody it excludes is inside.                *)
LockInv == LockTypeOK /\ CountsExact /\ MutualExclusion

(* So are all its threads together,                                        *)
LEMMA ThreadsFinite == IsFiniteSet(Threads)
  BY ThreadsAssumption, FS_Union DEF Threads

(* those at one place of the lock, and those writeCount counts.            *)
LEMMA AtFinite ==
  /\ \A loc : IsFiniteSet(At(loc))
  /\ IsFiniteSet(WriterSet)
<1>1. ASSUME NEW loc PROVE IsFiniteSet(At(loc))
  <2>1. At(loc) \in SUBSET Threads
    BY DEF At
  <2> QED BY <2>1, ThreadsFinite, FS_Subset
<1>2. WriterSet \in SUBSET Threads
  BY DEF WriterSet, At
<1> QED BY <1>1, <1>2, ThreadsFinite, FS_Subset

(* With exact counters the read predicate says no writer is inside or waits.*)
LEMMA CanReadMeans ==
  ASSUME CountsExact, CanRead(writeCount)
  PROVE  WriterSet = {}
BY AtFinite, FS_EmptySet DEF CountsExact, CanRead

(* A thread that is counted and sees the write predicate true is alone.    *)
LEMMA CanWriteMeans ==
  ASSUME CountsExact, CanWrite(writeCount, readCount),
         NEW t \in WriterSet
  PROVE  WriterSet = {t} /\ At("reading") = {}
<1>1. At("reading") = {}
  BY AtFinite, FS_EmptySet DEF CountsExact, CanWrite
<1>2. \E x : WriterSet = {x}
  BY AtFinite, FS_Singleton DEF CountsExact, CanWrite
<1> QED BY <1>1, <1>2

(* At first nobody is inside and nobody waits.                             *)
LEMMA InitLockInv == LockInit => LockInv
<1> SUFFICES ASSUME LockInit PROVE LockInv
  OBVIOUS
<1>1. LockTypeOK
  BY DEF LockInit, LockTypeOK, Locations
<1>2. At("reading") = {} /\ WriterSet = {}
  BY DEF LockInit, At, WriterSet
<1>3. CountsExact
  BY <1>2, FS_EmptySet DEF LockInit, CountsExact
<1>4. MutualExclusion
  BY DEF LockInit, MutualExclusion
<1> QED BY <1>1, <1>3, <1>4 DEF LockInv

(* Every step keeps the types.                                             *)
LEMMA LockTypeStep == LockTypeOK /\ [LockNext]_rwVars => LockTypeOK'
<1> SUFFICES ASSUME LockTypeOK, [LockNext]_rwVars PROVE LockTypeOK'
  OBVIOUS
<1> USE DEF LockTypeOK, Locations, Goto
<1>1. CASE UNCHANGED rwVars
  BY <1>1 DEF rwVars
<1>2. ASSUME NEW t \in Threads, ReadLock(t) PROVE LockTypeOK'
  BY <1>2 DEF ReadLock, TryRead
<1>3. ASSUME NEW t \in Threads, ReadWake(t) PROVE LockTypeOK'
  BY <1>3 DEF ReadWake, TryRead
<1>4. ASSUME NEW t \in Threads, ReadUnlock(t) PROVE LockTypeOK'
  BY <1>4 DEF ReadUnlock, LeaveNotifyOne, At
<1>5. ASSUME NEW t \in Threads, WriteLock(t) PROVE LockTypeOK'
  BY <1>5 DEF WriteLock
<1>6. ASSUME NEW t \in Threads, WriteWake(t) PROVE LockTypeOK'
  BY <1>6 DEF WriteWake
<1>7. ASSUME NEW t \in Threads, WriteUnlock(t) PROVE LockTypeOK'
  BY <1>7 DEF WriteUnlock, LeaveNotifyOne, LeaveNotifyReaders, At
<1>8. ASSUME NEW t \in Threads, Spurious(t) PROVE LockTypeOK'
  BY <1>8 DEF Spurious
<1> QED BY <1>1, <1>2, <1>3, <1>4, <1>5, <1>6, <1>7, <1>8 DEF LockNext

(***************************************************************************)
(* One lemma per action: what it does to the two counted sets, hence that  *)
(* it keeps the counters exact.                                            *)
(***************************************************************************)
LEMMA TryReadStep ==
  ASSUME LockTypeOK, CountsExact, NEW t \in Threads,
         pc[t] \in {"idle", "rqWoken"}, TryRead(t), UNCHANGED writeCount
  PROVE  /\ CountsExact'
         /\ At("writing")' = At("writing")
         /\ \/ WriterSet = {} /\ At("reading")' = At("reading") \cup {t}
            \/ At("reading")' = At("reading")
<1>1. WriterSet' = WriterSet /\ At("writing")' = At("writing")
  BY DEF LockTypeOK, At, Goto, TryRead, WriterSet
<1>2. CASE CanRead(writeCount)
  <2>1. At("reading")' = At("reading") \cup {t} /\ t \notin At("reading")
    BY <1>2 DEF LockTypeOK, At, Goto, TryRead
  <2>2. readCount' = readCount + 1
    BY <1>2 DEF TryRead
  <2>3. Cardinality(At("reading") \cup {t}) = Cardinality(At("reading")) + 1
    BY <2>1, AtFinite, FS_AddElement
  <2> QED BY <1>1, <1>2, <2>1, <2>2, <2>3, CanReadMeans DEF CountsExact
<1>3. CASE ~CanRead(writeCount)
  <2>1. At("reading")' = At("reading") /\ UNCHANGED readCount
    BY <1>3 DEF LockTypeOK, At, Goto, TryRead
  <2> QED BY <1>1, <2>1 DEF CountsExact
<1> QED BY <1>2, <1>3

(* A reader that leaves is no longer inside, and nobody has come in.       *)
LEMMA ReadUnlockStep ==
  ASSUME LockTypeOK, CountsExact, NEW t \in Threads, ReadUnlock(t)
  PROVE  /\ CountsExact'
         /\ At("writing")' = At("writing")
         /\ At("reading")' = At("reading") \ {t}
<1>1. /\ WriterSet' = WriterSet
      /\ At("writing")' = At("writing")
      /\ At("reading")' = At("reading") \ {t}
      /\ t \in At("reading")
  BY DEF LockTypeOK, At, Goto, ReadUnlock, LeaveNotifyOne, WriterSet
<1>2. Cardinality(At("reading") \ {t}) = Cardinality(At("reading")) - 1
  BY <1>1, AtFinite, FS_RemoveElement
<1> QED BY <1>1, <1>2 DEF CountsExact, ReadUnlock

(* A writer that asks is counted, and is inside only when it is alone.     *)
LEMMA WriteLockStep ==
  ASSUME LockTypeOK, CountsExact, NEW t \in Threads, WriteLock(t)
  PROVE  /\ CountsExact'
         /\ At("reading")' = At("reading")
         /\ \/ At("writing")' = At("writing")
            \/ /\ At("writing") = {} /\ At("reading") = {}
               /\ At("writing")' = {t}
<1>1. /\ WriterSet' = WriterSet \cup {t}
      /\ t \notin WriterSet
      /\ At("reading")' = At("reading")
  BY DEF LockTypeOK, At, Goto, WriteLock, WriterSet
<1>2. Cardinality(WriterSet \cup {t}) = Cardinality(WriterSet) + 1
  BY <1>1, AtFinite, FS_AddElement
<1>3. CountsExact'
  BY <1>1, <1>2 DEF CountsExact, WriteLock
<1>4. CASE CanWrite(writeCount', readCount)
  <2>1. WriterSet = {} /\ At("reading") = {}
    BY <1>4, AtFinite, FS_EmptySet, FS_CardinalityType
       DEF CountsExact, CanWrite, WriteLock, LockTypeOK
  <2>2. At("writing")' = At("writing") \cup {t}
    BY <1>4 DEF LockTypeOK, At, Goto, WriteLock
  <2>3. At("writing") = {}
    BY <2>1 DEF WriterSet
  <2> QED BY <1>1, <1>3, <2>1, <2>2, <2>3
<1>5. CASE ~CanWrite(writeCount', readCount)
  <2>1. At("writing")' = At("writing")
    BY <1>5 DEF LockTypeOK, At, Goto, WriteLock
  <2> QED BY <1>1, <1>3, <2>1
<1> QED BY <1>4, <1>5

(* A woken writer gets in only when it is alone.                           *)
LEMMA WriteWakeStep ==
  ASSUME LockTypeOK, CountsExact, NEW t \in Threads, WriteWake(t)
  PROVE  /\ CountsExact'
         /\ At("reading")' = At("reading")
         /\ \/ At("writing")' = At("writing")
            \/ /\ At("writing") = {} /\ At("reading") = {}
               /\ At("writing")' = {t}
<1>1. /\ WriterSet' = WriterSet
      /\ t \in WriterSet
      /\ At("reading")' = At("reading")
  BY DEF LockTypeOK, At, Goto, WriteWake, WriterSet
<1>2. CountsExact'
  BY <1>1 DEF CountsExact, WriteWake
<1>3. CASE CanWrite(writeCount, readCount)
  <2>1. WriterSet = {t} /\ At("reading") = {}
    BY <1>1, <1>3, CanWriteMeans
  <2>2. At("writing")' = At("writing") \cup {t}
    BY <1>3 DEF LockTypeOK, At, Goto, WriteWake
  <2>3. At("writing") \subseteq {t} /\ t \notin At("writing")
    BY <2>1 DEF WriterSet, At, WriteWake
  <2> QED BY <1>1, <1>2, <2>1, <2>2, <2>3
<1>4. CASE ~CanWrite(writeCount, readCount)
  <2>1. At("writing")' = At("writing")
    BY <1>4 DEF LockTypeOK, At, Goto, WriteWake
  <2> QED BY <1>1, <1>2, <2>1
<1> QED BY <1>3, <1>4

(* A writer that leaves is no longer inside or counted.                    *)
LEMMA WriteUnlockStep ==
  ASSUME LockTypeOK, CountsExact, NEW t \in Threads, WriteUnlock(t)
  PROVE  /\ CountsExact'
         /\ At("writing")' = At("writing") \ {t}
         /\ At("reading")' = At("reading")
<1>1. /\ WriterSet' = WriterSet \ {t}
      /\ t \in WriterSet
      /\ At("writing")' = At("writing") \ {t}
      /\ At("reading")' = At("reading")
  BY DEF LockTypeOK, At, Goto, WriteUnlock, LeaveNotifyOne, LeaveNotifyReaders,
         WriterSet
<1>2. Cardinality(WriterSet \ {t}) = Cardinality(WriterSet) - 1
  BY <1>1, AtFinite, FS_RemoveElement
<1> QED BY <1>1, <1>2 DEF CountsExact, WriteUnlock

(* A spurious wakeup changes neither who is inside nor who is counted.     *)
LEMMA SpuriousStep ==
  ASSUME LockTypeOK, CountsExact, NEW t \in Threads, Spurious(t)
  PROVE  /\ CountsExact'
         /\ At("writing")' = At("writing")
         /\ At("reading")' = At("reading")
<1>1. WriterSet' = WriterSet /\ At("writing")' = At("writing")
                             /\ At("reading")' = At("reading")
  BY DEF LockTypeOK, At, Goto, Spurious, WriterSet
<1> QED BY <1>1 DEF CountsExact, Spurious

(* Mutual exclusion said of the two sets of holders.                       *)
LEMMA ExclusionOfHolders ==
  MutualExclusion <=>
    \A t \in At("writing") : At("writing") = {t} /\ At("reading") = {}
BY DEF MutualExclusion, At

(* Every step keeps the invariant.                                         *)
LEMMA NextLockInv == LockInv /\ [LockNext]_rwVars => LockInv'
<1> SUFFICES ASSUME LockInv, [LockNext]_rwVars PROVE LockInv'
  OBVIOUS
<1> USE DEF LockInv
<1>0. LockTypeOK'
  BY LockTypeStep
<1>1. (\A t \in At("writing") : At("writing") = {t} /\ At("reading") = {})'
        <=> MutualExclusion'
  BY ExclusionOfHolders, PTL
<1>2. CASE UNCHANGED rwVars
  BY <1>2 DEF rwVars, LockTypeOK, CountsExact, MutualExclusion, At, WriterSet
<1>3. ASSUME NEW t \in Threads, ReadLock(t) \/ ReadWake(t)
      PROVE  CountsExact' /\ MutualExclusion'
  <2>1. /\ CountsExact'
        /\ At("writing")' = At("writing")
        /\ \/ WriterSet = {} /\ At("reading")' = At("reading") \cup {t}
           \/ At("reading")' = At("reading")
    BY <1>3, TryReadStep DEF ReadLock, ReadWake
  <2> QED BY <1>1, <2>1, ExclusionOfHolders DEF WriterSet
<1>4. ASSUME NEW t \in Threads, ReadUnlock(t)
      PROVE  CountsExact' /\ MutualExclusion'
  BY <1>1, <1>4, ReadUnlockStep, ExclusionOfHolders
<1>5. ASSUME NEW t \in Threads, WriteLock(t)
      PROVE  CountsExact' /\ MutualExclusion'
  BY <1>1, <1>5, WriteLockStep, ExclusionOfHolders
<1>6. ASSUME NEW t \in Threads, WriteWake(t)
      PROVE  CountsExact' /\ MutualExclusion'
  BY <1>1, <1>6, WriteWakeStep, ExclusionOfHolders
<1>7. ASSUME NEW t \in Threads, WriteUnlock(t)
      PROVE  CountsExact' /\ MutualExclusion'
  BY <1>1, <1>7, WriteUnlockStep, ExclusionOfHolders
<1>8. ASSUME NEW t \in Threads, Spurious(t)
      PROVE  CountsExact' /\ MutualExclusion'
  BY <1>1, <1>8, SpuriousStep, ExclusionOfHolders
<1> QED BY <1>0, <1>2, <1>3, <1>4, <1>5, <1>6, <1>7, <1>8 DEF LockNext

(* While a thread is inside or waits to write, writeCount is positive.     *)
LEMMA LockInvPositive ==
  ASSUME CountsExact, NEW t \in WriterSet
  PROVE  writeCount \in Nat /\ writeCount > 0
BY AtFinite, FS_EmptySet, FS_CardinalityType DEF CountsExact

(* The invariant holds in every reachable state.                           *)
LEMMA LockInvAlways == LockSpec => []LockInv
  BY InitLockInv, NextLockInv, PTL DEF LockSpec

(* The variables keep their types: readLock, readUnlock, writeLock and     *)
(* writeUnlock never leave a thread outside the seven locations.           *)
THEOREM LockTypeCorrect == LockSpec => []LockTypeOK
  BY LockInvAlways, PTL DEF LockInv

(* A writer is alone, whatever the number of threads and however their     *)
(* waits, notifications and spurious wakeups interleave.                   *)
THEOREM LockMutualExclusion == LockSpec => []MutualExclusion
  BY LockInvAlways, PTL DEF LockInv

(* readCount and writeCount always equal the number of threads they stand  *)
(* for, which is what both wait predicates rely on.                        *)
THEOREM LockCountsExact == LockSpec => []CountsExact
  BY LockInvAlways, PTL DEF LockInv

(* No reader sleeps in rq unless a writer is inside or waits: writeUnlock  *)
(* wakes all of them when the last writer leaves.                          *)
THEOREM LockNoForgottenReader == LockSpec => []NoForgottenReader
<1>1. LockInit => NoForgottenReader
  BY DEF LockInit, NoForgottenReader, At
<1>2. LockInv /\ NoForgottenReader /\ [LockNext]_rwVars => NoForgottenReader'
  <2> SUFFICES ASSUME LockInv, NoForgottenReader, [LockNext]_rwVars
               PROVE  NoForgottenReader'
    OBVIOUS
  <2> USE DEF LockInv, LockTypeOK, NoForgottenReader, At, Goto
  <2>0. writeCount \in Nat
    BY AtFinite, FS_CardinalityType DEF CountsExact
  <2>1. CASE UNCHANGED rwVars
    BY <2>1 DEF rwVars
  <2>2. ASSUME NEW t \in Threads, ReadLock(t) PROVE NoForgottenReader'
    BY <2>0, <2>2 DEF ReadLock, TryRead, CanRead
  <2>3. ASSUME NEW t \in Threads, ReadWake(t) PROVE NoForgottenReader'
    BY <2>0, <2>3 DEF ReadWake, TryRead, CanRead
  <2>4. ASSUME NEW t \in Threads, ReadUnlock(t) PROVE NoForgottenReader'
    BY <2>4 DEF ReadUnlock, LeaveNotifyOne
  <2>5. ASSUME NEW t \in Threads, WriteLock(t) PROVE NoForgottenReader'
    BY <2>0, <2>5 DEF WriteLock
  <2>6. ASSUME NEW t \in Threads, WriteWake(t) PROVE NoForgottenReader'
    BY <2>6 DEF WriteWake
  <2>7. ASSUME NEW t \in Threads, WriteUnlock(t) PROVE NoForgottenReader'
    <3>1. CASE writeCount' = 0
      BY <2>7, <3>1 DEF WriteUnlock, LeaveNotifyReaders
    <3>2. CASE writeCount' # 0
      <4>1. writeCount > 1
        BY <2>0, <2>7, <3>2, LockInvPositive DEF WriteUnlock, WriterSet
      <4> QED BY <2>7, <3>2, <4>1 DEF WriteUnlock, LeaveNotifyOne
    <3> QED BY <3>1, <3>2
  <2>8. ASSUME NEW t \in Threads, Spurious(t) PROVE NoForgottenReader'
    BY <2>8 DEF Spurious
  <2> QED BY <2>1, <2>2, <2>3, <2>4, <2>5, <2>6, <2>7, <2>8 DEF LockNext
<1> QED BY <1>1, <1>2, LockInvAlways, PTL DEF LockSpec

(* A count of one says that the writer it counts is the only one.          *)
LEMMA LoneWriter ==
  CountsExact /\ writeCount = 1 => \A t \in WriterSet : WriterSet = {t}
<1> SUFFICES ASSUME CountsExact, writeCount = 1
             PROVE  \A t \in WriterSet : WriterSet = {t}
  OBVIOUS
<1>1. \E x : WriterSet = {x}
  BY AtFinite, FS_Singleton DEF CountsExact
<1> QED BY <1>1

(* The same of the next state.                                             *)
LEMMA LoneWriterNext ==
  (CountsExact /\ writeCount = 1 => \A t \in WriterSet : WriterSet = {t})'
BY LoneWriter, PTL

(* The counters are never below zero.                                      *)
LEMMA CountsNatural == CountsExact => readCount \in Nat /\ writeCount \in Nat
BY AtFinite, FS_CardinalityType DEF CountsExact

(* The same of the next state.                                             *)
LEMMA CountsNaturalNext ==
  (CountsExact => readCount \in Nat /\ writeCount \in Nat)'
BY CountsNatural, PTL

(* A lone writer never sleeps on a lock nobody holds: whoever makes its    *)
(* predicate true in readUnlock or writeUnlock also wakes it.              *)
THEOREM LockNoForgottenWriter == LockSpec => []NoForgottenWriter
<1>1. LockInit => NoForgottenWriter
  BY DEF LockInit, NoForgottenWriter, At
<1>2. LockInv /\ NoForgottenWriter /\ [LockNext]_rwVars => NoForgottenWriter'
  <2> SUFFICES ASSUME LockInv, NoForgottenWriter, [LockNext]_rwVars
               PROVE  NoForgottenWriter'
    OBVIOUS
  <2> USE DEF LockTypeOK, NoForgottenWriter, Goto
  <2>0. LockTypeOK /\ CountsExact /\ readCount \in Nat /\ readCount' \in Nat
    BY NextLockInv, CountsNatural, CountsNaturalNext DEF LockInv
  <2>1. CASE UNCHANGED rwVars
    BY <2>1 DEF rwVars, At
  <2>2. ASSUME NEW t \in Threads, ReadLock(t) \/ ReadWake(t)
        PROVE  NoForgottenWriter'
    BY <2>0, <2>2 DEF ReadLock, ReadWake, TryRead, At
  <2>3. ASSUME NEW t \in Threads, ReadUnlock(t) PROVE NoForgottenWriter'
    <3>1. CASE readCount' # 0
      BY <2>0, <2>3, <3>1 DEF ReadUnlock, At
    <3>2. CASE readCount' = 0 /\ writeCount = 1
      <4>1. \A u, w \in At("wq") : u = w
        BY <2>0, <3>2, LoneWriter DEF WriterSet
      <4> QED BY <2>0, <2>3, <3>2, <4>1 DEF ReadUnlock, LeaveNotifyOne, At
    <3>3. CASE writeCount # 1
      BY <2>3, <3>3 DEF ReadUnlock
    <3> QED BY <3>1, <3>2, <3>3
  <2>4. ASSUME NEW t \in Threads, WriteLock(t) PROVE NoForgottenWriter'
    <3>1. CASE writeCount = 0
      <4>1. At("wq") = {}
        BY <2>0, <3>1, LockInvPositive DEF WriterSet
      <4> QED BY <2>0, <2>4, <3>1, <4>1 DEF WriteLock, CanWrite, At
    <3>2. CASE writeCount # 0
      BY <2>0, <2>4, <3>2 DEF WriteLock
    <3> QED BY <3>1, <3>2
  <2>5. ASSUME NEW t \in Threads, WriteWake(t) PROVE NoForgottenWriter'
    BY <2>0, <2>5 DEF WriteWake, CanWrite, At
  <2>6. ASSUME NEW t \in Threads, WriteUnlock(t) PROVE NoForgottenWriter'
    <3>1. CASE writeCount' = 1
      <4>1. (\A u \in WriterSet : WriterSet = {u})'
        BY <3>1, NextLockInv, LoneWriterNext DEF LockInv
      <4> QED BY <2>0, <2>6, <3>1, <4>1
              DEF WriteUnlock, LeaveNotifyOne, WriterSet, At
    <3>2. CASE writeCount' # 1
      BY <3>2
    <3> QED BY <3>1, <3>2
  <2>7. ASSUME NEW t \in Threads, Spurious(t) PROVE NoForgottenWriter'
    BY <2>0, <2>7 DEF Spurious, At
  <2> QED BY <2>1, <2>2, <2>3, <2>4, <2>5, <2>6, <2>7 DEF LockNext
<1> QED BY <1>1, <1>2, LockInvAlways, PTL DEF LockSpec

(* Once a writer waits no reader gets in before it, in every step.         *)
THEOREM LockWriterPreference == LockSpec => WriterPreference
<1>1. LockInv /\ [LockNext]_rwVars =>
        [\A t \in Threads :
           pc[t] # "reading" /\ pc'[t] = "reading"
             => At("wq") \cup At("wqWoken") = {}]_rwVars
  <2> SUFFICES ASSUME LockInv, LockNext, NEW t \in Threads,
                      pc[t] # "reading", pc'[t] = "reading"
               PROVE  At("wq") \cup At("wqWoken") = {}
    OBVIOUS
  <2>1. CanRead(writeCount)
    BY DEF LockInv, LockTypeOK, LockNext, ReadLock, ReadWake, ReadUnlock, WriteLock,
           WriteWake, WriteUnlock, Spurious, TryRead, Goto, At,
           LeaveNotifyOne, LeaveNotifyReaders
  <2> QED BY <2>1, CanReadMeans DEF LockInv, WriterSet
<1> QED BY <1>1, LockInvAlways, PTL DEF LockSpec, WriterPreference

(* The two counters and two condition variables implement the lock that    *)
(* AbstractRWLock describes: every step acquires or releases as it allows, *)
(* or changes nothing a client sees.                                       *)
THEOREM LockImplementsAbstract == LockSpec => ImplementsLock
<1> USE DEF Lock!lockVars
<1>1. LockInit => Lock!Init
  BY DEF LockInit, Lock!Init, At
<1>2. LockInv /\ [LockNext]_rwVars => [Lock!Next]_(Lock!lockVars)
  <2> SUFFICES ASSUME LockInv, [LockNext]_rwVars PROVE [Lock!Next]_(Lock!lockVars)
    OBVIOUS
  <2>0. LockTypeOK /\ CountsExact /\ MutualExclusion
    BY DEF LockInv
  <2>1. CASE UNCHANGED rwVars
    BY <2>1 DEF rwVars, At
  <2>2. ASSUME NEW t \in Threads, ReadLock(t) \/ ReadWake(t)
        PROVE  [Lock!Next]_(Lock!lockVars)
    <3>1. /\ At("writing")' = At("writing")
          /\ \/ WriterSet = {} /\ At("reading")' = At("reading") \cup {t}
             \/ At("reading")' = At("reading")
      BY <2>0, <2>2, TryReadStep DEF ReadLock, ReadWake
    <3>2. t \notin At("reading") \cup At("writing")
      BY <2>2 DEF At, ReadLock, ReadWake
    <3> QED BY <3>1, <3>2 DEF Lock!Next, Lock!AcquireRead, WriterSet
  <2>3. ASSUME NEW t \in Threads, ReadUnlock(t)
        PROVE  [Lock!Next]_(Lock!lockVars)
    <3>1. t \in At("reading")
      BY <2>3 DEF At, ReadUnlock
    <3> QED BY <2>0, <2>3, <3>1, ReadUnlockStep DEF Lock!Next, Lock!ReleaseRead
  <2>4. ASSUME NEW t \in Threads, WriteLock(t)
        PROVE  [Lock!Next]_(Lock!lockVars)
    BY <2>0, <2>4, WriteLockStep DEF Lock!Next, Lock!AcquireWrite
  <2>5. ASSUME NEW t \in Threads, WriteWake(t)
        PROVE  [Lock!Next]_(Lock!lockVars)
    BY <2>0, <2>5, WriteWakeStep DEF Lock!Next, Lock!AcquireWrite
  <2>6. ASSUME NEW t \in Threads, WriteUnlock(t)
        PROVE  [Lock!Next]_(Lock!lockVars)
    <3>1. t \in At("writing")
      BY <2>6 DEF At, WriteUnlock
    <3> QED BY <2>0, <2>6, <3>1, WriteUnlockStep
            DEF Lock!Next, Lock!ReleaseWrite
  <2>7. ASSUME NEW t \in Threads, Spurious(t)
        PROVE  [Lock!Next]_(Lock!lockVars)
    BY <2>0, <2>7, SpuriousStep
  <2> QED BY <2>1, <2>2, <2>3, <2>4, <2>5, <2>6, <2>7 DEF LockNext
<1> QED BY <1>1, <1>2, LockInvAlways, PTL DEF LockSpec, ImplementsLock, Lock!Spec
=============================================================================
