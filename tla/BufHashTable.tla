---------------------------- MODULE BufHashTable ----------------------------
(***************************************************************************)
(* storage/bufhashtable.cpp: chained buckets of heap-allocated entries.    *)
(* find runs under the read lock of rwLock and insert under its write      *)
(* lock; remove takes no lock (line 97 is commented out), so its loads and *)
(* stores are steps of their own, and so are those it can meet in the      *)
(* other two.  The lock is AbstractRWLock, which RWLock implements.        *)
(***************************************************************************)
EXTENDS Integers, FiniteSets, Sequences, Chains

CONSTANTS Threads,
          Keys,        \* pages, as <<fd, pageNum>>
          Slots,       \* frames
          NumBuckets,
          Entries,     \* heap blocks an entry can live in
          Null, Absent

ASSUME TableAssumption ==
  /\ NumBuckets \in Nat \ {0}
  /\ Keys \subseteq Nat \X Nat /\ IsFiniteSet(Keys) /\ IsFiniteSet(Entries)
  /\ Null \notin Entries /\ Absent \notin Slots
  /\ Slots # {} /\ Keys # {} /\ Cardinality(Entries) > Cardinality(Keys)

Hash(k) == (k[1] + k[2]) % NumBuckets
Buckets == 0 .. NumBuckets - 1

VARIABLES hashTable,             \* the head of every bucket
          next, prev, key, slot, \* the fields of the entries
          live,                  \* the blocks that are allocated
          readers, writers,      \* rwLock
          pc, arg, cur,          \* a call's step, its key, its loop's entry
          ret                    \* what the last call of a thread returned

fields == <<next, prev, key, slot>>
heap == <<hashTable, fields, live>>
lock == <<readers, writers>>
vars == <<heap, lock, pc, arg, cur, ret>>

Lock == INSTANCE AbstractRWLock

(* What a field holds that no call may read. *)
AnyKey == CHOOSE k \in Keys : TRUE
AnySlot == CHOOSE s \in Slots : TRUE

Init ==
  /\ hashTable = [b \in Buckets |-> Null]
  /\ next = [e \in Entries |-> Null] /\ prev = [e \in Entries |-> Null]
  /\ key = [e \in Entries |-> AnyKey] /\ slot = [e \in Entries |-> AnySlot]
  /\ live = {}
  /\ Lock!Init
  /\ pc = [t \in Threads |-> "idle"]
  /\ arg = [t \in Threads |-> <<AnyKey, AnySlot>>]
  /\ cur = [t \in Threads |-> Null]
  /\ ret = [t \in Threads |-> "none"]

Key(t) == arg[t][1]
Bucket(t) == Hash(Key(t))
(* Bugs the properties must reject are named ..Wrong: here the comparison  *)
(* takes one page of the bucket for another.                               *)
MatchesWrong(t) == cur[t] # Null /\ Hash(key[cur[t]]) = Bucket(t)

Matches(t) == cur[t] # Null /\ key[cur[t]] = Key(t)

Goto(t, from, to) == pc[t] = from /\ pc' = [pc EXCEPT ![t] = to]
(* A call by t for key k begins its loop at the head of k's bucket. *)
Call(t, op, k, s) ==
  /\ Goto(t, "idle", op)
  /\ arg' = [arg EXCEPT ![t] = <<k, s>>]
  /\ cur' = [cur EXCEPT ![t] = hashTable[Hash(k)]]
  /\ UNCHANGED <<heap, ret>>
Return(t, from, r) ==
  /\ Goto(t, from, "idle")
  /\ ret' = [ret EXCEPT ![t] = r]
  /\ cur' = [cur EXCEPT ![t] = Null]
  /\ arg' = [arg EXCEPT ![t] = <<AnyKey, AnySlot>>]

(* One turn of the loop the three operations share. *)
Advance(t) ==
  /\ pc[t] \in {"find", "insert", "remove"}
  /\ cur[t] # Null /\ ~Matches(t)
  /\ cur' = [cur EXCEPT ![t] = next[cur[t]]]
  /\ UNCHANGED <<heap, lock, pc, arg, ret>>
-----------------------------------------------------------------------------
Find(t, k) ==
  /\ Lock!AcquireRead(t)
  /\ Call(t, "find", k, AnySlot)

FindReturns(t) ==
  /\ pc[t] = "find"
  /\ \/ Matches(t) /\ Return(t, "find", slot[cur[t]])
     \/ cur[t] = Null /\ Return(t, "find", "PF_HASHNOTFOUND")
  /\ Lock!ReleaseRead(t)
  /\ UNCHANGED heap

Insert(t, k, s) ==
  /\ Lock!AcquireWrite(t)
  /\ Call(t, "insert", k, s)

InsertExists(t) ==
  /\ pc[t] = "insert" /\ Matches(t)
  /\ Return(t, "insert", "PF_HASHPAGEEXIST")
  /\ Lock!ReleaseWrite(t)
  /\ UNCHANGED heap

(* new BufHashEntry, in any free block (which one nothing depends on), its *)
(* fields set, its next the current head.                                  *)
NewEntry(t) ==
  /\ pc[t] = "insert" /\ cur[t] = Null
  /\ Goto(t, "insert", "backLink")
  /\ LET e == CHOOSE x \in Entries \ live : TRUE
     IN
       /\ live' = live \cup {e}
       /\ key' = [key EXCEPT ![e] = Key(t)]
       /\ slot' = [slot EXCEPT ![e] = arg[t][2]]
       /\ next' = [next EXCEPT ![e] = hashTable[Bucket(t)]]
       /\ prev' = [prev EXCEPT ![e] = Null]
       /\ cur' = [cur EXCEPT ![t] = e]
  /\ UNCHANGED <<hashTable, lock, arg, ret>>

BackLink(t) ==
  /\ Goto(t, "backLink", "setHead")
  /\ LET h == hashTable[Bucket(t)]
     IN prev' = IF h = Null THEN prev ELSE [prev EXCEPT ![h] = cur[t]]
  /\ UNCHANGED <<hashTable, next, key, slot, live, lock, arg, cur, ret>>

SetHead(t) ==
  /\ Goto(t, "setHead", "verify")
  /\ hashTable' = [hashTable EXCEPT ![Bucket(t)] = cur[t]]
  /\ UNCHANGED <<fields, live, lock, arg, cur, ret>>

(* The re-read of the head; an empty bucket is a null dereference there.   *)
InsertReturns(t) ==
  /\ pc[t] = "verify"
  /\ LET h == hashTable[Bucket(t)]
         same == h # Null /\ key[h] = Key(t)
     IN Return(t, "verify", IF same THEN "ok" ELSE "HASH_INCONSISTENT")
  /\ Lock!ReleaseWrite(t)
  /\ UNCHANGED heap

Remove(t, k) ==
  /\ Call(t, "remove", k, AnySlot)
  /\ UNCHANGED lock

RemoveNotFound(t) ==
  /\ pc[t] = "remove" /\ cur[t] = Null
  /\ Return(t, "remove", "PF_HASHNOTFOUND")
  /\ UNCHANGED <<heap, lock>>

(* entry == hashTable[bucket], and the three stores around the entry.      *)
RemoveFound(t) ==
  /\ pc[t] = "remove" /\ Matches(t)
  /\ Goto(t, "remove", IF cur[t] = hashTable[Bucket(t)] THEN "cutHead" ELSE "cutNext")
  /\ UNCHANGED <<heap, lock, arg, cur, ret>>

CutHead(t) ==
  /\ Goto(t, "cutHead", "cutNext")
  /\ hashTable' = [hashTable EXCEPT ![Bucket(t)] = next[cur[t]]]
  /\ UNCHANGED <<fields, live, lock, arg, cur, ret>>

(* The predecessor, or the successor, keeps its link to the entry. *)
CutNextWrong(t) ==
  /\ Goto(t, "cutNext", "cutPrev")
  /\ UNCHANGED <<heap, lock, arg, cur, ret>>
CutPrevWrong(t) ==
  /\ Goto(t, "cutPrev", "delete")
  /\ UNCHANGED <<heap, lock, arg, cur, ret>>

CutNext(t) ==
  /\ Goto(t, "cutNext", "cutPrev")
  /\ LET before == prev[cur[t]]
     IN next' = IF before = Null THEN next
                ELSE [next EXCEPT ![before] = next[cur[t]]]
  /\ UNCHANGED <<hashTable, prev, key, slot, live, lock, arg, cur, ret>>

CutPrev(t) ==
  /\ Goto(t, "cutPrev", "delete")
  /\ LET after == next[cur[t]]
     IN prev' = IF after = Null THEN prev
                ELSE [prev EXCEPT ![after] = prev[cur[t]]]
  /\ UNCHANGED <<hashTable, next, key, slot, live, lock, arg, cur, ret>>

Delete(t) ==
  /\ pc[t] = "delete"
  /\ Return(t, "delete", "ok")
  /\ live' = live \ {cur[t]}
  /\ next' = [next EXCEPT ![cur[t]] = Null]
  /\ prev' = [prev EXCEPT ![cur[t]] = Null]
  /\ key' = [key EXCEPT ![cur[t]] = AnyKey]
  /\ slot' = [slot EXCEPT ![cur[t]] = AnySlot]
  /\ UNCHANGED <<hashTable, lock>>
-----------------------------------------------------------------------------
Locking(t) ==
  \E k \in Keys : Find(t, k) \/ \E s \in Slots : Insert(t, k, s)
Continue(t) ==
  \/ Advance(t) \/ FindReturns(t)
  \/ InsertExists(t) \/ NewEntry(t) \/ BackLink(t) \/ SetHead(t) \/ InsertReturns(t)
  \/ RemoveNotFound(t) \/ RemoveFound(t) \/ CutHead(t) \/ CutNext(t) \/ CutPrev(t)
  \/ Delete(t)

Removing == {"remove", "cutHead", "cutNext", "cutPrev", "delete"}
Idle == \A t \in Threads : pc[t] = "idle"

(* The callers keep every remove to itself, as a one-threaded pool does. *)
RemoveAloneNext ==
  \E t \in Threads :
    \/ (\A u \in Threads : pc[u] \notin Removing) /\ Locking(t)
    \/ Continue(t)
    \/ Idle /\ \E k \in Keys : Remove(t, k)

RemoveAloneSpec == Init /\ [][RemoveAloneNext]_vars
-----------------------------------------------------------------------------
EntryOrNull == Entries \cup {Null}

TypeOK ==
  /\ hashTable \in [Buckets -> EntryOrNull]
  /\ next \in [Entries -> EntryOrNull] /\ prev \in [Entries -> EntryOrNull]
  /\ key \in [Entries -> Keys] /\ slot \in [Entries -> Slots]
  /\ live \subseteq Entries
  /\ arg \in [Threads -> Keys \X Slots] /\ cur \in [Threads -> EntryOrNull]
  /\ DOMAIN ret = Threads

(* Between calls every bucket is a doubly linked list of the allocated     *)
(* entries that hash to it, each once, no page is entered twice, and no    *)
(* entry is lost.                                                          *)
ChainsSound ==
  Idle =>
    /\ \A b \in Buckets :
         /\ ChainIs(next, hashTable[b], {e \in live : Hash(key[e]) = b}, Null)
         /\ hashTable[b] # Null => prev[hashTable[b]] = Null
    /\ \A e \in live : next[e] # Null => prev[next[e]] = e
    /\ \A d, e \in live : key[d] = key[e] => d = e

(* The map the chains represent. *)
SlotOf(hits) == IF hits = {} THEN Absent ELSE slot[CHOOSE e \in hits : TRUE]
Lookup(k) == SlotOf({e \in Reach(next, hashTable[Hash(k)]) : key[e] = k})

Map == INSTANCE SlotMap WITH map <- [k \in Keys |-> Lookup(k)]

(* insert and remove change the map of exactly the page they are for, each *)
(* in a single step.                                                       *)
ImplementsMap == Map!Spec

(* find answers with what the map holds when it returns. *)
FindAnswersRight ==
  [][\A t \in Threads :
       pc[t] = "find" /\ pc'[t] = "idle" =>
         ret'[t] = IF Lookup(Key(t)) = Absent THEN "PF_HASHNOTFOUND"
                   ELSE Lookup(Key(t))]_vars
=============================================================================
