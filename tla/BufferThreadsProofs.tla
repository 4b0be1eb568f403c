------------------------- MODULE BufferThreadsProofs -------------------------
(***************************************************************************)
(* Proofs about BufferThreads, for any number of threads, frames and pages.*)
(*                                                                         *)
(* When calls do not overlap, the links thread two lists at every step of  *)
(* every call.  The induction names the lists: SerialInv(t, u, f) says     *)
(* that u is the used list and f the free list, that every frame is on one *)
(* of them or in the hand of the call of t, and which frames the hash      *)
(* table has entries for.  A lemma for each action says which lists it     *)
(* leaves, and what it leaves is one step of SlotLists.  When calls do     *)
(* overlap, the lists may break, but no index leaves the pool.             *)
(***************************************************************************)
EXTENDS BufferThreads, Lemmas, SequenceTheorems

-----------------------------------------------------------------------------
(* Lists without duplicates, and what is at a place of a list. *)
List(S, s) == s \in Seq(S) /\ IsInjective(s)
(* What is at place i of s, or no frame when s has no such place.          *)
At(s, i) == IF i \in DOMAIN s THEN s[i] ELSE INVALID_SLOT

(* A list as a function of its places.                                     *)
LEMMA ListFacts ==
  ASSUME NEW S, NEW s, List(S, s)
  PROVE  /\ Len(s) \in Nat /\ DOMAIN s = 1 .. Len(s)
         /\ \A i \in 1 .. Len(s) : s[i] \in S
         /\ \A i, j \in 1 .. Len(s) : s[i] = s[j] => i = j
         /\ ToSet(s) = {s[i] : i \in 1 .. Len(s)}
BY DEF List, IsInjective, ToSet

(* A new head moves every element one place on.                            *)
LEMMA FrontFacts ==
  ASSUME NEW S, NEW s, List(S, s), NEW e \in S, e \notin ToSet(s)
  PROVE  /\ List(S, Cons(e, s)) /\ ToSet(Cons(e, s)) = ToSet(s) \cup {e}
         /\ Len(Cons(e, s)) = Len(s) + 1
         /\ \A i \in Int : At(Cons(e, s), i) = IF i = 1 THEN e ELSE At(s, i - 1)
<1>1. PICK r : r = Cons(e, s)
  OBVIOUS
<1>2. PICK n \in Nat : n = Len(s)
  BY ListFacts
<1>3. /\ r \in Seq(S) /\ Len(r) = n + 1
      /\ \A i \in 1 .. n + 1 : r[i] = IF i = 1 THEN e ELSE s[i - 1]
  BY <1>1, <1>2 DEF List, Cons
<1>4. DOMAIN r = 1 .. n + 1 /\ DOMAIN s = 1 .. n
  BY <1>2, <1>3, ListFacts
<1>5. ASSUME NEW i \in Int
      PROVE  At(r, i) = IF i = 1 THEN e ELSE At(s, i - 1)
  BY <1>3, <1>4 DEF At
<1>6. \A i \in 1 .. n : s[i] # e
  BY <1>2, ListFacts
<1>7. \A i \in 2 .. n + 1 : i - 1 \in 1 .. n /\ r[i] = s[i - 1]
  BY <1>3
<1>8. r[1] = e /\ 1 \in 1 .. n + 1
  BY <1>3
<1>9. \A i \in 1 .. n + 1 : i = 1 \/ i \in 2 .. n + 1
  OBVIOUS
<1>10. ASSUME NEW a \in 1 .. n + 1, NEW b \in 1 .. n + 1, r[a] = r[b]
       PROVE  a = b
  <2>1. CASE a \in 2 .. n + 1 /\ b \in 2 .. n + 1
    <3>1. a - 1 = b - 1
      BY <1>2, <1>7, <1>10, <2>1, ListFacts
    <3> QED BY <3>1
  <2> QED BY <1>6, <1>7, <1>8, <1>9, <1>10, <2>1
<1>11. IsInjective(r)
  BY <1>4, <1>10 DEF IsInjective
<1>12. ToSet(r) = ToSet(s) \cup {e}
  <2>1. ASSUME NEW i \in 1 .. n + 1 PROVE r[i] \in ToSet(s) \cup {e}
    BY <1>2, <1>7, <1>8, <1>9, ListFacts
  <2>2. ASSUME NEW i \in 1 .. n PROVE s[i] \in ToSet(r)
    <3>1. i + 1 \in 1 .. n + 1 /\ r[i + 1] = s[i]
      BY <1>3
    <3> QED BY <1>4, <3>1 DEF ToSet
  <2>3. e \in ToSet(r)
    BY <1>4, <1>8 DEF ToSet
  <2>4. ToSet(r) = {r[i] : i \in 1 .. n + 1} /\ ToSet(s) = {s[i] : i \in 1 .. n}
    BY <1>4 DEF ToSet
  <2> QED BY <2>1, <2>2, <2>3, <2>4
<1> QED BY <1>1, <1>2, <1>3, <1>5, <1>11, <1>12 DEF List

(* Taking out place k moves what is behind it one place up.                *)
LEMMA CutFacts ==
  ASSUME NEW S, NEW s, List(S, s), NEW k \in DOMAIN s
  PROVE  /\ List(S, RemoveAt(s, k)) /\ ToSet(RemoveAt(s, k)) = ToSet(s) \ {s[k]}
         /\ Len(RemoveAt(s, k)) = Len(s) - 1
         /\ \A i \in Int : At(RemoveAt(s, k), i) = IF i < k THEN At(s, i) ELSE At(s, i + 1)
<1>1. PICK r : r = RemoveAt(s, k)
  OBVIOUS
<1>2. PICK n \in Nat : n = Len(s)
  BY ListFacts
<1>3. k \in 1 .. n /\ \A i \in 1 .. n : s[i] \in S
  BY <1>2, ListFacts
<1>4. /\ r \in Seq(S) /\ Len(r) = n - 1
      /\ \A i \in 1 .. n - 1 : r[i] = IF i < k THEN s[i] ELSE s[i + 1]
  <2>1. r = SubSeq(s, 1, k - 1) \o SubSeq(s, k + 1, n)
    BY <1>1, <1>2 DEF RemoveAt
  <2>2. PICK a : a = SubSeq(s, 1, k - 1)
    OBVIOUS
  <2>3. PICK b : b = SubSeq(s, k + 1, n)
    OBVIOUS
  <2>4. a \in Seq(S) /\ Len(a) = k - 1 /\ \A i \in 1 .. k - 1 : a[i] = s[i]
    <3>1. k - 1 \in 0 .. n /\ 1 \in 1 .. n + 1 /\ s \in Seq(S)
      BY <1>3 DEF List
    <3> QED BY <1>2, <1>3, <2>2, <3>1, SubSeqProperties
  <2>5. b \in Seq(S) /\ Len(b) = n - k /\ \A i \in 1 .. n - k : b[i] = s[i + k]
    <3>1. s \in Seq(S) /\ k + 1 \in 1 .. n + 1 /\ n \in 0 .. n
          /\ \A i \in k + 1 .. n : s[i] \in S
      BY <1>3 DEF List
    <3>2. /\ b \in Seq(S)
          /\ Len(b) = IF k + 1 <= n THEN n - (k + 1) + 1 ELSE 0
          /\ \A i \in 1 .. n - (k + 1) + 1 : b[i] = s[k + 1 + i - 1]
      BY <1>2, <2>3, <3>1, SubSeqProperties
    <3>3. Len(b) = n - k
      BY <1>3, <3>2
    <3>4. \A i \in 1 .. n - k : i \in 1 .. n - (k + 1) + 1 /\ k + 1 + i - 1 = i + k
      BY <1>3
    <3> QED BY <3>2, <3>3, <3>4
  <2>6. /\ r \in Seq(S) /\ Len(r) = Len(a) + Len(b)
        /\ \A i \in 1 .. Len(a) + Len(b) : r[i] = IF i <= Len(a) THEN a[i] ELSE b[i - Len(a)]
    BY <2>1, <2>2, <2>3, <2>4, <2>5, ConcatProperties
  <2>7. ASSUME NEW i \in 1 .. n - 1 PROVE r[i] = IF i < k THEN s[i] ELSE s[i + 1]
    <3>1. CASE i < k
      <4>1. i \in 1 .. k - 1 /\ i <= Len(a) /\ i \in 1 .. Len(a) + Len(b)
        BY <1>3, <2>4, <2>5, <3>1
      <4> QED BY <2>4, <2>6, <3>1, <4>1
    <3>2. CASE ~(i < k)
      <4>1. i - (k - 1) \in 1 .. n - k /\ ~(i <= Len(a)) /\ i \in 1 .. Len(a) + Len(b)
            /\ i - (k - 1) + k = i + 1
        BY <1>3, <2>4, <2>5, <3>2
      <4>2. b[i - (k - 1)] = s[i - (k - 1) + k]
        BY <2>5, <4>1
      <4> QED BY <2>4, <2>6, <3>2, <4>1, <4>2
    <3> QED BY <3>1, <3>2
  <2>8. Len(r) = n - 1
    BY <1>3, <2>4, <2>5, <2>6
  <2> QED BY <2>6, <2>7, <2>8
<1>5. DOMAIN r = 1 .. n - 1 /\ DOMAIN s = 1 .. n
  BY <1>2, <1>3, <1>4, ListFacts
<1>6. ASSUME NEW i \in Int
      PROVE  At(r, i) = IF i < k THEN At(s, i) ELSE At(s, i + 1)
  BY <1>3, <1>4, <1>5 DEF At
<1>7. \A i \in 1 .. n - 1 : \E j \in 1 .. n : r[i] = s[j] /\ j # k /\ j = IF i < k THEN i ELSE i + 1
  BY <1>3, <1>4
<1>8. \A j \in 1 .. n : j # k => \E i \in 1 .. n - 1 : r[i] = s[j]
  <2> SUFFICES ASSUME NEW j \in 1 .. n, j # k PROVE \E i \in 1 .. n - 1 : r[i] = s[j]
    OBVIOUS
  <2>1. CASE j < k
    <3>1. j \in 1 .. n - 1
      BY <1>3, <2>1
    <3> QED BY <1>4, <2>1, <3>1
  <2>2. CASE j > k
    <3>1. j - 1 \in 1 .. n - 1 /\ ~(j - 1 < k) /\ (j - 1) + 1 = j
      BY <1>3, <2>2
    <3> QED BY <1>4, <3>1
  <2> QED BY <1>3, <2>1, <2>2
<1>9. IsInjective(r)
  <2> SUFFICES ASSUME NEW a \in 1 .. n - 1, NEW b \in 1 .. n - 1, r[a] = r[b]
               PROVE  a = b
    BY <1>5 DEF IsInjective
  <2>1. PICK x \in 1 .. n : r[a] = s[x] /\ x = IF a < k THEN a ELSE a + 1
    BY <1>7
  <2>2. PICK y \in 1 .. n : r[b] = s[y] /\ y = IF b < k THEN b ELSE b + 1
    BY <1>7
  <2>3. x = y
    BY <1>2, <2>1, <2>2, ListFacts
  <2> QED BY <1>3, <2>1, <2>2, <2>3
<1>10. ToSet(r) = ToSet(s) \ {s[k]}
  <2>1. ToSet(r) = {r[i] : i \in 1 .. n - 1} /\ ToSet(s) = {s[i] : i \in 1 .. n}
    BY <1>5 DEF ToSet
  <2>2. \A j \in 1 .. n : s[j] = s[k] => j = k
    BY <1>2, <1>3, ListFacts
  <2> QED BY <1>7, <1>8, <2>1, <2>2
<1> QED BY <1>1, <1>2, <1>4, <1>6, <1>9, <1>10 DEF List

(* Taking off the head moves every element one place up.                   *)
LEMMA RestFacts ==
  ASSUME NEW S, NEW s, List(S, s), s # << >>
  PROVE  /\ Head(s) = At(s, 1) /\ Head(s) \in ToSet(s)
         /\ List(S, Tail(s)) /\ ToSet(Tail(s)) = ToSet(s) \ {Head(s)}
         /\ \A i \in Nat \ {0} : At(Tail(s), i) = At(s, i + 1)
<1>1. PICK n \in Nat : n = Len(s)
  BY ListFacts
<1>2. PICK r : r = Tail(s)
  OBVIOUS
<1>3. /\ n # 0 /\ DOMAIN s = 1 .. n /\ Head(s) = s[1]
      /\ r \in Seq(S) /\ Len(r) = n - 1 /\ \A i \in 1 .. n - 1 : r[i] = s[i + 1]
  BY <1>1, <1>2, HeadTailProperties DEF List
<1>4. DOMAIN r = 1 .. n - 1 /\ 1 \in 1 .. n
  BY <1>3
<1>5. ASSUME NEW i \in Nat \ {0} PROVE At(r, i) = At(s, i + 1)
  BY <1>3, <1>4 DEF At
<1>6. IsInjective(r)
  <2> SUFFICES ASSUME NEW a \in 1 .. n - 1, NEW b \in 1 .. n - 1, r[a] = r[b]
               PROVE  a = b
    BY <1>4 DEF IsInjective
  <2>1. a + 1 \in 1 .. n /\ b + 1 \in 1 .. n /\ s[a + 1] = s[b + 1]
    BY <1>3
  <2>2. a + 1 = b + 1
    BY <1>1, <2>1, ListFacts
  <2> QED BY <2>2
<1>7. ToSet(r) = ToSet(s) \ {s[1]}
  <2>1. ToSet(r) = {r[i] : i \in 1 .. n - 1} /\ ToSet(s) = {s[i] : i \in 1 .. n}
    BY <1>3, <1>4 DEF ToSet
  <2>2. \A j \in 1 .. n : s[j] = s[1] => j = 1
    BY <1>1, <1>4, ListFacts
  <2>3. \A i \in 1 .. n - 1 : i + 1 \in 1 .. n /\ i + 1 # 1 /\ r[i] = s[i + 1]
    BY <1>3
  <2>4. \A j \in 1 .. n : j # 1 => j - 1 \in 1 .. n - 1 /\ r[j - 1] = s[j]
    BY <1>3
  <2> QED BY <2>1, <2>2, <2>3, <2>4
<1>8. Head(s) = At(s, 1) /\ Head(s) \in ToSet(s)
  BY <1>3, <1>4 DEF At, ToSet
<1> QED BY <1>2, <1>3, <1>5, <1>6, <1>7, <1>8 DEF List

-----------------------------------------------------------------------------
(* s is the list that starts in head and that succ links.                  *)
Path(succ, head, s) == head = At(s, 1) /\ \A i \in DOMAIN s : succ[s[i]] = At(s, i + 1)

(* Then it is what a walk from head meets.                                 *)
LEMMA PathIsChain ==
  ASSUME NEW S, IsFiniteSet(S), INVALID_SLOT \notin S, NEW succ, DOMAIN succ = S,
         NEW head, NEW s, List(S, s), Path(succ, head, s)
  PROVE  Chain(succ, head) = s
<1>1. PICK n \in Nat : n = Len(s)
  BY ListFacts
<1>2. PICK m \in Nat : m = Cardinality(S)
  BY FS_CardinalityType
<1>3. n <= m
  <2>1. IsFiniteSet(1 .. n) /\ Cardinality(1 .. n) = n
    <3>1. 1 \in Int /\ n \in Int /\ (1 > n => n = 0) /\ n - 1 + 1 = n
      OBVIOUS
    <3> QED BY <3>1, FS_Interval
  <2>2. s \in Injection(1 .. n, S)
    <3>1. s \in [1 .. n -> S] /\ IsInjective(s)
      BY <1>1 DEF List
    <3> QED BY <3>1 DEF Injection, IsInjective
  <2> QED BY <1>2, <2>1, <2>2, FS_Injection
<1>4. PICK e : e = [i \in 0 .. m |-> At(s, i + 1)]
  OBVIOUS
<1>5. \A i \in 0 .. m : IF i < n THEN e[i] = s[i + 1] /\ e[i] \in S ELSE e[i] = INVALID_SLOT
  <2> SUFFICES ASSUME NEW i \in 0 .. m
               PROVE  IF i < n THEN e[i] = s[i + 1] /\ e[i] \in S ELSE e[i] = INVALID_SLOT
    OBVIOUS
  <2>1. i < n => i + 1 \in 1 .. n
    OBVIOUS
  <2>2. ~(i < n) => i + 1 \notin 1 .. n
    OBVIOUS
  <2> QED BY <1>1, <1>4, <2>1, <2>2, ListFacts DEF At
<1>6. Follows(succ, head, m, e)
  <2> SUFFICES ASSUME NEW i \in 1 .. m
               PROVE  e[i] = IF e[i - 1] \in DOMAIN succ THEN succ[e[i - 1]] ELSE e[i - 1]
    <3>1. \A i \in 0 .. m : i # 0 => i \in 1 .. m
      OBVIOUS
    <3>2. e[0] = head
      BY <1>4 DEF Path
    <3>3. (\A i \in 1 .. m : e[i] = IF e[i - 1] \in DOMAIN succ THEN succ[e[i - 1]] ELSE e[i - 1])
          => \A i \in 0 .. m : e[i] = IF i = 0 THEN head
               ELSE IF e[i - 1] \in DOMAIN succ THEN succ[e[i - 1]] ELSE e[i - 1]
      BY <3>1, <3>2
    <3>4. e = [i \in 0 .. m |-> e[i]]
      BY <1>4
    <3> QED BY <3>3, <3>4 DEF Follows
  <2>1. i - 1 \in 0 .. m /\ i \in 0 .. m
    OBVIOUS
  <2>2. CASE i - 1 < n
    <3>1. i \in DOMAIN s /\ (i - 1) + 1 = i
      BY <1>1, <2>2, ListFacts
    <3>2. succ[s[i]] = At(s, i + 1) /\ e[i] = At(s, i + 1)
      BY <1>4, <2>1, <3>1 DEF Path
    <3>3. e[i - 1] = s[i] /\ e[i - 1] \in S
      BY <1>5, <2>1, <2>2, <3>1
    <3> QED BY <3>2, <3>3
  <2>3. CASE ~(i - 1 < n)
    <3>1. ~(i < n)
      BY <2>3
    <3>2. e[i - 1] = INVALID_SLOT /\ e[i] = INVALID_SLOT
      BY <1>5, <2>1, <2>3, <3>1
    <3> QED BY <3>2
  <2> QED BY <2>2, <2>3
<1>7. PICK w : w = Walk(succ, head, m)
  OBVIOUS
<1>8. \A i \in 0 .. m : w[i] = e[i]
  BY <1>6, <1>7, WalkIs
<1>9. {i \in 0 .. m : w[i] \in S} = 0 .. n - 1
  BY <1>3, <1>5, <1>8
<1>10. Cardinality(0 .. n - 1) = n
  <2>1. 0 \in Int /\ n - 1 \in Int /\ (0 > n - 1 => n = 0) /\ (n - 1) - 0 + 1 = n
    OBVIOUS
  <2> QED BY <2>1, FS_Interval
<1>11. \A i \in 1 .. n : w[i - 1] = s[i]
  <2> TAKE i \in 1 .. n
  <2>1. i - 1 \in 0 .. m /\ i - 1 < n /\ (i - 1) + 1 = i
    BY <1>3
  <2> QED BY <1>5, <1>8, <2>1
<1>12. s = [i \in 1 .. n |-> s[i]]
  BY <1>1 DEF List
<1>13. Chain(succ, head) = [i \in 1 .. n |-> w[i - 1]]
  BY <1>2, <1>7, <1>9, <1>10 DEF Chain
<1> QED BY <1>11, <1>12, <1>13

(* A list read backwards. *)
LEMMA ReverseFacts ==
  ASSUME NEW S, NEW s, List(S, s)
  PROVE  /\ List(S, Reverse(s)) /\ Len(Reverse(s)) = Len(s)
         /\ Reverse(Reverse(s)) = s
         /\ \A i \in Int : At(Reverse(s), i) = At(s, Len(s) - i + 1)
<1>1. PICK n \in Nat : n = Len(s)
  BY ListFacts
<1>2. PICK r : r = Reverse(s)
  OBVIOUS
<1>3. \A i \in 1 .. n : (n - i) + 1 \in 1 .. n
  OBVIOUS
<1>4. r \in Seq(S) /\ Len(r) = n /\ DOMAIN r = 1 .. n
      /\ \A i \in 1 .. n : r[i] = s[(n - i) + 1]
  BY <1>1, <1>2, <1>3 DEF Reverse, List
<1>5. IsInjective(r)
  <2> SUFFICES ASSUME NEW a \in 1 .. n, NEW b \in 1 .. n, r[a] = r[b] PROVE a = b
    BY <1>4 DEF IsInjective
  <2>1. (n - a) + 1 = (n - b) + 1
    BY <1>1, <1>3, <1>4, ListFacts
  <2> QED BY <2>1
<1>6. Reverse(r) = s
  <2>1. \A i \in 1 .. n : r[(n - i) + 1] = s[i]
    <3> TAKE i \in 1 .. n
    <3>1. (n - ((n - i) + 1)) + 1 = i
      OBVIOUS
    <3> QED BY <1>3, <1>4, <3>1
  <2>2. Reverse(r) = [i \in 1 .. n |-> r[(n - i) + 1]]
    BY <1>4 DEF Reverse
  <2>3. s = [i \in 1 .. n |-> s[i]]
    BY <1>1 DEF List
  <2> QED BY <2>1, <2>2, <2>3
<1>7. ASSUME NEW i \in Int PROVE At(r, i) = At(s, n - i + 1)
  <2>1. i \in 1 .. n <=> n - i + 1 \in 1 .. n
    OBVIOUS
  <2>2. DOMAIN s = 1 .. n
    BY <1>1, ListFacts
  <2> QED BY <1>4, <2>1, <2>2 DEF At
<1> QED BY <1>1, <1>2, <1>4, <1>5, <1>6, <1>7 DEF List

-----------------------------------------------------------------------------
(* back links s from its last element, tail, to its first.                 *)
BackPath(back, tail, s) ==
  tail = At(s, Len(s)) /\ \A i \in DOMAIN s : back[s[i]] = At(s, i - 1)
(* u is the used list and f is the free list: the links and the ends       *)
(* thread exactly these two, and no frame is on both.                      *)
Threaded(u, f) ==
  /\ List(Slots, u) /\ List(Slots, f) /\ ToSet(u) \cap ToSet(f) = {}
  /\ Path(next, usedHead, u) /\ BackPath(prev, usedTail, u)
  /\ Path(next, freeHead, f)
(* Every link is a frame or none.                                          *)
LinkTypes == next \in [Slots -> SlotOrNone] /\ prev \in [Slots -> SlotOrNone]

(* The frames are NumPages naturals, and no frame is not one of them.      *)
LEMMA SlotsFacts ==
  /\ INVALID_SLOT \notin Slots /\ IsFiniteSet(Slots) /\ Cardinality(Slots) = NumPages
  /\ Slots \subseteq Nat
<1>1. NumPages \in Nat /\ NumPages # 0
  BY ThreadsAssumption
<1>2. 0 \in Int /\ NumPages - 1 \in Int /\ ~(0 > NumPages - 1) /\ (NumPages - 1) - 0 + 1 = NumPages
  BY <1>1
<1> QED BY <1>1, <1>2, FS_Interval DEF Slots, INVALID_SLOT

(* Where a frame is on a list is told by the frame. *)
LEMMA AtOnce ==
  ASSUME NEW s, List(Slots, s), NEW i \in Int, NEW j \in DOMAIN s
  PROVE  /\ At(s, i) = s[j] <=> i = j
         /\ s[j] \in Slots /\ j \in Nat /\ At(s, j) = s[j]
         /\ At(s, i) \in SlotOrNone
BY ListFacts, SlotsFacts DEF At, SlotOrNone

(* s is linked past. *)
Spliced(s) ==
  /\ usedHead' = IF usedHead = s THEN next[s] ELSE usedHead
  /\ usedTail' = IF usedTail = s THEN prev[s] ELSE usedTail
  /\ \A x \in Slots : x # s => next'[x] = IF x = prev[s] THEN next[s] ELSE next[x]
  /\ \A x \in Slots : x # s => prev'[x] = IF x = next[s] THEN prev[s] ELSE prev[x]

(* Linking past place k of the used list leaves the list without it, and   *)
(* the links of the free list alone.                                       *)
LEMMA SpliceStep ==
  ASSUME NEW u, NEW f, Threaded(u, f), NEW k \in DOMAIN u, Spliced(u[k])
  PROVE  /\ Path(next, usedHead, RemoveAt(u, k))'
         /\ BackPath(prev, usedTail, RemoveAt(u, k))'
         /\ \A i \in DOMAIN f : next'[f[i]] = next[f[i]]
<1>1. List(Slots, u) /\ List(Slots, f) /\ ToSet(u) \cap ToSet(f) = {}
  BY DEF Threaded
<1>2. PICK r : r = RemoveAt(u, k)
  OBVIOUS
<1>3. PICK n \in Nat : n = Len(u)
  BY <1>1, ListFacts
<1>4. k \in 1 .. n /\ DOMAIN u = 1 .. n
  BY <1>1, <1>3, ListFacts
<1>5. /\ List(Slots, r) /\ ToSet(r) = ToSet(u) \ {u[k]} /\ Len(r) = n - 1
      /\ \A i \in Int : At(r, i) = IF i < k THEN At(u, i) ELSE At(u, i + 1)
  BY <1>1, <1>2, <1>3, CutFacts
<1>6. DOMAIN r = 1 .. n - 1
  BY <1>3, <1>5, ListFacts
<1>7. PICK s \in Slots : s = u[k]
  BY <1>1, AtOnce
<1>8. next[s] = At(u, k + 1) /\ prev[s] = At(u, k - 1)
  BY <1>7 DEF Threaded, Path, BackPath
<1>9. /\ usedHead' = IF usedHead = s THEN next[s] ELSE usedHead
      /\ usedTail' = IF usedTail = s THEN prev[s] ELSE usedTail
      /\ \A x \in Slots : x # s => next'[x] = IF x = prev[s] THEN next[s] ELSE next[x]
      /\ \A x \in Slots : x # s => prev'[x] = IF x = next[s] THEN prev[s] ELSE prev[x]
  BY <1>7 DEF Spliced
<1>11. Path(next, usedHead, r)'
  <2>1. usedHead' = At(r, 1)
    <3>1. usedHead = At(u, 1)
      BY DEF Threaded, Path
    <3>2. usedHead = s <=> k = 1
      BY <1>1, <1>7, <3>1, AtOnce
    <3>3. At(r, 1) = IF 1 < k THEN At(u, 1) ELSE At(u, 1 + 1)
      BY <1>5
    <3> QED BY <1>4, <1>8, <1>9, <3>1, <3>2, <3>3
  <2>2. ASSUME NEW i \in 1 .. n - 1 PROVE next'[r[i]] = At(r, i + 1)
    <3>1. PICK j \in 1 .. n : j = IF i < k THEN i ELSE i + 1
      OBVIOUS
    <3>2. j # k /\ At(r, i) = At(u, j)
      <4>1. At(r, i) = IF i < k THEN At(u, i) ELSE At(u, i + 1)
        BY <1>5
      <4>2. k \in Nat /\ i \in Nat
        BY <1>4
      <4> QED BY <3>1, <4>1, <4>2
    <3>3. r[i] = u[j] /\ u[j] \in Slots
      <4>1. At(r, i) = r[i] /\ At(u, j) = u[j]
        BY <1>4, <1>6 DEF At
      <4>2. u[j] \in Slots
        BY <1>1, <1>3, ListFacts
      <4> QED BY <3>2, <4>1, <4>2
    <3>4. u[j] # s /\ (u[j] = prev[s] <=> j = k - 1) /\ next[u[j]] = At(u, j + 1)
      <4>1. u[j] = u[k] <=> j = k
        BY <1>1, <1>3, <1>4, ListFacts
      <4>2. k - 1 \in Int /\ (At(u, k - 1) = u[j] <=> k - 1 = j)
        <5>1. PICK m \in Int : m = k - 1
          BY <1>4
        <5>2. At(u, m) = u[j] <=> m = j
          <6>1. j \in DOMAIN u
            BY <1>4
          <6> QED BY <1>1, <6>1, AtOnce
        <5> QED BY <5>1, <5>2
      <4>3. next[u[j]] = At(u, j + 1)
        BY <1>4 DEF Threaded, Path
      <4> QED BY <1>7, <1>8, <3>2, <4>1, <4>2, <4>3
    <3>5. next'[r[i]] = IF j = k - 1 THEN At(u, k + 1) ELSE At(u, j + 1)
      BY <1>8, <1>9, <3>3, <3>4
    <3>6. At(r, i + 1) = IF i + 1 < k THEN At(u, i + 1) ELSE At(u, i + 1 + 1)
      BY <1>5
    <3> QED BY <1>4, <3>1, <3>5, <3>6
  <2> QED BY <1>6, <2>1, <2>2 DEF Path
<1>12. BackPath(prev, usedTail, r)'
  <2>1. usedTail' = At(r, n - 1)
    <3>1. usedTail = At(u, n)
      BY <1>3 DEF Threaded, BackPath
    <3>2. usedTail = s <=> k = n
      BY <1>1, <1>7, <3>1, AtOnce
    <3>3. At(r, n - 1) = IF n - 1 < k THEN At(u, n - 1) ELSE At(u, n - 1 + 1)
      BY <1>5
    <3> QED BY <1>4, <1>8, <1>9, <3>1, <3>2, <3>3
  <2>2. ASSUME NEW i \in 1 .. n - 1 PROVE prev'[r[i]] = At(r, i - 1)
    <3>1. PICK j \in 1 .. n : j = IF i < k THEN i ELSE i + 1
      OBVIOUS
    <3>2. j # k /\ At(r, i) = At(u, j)
      <4>1. At(r, i) = IF i < k THEN At(u, i) ELSE At(u, i + 1)
        BY <1>5
      <4>2. k \in Nat /\ i \in Nat
        BY <1>4
      <4> QED BY <3>1, <4>1, <4>2
    <3>3. r[i] = u[j] /\ u[j] \in Slots
      <4>1. At(r, i) = r[i] /\ At(u, j) = u[j]
        BY <1>4, <1>6 DEF At
      <4>2. u[j] \in Slots
        BY <1>1, <1>3, ListFacts
      <4> QED BY <3>2, <4>1, <4>2
    <3>4. u[j] # s /\ (u[j] = next[s] <=> j = k + 1) /\ prev[u[j]] = At(u, j - 1)
      <4>1. u[j] = u[k] <=> j = k
        BY <1>1, <1>3, <1>4, ListFacts
      <4>2. k + 1 \in Int /\ (At(u, k + 1) = u[j] <=> k + 1 = j)
        <5>1. PICK m \in Int : m = k + 1
          BY <1>4
        <5>2. At(u, m) = u[j] <=> m = j
          <6>1. j \in DOMAIN u
            BY <1>4
          <6> QED BY <1>1, <6>1, AtOnce
        <5> QED BY <5>1, <5>2
      <4>3. prev[u[j]] = At(u, j - 1)
        BY <1>4 DEF Threaded, BackPath
      <4> QED BY <1>7, <1>8, <3>2, <4>1, <4>2, <4>3
    <3>5. prev'[r[i]] = IF j = k + 1 THEN At(u, k - 1) ELSE At(u, j - 1)
      BY <1>8, <1>9, <3>3, <3>4
    <3>6. At(r, i - 1) = IF i - 1 < k THEN At(u, i - 1) ELSE At(u, i - 1 + 1)
      BY <1>5
    <3> QED BY <1>4, <3>1, <3>5, <3>6
  <2> QED BY <1>5, <1>6, <2>1, <2>2 DEF BackPath
<1>13. ASSUME NEW i \in DOMAIN f PROVE next'[f[i]] = next[f[i]]
  <2>1. f[i] \in ToSet(f) /\ f[i] \in Slots
    BY <1>1, AtOnce DEF ToSet
  <2>2. s \in ToSet(u)
    BY <1>7 DEF ToSet
  <2>3. At(u, k - 1) \in ToSet(u) \cup {INVALID_SLOT}
    BY DEF At, ToSet
  <2> QED BY <1>1, <1>8, <1>9, <2>1, <2>2, <2>3, SlotsFacts
<1> QED BY <1>2, <1>11, <1>12, <1>13

(* unlink takes a frame off the used list.                                 *)
LEMMA UnlinkStep ==
  ASSUME LinkTypes, NEW u, NEW f, Threaded(u, f), NEW k \in DOMAIN u, unlink(u[k])
  PROVE  LinkTypes' /\ Threaded(RemoveAt(u, k), f)'
<1>1. List(Slots, u) /\ List(Slots, f) /\ ToSet(u) \cap ToSet(f) = {}
  BY DEF Threaded
<1>2. Spliced(u[k]) /\ freeHead' = freeHead
  BY DEF unlink, Spliced
<1>3. LinkTypes'
  <2>1. u[k] \in Slots
    BY <1>1, AtOnce
  <2> QED BY <2>1 DEF unlink, LinkTypes, SlotOrNone
<1>4. /\ Path(next, usedHead, RemoveAt(u, k))'
      /\ BackPath(prev, usedTail, RemoveAt(u, k))'
      /\ \A i \in DOMAIN f : next'[f[i]] = next[f[i]]
  BY <1>2, SpliceStep
<1>5. Path(next, freeHead, f)'
  BY <1>2, <1>4 DEF Threaded, Path
<1>6. List(Slots, RemoveAt(u, k)) /\ ToSet(RemoveAt(u, k)) = ToSet(u) \ {u[k]}
  BY <1>1, CutFacts
<1> QED BY <1>1, <1>3, <1>4, <1>5, <1>6 DEF Threaded

(* linkHead puts a frame that is on neither list before the used list.     *)
LEMMA LinkStep ==
  ASSUME LinkTypes, NEW u, NEW f, Threaded(u, f), usedHead \in SlotOrNone,
         NEW s \in Slots, s \notin ToSet(u), s \notin ToSet(f), linkHead(s)
  PROVE  LinkTypes' /\ Threaded(Cons(s, u), f)'
<1>1. List(Slots, u) /\ List(Slots, f) /\ ToSet(u) \cap ToSet(f) = {}
  BY DEF Threaded
<1>2. PICK r : r = Cons(s, u)
  OBVIOUS
<1>3. PICK n \in Nat : n = Len(u)
  BY <1>1, ListFacts
<1>4. DOMAIN u = 1 .. n
  BY <1>1, <1>3, ListFacts
<1>5. /\ List(Slots, r) /\ ToSet(r) = ToSet(u) \cup {s} /\ Len(r) = n + 1
      /\ \A i \in Int : At(r, i) = IF i = 1 THEN s ELSE At(u, i - 1)
  BY <1>1, <1>2, <1>3, FrontFacts
<1>6. DOMAIN r = 1 .. n + 1
  BY <1>3, <1>5, ListFacts
<1>7. usedHead = At(u, 1) /\ usedTail = At(u, n)
  BY <1>3 DEF Threaded, Path, BackPath
<1>8. usedHead # s /\ (usedTail = INVALID_SLOT <=> n = 0)
  <2>1. n # 0 => usedTail \in Slots /\ usedHead \in ToSet(u)
    BY <1>1, <1>4, <1>7, AtOnce DEF ToSet, At
  <2>2. n = 0 => usedTail = INVALID_SLOT /\ usedHead = INVALID_SLOT
    BY <1>4, <1>7 DEF At
  <2> QED BY <2>1, <2>2, SlotsFacts
<1>9. /\ usedHead' = s /\ freeHead' = freeHead
      /\ usedTail' = IF usedTail = INVALID_SLOT THEN s ELSE usedTail
      /\ \A x \in Slots : next'[x] = IF x = s THEN usedHead ELSE next[x]
      /\ \A x \in Slots : prev'[x] = IF x = usedHead THEN s
                                     ELSE IF x = s THEN INVALID_SLOT ELSE prev[x]
  BY DEF linkHead, LinkTypes
<1>10. LinkTypes'
  BY DEF linkHead, LinkTypes, SlotOrNone
<1>11. ASSUME NEW i \in 1 .. n + 1, i # 1
       PROVE  i - 1 \in 1 .. n /\ r[i] = u[i - 1] /\ u[i - 1] \in Slots /\ u[i - 1] # s
  <2>1. i - 1 \in 1 .. n /\ At(r, i) = At(u, i - 1)
    BY <1>5, <1>11
  <2>2. r[i] = u[i - 1] /\ u[i - 1] \in Slots
    <3>1. At(r, i) = r[i] /\ At(u, i - 1) = u[i - 1]
      BY <1>4, <1>6, <2>1 DEF At
    <3>2. u[i - 1] \in Slots
      BY <1>1, <1>3, <2>1, ListFacts
    <3> QED BY <2>1, <3>1, <3>2
  <2>3. u[i - 1] \in ToSet(u)
    BY <1>4, <2>1 DEF ToSet
  <2> QED BY <2>1, <2>2, <2>3
<1>12. r[1] = s
  <2>1. At(r, 1) = s /\ 1 \in DOMAIN r
    BY <1>5, <1>6
  <2> QED BY <2>1 DEF At
<1>13. Path(next, usedHead, r)'
  <2>1. ASSUME NEW i \in 1 .. n + 1 PROVE next'[r[i]] = At(r, i + 1)
    <3>1. CASE i = 1
      <4>1. At(r, i + 1) = At(u, 1)
        BY <1>5, <3>1
      <4> QED BY <1>7, <1>9, <1>12, <3>1, <4>1
    <3>2. CASE i # 1
      <4>1. next'[r[i]] = next[u[i - 1]]
        BY <1>9, <1>11, <3>2
      <4>2. next[u[i - 1]] = At(u, (i - 1) + 1)
        BY <1>4, <1>11, <3>2 DEF Threaded, Path
      <4>3. At(r, i + 1) = At(u, i) /\ (i - 1) + 1 = i
        BY <1>5, <3>2
      <4> QED BY <4>1, <4>2, <4>3
    <3> QED BY <3>1, <3>2
  <2>2. usedHead' = At(r, 1)
    BY <1>5, <1>9
  <2> QED BY <1>6, <2>1, <2>2 DEF Path
<1>14. BackPath(prev, usedTail, r)'
  <2>1. ASSUME NEW i \in 1 .. n + 1 PROVE prev'[r[i]] = At(r, i - 1)
    <3>1. CASE i = 1
      <4>1. At(r, i - 1) = INVALID_SLOT
        BY <1>6, <3>1 DEF At
      <4> QED BY <1>8, <1>9, <1>12, <3>1, <4>1
    <3>2. CASE i # 1
      <4>1. u[i - 1] = usedHead <=> i = 2
        <5>1. At(u, 1) = u[i - 1] <=> 1 = i - 1
          <6>1. PICK j \in DOMAIN u : j = i - 1
            BY <1>4, <1>11, <3>2
          <6> QED BY <1>1, <6>1, AtOnce
        <5> QED BY <1>7, <5>1
      <4>2. prev'[r[i]] = IF i = 2 THEN s ELSE prev[u[i - 1]]
        BY <1>9, <1>11, <3>2, <4>1
      <4>3. prev[u[i - 1]] = At(u, (i - 1) - 1)
        BY <1>4, <1>11, <3>2 DEF Threaded, BackPath
      <4>4. At(r, i - 1) = IF i - 1 = 1 THEN s ELSE At(u, (i - 1) - 1)
        BY <1>5
      <4> QED BY <4>2, <4>3, <4>4
    <3> QED BY <3>1, <3>2
  <2>2. usedTail' = At(r, n + 1)
    <3>1. At(r, n + 1) = IF n + 1 = 1 THEN s ELSE At(u, n + 1 - 1)
      BY <1>5
    <3> QED BY <1>7, <1>8, <1>9, <3>1
  <2> QED BY <1>5, <1>6, <2>1, <2>2 DEF BackPath
<1>15. Path(next, freeHead, f)'
  <2>1. ASSUME NEW i \in DOMAIN f PROVE next'[f[i]] = next[f[i]]
    <3>1. f[i] \in ToSet(f) /\ f[i] \in Slots
      BY <1>1, AtOnce DEF ToSet
    <3> QED BY <1>9, <3>1
  <2> QED BY <1>9, <2>1 DEF Threaded, Path
<1> QED BY <1>1, <1>2, <1>5, <1>10, <1>13, <1>14, <1>15 DEF Threaded

(* A frame in front of the free list. *)
LEMMA PushFree ==
  ASSUME NEW u, NEW f, List(Slots, f), Path(next, freeHead, f),
         NEW s \in Slots, s \notin ToSet(f), freeHead' = s,
         next'[s] = freeHead, \A i \in DOMAIN f : next'[f[i]] = next[f[i]]
  PROVE  List(Slots, Cons(s, f)) /\ Path(next, freeHead, Cons(s, f))'
<1>1. PICK r : r = Cons(s, f)
  OBVIOUS
<1>2. PICK n \in Nat : n = Len(f)
  BY ListFacts
<1>3. DOMAIN f = 1 .. n
  BY <1>2, ListFacts
<1>4. /\ List(Slots, r) /\ Len(r) = n + 1
      /\ \A i \in Int : At(r, i) = IF i = 1 THEN s ELSE At(f, i - 1)
  BY <1>1, <1>2, FrontFacts
<1>5. DOMAIN r = 1 .. n + 1
  BY <1>4, ListFacts
<1>6. ASSUME NEW i \in 1 .. n + 1 PROVE next'[r[i]] = At(r, i + 1)
  <2>1. At(r, i) = r[i] /\ At(r, i + 1) = At(f, i)
    <3>1. At(r, i + 1) = IF i + 1 = 1 THEN s ELSE At(f, i + 1 - 1)
      BY <1>4
    <3>2. i + 1 # 1 /\ i + 1 - 1 = i
      OBVIOUS
    <3> QED BY <1>5, <3>1, <3>2 DEF At
  <2>2. CASE i = 1
    <3>1. r[i] = s
      BY <1>4, <2>1, <2>2
    <3> QED BY <2>1, <2>2, <3>1 DEF Path
  <2>3. CASE i # 1
    <3>1. i - 1 \in DOMAIN f /\ (i - 1) + 1 = i
      BY <1>3, <2>3
    <3>2. r[i] = f[i - 1]
      BY <1>4, <2>1, <2>3, <3>1 DEF At
    <3> QED BY <2>1, <3>1, <3>2 DEF Path
  <2> QED BY <2>2, <2>3
<1>7. freeHead' = At(r, 1)
  BY <1>4
<1> QED BY <1>1, <1>4, <1>5, <1>6, <1>7 DEF Path

(* insertFree puts a frame that is on neither list before the free list.   *)
LEMMA FreeStep ==
  ASSUME LinkTypes, NEW u, NEW f, Threaded(u, f), freeHead \in SlotOrNone,
         NEW s \in Slots, s \notin ToSet(u), s \notin ToSet(f), insertFree(s)
  PROVE  LinkTypes' /\ Threaded(u, Cons(s, f))'
<1>1. List(Slots, u) /\ List(Slots, f) /\ ToSet(u) \cap ToSet(f) = {} /\ Path(next, freeHead, f)
  BY DEF Threaded
<1>2. /\ freeHead' = s /\ usedHead' = usedHead /\ usedTail' = usedTail
      /\ next'[s] = freeHead /\ \A x \in Slots : x # s => next'[x] = next[x] /\ prev'[x] = prev[x]
  BY DEF insertFree, LinkTypes
<1>3. LinkTypes'
  BY DEF insertFree, LinkTypes, SlotOrNone
<1>4. \A i \in DOMAIN f : f[i] \in Slots /\ f[i] # s
  BY <1>1, AtOnce DEF ToSet
<1>5. \A i \in DOMAIN u : u[i] \in Slots /\ u[i] # s
  BY <1>1, AtOnce DEF ToSet
<1>6. List(Slots, Cons(s, f)) /\ Path(next, freeHead, Cons(s, f))'
  BY <1>1, <1>2, <1>4, PushFree
<1>7. Path(next, usedHead, u)' /\ BackPath(prev, usedTail, u)'
  BY <1>2, <1>5 DEF Threaded, Path, BackPath
<1>8. ToSet(Cons(s, f)) = ToSet(f) \cup {s}
  BY <1>1, FrontFacts
<1> QED BY <1>1, <1>3, <1>6, <1>7, <1>8 DEF Threaded

(* What FlushRelease does to the links. *)
LEMMA ReleaseStep ==
  ASSUME LinkTypes, NEW u, NEW f, Threaded(u, f), freeHead \in SlotOrNone,
         NEW k \in DOMAIN u, Spliced(u[k]), LinkTypes',
         freeHead' = u[k], next'[u[k]] = freeHead
  PROVE  Threaded(RemoveAt(u, k), Cons(u[k], f))'
<1>1. List(Slots, u) /\ List(Slots, f) /\ ToSet(u) \cap ToSet(f) = {} /\ Path(next, freeHead, f)
  BY DEF Threaded
<1>2. u[k] \in Slots /\ u[k] \in ToSet(u)
  BY <1>1, AtOnce DEF ToSet
<1>3. /\ Path(next, usedHead, RemoveAt(u, k))'
      /\ BackPath(prev, usedTail, RemoveAt(u, k))'
      /\ \A i \in DOMAIN f : next'[f[i]] = next[f[i]]
  BY SpliceStep
<1>4. List(Slots, Cons(u[k], f)) /\ Path(next, freeHead, Cons(u[k], f))'
  BY <1>1, <1>2, <1>3, PushFree
<1>5. ToSet(Cons(u[k], f)) = ToSet(f) \cup {u[k]}
  BY <1>1, <1>2, FrontFacts
<1>6. List(Slots, RemoveAt(u, k)) /\ ToSet(RemoveAt(u, k)) = ToSet(u) \ {u[k]}
  BY <1>1, CutFacts
<1> QED BY <1>1, <1>3, <1>4, <1>5, <1>6 DEF Threaded

(* bufferAlloc takes the head of the free list off it.                     *)
LEMMA PopFree ==
  ASSUME NEW u, NEW f, Threaded(u, f), f # << >>,
         freeHead' = next[freeHead], UNCHANGED <<next, prev, usedHead, usedTail>>
  PROVE  freeHead = Head(f) /\ Threaded(u, Tail(f))'
<1>1. List(Slots, u) /\ List(Slots, f) /\ ToSet(u) \cap ToSet(f) = {} /\ Path(next, freeHead, f)
  BY DEF Threaded
<1>2. PICK r : r = Tail(f)
  OBVIOUS
<1>3. /\ Head(f) = At(f, 1) /\ Head(f) \in ToSet(f)
      /\ List(Slots, r) /\ ToSet(r) = ToSet(f) \ {Head(f)}
      /\ \A i \in Nat \ {0} : At(r, i) = At(f, i + 1)
  BY <1>1, <1>2, RestFacts
<1>4. 1 \in DOMAIN f /\ freeHead = f[1]
  BY <1>1, <1>3, SlotsFacts DEF Path, At, ToSet, List
<1>5. next[freeHead] = At(f, 2) /\ At(r, 1) = At(f, 2)
  BY <1>1, <1>3, <1>4 DEF Path
<1>6. ASSUME NEW i \in DOMAIN r PROVE next[r[i]] = At(r, i + 1)
  <2>0. /\ DOMAIN r = 1 .. Len(r) /\ Len(r) \in Nat
        /\ \A j \in 1 .. Len(r) : r[j] \in Slots
    <3>1. List(Slots, r)
      BY <1>3
    <3> QED BY <3>1, ListFacts
  <2>1. i \in Nat \ {0} /\ i + 1 \in Nat \ {0}
    BY <2>0
  <2>2. At(r, i) = At(f, i + 1) /\ At(r, i + 1) = At(f, i + 1 + 1) /\ At(r, i) = r[i]
    BY <1>3, <2>1 DEF At
  <2>3. r[i] \in Slots
    BY <2>0
  <2>4. i + 1 \in DOMAIN f /\ r[i] = f[i + 1]
    BY <2>2, <2>3, SlotsFacts DEF At
  <2> QED BY <1>1, <2>2, <2>4 DEF Path
<1>7. Path(next, freeHead, r)'
  BY <1>5, <1>6 DEF Path
<1> QED BY <1>1, <1>2, <1>3, <1>7 DEF Threaded, Path, BackPath

-----------------------------------------------------------------------------
(* Where a call stands with the frame slot[t]: it is on the used list, or  *)
(* off both lists, or the hash table has no page for it.                   *)
Steps == {"idle", "alloc", "takeFree", "hashRemove", "unlinkVictim", "linkNew", "load",
          "init", "drop", "free", "pin", "unlink", "linkHead", "flush"}
(* The steps at which the frame in hand is on the used list,               *)
OnUsed == {"pin", "unlink", "hashRemove", "unlinkVictim", "load", "init", "drop"}
(* about to be put on it,                                                  *)
Linking == {"linkNew", "linkHead"}
(* or on neither list;                                                     *)
OffLists == Linking \cup {"free"}
(* at which the hash table has no entry of a descriptor for it,            *)
Untabled == {"unlinkVictim", "linkNew", "load", "init", "drop", "free"}
(* and at which the page asked for is in no frame.                         *)
Missing == {"alloc", "takeFree", "hashRemove", "unlinkVictim", "linkNew", "load"}

(* The frame of t when t is at one of the steps.                           *)
InHand(t, steps) == IF pc[t] \in steps THEN {slot[t]} ELSE {}

(* The types of the variables; no thread waits for itself.                 *)
Types ==
  /\ LinkTypes /\ {usedHead, usedTail, freeHead} \subseteq SlotOrNone
  /\ pageOf \in [Slots -> Pages \cup {NoPage}] /\ pinCount \in [Slots -> Nat]
  /\ hash \in [Pages -> SlotOrNone]
  /\ pc \in [Threads -> Steps] /\ slot \in [Threads -> SlotOrNone]
  /\ want \in [Threads -> Pages \cup {NoPage}]
  /\ holder \in Threads \cup {NoThread}
  /\ holds \in [Threads -> Seq(Pages \X Slots)]

(* Every frame is on one list or in the hand that moves it. *)
Placed(t, u, f) ==
  /\ Threaded(u, f)
  /\ ToSet(u) \cup ToSet(f) \cup InHand(t, OffLists) = Slots
  /\ InHand(t, OffLists) \cap (ToSet(u) \cup ToSet(f)) = {}
  /\ InHand(t, OnUsed) \subseteq ToSet(u)
  /\ pc[t] = "flush" => slot[t] \in ToSet(u) \cup {INVALID_SLOT}
  /\ pc[t] = "takeFree" => f # << >>

(* The frames in use are those the hash table has pages for, but for one   *)
(* that getPage has taken and not initialised.                             *)
Tabled(t, u) == (ToSet(u) \cup InHand(t, {"linkHead"})) \ InHand(t, Untabled)
(* The hash table names the frames in use by their pages and no other      *)
(* frame, but for the entry of a page that is just being loaded.           *)
TableExact(t, u) ==
  /\ \A s \in Tabled(t, u) : pageOf[s] \in Pages /\ hash[pageOf[s]] = s
  /\ \A p \in Pages : hash[p] # INVALID_SLOT =>
       \/ hash[p] \in Tabled(t, u) /\ pageOf[hash[p]] = p
       \/ pc[t] = "init" /\ p = want[t] /\ hash[p] = slot[t]
  /\ pc[t] \in Missing \cup {"pin", "init"} => want[t] \in Pages
  /\ pc[t] \in Missing => hash[want[t]] = INVALID_SLOT
  /\ pc[t] = "init" => hash[want[t]] = slot[t]

(* The inductive invariant of one thread t, with u as the used list and f  *)
(* as the free list.                                                       *)
SerialInv(t, u, f) == Types /\ Placed(t, u, f) /\ TableExact(t, u)

(* What ListsSound walks are the two lists.                                *)
LEMMA ChainsAre ==
  ASSUME LinkTypes, NEW u, NEW f, Threaded(u, f)
  PROVE  UsedChain = u /\ FreeChain = f /\ Chain(prev, usedTail) = Reverse(u)
<1>1. List(Slots, u) /\ List(Slots, f) /\ Path(next, usedHead, u) /\ Path(next, freeHead, f)
  BY DEF Threaded
<1>2. DOMAIN next = Slots /\ DOMAIN prev = Slots
  BY DEF LinkTypes
<1>3. Path(prev, usedTail, Reverse(u))
  <2>1. PICK n \in Nat : n = Len(u)
    BY <1>1, ListFacts
  <2>2. PICK r : r = Reverse(u)
    OBVIOUS
  <2>3. /\ List(Slots, r) /\ Len(r) = n
        /\ \A i \in Int : At(r, i) = At(u, n - i + 1)
    BY <1>1, <2>1, <2>2, ReverseFacts
  <2>4. DOMAIN r = 1 .. n /\ DOMAIN u = 1 .. n
    BY <1>1, <2>1, <2>3, ListFacts
  <2>5. usedTail = At(u, n) /\ \A i \in DOMAIN u : prev[u[i]] = At(u, i - 1)
    BY <2>1 DEF Threaded, BackPath
  <2>6. usedTail = At(r, 1)
    <3>1. At(r, 1) = At(u, n - 1 + 1) /\ n - 1 + 1 = n
      BY <2>3
    <3> QED BY <2>5, <3>1
  <2>7. ASSUME NEW i \in DOMAIN r PROVE prev[r[i]] = At(r, i + 1)
    <3>1. i \in 1 .. n /\ n - i + 1 \in DOMAIN u
      BY <2>4
    <3>2. At(r, i) = At(u, n - i + 1) /\ At(r, i + 1) = At(u, n - (i + 1) + 1)
      BY <2>3, <3>1
    <3>3. r[i] = u[n - i + 1]
      BY <2>4, <3>1, <3>2 DEF At
    <3>4. prev[u[n - i + 1]] = At(u, (n - i + 1) - 1)
      BY <2>5, <3>1
    <3>5. (n - i + 1) - 1 = n - (i + 1) + 1
      BY <3>1
    <3> QED BY <3>2, <3>3, <3>4, <3>5
  <2> QED BY <2>2, <2>6, <2>7 DEF Path
<1>4. List(Slots, Reverse(u))
  BY <1>1, ReverseFacts
<1>5. Chain(next, usedHead) = u
  BY <1>1, <1>2, SlotsFacts, PathIsChain
<1>6. Chain(next, freeHead) = f
  BY <1>1, <1>2, SlotsFacts, PathIsChain
<1>7. Chain(prev, usedTail) = Reverse(u)
  BY <1>2, <1>3, <1>4, SlotsFacts, PathIsChain
<1> QED BY <1>5, <1>6, <1>7 DEF UsedChain, FreeChain

(* The eviction loop stops at a frame of the used list.                    *)
LEMMA VictimUsed ==
  ASSUME LinkTypes, NEW u, NEW f, Threaded(u, f), NEW s \in Victims
  PROVE  s \in ToSet(u)
<1>1. PICK r : r = Reverse(u)
  OBVIOUS
<1>2. \E i \in DOMAIN r : s = r[i]
  BY <1>1, ChainsAre DEF Victims
<1>3. List(Slots, u)
  BY DEF Threaded
<1>4. DOMAIN r = 1 .. Len(u) /\ \A i \in 1 .. Len(u) : r[i] = u[(Len(u) - i) + 1]
  BY <1>1, <1>3, ListFacts DEF Reverse
<1>5. \A i \in 1 .. Len(u) : (Len(u) - i) + 1 \in 1 .. Len(u)
  BY <1>3, ListFacts
<1> QED BY <1>2, <1>3, <1>4, <1>5, ListFacts

(* A sequence less one of its elements.                                    *)
LEMMA RestOfPins ==
  ASSUME NEW S, NEW s \in Seq(S), NEW k \in DOMAIN s
  PROVE  RemoveAt(s, k) \in Seq(S)
<1>1. k \in 1 .. Len(s) /\ Len(s) \in Nat
  OBVIOUS
<1>2. SubSeq(s, 1, k - 1) \in Seq(S) /\ SubSeq(s, k + 1, Len(s)) \in Seq(S)
  BY <1>1, SubSeqProperties
<1> QED BY <1>2, ConcatProperties DEF RemoveAt

(* At first every frame is on the free list, in order.                     *)
LEMMA InitInv ==
  ASSUME NEW t \in Threads, Init
  PROVE  SerialInv(t, << >>, [i \in 1 .. NumPages |-> i - 1])
<1>1. NumPages \in Nat /\ NumPages # 0
  BY ThreadsAssumption
<1>2. PICK f : f = [i \in 1 .. NumPages |-> i - 1]
  OBVIOUS
<1>3. f \in Seq(Slots) /\ DOMAIN f = 1 .. NumPages /\ \A i \in 1 .. NumPages : f[i] = i - 1
  BY <1>1, <1>2 DEF Slots
<1>4. List(Slots, f)
  BY <1>3 DEF List, IsInjective
<1>5. ToSet(f) = Slots
  <2>1. ASSUME NEW s \in Slots PROVE s \in ToSet(f)
    <3>1. s + 1 \in 1 .. NumPages /\ f[s + 1] = s
      BY <1>1, <1>3 DEF Slots
    <3> QED BY <1>3, <3>1 DEF ToSet
  <2>2. \A i \in DOMAIN f : f[i] \in Slots
    BY <1>1, <1>3 DEF Slots
  <2> QED BY <2>1, <2>2 DEF ToSet
<1>6. Path(next, freeHead, f)
  <2>1. ASSUME NEW i \in 1 .. NumPages PROVE next[f[i]] = At(f, i + 1)
    <3>1. f[i] = i - 1 /\ f[i] \in Slots
      BY <1>1, <1>3 DEF Slots
    <3>2. next[f[i]] = IF i - 1 = NumPages - 1 THEN INVALID_SLOT ELSE i - 1 + 1
      BY <3>1 DEF Init
    <3>3. At(f, i + 1) = IF i + 1 \in 1 .. NumPages THEN i + 1 - 1 ELSE INVALID_SLOT
      BY <1>3 DEF At
    <3> QED BY <1>1, <3>2, <3>3
  <2>2. freeHead = At(f, 1)
    BY <1>1, <1>3 DEF At, Init
  <2> QED BY <1>3, <2>1, <2>2 DEF Path
<1>7. /\ List(Slots, << >>) /\ ToSet(<< >>) = {} /\ DOMAIN << >> = {}
  BY DEF List, IsInjective, ToSet
<1>8. Threaded(<< >>, f)
  BY <1>4, <1>6, <1>7 DEF Threaded, Path, BackPath, At, Init
<1>9. Types
  <2>1. LinkTypes
    BY <1>1 DEF Init, LinkTypes, SlotOrNone, Slots, INVALID_SLOT
  <2>2. freeHead \in SlotOrNone
    BY <1>1 DEF Init, SlotOrNone, Slots
  <2> QED BY <2>1, <2>2 DEF Init, Types, SlotOrNone, Steps
<1>10. pc[t] = "idle" /\ hash = [p \in Pages |-> INVALID_SLOT]
  BY DEF Init
<1>11. InHand(t, OffLists) = {} /\ InHand(t, OnUsed) = {} /\ InHand(t, Untabled) = {}
       /\ InHand(t, {"linkHead"}) = {}
  BY <1>10 DEF InHand, OffLists, Linking, OnUsed, Untabled
<1>12. Placed(t, << >>, f)
  BY <1>5, <1>7, <1>8, <1>10, <1>11 DEF Placed
<1>13. TableExact(t, << >>)
  BY <1>7, <1>10, <1>11 DEF TableExact, Tabled, Missing
<1> QED BY <1>2, <1>9, <1>12, <1>13 DEF SerialInv

-----------------------------------------------------------------------------
(* The steps.  Each says which lists the links thread after it.            *)
LEMMA SameLinks ==
  ASSUME NEW u, NEW f, Threaded(u, f), LinkTypes, UNCHANGED links
  PROVE  Threaded(u, f)' /\ LinkTypes'
BY DEF Threaded, Path, BackPath, LinkTypes, links

(* What a step finds. *)
LEMMA HandFacts ==
  ASSUME NEW t, NEW u, NEW f, SerialInv(t, u, f)
  PROVE  /\ ToSet(u) \subseteq Slots /\ ToSet(f) \subseteq Slots
         /\ pc[t] \in OnUsed => slot[t] \in ToSet(u)
         /\ pc[t] \in OffLists => slot[t] \in Slots \ (ToSet(u) \cup ToSet(f))
         /\ freeHead # INVALID_SLOT <=> f # << >>
         /\ usedHead \in ToSet(u) \cup {INVALID_SLOT}
         /\ \A s \in ToSet(u) : next[s] \in ToSet(u) \cup {INVALID_SLOT}
         /\ pc[t] = "flush" => slot[t] \in ToSet(u) \cup {INVALID_SLOT}
<1>1. List(Slots, u) /\ List(Slots, f) /\ Path(next, usedHead, u) /\ Path(next, freeHead, f)
  BY DEF SerialInv, Placed, Threaded
<1>2. ToSet(u) \subseteq Slots /\ ToSet(f) \subseteq Slots
  BY <1>1, ListFacts
<1>3. \A i : At(u, i) \in ToSet(u) \cup {INVALID_SLOT}
  BY DEF At, ToSet
<1>4. \A s \in ToSet(u) : next[s] \in ToSet(u) \cup {INVALID_SLOT}
  BY <1>1, <1>3 DEF Path, ToSet
<1>5. usedHead \in ToSet(u) \cup {INVALID_SLOT}
  BY <1>1, <1>3 DEF Path
<1>6. freeHead # INVALID_SLOT <=> f # << >>
  <2>1. CASE f = << >>
    BY <1>1, <2>1 DEF Path, At
  <2>2. CASE f # << >>
    <3>1. At(f, 1) = Head(f) /\ Head(f) \in ToSet(f)
      BY <1>1, <2>2, RestFacts
    <3> QED BY <1>1, <1>2, <2>2, <3>1, SlotsFacts DEF Path
  <2> QED BY <2>1, <2>2
<1>7. /\ pc[t] \in OnUsed => slot[t] \in ToSet(u)
      /\ pc[t] \in OffLists => slot[t] \in Slots \ (ToSet(u) \cup ToSet(f))
  BY DEF SerialInv, Placed, InHand
<1>8. pc[t] = "flush" => slot[t] \in ToSet(u) \cup {INVALID_SLOT}
  BY DEF SerialInv, Placed
<1> QED BY <1>2, <1>4, <1>5, <1>6, <1>7, <1>8

(* getPage finds the page: the lists stay.                                 *)
LEMMA GetHitInv ==
  ASSUME NEW t \in Threads, NEW u, NEW f, SerialInv(t, u, f), NEW p \in Pages, GetHit(t, p)
  PROVE  SerialInv(t, u, f)'
<1> USE DEF SerialInv, Steps, OnUsed, Linking, OffLists, Untabled, Missing
<1>1. Threaded(u, f)' /\ LinkTypes'
  BY SameLinks DEF GetHit, Placed, Types
<1>2. Types'
  BY <1>1 DEF GetHit, Goto, Types, links, descs, TableExact
<1>3. Placed(t, u, f)'
  BY <1>1, HandFacts DEF GetHit, Goto, Types, Placed, InHand, links, TableExact, Tabled
<1>4. TableExact(t, u)'
  BY DEF GetHit, Goto, Types, Placed, TableExact, Tabled, InHand, descs
<1> QED BY <1>2, <1>3, <1>4

(* getPage does not find it: the lists stay.                               *)
LEMMA GetMissInv ==
  ASSUME NEW t \in Threads, NEW u, NEW f, SerialInv(t, u, f), NEW p \in Pages, GetMiss(t, p)
  PROVE  SerialInv(t, u, f)'
<1> USE DEF SerialInv, Steps, OnUsed, Linking, OffLists, Untabled, Missing
<1>1. Threaded(u, f)' /\ LinkTypes'
  BY SameLinks DEF GetMiss, Placed, Types
<1>2. Types'
  BY <1>1 DEF GetMiss, Goto, Types, links, descs, TableExact
<1>3. Placed(t, u, f)'
  BY <1>1 DEF GetMiss, Goto, Types, Placed, InHand, links
<1>4. TableExact(t, u)'
  BY DEF GetMiss, Goto, Types, Placed, TableExact, Tabled, InHand, descs
<1> QED BY <1>2, <1>3, <1>4

(* The hit raises the pin count: the lists stay.                           *)
LEMMA PinInv ==
  ASSUME NEW t \in Threads, NEW u, NEW f, SerialInv(t, u, f), Pin(t)
  PROVE  SerialInv(t, u, f)'
<1> USE DEF SerialInv, Steps, OnUsed, Linking, OffLists, Untabled, Missing
<1>1. Threaded(u, f)' /\ LinkTypes'
  BY SameLinks DEF Pin, Placed, Types
<1>2. Types'
  <2>1. slot[t] \in Slots /\ want[t] \in Pages
    <3>1. pc[t] = "pin"
      BY DEF Pin, Goto
    <3>2. slot[t] \in Slots
      BY <3>1, HandFacts
    <3> QED BY <3>1, <3>2 DEF TableExact
  <2>2. holds' \in [Threads -> Seq(Pages \X Slots)]
    <3>1. holds[t] \in Seq(Pages \X Slots) /\ <<want[t], slot[t]>> \in Pages \X Slots
      BY <2>1 DEF Types
    <3>2. Append(holds[t], <<want[t], slot[t]>>) \in Seq(Pages \X Slots)
      BY <3>1
    <3> QED BY <3>2 DEF Pin, Types
  <2>3. pc' \in [Threads -> Steps] /\ pinCount' \in [Slots -> Nat]
    BY <2>1 DEF Pin, Goto, Types
  <2> QED BY <1>1, <2>1, <2>2, <2>3 DEF Pin, Types, links, descs
<1>3. Placed(t, u, f)'
  BY <1>1 DEF Pin, Goto, Types, Placed, InHand, links
<1>4. TableExact(t, u)'
  BY DEF Pin, Goto, Types, Placed, TableExact, Tabled, InHand, descs
<1> QED BY <1>2, <1>3, <1>4

(* bufferAlloc sees a free frame: the lists stay, and the free list is not *)
(* empty when it is tested again.                                          *)
LEMMA SeeFreeInv ==
  ASSUME NEW t \in Threads, NEW u, NEW f, SerialInv(t, u, f), SeeFree(t)
  PROVE  SerialInv(t, u, f)'
<1> USE DEF SerialInv, Steps, OnUsed, Linking, OffLists, Untabled, Missing
<1>1. Threaded(u, f)' /\ LinkTypes'
  BY SameLinks DEF SeeFree, Placed, Types
<1>2. Types'
  BY <1>1 DEF SeeFree, Goto, Types, links, descs, TableExact
<1>3. Placed(t, u, f)'
  BY <1>1, HandFacts DEF SeeFree, Goto, Types, Placed, InHand, links
<1>4. TableExact(t, u)'
  BY DEF SeeFree, Goto, Types, Placed, TableExact, Tabled, InHand, descs
<1> QED BY <1>2, <1>3, <1>4

(* bufferAlloc chooses a victim: it is on the used list.                   *)
LEMMA ChooseVictimInv ==
  ASSUME NEW t \in Threads, NEW u, NEW f, SerialInv(t, u, f), ChooseVictim(t)
  PROVE  SerialInv(t, u, f)'
<1> USE DEF SerialInv, Steps, OnUsed, Linking, OffLists, Untabled, Missing
<1>1. Threaded(u, f)' /\ LinkTypes'
  BY SameLinks DEF ChooseVictim, Placed, Types
<1>5. Victims \subseteq ToSet(u) /\ ToSet(u) \subseteq Slots
  BY VictimUsed, HandFacts DEF Placed, Types
<1>2. Types'
  <2>1. pc' \in [Threads -> Steps] /\ slot' \in [Threads -> SlotOrNone]
    BY <1>5 DEF ChooseVictim, SlotOrNone, Goto, Types
  <2> QED BY <1>1, <2>1 DEF ChooseVictim, Types, links, descs
<1>3. Placed(t, u, f)'
  BY <1>1, <1>5 DEF ChooseVictim, Goto, Types, Placed, InHand, links
<1>4. TableExact(t, u)'
  BY DEF ChooseVictim, Goto, Types, Placed, TableExact, Tabled, InHand, descs
<1> QED BY <1>2, <1>3, <1>4

(* The page of the victim leaves the hash table: the victim is the one     *)
(* frame in use that has no entry.                                         *)
LEMMA HashRemoveInv ==
  ASSUME NEW t \in Threads, NEW u, NEW f, SerialInv(t, u, f), HashRemove(t)
  PROVE  SerialInv(t, u, f)'
<1> USE DEF SerialInv, Steps, OnUsed, Linking, OffLists, Untabled, Missing
<1>1. Threaded(u, f)' /\ LinkTypes'
  BY SameLinks DEF HashRemove, Placed, Types
<1>2. Types'
  <2>1. pc' \in [Threads -> Steps]
    BY DEF HashRemove, Goto, Types
  <2>2. hash' \in [Pages -> SlotOrNone]
    BY DEF HashRemove, Types, SlotOrNone
  <2> QED BY <1>1, <2>1, <2>2 DEF HashRemove, Types, links, descs
<1>3. Placed(t, u, f)'
  BY <1>1 DEF HashRemove, Goto, Types, Placed, InHand, links
<1>4. TableExact(t, u)'
  BY DEF HashRemove, Goto, Types, Placed, TableExact, Tabled, InHand, descs
<1> QED BY <1>2, <1>3, <1>4

(* The new page enters the hash table before its descriptor.               *)
LEMMA InsertHashInv ==
  ASSUME NEW t \in Threads, NEW u, NEW f, SerialInv(t, u, f), InsertHash(t)
  PROVE  SerialInv(t, u, f)'
<1> USE DEF SerialInv, Steps, OnUsed, Linking, OffLists, Untabled, Missing
<1>1. Threaded(u, f)' /\ LinkTypes'
  BY SameLinks DEF InsertHash, Placed, Types
<1>2. Types'
  BY <1>1 DEF InsertHash, Goto, Types, links, descs, TableExact
<1>3. Placed(t, u, f)'
  BY <1>1 DEF InsertHash, Goto, Types, Placed, InHand, links
<1>4. TableExact(t, u)'
  <2>1. /\ pc[t] = "load" /\ pc'[t] = "init" /\ slot' = slot /\ want' = want /\ pageOf' = pageOf
        /\ want[t] \in Pages /\ hash[want[t]] = INVALID_SLOT
        /\ hash' = [hash EXCEPT ![want[t]] = slot[t]]
    BY DEF InsertHash, Goto, Types, TableExact, descs
  <2>2. Tabled(t, u)' = Tabled(t, u) /\ slot[t] \notin Tabled(t, u)
    BY <2>1 DEF Tabled, InHand
  <2>3. \A p \in Pages : p # want[t] => hash'[p] = hash[p]
    BY <2>1 DEF Types
  <2>4. hash'[want[t]] = slot[t]
    BY <2>1 DEF Types
  <2>5. \A s \in Tabled(t, u) : s \in Slots
    BY HandFacts, <2>1 DEF Tabled, InHand
  <2>6. ASSUME NEW s \in Tabled(t, u) PROVE pageOf[s] \in Pages /\ hash'[pageOf[s]] = s
    BY <2>1, <2>3, <2>5, SlotsFacts DEF TableExact
  <2>7. ASSUME NEW p \in Pages, hash'[p] # INVALID_SLOT, p # want[t]
        PROVE  hash'[p] \in Tabled(t, u) /\ pageOf[hash'[p]] = p
    BY <2>1, <2>3, <2>7 DEF TableExact
  <2> QED BY <2>1, <2>2, <2>4, <2>6, <2>7 DEF TableExact
<1> QED BY <1>2, <1>3, <1>4

(* The page cannot be read: its frame has no entry to remove.              *)
LEMMA ReadFailsInv ==
  ASSUME NEW t \in Threads, NEW u, NEW f, SerialInv(t, u, f), ReadFails(t)
  PROVE  SerialInv(t, u, f)'
<1> USE DEF SerialInv, Steps, OnUsed, Linking, OffLists, Untabled, Missing
<1>1. Threaded(u, f)' /\ LinkTypes'
  BY SameLinks DEF ReadFails, Placed, Types
<1>2. Types'
  BY <1>1 DEF ReadFails, Goto, Types, links, descs, TableExact
<1>3. Placed(t, u, f)'
  BY <1>1 DEF ReadFails, Goto, Types, Placed, InHand, links
<1>4. TableExact(t, u)'
  BY DEF ReadFails, Goto, Types, Placed, TableExact, Tabled, InHand, descs
<1> QED BY <1>2, <1>3, <1>4

(* The descriptor names the page the entry is for: the table is exact      *)
(* again.                                                                  *)
LEMMA InitPageDescInv ==
  ASSUME NEW t \in Threads, NEW u, NEW f, SerialInv(t, u, f), InitPageDesc(t)
  PROVE  SerialInv(t, u, f)'
<1> USE DEF SerialInv, Steps, OnUsed, Linking, OffLists, Untabled, Missing
<1>1. Threaded(u, f)' /\ LinkTypes'
  BY SameLinks DEF InitPageDesc, Placed, Types
<1>2. Types'
  <2>1. slot[t] \in Slots /\ want[t] \in Pages
    <3>1. pc[t] = "init"
      BY DEF InitPageDesc, Goto
    <3>2. slot[t] \in Slots
      BY <3>1, HandFacts
    <3> QED BY <3>1, <3>2 DEF TableExact
  <2>2. holds' \in [Threads -> Seq(Pages \X Slots)]
    <3>1. holds[t] \in Seq(Pages \X Slots) /\ <<want[t], slot[t]>> \in Pages \X Slots
      BY <2>1 DEF Types
    <3>2. Append(holds[t], <<want[t], slot[t]>>) \in Seq(Pages \X Slots)
      BY <3>1
    <3> QED BY <3>2 DEF InitPageDesc, Types
  <2>3. pc' \in [Threads -> Steps] /\ pinCount' \in [Slots -> Nat]
    BY <2>1 DEF InitPageDesc, Goto, Types
  <2> QED BY <1>1, <2>1, <2>2, <2>3 DEF InitPageDesc, Types, links, descs
<1>3. Placed(t, u, f)'
  BY <1>1 DEF InitPageDesc, Goto, Types, Placed, InHand, links
<1>4. TableExact(t, u)'
  BY DEF InitPageDesc, Goto, Types, Placed, TableExact, Tabled, InHand, descs
<1> QED BY <1>2, <1>3, <1>4

(* flushPages starts at a frame of the used list or at its end.            *)
LEMMA StartFlushInv ==
  ASSUME NEW t \in Threads, NEW u, NEW f, SerialInv(t, u, f), StartFlush(t)
  PROVE  SerialInv(t, u, f)'
<1> USE DEF SerialInv, Steps, OnUsed, Linking, OffLists, Untabled, Missing
<1>1. Threaded(u, f)' /\ LinkTypes'
  BY SameLinks DEF StartFlush, Placed, Types
<1>2. Types'
  BY <1>1 DEF StartFlush, Goto, Types, links, descs, TableExact
<1>3. Placed(t, u, f)'
  BY <1>1, HandFacts DEF StartFlush, Goto, Types, Placed, InHand, links
<1>4. TableExact(t, u)'
  BY DEF StartFlush, Goto, Types, Placed, TableExact, Tabled, InHand, descs
<1> QED BY <1>2, <1>3, <1>4

(* The cursor moves on to a frame of the used list or to its end.          *)
LEMMA FlushSkipInv ==
  ASSUME NEW t \in Threads, NEW u, NEW f, SerialInv(t, u, f), FlushSkip(t)
  PROVE  SerialInv(t, u, f)'
<1> USE DEF SerialInv, Steps, OnUsed, Linking, OffLists, Untabled, Missing
<1>1. Threaded(u, f)' /\ LinkTypes'
  BY SameLinks DEF FlushSkip, Placed, Types
<1>2. Types'
  BY <1>1, HandFacts DEF SlotOrNone, FlushSkip, Goto, Types, links, descs, TableExact
<1>3. Placed(t, u, f)'
  BY <1>1, HandFacts DEF FlushSkip, Goto, Types, Placed, InHand, links
<1>4. TableExact(t, u)'
  BY DEF FlushSkip, Goto, Types, Placed, TableExact, Tabled, InHand, descs
<1> QED BY <1>2, <1>3, <1>4

(* flushPages ends: the lists stay.                                        *)
LEMMA FlushEndInv ==
  ASSUME NEW t \in Threads, NEW u, NEW f, SerialInv(t, u, f), FlushEnd(t)
  PROVE  SerialInv(t, u, f)'
<1> USE DEF SerialInv, Steps, OnUsed, Linking, OffLists, Untabled, Missing
<1>1. Threaded(u, f)' /\ LinkTypes'
  BY SameLinks DEF FlushEnd, Placed, Types
<1>2. Types'
  BY <1>1 DEF FlushEnd, Goto, Types, links, descs, TableExact
<1>3. Placed(t, u, f)'
  BY <1>1 DEF FlushEnd, Goto, Types, Placed, InHand, links
<1>4. TableExact(t, u)'
  BY DEF FlushEnd, Goto, Types, Placed, TableExact, Tabled, InHand, descs
<1> QED BY <1>2, <1>3, <1>4

(* What SlotLists takes out of a list is what unlink takes out of it.      *)
LEMMA WithoutFacts ==
  ASSUME NEW u, NEW s \in ToSet(u)
  PROVE  \E k \in DOMAIN u : u[k] = s /\ Lists!Without(u, s) = RemoveAt(u, k)
<1> DEFINE k == CHOOSE i \in DOMAIN u : u[i] = s
<1>1. k \in DOMAIN u /\ u[k] = s
  BY DEF ToSet
<1>2. Lists!Without(u, s) = RemoveAt(u, k)
  BY DEF Lists!Without, Lists!RemoveAt, RemoveAt
<1> HIDE DEF k
<1> QED BY <1>1, <1>2

(* The hit takes the frame off the used list into the hand.                *)
LEMMA TouchUnlinkInv ==
  ASSUME NEW t \in Threads, NEW u, NEW f, SerialInv(t, u, f), TouchUnlink(t),
         NEW s, s = slot[t]
  PROVE  s \in ToSet(u) /\ SerialInv(t, Lists!Without(u, s), f)'
<1> USE DEF SerialInv, Steps, OnUsed, Linking, OffLists, Untabled, Missing
<1>1. pc[t] = "unlink" /\ pc' = [pc EXCEPT ![t] = "linkHead"] /\ pc'[t] = "linkHead"
  BY DEF TouchUnlink, Goto, Types
<1>2. s \in ToSet(u) /\ s \in Slots /\ s \notin ToSet(f)
  BY <1>1, HandFacts DEF Placed, Threaded
<1>3. PICK k \in DOMAIN u : u[k] = s /\ Lists!Without(u, s) = RemoveAt(u, k)
  BY <1>2, WithoutFacts
<1>4. PICK r : r = RemoveAt(u, k)
  OBVIOUS
<1>5. Threaded(r, f)' /\ LinkTypes'
  BY <1>3, <1>4, UnlinkStep DEF TouchUnlink, Placed, Types
<1>6. ToSet(r) = ToSet(u) \ {s}
  BY <1>3, <1>4, CutFacts DEF Placed, Threaded
<1>7. UNCHANGED <<descs, hash, slot, want, holder, holds, freeHead>>
  BY DEF TouchUnlink, unlink
<1>8. Types'
  <2>1. usedHead' \in SlotOrNone /\ usedTail' \in SlotOrNone
    BY <1>2 DEF TouchUnlink, unlink, Types, LinkTypes
  <2> QED BY <1>1, <1>5, <1>7, <2>1 DEF Types, descs
<1>9. Placed(t, r, f)'
  BY <1>1, <1>2, <1>5, <1>6, <1>7 DEF Placed, InHand
<1>10. TableExact(t, r)'
  BY <1>1, <1>2, <1>6, <1>7 DEF TableExact, Tabled, InHand, descs
<1> QED BY <1>2, <1>3, <1>4, <1>8, <1>9, <1>10

(* The victim leaves the used list for the hand.                           *)
LEMMA UnlinkVictimInv ==
  ASSUME NEW t \in Threads, NEW u, NEW f, SerialInv(t, u, f), UnlinkVictim(t),
         NEW s, s = slot[t]
  PROVE  s \in ToSet(u) /\ SerialInv(t, Lists!Without(u, s), f)'
<1> USE DEF SerialInv, Steps, OnUsed, Linking, OffLists, Untabled, Missing
<1>1. pc[t] = "unlinkVictim" /\ pc' = [pc EXCEPT ![t] = "linkNew"] /\ pc'[t] = "linkNew"
  BY DEF UnlinkVictim, Goto, Types
<1>2. s \in ToSet(u) /\ s \in Slots /\ s \notin ToSet(f)
  BY <1>1, HandFacts DEF Placed, Threaded
<1>3. PICK k \in DOMAIN u : u[k] = s /\ Lists!Without(u, s) = RemoveAt(u, k)
  BY <1>2, WithoutFacts
<1>4. PICK r : r = RemoveAt(u, k)
  OBVIOUS
<1>5. Threaded(r, f)' /\ LinkTypes'
  BY <1>3, <1>4, UnlinkStep DEF UnlinkVictim, Placed, Types
<1>6. ToSet(r) = ToSet(u) \ {s}
  BY <1>3, <1>4, CutFacts DEF Placed, Threaded
<1>7. UNCHANGED <<descs, hash, slot, want, holder, holds, freeHead>>
  BY DEF UnlinkVictim, unlink
<1>8. Types'
  <2>1. usedHead' \in SlotOrNone /\ usedTail' \in SlotOrNone
    BY <1>2 DEF UnlinkVictim, unlink, Types, LinkTypes
  <2> QED BY <1>1, <1>5, <1>7, <2>1 DEF Types, descs
<1>9. Placed(t, r, f)'
  BY <1>1, <1>2, <1>5, <1>6, <1>7 DEF Placed, InHand
<1>10. TableExact(t, r)'
  BY <1>1, <1>2, <1>6, <1>7 DEF TableExact, Tabled, InHand, descs
<1> QED BY <1>2, <1>3, <1>4, <1>8, <1>9, <1>10

(* The frame of a page that could not be loaded leaves the used list for   *)
(* the hand.                                                               *)
LEMMA DropInv ==
  ASSUME NEW t \in Threads, NEW u, NEW f, SerialInv(t, u, f), Drop(t),
         NEW s, s = slot[t]
  PROVE  s \in ToSet(u) /\ SerialInv(t, Lists!Without(u, s), f)'
<1> USE DEF SerialInv, Steps, OnUsed, Linking, OffLists, Untabled, Missing
<1>1. pc[t] = "drop" /\ pc' = [pc EXCEPT ![t] = "free"] /\ pc'[t] = "free"
  BY DEF Drop, Goto, Types
<1>2. s \in ToSet(u) /\ s \in Slots /\ s \notin ToSet(f)
  BY <1>1, HandFacts DEF Placed, Threaded
<1>3. PICK k \in DOMAIN u : u[k] = s /\ Lists!Without(u, s) = RemoveAt(u, k)
  BY <1>2, WithoutFacts
<1>4. PICK r : r = RemoveAt(u, k)
  OBVIOUS
<1>5. Threaded(r, f)' /\ LinkTypes'
  BY <1>3, <1>4, UnlinkStep DEF Drop, Placed, Types
<1>6. ToSet(r) = ToSet(u) \ {s}
  BY <1>3, <1>4, CutFacts DEF Placed, Threaded
<1>7. UNCHANGED <<descs, hash, slot, want, holder, holds, freeHead>>
  BY DEF Drop, unlink
<1>8. Types'
  <2>1. usedHead' \in SlotOrNone /\ usedTail' \in SlotOrNone
    BY <1>2 DEF Drop, unlink, Types, LinkTypes
  <2> QED BY <1>1, <1>5, <1>7, <2>1 DEF Types, descs
<1>9. Placed(t, r, f)'
  BY <1>1, <1>2, <1>5, <1>6, <1>7 DEF Placed, InHand
<1>10. TableExact(t, r)'
  BY <1>1, <1>2, <1>6, <1>7 DEF TableExact, Tabled, InHand, descs
<1> QED BY <1>2, <1>3, <1>4, <1>8, <1>9, <1>10

(* The frame of the hit goes from the hand to the head of the used list.   *)
LEMMA TouchLinkInv ==
  ASSUME NEW t \in Threads, NEW u, NEW f, SerialInv(t, u, f), TouchLink(t),
         NEW s, s = slot[t]
  PROVE  SerialInv(t, Cons(s, u), f)'
<1> USE DEF SerialInv, Steps, OnUsed, Linking, OffLists, Untabled, Missing
<1>1. pc[t] = "linkHead" /\ pc' = [pc EXCEPT ![t] = "idle"] /\ pc'[t] = "idle"
  BY DEF TouchLink, Goto, Types
<1>2. s \in Slots \ (ToSet(u) \cup ToSet(f))
  BY <1>1, HandFacts
<1>3. PICK r : r = Cons(s, u)
  OBVIOUS
<1>4. Threaded(r, f)' /\ LinkTypes'
  BY <1>2, <1>3, LinkStep DEF TouchLink, Placed, Types
<1>5. ToSet(r) = ToSet(u) \cup {s}
  BY <1>2, <1>3, FrontFacts DEF Placed, Threaded
<1>6. UNCHANGED <<descs, hash, slot, want, holder, holds, freeHead>>
  BY DEF TouchLink, linkHead
<1>7. Types'
  <2>1. usedHead' \in SlotOrNone /\ usedTail' \in SlotOrNone
    BY <1>2 DEF TouchLink, linkHead, Types, SlotOrNone
  <2> QED BY <1>1, <1>4, <1>6, <2>1 DEF Types, descs
<1>8. Placed(t, r, f)'
  BY <1>1, <1>2, <1>4, <1>5, <1>6 DEF Placed, InHand
<1>9. TableExact(t, r)'
  BY <1>1, <1>2, <1>5, <1>6 DEF TableExact, Tabled, InHand, descs
<1> QED BY <1>3, <1>7, <1>8, <1>9

(* The frame of the new page goes from the hand to the head of the used    *)
(* list.                                                                   *)
LEMMA LinkNewInv ==
  ASSUME NEW t \in Threads, NEW u, NEW f, SerialInv(t, u, f), LinkNew(t),
         NEW s, s = slot[t]
  PROVE  SerialInv(t, Cons(s, u), f)'
<1> USE DEF SerialInv, Steps, OnUsed, Linking, OffLists, Untabled, Missing
<1>1. pc[t] = "linkNew" /\ pc' = [pc EXCEPT ![t] = "load"] /\ pc'[t] = "load"
  BY DEF LinkNew, Goto, Types
<1>2. s \in Slots \ (ToSet(u) \cup ToSet(f))
  BY <1>1, HandFacts
<1>3. PICK r : r = Cons(s, u)
  OBVIOUS
<1>4. Threaded(r, f)' /\ LinkTypes'
  BY <1>2, <1>3, LinkStep DEF LinkNew, Placed, Types
<1>5. ToSet(r) = ToSet(u) \cup {s}
  BY <1>2, <1>3, FrontFacts DEF Placed, Threaded
<1>6. UNCHANGED <<descs, hash, slot, want, holder, holds, freeHead>>
  BY DEF LinkNew, linkHead
<1>7. Types'
  <2>1. usedHead' \in SlotOrNone /\ usedTail' \in SlotOrNone
    BY <1>2 DEF LinkNew, linkHead, Types, SlotOrNone
  <2> QED BY <1>1, <1>4, <1>6, <2>1 DEF Types, descs
<1>8. Placed(t, r, f)'
  BY <1>1, <1>2, <1>4, <1>5, <1>6 DEF Placed, InHand
<1>9. TableExact(t, r)'
  BY <1>1, <1>2, <1>5, <1>6 DEF TableExact, Tabled, InHand, descs
<1> QED BY <1>3, <1>7, <1>8, <1>9

(* The head of the free list goes into the hand.                           *)
LEMMA TakeFreeInv ==
  ASSUME NEW t \in Threads, NEW u, NEW f, SerialInv(t, u, f), TakeFree(t)
  PROVE  f # << >> /\ slot'[t] = Head(f) /\ SerialInv(t, u, Tail(f))'
<1> USE DEF SerialInv, Steps, OnUsed, Linking, OffLists, Untabled, Missing
<1>1. pc[t] = "takeFree" /\ pc' = [pc EXCEPT ![t] = "linkNew"] /\ pc'[t] = "linkNew"
  BY DEF TakeFree, Goto, Types
<1>2. f # << >> /\ List(Slots, f)
  BY <1>1 DEF Placed, Threaded
<1>3. PICK r : r = Tail(f)
  OBVIOUS
<1>4. freeHead = Head(f) /\ Threaded(u, r)'
  BY <1>2, <1>3, PopFree DEF TakeFree, Placed
<1>5. ToSet(r) = ToSet(f) \ {freeHead} /\ freeHead \in ToSet(f) /\ ToSet(f) \subseteq Slots
  BY <1>2, <1>3, <1>4, RestFacts, HandFacts
<1>6. /\ UNCHANGED <<next, prev, usedHead, usedTail, descs, hash, want, holder, holds>>
      /\ slot' = [slot EXCEPT ![t] = freeHead] /\ freeHead' = next[freeHead]
  BY DEF TakeFree
<1>7. slot'[t] = freeHead
  BY <1>6 DEF Types
<1>8. Types'
  BY <1>1, <1>5, <1>6 DEF Types, LinkTypes, SlotOrNone, descs
<1>9. Placed(t, u, r)'
  BY <1>1, <1>4, <1>5, <1>7 DEF Placed, Threaded, InHand
<1>10. TableExact(t, u)'
  <2>1. freeHead \notin ToSet(u)
    BY <1>5 DEF Placed, Threaded
  <2>2. Tabled(t, u)' = Tabled(t, u) /\ Tabled(t, u) = ToSet(u)
    BY <1>1, <1>7, <2>1 DEF Tabled, InHand
  <2> QED BY <1>1, <1>6, <2>2 DEF TableExact, descs
<1> QED BY <1>2, <1>3, <1>4, <1>7, <1>8, <1>9, <1>10

(* The frame goes from the hand to the free list.                          *)
LEMMA FreeInv ==
  ASSUME NEW t \in Threads, NEW u, NEW f, SerialInv(t, u, f), Free(t),
         NEW s, s = slot[t]
  PROVE  SerialInv(t, u, Cons(s, f))'
<1> USE DEF SerialInv, Steps, OnUsed, Linking, OffLists, Untabled, Missing
<1>1. pc[t] = "free" /\ pc' = [pc EXCEPT ![t] = "idle"] /\ pc'[t] = "idle"
  BY DEF Free, Goto, Types
<1>2. s \in Slots \ (ToSet(u) \cup ToSet(f))
  BY <1>1, HandFacts
<1>3. PICK r : r = Cons(s, f)
  OBVIOUS
<1>4. Threaded(u, r)' /\ LinkTypes'
  BY <1>2, <1>3, FreeStep DEF Free, Placed, Types
<1>5. ToSet(r) = ToSet(f) \cup {s}
  BY <1>2, <1>3, FrontFacts DEF Placed, Threaded
<1>6. UNCHANGED <<descs, hash, slot, want, holder, holds, usedHead, usedTail>> /\ freeHead' = s
  BY DEF Free, insertFree
<1>7. Types'
  BY <1>1, <1>2, <1>4, <1>6 DEF Types, SlotOrNone, descs
<1>8. Placed(t, u, r)'
  BY <1>1, <1>2, <1>4, <1>5, <1>6 DEF Placed, InHand
<1>9. TableExact(t, u)'
  BY <1>1, <1>2, <1>6 DEF TableExact, Tabled, InHand, descs
<1> QED BY <1>3, <1>7, <1>8, <1>9

(* The frame under the cursor goes from the used list to the free list,    *)
(* and its entry goes with it; the cursor has moved on before.             *)
LEMMA FlushReleaseInv ==
  ASSUME NEW t \in Threads, NEW u, NEW f, SerialInv(t, u, f), FlushRelease(t),
         NEW s, s = slot[t]
  PROVE  s \in ToSet(u) /\ SerialInv(t, Lists!Without(u, s), Cons(s, f))'
<1> USE DEF SerialInv, Steps, OnUsed, Linking, OffLists, Untabled, Missing
<1>1. s = slot[t]
  OBVIOUS
<1>2. pc[t] = "flush" /\ pc' = pc /\ s # INVALID_SLOT
  BY <1>1 DEF FlushRelease
<1>3. s \in ToSet(u) /\ s \in Slots /\ s \notin ToSet(f)
  BY <1>1, <1>2, HandFacts DEF Placed, Threaded
<1>4. PICK k \in DOMAIN u : u[k] = s /\ Lists!Without(u, s) = RemoveAt(u, k)
  BY <1>3, WithoutFacts
<1>5. PICK r : r = RemoveAt(u, k)
  OBVIOUS
<1>6. PICK g : g = Cons(s, f)
  OBVIOUS
<1>7. /\ Spliced(s) /\ freeHead' = s /\ next'[s] = freeHead
      /\ hash' = [hash EXCEPT ![pageOf[s]] = INVALID_SLOT] /\ pageOf[s] # NoPage
      /\ slot' = [slot EXCEPT ![t] = next[s]]
      /\ UNCHANGED <<descs, pc, want, holder, holds>>
  BY <1>1, <1>3 DEF FlushRelease, Spliced, InHash
<1>8. LinkTypes'
  BY <1>1, <1>3 DEF FlushRelease, LinkTypes, Types, SlotOrNone
<1>9. Threaded(r, g)'
  BY <1>4, <1>5, <1>6, <1>7, <1>8, ReleaseStep DEF Placed, Types
<1>10. ToSet(r) = ToSet(u) \ {s}
  BY <1>4, <1>5, CutFacts DEF Placed, Threaded
<1>11. ToSet(g) = ToSet(f) \cup {s}
  BY <1>3, <1>6, FrontFacts DEF Placed, Threaded
<1>12. slot'[t] = next[s] /\ next[s] \in ToSet(r) \cup {INVALID_SLOT}
  <2>1. next[s] \in ToSet(u) \cup {INVALID_SLOT}
    BY <1>3, HandFacts
  <2>2. next[s] = At(u, k + 1) /\ k + 1 \in Int /\ k + 1 # k
    BY <1>4, ListFacts DEF Placed, Threaded, Path
  <2>3. next[s] # s
    <3>1. List(Slots, u)
      BY DEF Placed, Threaded
    <3> QED BY <1>4, <2>2, <3>1, AtOnce
  <2>4. slot'[t] = next[s]
    BY <1>7 DEF Types
  <2> QED BY <1>10, <2>1, <2>3, <2>4
<1>13. Types'
  <2>1. usedHead' \in SlotOrNone /\ usedTail' \in SlotOrNone
    BY <1>3, <1>7 DEF Spliced, Types, LinkTypes
  <2>2. next[s] \in SlotOrNone
    BY <1>3 DEF Types, LinkTypes
  <2> QED BY <1>3, <1>7, <1>8, <2>1, <2>2 DEF Types, SlotOrNone, descs
<1>14. Placed(t, r, g)'
  BY <1>2, <1>3, <1>9, <1>10, <1>11, <1>12 DEF Placed, InHand
<1>15. TableExact(t, r)'
  <2>1. /\ Tabled(t, u) = ToSet(u) /\ Tabled(t, r)' = ToSet(r) /\ ToSet(u) \subseteq Slots
    BY <1>2, HandFacts DEF Tabled, InHand
  <2>2. pageOf[s] \in Pages /\ hash[pageOf[s]] = s
    BY <1>3, <2>1 DEF TableExact
  <2>3. \A p \in Pages : hash'[p] = IF p = pageOf[s] THEN INVALID_SLOT ELSE hash[p]
    BY <1>7 DEF Types
  <2>4. ASSUME NEW x \in ToSet(r) PROVE pageOf[x] \in Pages /\ hash'[pageOf[x]] = x
    <3>1. x \in ToSet(u) /\ x # s /\ pageOf[x] \in Pages /\ hash[pageOf[x]] = x
      BY <1>10, <2>1 DEF TableExact
    <3> QED BY <2>2, <2>3, <3>1
  <2>5. ASSUME NEW p \in Pages, hash'[p] # INVALID_SLOT
        PROVE  hash'[p] \in ToSet(r) /\ pageOf[hash'[p]] = p
    <3>1. p # pageOf[s] /\ hash'[p] = hash[p] /\ hash[p] # INVALID_SLOT
      BY <2>3, <2>5
    <3>2. hash[p] \in ToSet(u) /\ pageOf[hash[p]] = p
      BY <1>2, <2>1, <3>1 DEF TableExact
    <3> QED BY <1>10, <3>1, <3>2
  <2> QED BY <1>2, <1>7, <2>1, <2>4, <2>5 DEF TableExact, descs
<1> QED BY <1>1, <1>3, <1>4, <1>5, <1>6, <1>13, <1>14, <1>15

(* unpinPage takes the frame in hand when its pin count reaches zero.      *)
LEMMA UnpinInv ==
  ASSUME NEW t \in Threads, NEW u, NEW f, SerialInv(t, u, f), Unpin(t)
  PROVE  SerialInv(t, u, f)'
<1> USE DEF SerialInv, Steps, OnUsed, Linking, OffLists, Untabled, Missing
<1>1. Threaded(u, f)' /\ LinkTypes'
  BY SameLinks DEF Unpin, Placed, Types
<1>2. PICK i \in DOMAIN holds[t] :
        LET s == hash[holds[t][i][1]]
        IN /\ holds' = [holds EXCEPT ![t] = RemoveAt(@, i)]
           /\ IF s # INVALID_SLOT /\ pinCount[s] > 0
              THEN /\ pinCount' = [pinCount EXCEPT ![s] = @ - 1]
                   /\ slot' = [slot EXCEPT ![t] = s]
                   /\ pc' = [pc EXCEPT ![t] = IF pinCount[s] = 1 THEN "unlink" ELSE "idle"]
              ELSE UNCHANGED <<pinCount, slot, pc>>
  BY DEF Unpin
<1>3. holds[t][i] \in Pages \X Slots /\ holds[t] \in Seq(Pages \X Slots)
  BY DEF Types
<1>4. PICK s : s = hash[holds[t][i][1]]
  OBVIOUS
<1>5. /\ pc[t] = "idle" /\ UNCHANGED <<links, pageOf, hash, want, holder>>
  BY DEF Unpin
<1>6. s # INVALID_SLOT => s \in ToSet(u) /\ s \in Slots
  <2>1. holds[t][i][1] \in Pages
    BY <1>3
  <2> QED BY <1>4, <1>5, <2>1, HandFacts DEF TableExact, Tabled, InHand
<1>7. holds' \in [Threads -> Seq(Pages \X Slots)]
  <2>1. RemoveAt(holds[t], i) \in Seq(Pages \X Slots)
    BY <1>3, RestOfPins
  <2> QED BY <1>2, <2>1 DEF Types
<1>8. CASE s # INVALID_SLOT /\ pinCount[s] > 0
  <2>1. /\ pinCount' = [pinCount EXCEPT ![s] = @ - 1]
        /\ slot' = [slot EXCEPT ![t] = s]
        /\ pc' = [pc EXCEPT ![t] = IF pinCount[s] = 1 THEN "unlink" ELSE "idle"]
    BY <1>2, <1>4, <1>8
  <2>2. pinCount' \in [Slots -> Nat]
    BY <1>6, <1>8, <2>1 DEF Types
  <2>3. slot'[t] = s /\ pc'[t] \in {"unlink", "idle"}
    BY <2>1 DEF Types
  <2>4. Types'
    BY <1>1, <1>5, <1>6, <1>7, <1>8, <2>1, <2>2 DEF Types, links, SlotOrNone
  <2>5. Placed(t, u, f)'
    BY <1>1, <1>5, <1>6, <1>8, <2>3 DEF Placed, InHand
  <2>6. TableExact(t, u)'
    BY <1>5, <2>3 DEF TableExact, Tabled, InHand
  <2> QED BY <2>4, <2>5, <2>6
<1>9. CASE ~(s # INVALID_SLOT /\ pinCount[s] > 0)
  <2>1. UNCHANGED <<pinCount, slot, pc>>
    BY <1>2, <1>4, <1>9
  <2>2. Types'
    BY <1>1, <1>5, <1>7, <2>1 DEF Types, links
  <2>3. Placed(t, u, f)'
    BY <1>1, <1>5, <2>1 DEF Placed, InHand
  <2>4. TableExact(t, u)'
    BY <1>5, <2>1 DEF TableExact, Tabled, InHand
  <2> QED BY <2>2, <2>3, <2>4
<1> QED BY <1>8, <1>9

(* One thread meets nobody. *)
LEMMA NotOvertaken ==
  ASSUME NEW t, NEW u, NEW f, SerialInv(t, u, f)
  PROVE  ~Overtaken(t)
<1> USE DEF SerialInv, Steps, OnUsed, Linking, OffLists, Untabled, Missing
<1>1. ~TakeFreeAgain(t)
  BY HandFacts DEF TakeFreeAgain, Goto, Placed
<1>2. pc[t] = "hashRemove" => InHash(pageOf[slot[t]])
  <2>1. SUFFICES ASSUME pc[t] = "hashRemove" PROVE InHash(pageOf[slot[t]])
    OBVIOUS
  <2>2. slot[t] \in Tabled(t, u) /\ slot[t] \in Slots
    BY <2>1, HandFacts DEF Tabled, InHand
  <2> QED BY <2>2, SlotsFacts, ThreadsAssumption DEF TableExact, InHash
<1>3. ~VictimNotInHash(t)
  BY <1>2 DEF VictimNotInHash, Goto
<1>4. ~PageExists(t)
  BY DEF PageExists, Goto, TableExact
<1>5. pc[t] = "flush" /\ slot[t] # INVALID_SLOT => InHash(pageOf[slot[t]])
  <2>1. SUFFICES ASSUME pc[t] = "flush", slot[t] # INVALID_SLOT PROVE InHash(pageOf[slot[t]])
    OBVIOUS
  <2>2. slot[t] \in Tabled(t, u) /\ slot[t] \in Slots
    BY <2>1, HandFacts DEF Tabled, InHand
  <2> QED BY <2>2, SlotsFacts, ThreadsAssumption DEF TableExact, InHash
<1>6. ~FlushNotInHash(t)
  BY <1>5 DEF FlushNotInHash, Goto
<1> QED BY <1>1, <1>3, <1>4, <1>6 DEF Overtaken

-----------------------------------------------------------------------------
(* The lists as SlotLists sees them: a frame counts as moved when it has   *)
(* left its old list.                                                      *)
Seen(t, u) == IF pc[t] \in Linking THEN Cons(slot[t], u) ELSE u
(* The same of the free list.                                              *)
SeenFree(t, f) == IF pc[t] = "free" THEN Cons(slot[t], f) ELSE f

(* What one step of SlotLists may make of the lists U and F.               *)
ListMove(U, F, V, G) ==
  \/ V = U /\ G = F
  \/ F # << >> /\ V = Cons(Head(F), U) /\ G = Tail(F)
  \/ \E s \in ToSet(U) : V = Cons(s, Lists!Without(U, s)) /\ G = F
  \/ \E s \in ToSet(U) : V = Lists!Without(U, s) /\ G = Cons(s, F)

(* Every step of the thread keeps the invariant for some lists, which are  *)
(* the old ones or what one move of SlotLists makes of them.               *)
LEMMA StepInv ==
  ASSUME NEW t \in Threads, NEW u, NEW f, SerialInv(t, u, f),
         Begin(t) \/ Continue(t) \/ UNCHANGED vars
  PROVE  \E v, g : /\ SerialInv(t, v, g)'
                   /\ ListMove(Seen(t, u), SeenFree(t, f), Seen(t, v)', SeenFree(t, g)')
<1> PICK s : s = slot[t]
  OBVIOUS
<1> USE DEF Linking
<1>1. pc \in [Threads -> Steps] /\ slot \in [Threads -> SlotOrNone]
  BY DEF SerialInv, Types
<1>2. CASE UNCHANGED vars
  <2>1. SerialInv(t, u, f)'
    BY <1>2 DEF vars, links, descs, locals, SerialInv, Types, LinkTypes, Placed, Threaded,
                Path, BackPath, InHand, TableExact, Tabled
  <2>2. Seen(t, u)' = Seen(t, u) /\ SeenFree(t, f)' = SeenFree(t, f)
    BY <1>2 DEF vars, locals, Seen, SeenFree
  <2> QED BY <2>1, <2>2 DEF ListMove
<1>3. ASSUME NEW p \in Pages, GetHit(t, p)
      PROVE  /\ SerialInv(t, u, f)' /\ Seen(t, u)' = u /\ Seen(t, u) = u
             /\ SeenFree(t, f)' = f /\ SeenFree(t, f) = f
  BY <1>1, <1>3, GetHitInv DEF GetHit, Goto, Seen, SeenFree
<1>4. ASSUME NEW p \in Pages, GetMiss(t, p)
      PROVE  /\ SerialInv(t, u, f)' /\ Seen(t, u)' = u /\ Seen(t, u) = u
             /\ SeenFree(t, f)' = f /\ SeenFree(t, f) = f
  BY <1>1, <1>4, GetMissInv DEF GetMiss, Goto, Seen, SeenFree
<1>5. CASE Pin(t)
  <2>1. SerialInv(t, u, f)'
    BY <1>5, PinInv
  <2>2. Seen(t, u)' = u /\ Seen(t, u) = u /\ SeenFree(t, f)' = f /\ SeenFree(t, f) = f
    BY <1>1, <1>5 DEF Pin, Goto, Seen, SeenFree
  <2> QED BY <2>1, <2>2 DEF ListMove
<1>6. CASE SeeFree(t)
  <2>1. SerialInv(t, u, f)'
    BY <1>6, SeeFreeInv
  <2>2. Seen(t, u)' = u /\ Seen(t, u) = u /\ SeenFree(t, f)' = f /\ SeenFree(t, f) = f
    BY <1>1, <1>6 DEF SeeFree, Goto, Seen, SeenFree
  <2> QED BY <2>1, <2>2 DEF ListMove
<1>7. CASE ChooseVictim(t)
  <2>1. SerialInv(t, u, f)'
    BY <1>7, ChooseVictimInv
  <2>2. Seen(t, u)' = u /\ Seen(t, u) = u /\ SeenFree(t, f)' = f /\ SeenFree(t, f) = f
    BY <1>1, <1>7 DEF ChooseVictim, Goto, Seen, SeenFree
  <2> QED BY <2>1, <2>2 DEF ListMove
<1>8. CASE HashRemove(t)
  <2>1. SerialInv(t, u, f)'
    BY <1>8, HashRemoveInv
  <2>2. Seen(t, u)' = u /\ Seen(t, u) = u /\ SeenFree(t, f)' = f /\ SeenFree(t, f) = f
    BY <1>1, <1>8 DEF HashRemove, Goto, Seen, SeenFree
  <2> QED BY <2>1, <2>2 DEF ListMove
<1>9. CASE InsertHash(t)
  <2>1. SerialInv(t, u, f)'
    BY <1>9, InsertHashInv
  <2>2. Seen(t, u)' = u /\ Seen(t, u) = u /\ SeenFree(t, f)' = f /\ SeenFree(t, f) = f
    BY <1>1, <1>9 DEF InsertHash, Goto, Seen, SeenFree
  <2> QED BY <2>1, <2>2 DEF ListMove
<1>10. CASE ReadFails(t)
  <2>1. SerialInv(t, u, f)'
    BY <1>10, ReadFailsInv
  <2>2. Seen(t, u)' = u /\ Seen(t, u) = u /\ SeenFree(t, f)' = f /\ SeenFree(t, f) = f
    BY <1>1, <1>10 DEF ReadFails, Goto, Seen, SeenFree
  <2> QED BY <2>1, <2>2 DEF ListMove
<1>11. CASE InitPageDesc(t)
  <2>1. SerialInv(t, u, f)'
    BY <1>11, InitPageDescInv
  <2>2. Seen(t, u)' = u /\ Seen(t, u) = u /\ SeenFree(t, f)' = f /\ SeenFree(t, f) = f
    BY <1>1, <1>11 DEF InitPageDesc, Goto, Seen, SeenFree
  <2> QED BY <2>1, <2>2 DEF ListMove
<1>12. CASE StartFlush(t)
  <2>1. SerialInv(t, u, f)'
    BY <1>12, StartFlushInv
  <2>2. Seen(t, u)' = u /\ Seen(t, u) = u /\ SeenFree(t, f)' = f /\ SeenFree(t, f) = f
    BY <1>1, <1>12 DEF StartFlush, Goto, Seen, SeenFree
  <2> QED BY <2>1, <2>2 DEF ListMove
<1>13. CASE FlushSkip(t)
  <2>1. SerialInv(t, u, f)'
    BY <1>13, FlushSkipInv
  <2>2. Seen(t, u)' = u /\ Seen(t, u) = u /\ SeenFree(t, f)' = f /\ SeenFree(t, f) = f
    BY <1>1, <1>13 DEF FlushSkip, Goto, Seen, SeenFree
  <2> QED BY <2>1, <2>2 DEF ListMove
<1>14. CASE FlushEnd(t)
  <2>1. SerialInv(t, u, f)'
    BY <1>14, FlushEndInv
  <2>2. Seen(t, u)' = u /\ Seen(t, u) = u /\ SeenFree(t, f)' = f /\ SeenFree(t, f) = f
    BY <1>1, <1>14 DEF FlushEnd, Goto, Seen, SeenFree
  <2> QED BY <2>1, <2>2 DEF ListMove
<1>15. CASE Unpin(t)
  <2>1. SerialInv(t, u, f)'
    BY <1>15, UnpinInv
  <2>2. Seen(t, u)' = u /\ Seen(t, u) = u /\ SeenFree(t, f)' = f /\ SeenFree(t, f) = f
    BY <1>1, <1>15 DEF Unpin, Seen, SeenFree
  <2> QED BY <2>1, <2>2 DEF ListMove
<1>16. CASE TouchUnlink(t)
  <2>1. s \in ToSet(u) /\ SerialInv(t, Lists!Without(u, s), f)'
    BY <1>16, TouchUnlinkInv
  <2>2. /\ Seen(t, u) = u /\ Seen(t, Lists!Without(u, s))' = Cons(s, Lists!Without(u, s))
        /\ SeenFree(t, f)' = f /\ SeenFree(t, f) = f
    BY <1>1, <1>16 DEF TouchUnlink, Goto, Seen, SeenFree
  <2> QED BY <2>1, <2>2 DEF ListMove
<1>17. CASE UnlinkVictim(t)
  <2>1. s \in ToSet(u) /\ SerialInv(t, Lists!Without(u, s), f)'
    BY <1>17, UnlinkVictimInv
  <2>2. /\ Seen(t, u) = u /\ Seen(t, Lists!Without(u, s))' = Cons(s, Lists!Without(u, s))
        /\ SeenFree(t, f)' = f /\ SeenFree(t, f) = f
    BY <1>1, <1>17 DEF UnlinkVictim, Goto, Seen, SeenFree
  <2> QED BY <2>1, <2>2 DEF ListMove
<1>18. CASE TouchLink(t)
  <2>1. SerialInv(t, Cons(s, u), f)'
    BY <1>18, TouchLinkInv
  <2>2. /\ Seen(t, u) = Cons(s, u) /\ Seen(t, Cons(s, u))' = Cons(s, u)
        /\ SeenFree(t, f)' = f /\ SeenFree(t, f) = f
    BY <1>1, <1>18 DEF TouchLink, Goto, Seen, SeenFree
  <2> QED BY <2>1, <2>2 DEF ListMove
<1>19. CASE LinkNew(t)
  <2>1. SerialInv(t, Cons(s, u), f)'
    BY <1>19, LinkNewInv
  <2>2. /\ Seen(t, u) = Cons(s, u) /\ Seen(t, Cons(s, u))' = Cons(s, u)
        /\ SeenFree(t, f)' = f /\ SeenFree(t, f) = f
    BY <1>1, <1>19 DEF LinkNew, Goto, Seen, SeenFree
  <2> QED BY <2>1, <2>2 DEF ListMove
<1>20. CASE TakeFree(t)
  <2>1. f # << >> /\ slot'[t] = Head(f) /\ SerialInv(t, u, Tail(f))'
    BY <1>20, TakeFreeInv
  <2>2. /\ Seen(t, u) = u /\ Seen(t, u)' = Cons(Head(f), u)
        /\ SeenFree(t, Tail(f))' = Tail(f) /\ SeenFree(t, f) = f
    BY <1>1, <1>20, <2>1 DEF TakeFree, Goto, Seen, SeenFree
  <2> QED BY <2>1, <2>2 DEF ListMove
<1>21. CASE Drop(t)
  <2>1. s \in ToSet(u) /\ SerialInv(t, Lists!Without(u, s), f)'
    BY <1>21, DropInv
  <2>2. /\ Seen(t, u) = u /\ Seen(t, Lists!Without(u, s))' = Lists!Without(u, s)
        /\ SeenFree(t, f)' = Cons(s, f) /\ SeenFree(t, f) = f
    BY <1>1, <1>21 DEF Drop, Goto, Seen, SeenFree
  <2> QED BY <2>1, <2>2 DEF ListMove
<1>22. CASE Free(t)
  <2>1. SerialInv(t, u, Cons(s, f))'
    BY <1>22, FreeInv
  <2>2. /\ Seen(t, u) = u /\ Seen(t, u)' = u
        /\ SeenFree(t, Cons(s, f))' = Cons(s, f) /\ SeenFree(t, f) = Cons(s, f)
    BY <1>1, <1>22 DEF Free, Goto, Seen, SeenFree
  <2> QED BY <2>1, <2>2 DEF ListMove
<1>23. CASE FlushRelease(t)
  <2>1. s \in ToSet(u) /\ SerialInv(t, Lists!Without(u, s), Cons(s, f))'
    BY <1>23, FlushReleaseInv
  <2>2. /\ Seen(t, u) = u /\ Seen(t, Lists!Without(u, s))' = Lists!Without(u, s)
        /\ SeenFree(t, Cons(s, f))' = Cons(s, f) /\ SeenFree(t, f) = f
    BY <1>1, <1>23 DEF FlushRelease, Seen, SeenFree
  <2> QED BY <2>1, <2>2 DEF ListMove
<1>25. CASE Begin(t)
  BY <1>25, <1>3, <1>4, <1>12, <1>15 DEF Begin, ListMove
<1>26. CASE Continue(t)
  BY <1>26, <1>5, <1>6, <1>7, <1>8, <1>9, <1>10, <1>11, <1>13, <1>14, <1>16, <1>17, <1>18,
     <1>19, <1>20, <1>21, <1>22, <1>23 DEF Continue
<1> QED BY <1>2, <1>25, <1>26

-----------------------------------------------------------------------------
(* Every other thread is between two calls. *)
Others(t) == \A x \in Threads \ {t} : pc[x] = "idle"

(* A list has as many places as elements.                                  *)
LEMMA ListCardinality ==
  ASSUME NEW S, NEW s, List(S, s)
  PROVE  IsFiniteSet(ToSet(s)) /\ Cardinality(ToSet(s)) = Len(s)
<1>1. PICK n \in Nat : n = Len(s)
  BY ListFacts
<1>2. IsFiniteSet(1 .. n) /\ Cardinality(1 .. n) = n
  <2>1. 1 \in Int /\ n \in Int /\ (1 > n => n = 0) /\ n - 1 + 1 = n
    OBVIOUS
  <2> QED BY <2>1, FS_Interval
<1>3. s \in [1 .. n -> ToSet(s)]
  BY <1>1 DEF List, ToSet
<1>4. \A x \in ToSet(s) : \E i \in 1 .. n : s[i] = x
  BY <1>1, ListFacts
<1>5. s \in Surjection(1 .. n, ToSet(s))
  BY <1>3, <1>4, Fun_IsSurj
<1>6. s \in Injection(1 .. n, ToSet(s))
  <2>1. \A i, j \in 1 .. n : s[i] = s[j] => i = j
    BY <1>1, ListFacts
  <2> QED BY <1>3, <2>1 DEF Injection, IsInjective
<1> QED BY <1>1, <1>2, <1>5, <1>6, FS_Surjection

(* The invariant of a thread gives ListsSound when no other thread is      *)
(* inside a call.                                                          *)
LEMMA SoundFacts ==
  ASSUME NEW t \in Threads, NEW u, NEW f, SerialInv(t, u, f), Others(t)
  PROVE  ListsSound
<1>1. UsedChain = u /\ FreeChain = f /\ Chain(prev, usedTail) = Reverse(u)
  BY ChainsAre DEF SerialInv, Types, Placed
<1>2. List(Slots, u) /\ List(Slots, f) /\ ToSet(u) \cap ToSet(f) = {}
  BY DEF SerialInv, Placed, Threaded
<1>3. PICK H : H = ToLink \cup ToFree
  OBVIOUS
<1>4. H = InHand(t, OffLists)
  <2>1. ToLink = IF pc[t] \in Linking THEN {slot[t]} ELSE {}
    BY DEF ToLink, Linking, Others
  <2>2. ToFree = IF pc[t] = "free" THEN {slot[t]} ELSE {}
    BY DEF ToFree, Others
  <2> QED BY <1>3, <2>1, <2>2 DEF InHand, OffLists, Linking
<1>5. /\ ToSet(u) \cup ToSet(f) \cup H = Slots
      /\ H \cap (ToSet(u) \cup ToSet(f)) = {}
  BY <1>4 DEF SerialInv, Placed
<1>6. IsFiniteSet(H)
  BY <1>4, FS_EmptySet, FS_Singleton DEF InHand
<1>7. /\ IsFiniteSet(ToSet(u)) /\ IsFiniteSet(ToSet(f))
      /\ Cardinality(ToSet(u)) = Len(u) /\ Cardinality(ToSet(f)) = Len(f)
  BY <1>2, ListCardinality
<1>8. PICK a \in Nat, b \in Nat, c \in Nat : a = Len(u) /\ b = Len(f) /\ c = Cardinality(H)
  BY <1>2, <1>6, ListFacts, FS_CardinalityType
<1>9. \A A, B : IsFiniteSet(A) /\ IsFiniteSet(B) /\ A \cap B = {}
        => /\ IsFiniteSet(A \cup B)
           /\ Cardinality(A \cup B) = Cardinality(A) + Cardinality(B)
  <2> SUFFICES ASSUME NEW A, NEW B, IsFiniteSet(A), IsFiniteSet(B), A \cap B = {}
               PROVE  /\ IsFiniteSet(A \cup B)
                      /\ Cardinality(A \cup B) = Cardinality(A) + Cardinality(B)
    OBVIOUS
  <2>1. PICK m \in Nat, n \in Nat : m = Cardinality(A) /\ n = Cardinality(B)
    BY FS_CardinalityType
  <2>2. IsFiniteSet(A \cup B) /\ Cardinality(A \cup B) = m + n - Cardinality(A \cap B)
    BY <2>1, FS_Union
  <2>3. Cardinality(A \cap B) = 0
    BY FS_EmptySet
  <2>4. m + n - 0 = m + n
    OBVIOUS
  <2> QED BY <2>1, <2>2, <2>3, <2>4
<1>10. Cardinality((ToSet(u) \cup ToSet(f)) \cup H) = a + b + c
  <2>1. /\ IsFiniteSet(ToSet(u) \cup ToSet(f))
        /\ Cardinality(ToSet(u) \cup ToSet(f)) = a + b
    BY <1>2, <1>7, <1>8, <1>9
  <2>2. (ToSet(u) \cup ToSet(f)) \cap H = {}
    BY <1>5
  <2> QED BY <1>6, <1>8, <1>9, <2>1, <2>2
<1>11. a + b + c = NumPages
  BY <1>5, <1>10, SlotsFacts
<1>12. u = Reverse(Reverse(u))
  BY <1>2, ReverseFacts
<1>13. ToSet(u) \cup ToSet(f) \cup ToLink \cup ToFree = Slots
  BY <1>3, <1>5
<1> QED BY <1>1, <1>3, <1>8, <1>11, <1>12, <1>13 DEF ListsSound

(* What the chains are in terms of the lists, in this state and the next.  *)
LEMMA SeenFacts ==
  ASSUME NEW t \in Threads, NEW u, NEW f, SerialInv(t, u, f), Others(t)
  PROVE  Prefixed(ToLink, UsedChain) = Seen(t, u) /\ Prefixed(ToFree, FreeChain) = SeenFree(t, f)
<1>1. UsedChain = u /\ FreeChain = f
  BY ChainsAre DEF SerialInv, Types, Placed
<1>2. ToLink = IF pc[t] \in Linking THEN {slot[t]} ELSE {}
  BY DEF ToLink, Linking, Others
<1>3. ToFree = IF pc[t] = "free" THEN {slot[t]} ELSE {}
  BY DEF ToFree, Others
<1>4. \A x : {x} # {} /\ (CHOOSE y \in {x} : TRUE) = x
  OBVIOUS
<1> QED BY <1>1, <1>2, <1>3, <1>4 DEF Prefixed, Seen, SeenFree, Cons

(* The same of the next state.                                             *)
LEMMA SeenFactsNext ==
  ASSUME NEW t \in Threads, NEW u, NEW f, SerialInv(t, u, f)', Others(t)'
  PROVE  /\ Prefixed(ToLink, UsedChain)' = Seen(t, u)'
         /\ Prefixed(ToFree, FreeChain)' = SeenFree(t, f)'
<1>1. UsedChain' = u /\ FreeChain' = f
  <2>1. /\ List(Slots, u) /\ List(Slots, f) /\ Path(next', usedHead', u)
        /\ Path(next', freeHead', f) /\ DOMAIN next' = Slots
    BY DEF SerialInv, Placed, Threaded, Types, LinkTypes, Path
  <2>2. Chain(next', usedHead') = u /\ Chain(next', freeHead') = f
    BY <2>1, SlotsFacts, PathIsChain
  <2> QED BY <2>2 DEF UsedChain, FreeChain
<1>2. ToLink' = IF pc'[t] \in Linking THEN {slot'[t]} ELSE {}
  BY DEF ToLink, Linking, Others
<1>3. ToFree' = IF pc'[t] = "free" THEN {slot'[t]} ELSE {}
  BY DEF ToFree, Others
<1>4. \A x : {x} # {} /\ (CHOOSE y \in {x} : TRUE) = x
  OBVIOUS
<1> QED BY <1>1, <1>2, <1>3, <1>4 DEF Prefixed, Seen, SeenFree, Cons

(* A move of the lists is a step of SlotLists. *)
LEMMA MoveIsStep ==
  ASSUME ListMove(Prefixed(ToLink, UsedChain), Prefixed(ToFree, FreeChain),
                  Prefixed(ToLink, UsedChain)', Prefixed(ToFree, FreeChain)'),
         ToSet(Prefixed(ToLink, UsedChain)) \subseteq Slots
  PROVE  [Lists!Next]_(Lists!listVars)
BY DEF ListMove, Lists!Next, Lists!TakeFree, Lists!ToHead, Lists!Release, Lists!listVars,
       Lists!Cons, Cons, Lists!ToSet, ToSet, Slots

(* A step of a thread leaves the others where they are, and a thread       *)
(* between two calls has nothing to continue.                              *)
LEMMA OwnStep ==
  ASSUME NEW t \in Threads, pc \in [Threads -> Steps], Begin(t) \/ Continue(t)
  PROVE  /\ \A x \in Threads \ {t} : pc'[x] = pc[x]
         /\ Continue(t) => pc[t] # "idle"
         /\ Begin(t) => pc[t] = "idle"
<1> DEFINE Own == \A x \in Threads \ {t} : pc'[x] = pc[x]
<1>1. \A a, b : Goto(t, a, b) => pc[t] = a /\ Own
  BY DEF Goto
<1>2. UNCHANGED pc => Own
  OBVIOUS
<1>3. ASSUME NEW a, pc' = [pc EXCEPT ![t] = a] PROVE Own
  BY <1>3
<1>4. Unpin(t) \/ StartFlush(t) => pc[t] = "idle" /\ Own
  BY <1>1, <1>2, <1>3 DEF Unpin, StartFlush
<1>5. ASSUME NEW p \in Pages, GetHit(t, p) \/ GetMiss(t, p) PROVE pc[t] = "idle" /\ Own
  BY <1>1, <1>5 DEF GetHit, GetMiss
<1>6. Begin(t) => pc[t] = "idle" /\ Own
  BY <1>4, <1>5 DEF Begin
<1>7. SeeFree(t) \/ TakeFree(t) \/ ChooseVictim(t) \/ HashRemove(t) \/ UnlinkVictim(t)
      \/ LinkNew(t) \/ InsertHash(t) \/ InitPageDesc(t) => pc[t] # "idle" /\ Own
  BY <1>1 DEF SeeFree, TakeFree, ChooseVictim, HashRemove, UnlinkVictim, LinkNew,
     InsertHash, InitPageDesc
<1>8. ReadFails(t) \/ Drop(t) \/ Free(t) \/ Pin(t) \/ TouchUnlink(t) \/ TouchLink(t)
      \/ FlushEnd(t) => pc[t] # "idle" /\ Own
  BY <1>1 DEF ReadFails, Drop, Free, Pin, TouchUnlink, TouchLink, FlushEnd
<1>9. FlushSkip(t) \/ FlushRelease(t) => pc[t] # "idle" /\ Own
  BY <1>2 DEF FlushSkip, FlushRelease
<1>10. Continue(t) => pc[t] # "idle" /\ Own
  BY <1>7, <1>8, <1>9 DEF Continue
<1> QED BY <1>6, <1>10

(* Between two calls the invariant is the same for every thread.           *)
LEMMA AnyIdle ==
  ASSUME NEW t \in Threads, NEW x \in Threads, NEW u, NEW f, SerialInv(t, u, f),
         pc[t] = "idle", pc[x] = "idle"
  PROVE  SerialInv(x, u, f)
BY DEF SerialInv, Placed, InHand, OffLists, OnUsed, Linking, TableExact, Tabled, Untabled, Missing

(* The inductive invariant: one thread at most is inside a call, and its   *)
(* invariant holds of some two lists.                                      *)
Held(t) == Others(t) /\ \E u, f : SerialInv(t, u, f)
CallsInv == \E t \in Threads : Held(t)

(* Which thread takes the next step.                                       *)
LEMMA NextThread ==
  ASSUME CallsInv, [SerialNext]_vars
  PROVE  \E t \in Threads : Held(t) /\ (Begin(t) \/ Continue(t) \/ UNCHANGED vars)
<1>1. PICK t \in Threads : Held(t)
  BY DEF CallsInv
<1>2. PICK u, f : SerialInv(t, u, f)
  BY <1>1 DEF Held
<1>3. pc \in [Threads -> Steps]
  BY <1>2 DEF SerialInv, Types
<1>4. ASSUME NEW x \in Threads, NoneInside, Begin(x) PROVE Held(x)
  <2>1. pc[t] = "idle" /\ pc[x] = "idle" /\ Others(x)
    BY <1>4 DEF NoneInside, Others
  <2>2. SerialInv(x, u, f)
    BY <1>2, <2>1, AnyIdle
  <2> QED BY <2>1, <2>2 DEF Held
<1>5. ASSUME NEW x \in Threads, Continue(x) PROVE x = t
  BY <1>1, <1>3, <1>5, OwnStep DEF Held, Others
<1> QED BY <1>1, <1>4, <1>5 DEF SerialNext

(* Every step moves the lists as SlotLists allows and keeps the invariant. *)
LEMMA SerialStep ==
  ASSUME CallsInv, [SerialNext]_vars
  PROVE  CallsInv' /\ [Lists!Next]_(Lists!listVars)
<1>1. PICK t \in Threads : Held(t) /\ (Begin(t) \/ Continue(t) \/ UNCHANGED vars)
  BY NextThread
<1>2. PICK u, f : SerialInv(t, u, f)
  BY <1>1 DEF Held
<1>3. Others(t) /\ pc \in [Threads -> Steps]
  BY <1>1, <1>2 DEF SerialInv, Types, Held
<1>4. Others(t)'
  <2>1. CASE UNCHANGED vars
    BY <1>3, <2>1 DEF vars, locals, Others
  <2> QED BY <1>1, <1>3, <2>1, OwnStep DEF Others
<1>5. PICK v, g : /\ SerialInv(t, v, g)'
                  /\ ListMove(Seen(t, u), SeenFree(t, f), Seen(t, v)', SeenFree(t, g)')
  BY <1>1, <1>2, StepInv
<1>6. Prefixed(ToLink, UsedChain) = Seen(t, u) /\ Prefixed(ToFree, FreeChain) = SeenFree(t, f)
  BY <1>2, <1>3, SeenFacts
<1>7. /\ Prefixed(ToLink, UsedChain)' = Seen(t, v)'
      /\ Prefixed(ToFree, FreeChain)' = SeenFree(t, g)'
  BY <1>4, <1>5, SeenFactsNext
<1>8. ToSet(Seen(t, u)) \subseteq Slots
  <2>1. List(Slots, u) /\ ToSet(u) \subseteq Slots
    BY <1>2, HandFacts DEF SerialInv, Placed, Threaded
  <2>2. CASE pc[t] \in Linking
    <3>1. slot[t] \in Slots /\ slot[t] \notin ToSet(u)
      BY <1>2, <2>2, HandFacts DEF OffLists
    <3>2. ToSet(Cons(slot[t], u)) = ToSet(u) \cup {slot[t]}
      BY <2>1, <3>1, FrontFacts
    <3> QED BY <2>1, <2>2, <3>1, <3>2 DEF Seen
  <2> QED BY <2>1, <2>2 DEF Seen
<1>9. CallsInv'
  BY <1>4, <1>5 DEF CallsInv, Held
<1> QED BY <1>5, <1>6, <1>7, <1>8, <1>9, MoveIsStep

(* The pool starts with every frame on the free list.                      *)
LEMMA SerialInit ==
  ASSUME Init
  PROVE  CallsInv /\ Lists!Init
<1>1. PICK t \in Threads : TRUE
  BY ThreadsAssumption
<1>2. SerialInv(t, << >>, [i \in 1 .. NumPages |-> i - 1]) /\ Others(t) /\ pc[t] = "idle"
  BY InitInv DEF Init, Others
<1> QED BY <1>2, SeenFacts DEF Lists!Init, Seen, SeenFree, Linking, CallsInv, Held

(* The invariant holds at every step of calls that do not overlap.         *)
LEMMA CallsInvAlways == SerialSpec => []CallsInv
<1>1. Init => CallsInv
  BY SerialInit
<1>2. CallsInv /\ [SerialNext]_vars => CallsInv'
  BY SerialStep
<1> QED BY <1>1, <1>2, PTL DEF SerialSpec

(* When calls do not overlap, every frame is exactly once on the used or   *)
(* the free list or in the hand of the call that moves it, and the prev    *)
(* links read the used list backwards, at every step of every call: what   *)
(* unlink, linkHead and insertFree leave is always two lists, whatever the *)
(* number of frames, pages and threads.                                    *)
THEOREM SerialListsSound == SerialSpec => []ListsSound
<1>1. CallsInv => ListsSound
  BY SoundFacts DEF CallsInv, Held
<1> QED BY <1>1, CallsInvAlways, PTL

(* Then the links implement the sequences of SlotLists: a call moves one   *)
(* frame to the head of the used list or back to the free list, and leaves *)
(* the order of the others alone.                                          *)
THEOREM SerialImplements == SerialSpec => Implements
<1>1. Init => Lists!Init
  BY SerialInit
<1>2. CallsInv /\ [SerialNext]_vars => [Lists!Next]_(Lists!listVars)
  BY SerialStep
<1> QED BY <1>1, <1>2, CallsInvAlways, PTL DEF SerialSpec, Implements, Lists!Spec

(* No call waits for the lock it holds itself unless another one came in   *)
(* between: the free list is still there when bufferAlloc tests it again.  *)
THEOREM SerialNoSelfDeadlock == SerialSpec => []NoSelfDeadlock
<1>1. CallsInv => NoSelfDeadlock
  BY DEF CallsInv, Held, SerialInv, Types, NoSelfDeadlock, Steps
<1> QED BY <1>1, CallsInvAlways, PTL

(* One thread takes none of the steps of Overtaken: whatever it does is a  *)
(* behaviour of calls that do not overlap, and all of the above holds.     *)
THEOREM AloneIsSerial ==
  ASSUME NEW t, Threads = {t}
  PROVE  Spec => [][SerialNext]_vars /\ []ListsSound
<1>1. Init => CallsInv
  BY SerialInit
<1>2. CallsInv /\ [Next]_vars => [SerialNext]_vars
  <2> SUFFICES ASSUME CallsInv, Next PROVE SerialNext
    BY DEF SerialNext
  <2>1. PICK u, f : SerialInv(t, u, f)
    BY DEF CallsInv, Held
  <2>2. ~Overtaken(t)
    BY <2>1, NotOvertaken
  <2>3. Begin(t) => NoneInside
    BY DEF Begin, GetHit, GetMiss, Unpin, StartFlush, Goto, NoneInside
  <2> QED BY <2>2, <2>3 DEF Next, SerialNext
<1>3. CallsInv /\ [SerialNext]_vars => CallsInv'
  BY SerialStep
<1>4. CallsInv => ListsSound
  BY SoundFacts DEF CallsInv, Held
<1> QED BY <1>1, <1>2, <1>3, <1>4, PTL DEF Spec

-----------------------------------------------------------------------------
(* With any threads and any overlap: the frame a call works on is one of   *)
(* the pool at every step that uses it as an index.                        *)
Framed == OnUsed \cup OffLists
RangesOK ==
  /\ TypeOK
  /\ pc \in [Threads -> Steps \cup {"selfWait"}]
  /\ holds \in [Threads -> Seq(Pages \X Slots)]
  /\ \A t \in Threads : pc[t] \in Framed => slot[t] \in Slots
  /\ \A t \in Threads : pc[t] \in Missing \cup {"pin", "init"} => want[t] \in Pages

(* The helpers write links to frames only.                                 *)
LEMMA HelperRanges ==
  ASSUME TypeOK, NEW s \in Slots, unlink(s) \/ linkHead(s) \/ insertFree(s)
  PROVE  /\ next' \in [Slots -> SlotOrNone] /\ prev' \in [Slots -> SlotOrNone]
         /\ {usedHead, usedTail, freeHead}' \subseteq SlotOrNone
<1>1. INVALID_SLOT \in SlotOrNone /\ Slots \subseteq SlotOrNone
  BY DEF SlotOrNone
<1>2. CASE unlink(s)
  BY <1>1, <1>2 DEF TypeOK, unlink
<1>3. CASE linkHead(s)
  BY <1>1, <1>3 DEF TypeOK, linkHead
<1>4. CASE insertFree(s)
  BY <1>1, <1>4 DEF TypeOK, insertFree
<1> QED BY <1>2, <1>3, <1>4

(* A call that goes on to another step with the frame and the page it has. *)
LEMMA GoOn ==
  ASSUME RangesOK, NEW t \in Threads, NEW b \in Steps \cup {"selfWait"},
         pc' = [pc EXCEPT ![t] = b], UNCHANGED <<slot, want>>,
         b \in Framed => slot[t] \in Slots,
         b \in Missing \cup {"pin", "init"} => want[t] \in Pages
  PROVE  /\ pc' \in [Threads -> Steps \cup {"selfWait"}]
         /\ \A x \in Threads : pc'[x] \in Framed => slot'[x] \in Slots
         /\ \A x \in Threads : pc'[x] \in Missing \cup {"pin", "init"} => want'[x] \in Pages
<1>1. \A x \in Threads : pc'[x] = IF x = t THEN b ELSE pc[x]
  BY DEF RangesOK
<1> QED BY <1>1 DEF RangesOK

(* Every step of every thread keeps the ranges.                            *)
LEMMA RangesStep ==
  ASSUME RangesOK, NEW t \in Threads, Begin(t) \/ Continue(t) \/ Overtaken(t)
  PROVE  RangesOK'
<1> DEFINE F == {"pin", "unlink", "hashRemove", "unlinkVictim", "load", "init", "drop",
                 "linkNew", "linkHead", "free"}
           P == {"alloc", "takeFree", "hashRemove", "unlinkVictim", "linkNew", "load",
                 "pin", "init"}
           S == Steps \cup {"selfWait"}
<1>0. F = Framed /\ P = Missing \cup {"pin", "init"}
  BY DEF Framed, OnUsed, OffLists, Linking, Missing
<1>1. /\ TypeOK /\ pc \in [Threads -> S]
      /\ holds \in [Threads -> Seq(Pages \X Slots)]
      /\ pc[t] \in F => slot[t] \in Slots
      /\ pc[t] \in P => want[t] \in Pages
  BY <1>0 DEF RangesOK
<1>2. SUFFICES TypeOK' /\ pc' \in [Threads -> S] /\ holds' \in [Threads -> Seq(Pages \X Slots)]
               /\ (\A x \in Threads : pc'[x] \in F => slot'[x] \in Slots)
               /\ (\A x \in Threads : pc'[x] \in P => want'[x] \in Pages)
  BY <1>0 DEF RangesOK
<1> HIDE DEF F, P, S
<1>3. ASSUME NEW b \in S, pc' = [pc EXCEPT ![t] = b], UNCHANGED <<slot, want>>,
             b \in F => slot[t] \in Slots, b \in P => want[t] \in Pages
      PROVE  /\ pc' \in [Threads -> S]
             /\ \A x \in Threads : pc'[x] \in F => slot'[x] \in Slots
             /\ \A x \in Threads : pc'[x] \in P => want'[x] \in Pages
  BY <1>0, <1>3, GoOn DEF S
<1>4. CASE SeeFree(t) \/ TakeFreeAgain(t) \/ VictimNotInHash(t) \/ PageExists(t)
           \/ FlushNotInHash(t) \/ ReadFails(t) \/ FlushEnd(t)
  <2>1. UNCHANGED <<next, prev, usedHead, usedTail, freeHead, pageOf, pinCount, hash, slot,
                    want, holds>> /\ holder' \in {holder, t, NoThread}
    BY <1>4 DEF SeeFree, TakeFreeAgain, VictimNotInHash, PageExists, FlushNotInHash, ReadFails,
       FlushEnd, links, descs
  <2>2. TypeOK' /\ holds' = holds
    BY <1>1, <2>1 DEF TypeOK
  <2>3. \E b \in {"takeFree", "selfWait", "idle", "drop"} : pc' = [pc EXCEPT ![t] = b]
           /\ (b \in F => pc[t] \in F) /\ (b \in P => pc[t] \in P)
    BY <1>4 DEF SeeFree, TakeFreeAgain, VictimNotInHash, PageExists, FlushNotInHash, ReadFails,
       FlushEnd, Goto, F, P
  <2> QED BY <1>1, <1>3, <2>1, <2>2, <2>3 DEF S, Steps
<1>5. CASE TouchUnlink(t) \/ TouchLink(t) \/ UnlinkVictim(t) \/ LinkNew(t) \/ Drop(t) \/ Free(t)
  <2>1. UNCHANGED <<pageOf, pinCount, hash, slot, want, holds, holder>>
    BY <1>5 DEF TouchUnlink, TouchLink, UnlinkVictim, LinkNew, Drop, Free, descs
  <2>2. slot[t] \in Slots /\ (unlink(slot[t]) \/ linkHead(slot[t]) \/ insertFree(slot[t]))
    BY <1>1, <1>5 DEF TouchUnlink, TouchLink, UnlinkVictim, LinkNew, Drop, Free, Goto, F
  <2>3. TypeOK'
    BY <1>1, <2>1, <2>2, HelperRanges DEF TypeOK
  <2>4. \E b \in {"linkHead", "idle", "linkNew", "load", "free"} : pc' = [pc EXCEPT ![t] = b]
           /\ (b \in F => pc[t] \in F) /\ (b \in P => pc[t] \in P)
    BY <1>5 DEF TouchUnlink, TouchLink, UnlinkVictim, LinkNew, Drop, Free, Goto, F, P
  <2> QED BY <1>1, <1>3, <2>1, <2>3, <2>4 DEF S, Steps
<1>6. CASE HashRemove(t) \/ InsertHash(t)
  <2>1. UNCHANGED <<next, prev, usedHead, usedTail, freeHead, pageOf, pinCount, slot,
                    want, holds, holder>>
    BY <1>6 DEF HashRemove, InsertHash, links, descs
  <2>2. \E p, s : s \in SlotOrNone /\ hash' = [hash EXCEPT ![p] = s]
    BY <1>1, <1>6 DEF HashRemove, InsertHash, SlotOrNone, TypeOK
  <2>3. TypeOK'
    BY <1>1, <2>1, <2>2 DEF TypeOK
  <2>4. \E b \in {"unlinkVictim", "init"} : pc' = [pc EXCEPT ![t] = b]
           /\ (b \in F => pc[t] \in F) /\ (b \in P => pc[t] \in P)
    BY <1>6 DEF HashRemove, InsertHash, Goto, F, P
  <2> QED BY <1>1, <1>3, <2>1, <2>3, <2>4 DEF S, Steps
<1>7. CASE Pin(t) \/ InitPageDesc(t)
  <2>1. /\ UNCHANGED <<next, prev, usedHead, usedTail, freeHead, hash, slot, want, holder>>
        /\ slot[t] \in Slots /\ want[t] \in Pages
    BY <1>1, <1>7 DEF Pin, InitPageDesc, Goto, links, F, P
  <2>2. pinCount' \in [Slots -> Nat] /\ pageOf' \in [Slots -> Pages \cup {NoPage}]
    <3>1. CASE Pin(t)
      BY <1>1, <2>1, <3>1 DEF Pin, TypeOK
    <3>2. CASE InitPageDesc(t)
      BY <1>1, <2>1, <3>2 DEF InitPageDesc, TypeOK
    <3> QED BY <1>7, <3>1, <3>2
  <2>3. TypeOK'
    BY <1>1, <2>1, <2>2 DEF TypeOK
  <2>4. holds' \in [Threads -> Seq(Pages \X Slots)]
    <3>1. holds' = [holds EXCEPT ![t] = Append(holds[t], <<want[t], slot[t]>>)]
      BY <1>7 DEF Pin, InitPageDesc
    <3>2. Append(holds[t], <<want[t], slot[t]>>) \in Seq(Pages \X Slots)
      BY <1>1, <2>1
    <3> QED BY <1>1, <3>1, <3>2
  <2>5. \E b \in {"unlink", "idle"} : pc' = [pc EXCEPT ![t] = b] /\ b \notin P
    BY <1>7 DEF Pin, InitPageDesc, Goto, P
  <2> QED BY <1>1, <1>3, <2>1, <2>3, <2>4, <2>5 DEF S, Steps
<1>8. ASSUME NEW b \in S, NEW s \in SlotOrNone, pc' = [pc EXCEPT ![t] = b],
             slot' = [slot EXCEPT ![t] = s], b \in F => s \in Slots,
             UNCHANGED want, b \in P => want[t] \in Pages
      PROVE  /\ pc' \in [Threads -> S] /\ slot' \in [Threads -> SlotOrNone]
             /\ \A x \in Threads : pc'[x] \in F => slot'[x] \in Slots
             /\ \A x \in Threads : pc'[x] \in P => want'[x] \in Pages
  <2>1. \A x \in Threads : pc'[x] = (IF x = t THEN b ELSE pc[x])
                          /\ slot'[x] = (IF x = t THEN s ELSE slot[x])
    BY <1>1, <1>8 DEF TypeOK
  <2>2. pc' \in [Threads -> S] /\ slot' \in [Threads -> SlotOrNone]
    BY <1>1, <1>8 DEF TypeOK
  <2> QED BY <1>0, <1>8, <2>1, <2>2 DEF RangesOK
<1>9. ASSUME NEW p \in Pages, GetHit(t, p) \/ GetMiss(t, p)
      PROVE  RangesOK'
  <2>1. UNCHANGED <<next, prev, usedHead, usedTail, freeHead, pageOf, pinCount, hash,
                    holds, holder>>
    BY <1>9 DEF GetHit, GetMiss, links, descs
  <2>2. PICK b \in {"pin", "alloc"} : pc' = [pc EXCEPT ![t] = b]
    BY <1>9 DEF GetHit, GetMiss, Goto
  <2>3. PICK s \in SlotOrNone : slot' = [slot EXCEPT ![t] = s] /\ (b = "pin" => s \in Slots)
    <3>1. CASE GetHit(t, p)
      BY <1>1, <3>1 DEF GetHit, TypeOK, SlotOrNone
    <3>2. CASE GetMiss(t, p)
      <4>1. slot' = [slot EXCEPT ![t] = slot[t]] /\ slot[t] \in SlotOrNone
        BY <1>1, <3>2 DEF GetMiss, TypeOK
      <4>2. b = "alloc"
        BY <1>1, <2>2, <3>2 DEF GetMiss, Goto
      <4> QED BY <4>1, <4>2
    <3> QED BY <1>9, <3>1, <3>2
  <2>4. want' = [want EXCEPT ![t] = p]
    BY <1>9 DEF GetHit, GetMiss
  <2>5. slot' \in [Threads -> SlotOrNone] /\ want' \in [Threads -> Pages \cup {NoPage}]
    BY <1>1, <2>3, <2>4 DEF TypeOK
  <2>6. TypeOK'
    BY <1>1, <2>1, <2>5 DEF TypeOK
  <2>7. pc' \in [Threads -> S]
    BY <1>1, <2>2 DEF S, Steps
  <2>8. \A x \in Threads : /\ pc'[x] = (IF x = t THEN b ELSE pc[x])
                           /\ slot'[x] = (IF x = t THEN s ELSE slot[x])
                           /\ want'[x] = (IF x = t THEN p ELSE want[x])
    BY <1>1, <2>2, <2>3, <2>4 DEF TypeOK
  <2>9. \A x \in Threads : (pc'[x] \in F => slot'[x] \in Slots)
                           /\ (pc'[x] \in P => want'[x] \in Pages)
    BY <1>0, <2>3, <2>8 DEF RangesOK, F
  <2> QED BY <1>0, <1>1, <2>1, <2>6, <2>7, <2>9 DEF RangesOK, S
<1>10. CASE TakeFree(t)
  <2>1. UNCHANGED <<next, prev, usedHead, usedTail, pageOf, pinCount, hash, want, holder, holds>>
    BY <1>10 DEF TakeFree, descs
  <2>2. /\ freeHead \in Slots /\ freeHead' \in SlotOrNone /\ freeHead \in SlotOrNone
        /\ slot' = [slot EXCEPT ![t] = freeHead]
        /\ pc[t] = "takeFree" /\ pc' = [pc EXCEPT ![t] = "linkNew"]
    BY <1>1, <1>10 DEF TakeFree, TypeOK, Goto, SlotOrNone
  <2>3. "linkNew" \in S /\ want[t] \in Pages
    BY <1>1, <2>2 DEF S, Steps, P
  <2>4. /\ pc' \in [Threads -> S] /\ slot' \in [Threads -> SlotOrNone]
        /\ \A x \in Threads : pc'[x] \in F => slot'[x] \in Slots
        /\ \A x \in Threads : pc'[x] \in P => want'[x] \in Pages
    BY <1>8, <2>1, <2>2, <2>3
  <2>5. TypeOK'
    BY <1>1, <2>1, <2>2, <2>4 DEF TypeOK
  <2> QED BY <1>1, <2>1, <2>4, <2>5
<1>11. CASE ChooseVictim(t)
  <2>1. UNCHANGED <<next, prev, usedHead, usedTail, freeHead, pageOf, pinCount, hash, want,
                    holder, holds>>
    BY <1>11 DEF ChooseVictim, links, descs
  <2>2. Victims \subseteq Slots
    <3>1. DOMAIN prev = Slots /\ IsFiniteSet(Slots)
      BY <1>1, SlotsFacts DEF TypeOK
    <3>2. \A i \in DOMAIN Chain(prev, usedTail) : Chain(prev, usedTail)[i] \in Slots
      BY <3>1, ChainOfNodes
    <3> QED BY <3>2 DEF Victims
  <2>3. /\ pc[t] = "alloc"
        /\ \E b \in {"hashRemove", "idle"}, s \in SlotOrNone :
             /\ pc' = [pc EXCEPT ![t] = b] /\ slot' = [slot EXCEPT ![t] = s]
             /\ b \in F => s \in Slots
    <3>1. CASE \E s \in Victims : slot' = [slot EXCEPT ![t] = s] /\ Goto(t, "alloc", "hashRemove")
      BY <2>2, <3>1 DEF Goto, SlotOrNone
    <3>2. CASE Goto(t, "alloc", "idle") /\ UNCHANGED slot
      <4>1. slot' = [slot EXCEPT ![t] = slot[t]] /\ slot[t] \in SlotOrNone
        BY <1>1, <3>2 DEF TypeOK
      <4> QED BY <3>2, <4>1 DEF Goto, F
    <3> QED BY <1>11, <3>1, <3>2 DEF ChooseVictim
  <2>4. "hashRemove" \in S /\ "idle" \in S /\ want[t] \in Pages
    BY <1>1, <2>3 DEF S, Steps, P
  <2>5. /\ pc' \in [Threads -> S] /\ slot' \in [Threads -> SlotOrNone]
        /\ \A x \in Threads : pc'[x] \in F => slot'[x] \in Slots
        /\ \A x \in Threads : pc'[x] \in P => want'[x] \in Pages
    BY <1>8, <2>1, <2>3, <2>4
  <2>6. TypeOK'
    BY <1>1, <2>1, <2>5 DEF TypeOK
  <2> QED BY <1>1, <2>1, <2>5, <2>6
<1>12. CASE Unpin(t)
  <2>1. UNCHANGED <<next, prev, usedHead, usedTail, freeHead, pageOf, hash, want, holder>>
        /\ pc[t] = "idle"
    BY <1>12 DEF Unpin, links
  <2>0. PICK i \in DOMAIN holds[t] :
          LET s == hash[holds[t][i][1]]
          IN /\ holds' = [holds EXCEPT ![t] = RemoveAt(holds[t], i)]
             /\ IF s # INVALID_SLOT /\ pinCount[s] > 0
                THEN /\ pinCount' = [pinCount EXCEPT ![s] = pinCount[s] - 1]
                     /\ slot' = [slot EXCEPT ![t] = s]
                     /\ pc' = [pc EXCEPT ![t] = IF pinCount[s] = 1 THEN "unlink" ELSE "idle"]
                ELSE UNCHANGED <<pinCount, slot, pc>>
    BY <1>12 DEF Unpin
  <2>2. PICK s :
          /\ s = hash[holds[t][i][1]]
          /\ holds' = [holds EXCEPT ![t] = RemoveAt(holds[t], i)]
          /\ IF s # INVALID_SLOT /\ pinCount[s] > 0
             THEN /\ pinCount' = [pinCount EXCEPT ![s] = pinCount[s] - 1]
                  /\ slot' = [slot EXCEPT ![t] = s]
                  /\ pc' = [pc EXCEPT ![t] = IF pinCount[s] = 1 THEN "unlink" ELSE "idle"]
             ELSE UNCHANGED <<pinCount, slot, pc>>
    BY <2>0
  <2>3. s \in SlotOrNone
    <3>1. holds[t] \in Seq(Pages \X Slots)
      BY <1>1
    <3>2. holds[t][i] \in Pages \X Slots
      BY <3>1
    <3>3. holds[t][i][1] \in Pages
      BY <3>2
    <3> QED BY <1>1, <2>2, <3>3 DEF TypeOK
  <2>4. holds' \in [Threads -> Seq(Pages \X Slots)]
    <3>1. RemoveAt(holds[t], i) \in Seq(Pages \X Slots)
      BY <1>1, RestOfPins
    <3> QED BY <1>1, <2>2, <3>1
  <2>5. CASE s # INVALID_SLOT /\ pinCount[s] > 0
    <3>1. s \in Slots
      BY <2>3, <2>5 DEF SlotOrNone
    <3>2. pinCount' \in [Slots -> Nat]
      BY <1>1, <2>2, <2>5, <3>1 DEF TypeOK
    <3>3. PICK b \in {"unlink", "idle"} : pc' = [pc EXCEPT ![t] = b]
      BY <2>2, <2>5
    <3>4. b \in S /\ b \notin P
      BY DEF S, Steps, P
    <3>5. /\ pc' \in [Threads -> S] /\ slot' \in [Threads -> SlotOrNone]
          /\ \A x \in Threads : pc'[x] \in F => slot'[x] \in Slots
          /\ \A x \in Threads : pc'[x] \in P => want'[x] \in Pages
      BY <1>8, <2>1, <2>2, <2>3, <2>5, <3>1, <3>3, <3>4
    <3>6. TypeOK'
      BY <1>1, <2>1, <3>2, <3>5 DEF TypeOK
    <3> QED BY <2>4, <3>5, <3>6
  <2>6. CASE ~(s # INVALID_SLOT /\ pinCount[s] > 0)
    <3>1. UNCHANGED <<pinCount, slot, pc>>
      BY <2>2, <2>6
    <3>2. TypeOK'
      BY <1>1, <2>1, <3>1 DEF TypeOK
    <3> QED BY <1>0, <1>1, <2>1, <2>4, <3>1, <3>2 DEF RangesOK
  <2> QED BY <2>5, <2>6
<1>13. CASE StartFlush(t)
  <2>1. /\ UNCHANGED <<next, prev, usedHead, usedTail, freeHead, pageOf, pinCount, hash, want,
                       holds>>
        /\ holder' = t
    BY <1>13 DEF StartFlush, links, descs
  <2>2. /\ usedHead \in SlotOrNone /\ slot' = [slot EXCEPT ![t] = usedHead]
        /\ pc' = [pc EXCEPT ![t] = "flush"]
    BY <1>1, <1>13 DEF StartFlush, TypeOK, Goto
  <2>3. "flush" \in S /\ "flush" \notin F /\ "flush" \notin P
    BY DEF S, Steps, F, P
  <2>4. /\ pc' \in [Threads -> S] /\ slot' \in [Threads -> SlotOrNone]
        /\ \A x \in Threads : pc'[x] \in F => slot'[x] \in Slots
        /\ \A x \in Threads : pc'[x] \in P => want'[x] \in Pages
    BY <1>8, <2>1, <2>2, <2>3
  <2>5. TypeOK'
    BY <1>1, <2>1, <2>4 DEF TypeOK
  <2> QED BY <1>1, <2>1, <2>4, <2>5
<1>14. CASE FlushSkip(t) \/ FlushRelease(t)
  <2>1. /\ UNCHANGED <<pageOf, pinCount, pc, want, holder, holds>>
        /\ pc[t] = "flush" /\ slot[t] \in Slots /\ next[slot[t]] \in SlotOrNone
        /\ slot' = [slot EXCEPT ![t] = next[slot[t]]]
    BY <1>1, <1>14 DEF FlushSkip, FlushRelease, descs, TypeOK, SlotOrNone
  <2>2. /\ next' \in [Slots -> SlotOrNone] /\ prev' \in [Slots -> SlotOrNone]
        /\ {usedHead, usedTail, freeHead}' \subseteq SlotOrNone
    <3>1. CASE FlushSkip(t)
      BY <1>1, <3>1 DEF FlushSkip, links, TypeOK
    <3>2. CASE FlushRelease(t)
      BY <1>1, <2>1, <3>2 DEF FlushRelease, TypeOK, SlotOrNone
    <3> QED BY <1>14, <3>1, <3>2
  <2>3. hash' \in [Pages -> SlotOrNone]
    BY <1>1, <1>14 DEF FlushSkip, FlushRelease, TypeOK, SlotOrNone
  <2>4. pc' = [pc EXCEPT ![t] = "flush"]
    BY <1>1, <2>1
  <2>5. "flush" \in S /\ "flush" \notin F /\ "flush" \notin P
    BY DEF S, Steps, F, P
  <2>6. /\ pc' \in [Threads -> S] /\ slot' \in [Threads -> SlotOrNone]
        /\ \A x \in Threads : pc'[x] \in F => slot'[x] \in Slots
        /\ \A x \in Threads : pc'[x] \in P => want'[x] \in Pages
    BY <1>8, <2>1, <2>4, <2>5
  <2>7. TypeOK'
    BY <1>1, <2>1, <2>2, <2>3, <2>6 DEF TypeOK
  <2> QED BY <1>1, <2>1, <2>6, <2>7
<1>15. CASE Begin(t)
  BY <1>9, <1>12, <1>13, <1>15, <1>0, <1>1 DEF Begin, RangesOK, S
<1> QED BY <1>4, <1>5, <1>6, <1>7, <1>10, <1>11, <1>14, <1>15 DEF Continue, Overtaken

(* Whatever the threads do and however their calls overlap, a link, a list *)
(* end, a hash entry or a call's frame is a frame of the pool or none, no  *)
(* pin count is below zero, and listLock has a holder or none.             *)
THEOREM ThreadsTypeCorrect == Spec => []TypeOK
<1>1. Init => RangesOK
  <2>1. NumPages \in Nat /\ NumPages # 0
    BY ThreadsAssumption
  <2> QED BY <2>1 DEF Init, RangesOK, TypeOK, SlotOrNone, Slots, INVALID_SLOT, Steps,
             Framed, OnUsed, OffLists, Linking, Missing
<1>2. RangesOK /\ [Next]_vars => RangesOK'
  <2> SUFFICES ASSUME RangesOK, [Next]_vars PROVE RangesOK'
    OBVIOUS
  <2>1. CASE UNCHANGED vars
    BY <2>1 DEF vars, links, descs, locals, RangesOK, TypeOK
  <2>2. CASE Next
    BY <2>2, RangesStep DEF Next
  <2> QED BY <2>1, <2>2
<1>3. RangesOK => TypeOK
  BY DEF RangesOK
<1> QED BY <1>1, <1>2, <1>3, PTL DEF Spec
=============================================================================
