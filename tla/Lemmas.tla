-------------------------------- MODULE Lemmas --------------------------------
(***************************************************************************)
(* Facts several proofs rest on: a least element, and singly linked lists. *)
(*                                                                         *)
(* Chains says what a list is by walking along it, a recursive function.   *)
(* Linked says the same by a path, a function from 0 .. Cardinality(S) to  *)
(* the nodes that starts at the head, follows the links and ends in last.  *)
(* A path can be made longer, cut and copied without induction, and        *)
(* LinkedIsChain shows once that a walk along it meets the nodes it names, *)
(* and ChainIsPath and PathChain pass between a chain and its path.        *)
(***************************************************************************)
EXTENDS Chains, Integers, FiniteSets, FiniteSetTheorems, FunctionTheorems, WellFoundedInduction, TLAPS

(* A set of natural numbers has a least element. *)
LEMMA LeastNatural ==
  ASSUME NEW T \in SUBSET Nat, T # {}
  PROVE  \E m \in T : \A n \in T : m <= n
<1> DEFINE C == {0 .. m : m \in T}
           R == StrictSubsetOrdering(Nat)
<1>1. C \subseteq FiniteSubsetsOf(Nat) /\ C # {}
  <2>1. \A m \in T : IsFiniteSet(0 .. m) /\ 0 .. m \in SUBSET Nat
    BY FS_Interval
  <2> QED BY <2>1 DEF FiniteSubsetsOf
<1>2. IsWellFoundedOn(R, FiniteSubsetsOf(Nat))
  BY FS_StrictSubsetOrderingWellFounded
<1> HIDE DEF R
<1>3. PICK x \in C : \A y \in C : <<y, x>> \notin R
  <2> HIDE DEF C
  <2> QED BY <1>1, <1>2, WFMin
<1>4. PICK m \in T : x = 0 .. m
  BY <1>3
<1>5. ASSUME NEW n \in T, n < m PROVE FALSE
  <2>1. 0 .. n \subseteq 0 .. m /\ m \in 0 .. m /\ m \notin 0 .. n
    BY <1>5
  <2>2. <<0 .. n, 0 .. m>> \in R
    <3>1. <<0 .. n, 0 .. m>> \in (SUBSET Nat) \X (SUBSET Nat)
      OBVIOUS
    <3>2. 0 .. n # 0 .. m
      BY <2>1
    <3> QED BY <2>1, <3>1, <3>2 DEF R, StrictSubsetOrdering
  <2> QED BY <1>3, <1>4, <2>2
<1> QED BY <1>5

(* e is a path from head through all of S to last. *)
Along(succ, head, S, last, e) ==
  LET n == Cardinality(S)
  IN /\ e[0] = head /\ e[n] = last
     /\ \A i \in 0 .. n - 1 : e[i] \in S /\ succ[e[i]] = e[i + 1]
     /\ \A x \in S : \E i \in 0 .. n - 1 : e[i] = x

Linked(succ, head, S, last) ==
  /\ IsFiniteSet(S) /\ S \subseteq DOMAIN succ
  /\ \E e \in [0 .. Cardinality(S) -> S \cup {last}] : Along(succ, head, S, last, e)

(* A function that follows the links from head and stays where they end.   *)
Follows(succ, head, n, e) ==
  e = [i \in 0 .. n |-> IF i = 0 THEN head
                        ELSE IF e[i - 1] \in DOMAIN succ THEN succ[e[i - 1]] ELSE e[i - 1]]

(* It is the walk Chains takes: the first place where they differ would be *)
(* one link after a place where they agree.                                *)
LEMMA WalkIs ==
  ASSUME NEW succ, NEW head, NEW n \in Nat, NEW e, Follows(succ, head, n, e)
  PROVE  \A i \in 0 .. n : Walk(succ, head, n)[i] = e[i]
<1> DEFINE Next(f) == [i \in 0 .. n |-> IF i = 0 THEN head
              ELSE IF f[i - 1] \in DOMAIN succ THEN succ[f[i - 1]] ELSE f[i - 1]]
<1>2. e = Next(e)
  BY DEF Follows
<1>1. \A i \in 0 .. n : e[i] = Next(e)[i]
  BY <1>2
<1>3. PICK w : w = Walk(succ, head, n)
  OBVIOUS
<1>4. w = Next(w)
  BY <1>2, <1>3 DEF Walk
<1>5. \A i \in 0 .. n : w[i] = e[i]
  <2> DEFINE D == {i \in 0 .. n : w[i] # e[i]}
  <2>1. SUFFICES ASSUME D # {} PROVE FALSE
    OBVIOUS
  <2>2. PICK i \in D : \A j \in D : i <= j
    <3>1. D \in SUBSET Nat
      OBVIOUS
    <3> HIDE DEF D
    <3> QED BY <2>1, <3>1, LeastNatural
  <2>3. w[i] = Next(w)[i] /\ e[i] = Next(e)[i] /\ i \in 0 .. n
    BY <1>1, <1>4
  <2>4. i # 0
    BY <2>2, <2>3
  <2>5. i - 1 \in 0 .. n /\ w[i - 1] = e[i - 1]
    BY <2>2, <2>3, <2>4
  <2> QED BY <2>2, <2>3, <2>4, <2>5
<1> QED BY <1>3, <1>5

(* A path along the list is the walk Chains takes.                         *)
LEMMA LinkedIsChain ==
  ASSUME NEW succ, NEW head, NEW S, NEW last, Linked(succ, head, S, last)
  PROVE  ChainIs(succ, head, S, last)
<1>1. PICK n \in Nat : n = Cardinality(S)
  BY FS_CardinalityType DEF Linked
<1>2. PICK e \in [0 .. n -> S \cup {last}] : Along(succ, head, S, last, e)
  BY <1>1 DEF Linked
<1>3. /\ e[0] = head /\ e[n] = last
      /\ \A i \in 0 .. n - 1 : e[i] \in S /\ succ[e[i]] = e[i + 1]
      /\ \A x \in S : \E i \in 0 .. n - 1 : e[i] = x
  BY <1>1, <1>2 DEF Along
<1>4. Follows(succ, head, n, e)
  <2>1. ASSUME NEW i \in 1 .. n PROVE e[i - 1] \in DOMAIN succ /\ succ[e[i - 1]] = e[i]
    <3>1. i - 1 \in 0 .. n - 1 /\ (i - 1) + 1 = i
      OBVIOUS
    <3>2. e[i - 1] \in S /\ succ[e[i - 1]] = e[(i - 1) + 1]
      BY <1>3, <3>1
    <3> QED BY <3>1, <3>2 DEF Linked
  <2>2. \A i \in 0 .. n : i # 0 => i \in 1 .. n
    OBVIOUS
  <2>3. \A i \in 0 .. n : e[i] = IF i = 0 THEN head
          ELSE IF e[i - 1] \in DOMAIN succ THEN succ[e[i - 1]] ELSE e[i - 1]
    BY <1>3, <2>1, <2>2
  <2> QED BY <2>3 DEF Follows
<1>5. PICK w : w = Walk(succ, head, n)
  OBVIOUS
<1>6. \A i \in 0 .. n : w[i] = e[i]
  BY <1>4, <1>5, WalkIs
<1>7. n \in 0 .. n /\ \A i \in 0 .. n - 1 : i \in 0 .. n
  OBVIOUS
<1>8. {w[i] : i \in 0 .. n - 1} = S
  <2>1. \A i \in 0 .. n - 1 : w[i] = e[i]
    BY <1>6, <1>7
  <2> QED BY <1>3, <2>1
<1>9. w[n] = last
  BY <1>3, <1>6, <1>7
<1> QED BY <1>1, <1>5, <1>8, <1>9 DEF ChainIs

(* The nodes met from the head of a list on are those of the list.         *)
LEMMA LinkedReach ==
  ASSUME NEW succ, NEW head, NEW S, NEW last, Linked(succ, head, S, last),
         last \notin DOMAIN succ, IsFiniteSet(DOMAIN succ)
  PROVE  Reach(succ, head) = S
<1>1. PICK n \in Nat, m \in Nat : n = Cardinality(S) /\ m = Cardinality(DOMAIN succ)
  BY FS_CardinalityType DEF Linked
<1>2. PICK e \in [0 .. n -> S \cup {last}] : Along(succ, head, S, last, e)
  BY <1>1 DEF Linked
<1>3. /\ e[0] = head /\ e[n] = last
      /\ \A i \in 0 .. n - 1 : e[i] \in S /\ succ[e[i]] = e[i + 1]
      /\ \A x \in S : \E i \in 0 .. n - 1 : e[i] = x
  BY <1>1, <1>2 DEF Along
<1>4. n <= m /\ S \subseteq DOMAIN succ
  BY <1>1, FS_Subset DEF Linked
<1>5. PICK f : f = [i \in 0 .. m |-> IF i <= n THEN e[i] ELSE last]
  OBVIOUS
<1>6. f \in [0 .. m -> S \cup {last}] /\ f[0] = head
  <2>1. \A i \in 0 .. m : i <= n => i \in 0 .. n
    OBVIOUS
  <2>2. 0 \in 0 .. m /\ 0 <= n
    OBVIOUS
  <2> QED BY <1>3, <1>5, <2>1, <2>2
<1>7. Follows(succ, head, m, f)
  <2> SUFFICES ASSUME NEW i \in 1 .. m
               PROVE  f[i] = IF f[i - 1] \in DOMAIN succ THEN succ[f[i - 1]] ELSE f[i - 1]
    <3>1. \A i \in 0 .. m : i # 0 => i \in 1 .. m
      OBVIOUS
    <3>2. (\A i \in 1 .. m : f[i] = IF f[i - 1] \in DOMAIN succ THEN succ[f[i - 1]] ELSE f[i - 1])
          => \A i \in 0 .. m : f[i] = IF i = 0 THEN head
               ELSE IF f[i - 1] \in DOMAIN succ THEN succ[f[i - 1]] ELSE f[i - 1]
      BY <1>6, <3>1
    <3> QED BY <1>6, <3>2 DEF Follows
  <2>1. i - 1 \in 0 .. m /\ i \in 0 .. m
    OBVIOUS
  <2>2. CASE i <= n
    <3>1. i - 1 \in 0 .. n - 1 /\ (i - 1) + 1 = i /\ i - 1 <= n
      BY <2>2
    <3>2. e[i - 1] \in S /\ succ[e[i - 1]] = e[(i - 1) + 1]
      BY <1>3, <3>1
    <3> QED BY <1>4, <1>5, <2>1, <2>2, <3>1, <3>2
  <2>3. CASE i > n
    <3>1. f[i - 1] = last /\ f[i] = last
      <4>1. CASE i - 1 = n
        BY <1>3, <1>5, <2>1, <2>3, <4>1
      <4>2. CASE i - 1 # n
        <5>1. ~(i - 1 <= n) /\ ~(i <= n)
          BY <2>3, <4>2
        <5> QED BY <1>5, <2>1, <5>1
      <4> QED BY <4>1, <4>2
    <3> QED BY <3>1
  <2> QED BY <2>2, <2>3
<1>8. PICK w : w = Walk(succ, head, m)
  OBVIOUS
<1>9. \A i \in 0 .. m : w[i] = f[i]
  BY <1>7, <1>8, WalkIs
<1>10. {w[i] : i \in 0 .. m} \cap DOMAIN succ = S
  <2>1. ASSUME NEW x \in S PROVE x \in {w[i] : i \in 0 .. m}
    <3>1. PICK i \in 0 .. n - 1 : e[i] = x
      BY <1>3
    <3>2. i \in 0 .. m /\ i <= n
      BY <1>4
    <3> QED BY <1>5, <1>9, <3>1, <3>2
  <2>2. \A i \in 0 .. m : w[i] \in S \cup {last}
    BY <1>6, <1>9
  <2> QED BY <1>4, <2>1, <2>2
<1> QED BY <1>1, <1>8, <1>10 DEF Reach

(* The list is empty or starts in S, and does not leave S before it ends. *)
LEMMA LinkedHead ==
  ASSUME NEW succ, NEW head, NEW S, NEW last, Linked(succ, head, S, last), last \notin S
  PROVE  /\ head = last <=> S = {}
         /\ head # last => head \in S
         /\ \A x \in S : succ[x] \in S \cup {last}
<1> DEFINE n == Cardinality(S)
<1>1. n \in Nat /\ (n = 0 <=> S = {})
  BY FS_CardinalityType, FS_EmptySet DEF Linked
<1>2. PICK e \in [0 .. n -> S \cup {last}] : Along(succ, head, S, last, e)
  BY DEF Linked
<1> HIDE DEF n
<1>3. CASE S = {}
  BY <1>1, <1>2, <1>3 DEF Along, n
<1>4. CASE S # {}
  <2>1. 0 \in 0 .. n - 1
    BY <1>1, <1>4
  <2>2. head \in S
    BY <2>1, <1>2 DEF Along, n
  <2>3. ASSUME NEW x \in S PROVE succ[x] \in S \cup {last}
    <3>1. PICK i \in 0 .. n - 1 : e[i] = x /\ succ[x] = e[i + 1]
      BY <1>2 DEF Along, n
    <3>2. i + 1 \in 0 .. n
      BY <1>1
    <3> QED BY <3>1, <3>2, <1>2
  <2> QED BY <1>4, <2>2, <2>3
<1> QED BY <1>3, <1>4

(* The empty list. *)
LEMMA LinkedEmpty ==
  ASSUME NEW succ, NEW last
  PROVE  Linked(succ, last, {}, last)
<1>1. Cardinality({}) = 0 /\ IsFiniteSet({})
  BY FS_EmptySet
<1> DEFINE e == [i \in 0 .. 0 |-> last]
<1>2. e \in [0 .. 0 -> {} \cup {last}] /\ Along(succ, last, {}, last, e)
  BY <1>1 DEF Along
<1> HIDE DEF e
<1> QED BY <1>1, <1>2 DEF Linked

(* Only the links of the nodes on the list matter. *)
LEMMA LinkedSame ==
  ASSUME NEW succ, NEW head, NEW S, NEW last, Linked(succ, head, S, last),
         NEW succ2, S \subseteq DOMAIN succ2, \A x \in S : succ2[x] = succ[x]
  PROVE  Linked(succ2, head, S, last)
<1>1. PICK e \in [0 .. Cardinality(S) -> S \cup {last}] : Along(succ, head, S, last, e)
  BY DEF Linked
<1>2. Along(succ2, head, S, last, e)
  BY <1>1 DEF Along
<1> QED BY <1>1, <1>2 DEF Linked

(* A node put in front of the list. *)
LEMMA LinkedPush ==
  ASSUME NEW succ, NEW head, NEW S, NEW last, Linked(succ, head, S, last),
         NEW succ2, NEW x, x \notin S, x \in DOMAIN succ2, succ2[x] = head,
         S \subseteq DOMAIN succ2, \A y \in S : succ2[y] = succ[y]
  PROVE  Linked(succ2, x, S \cup {x}, last)
<1> DEFINE n == Cardinality(S)
           T == S \cup {x}
<1>1. n \in Nat /\ IsFiniteSet(T) /\ Cardinality(T) = n + 1
  BY FS_CardinalityType, FS_AddElement DEF Linked
<1>2. PICK e \in [0 .. n -> S \cup {last}] : Along(succ, head, S, last, e)
  BY DEF Linked
<1> DEFINE w == [i \in 0 .. n + 1 |-> IF i = 0 THEN x ELSE e[i - 1]]
<1> HIDE DEF n
<1>3. w \in [0 .. n + 1 -> T \cup {last}]
  BY <1>1, <1>2
<1>4. w[0] = x /\ w[n + 1] = last
  BY <1>1, <1>2 DEF Along, n
<1>5. ASSUME NEW i \in 0 .. n
      PROVE  w[i] \in T /\ succ2[w[i]] = w[i + 1]
  <2>1. CASE i = 0
    <3>1. w[0] = x /\ w[1] = head
      BY <1>1, <1>2 DEF Along
    <3> QED BY <2>1, <3>1
  <2>2. CASE i # 0
    <3>1. i - 1 \in 0 .. n - 1 /\ (i - 1) + 1 = i /\ i + 1 \in 0 .. n + 1 /\ (i + 1) - 1 = i
          /\ i \in 0 .. n + 1 /\ i + 1 # 0
      BY <1>1, <2>2
    <3>2. e[i - 1] \in S /\ succ[e[i - 1]] = e[(i - 1) + 1]
      BY <1>2, <3>1 DEF Along, n
    <3>3. w[i] = e[i - 1] /\ w[i + 1] = e[i]
      BY <2>2, <3>1
    <3> QED BY <3>1, <3>2, <3>3
  <2> QED BY <2>1, <2>2
<1>6. ASSUME NEW y \in T PROVE \E i \in 0 .. n : w[i] = y
  <2>1. CASE y = x
    BY <2>1, <1>1
  <2>2. CASE y \in S
    <3>1. PICK i \in 0 .. n - 1 : e[i] = y
      BY <1>2, <2>2 DEF Along, n
    <3>2. i + 1 \in 0 .. n /\ w[i + 1] = e[i]
      BY <1>1
    <3> QED BY <3>1, <3>2
  <2> QED BY <2>1, <2>2
<1> HIDE DEF w
<1>7. Along(succ2, x, T, last, w)
  <2>1. (n + 1) - 1 = n
    BY <1>1
  <2> HIDE DEF T
  <2> QED BY <1>1, <1>4, <1>5, <1>6, <2>1 DEF Along
<1> QED BY <1>1, <1>3, <1>7 DEF Linked

(* No node comes twice: the path would else be too short for all of S.     *)
LEMMA AlongOnce ==
  ASSUME NEW succ, NEW head, NEW S, NEW last, IsFiniteSet(S),
         NEW e, Along(succ, head, S, last, e)
  PROVE  \A i, j \in 0 .. Cardinality(S) - 1 : e[i] = e[j] => i = j
<1>1. PICK n \in Nat : n = Cardinality(S)
  BY FS_CardinalityType
<1>2. /\ \A i \in 0 .. n - 1 : e[i] \in S
      /\ \A x \in S : \E i \in 0 .. n - 1 : e[i] = x
  BY <1>1 DEF Along
<1>3. PICK f : f = [i \in 0 .. n - 1 |-> e[i]]
  OBVIOUS
<1>4. f \in Surjection(0 .. n - 1, S)
  <2>1. f \in [0 .. n - 1 -> S] /\ \A x \in S : \E i \in 0 .. n - 1 : f[i] = x
    BY <1>2, <1>3
  <2> QED BY <2>1, Fun_IsSurj
<1>5. IsFiniteSet(0 .. n - 1) /\ Cardinality(0 .. n - 1) = n
  <2>1. 0 \in Int /\ n - 1 \in Int /\ (0 > n - 1 => n = 0) /\ (n - 1) - 0 + 1 = n
    OBVIOUS
  <2> QED BY <2>1, FS_Interval
<1>6. f \in Injection(0 .. n - 1, S)
  BY <1>1, <1>4, <1>5, FS_Surjection
<1>7. \A i, j \in 0 .. n - 1 : f[i] = f[j] => i = j
  BY <1>6 DEF Injection, IsInjective
<1> QED BY <1>1, <1>3, <1>7

(* A node of the list is its head or is linked to by one other node of it, *)
(* and the head by none.                                                   *)
LEMMA LinkedOnce ==
  ASSUME NEW succ, NEW head, NEW S, NEW last, Linked(succ, head, S, last), last \notin S
  PROVE  /\ \A x \in S : x = head \/ \E p \in S : succ[p] = x
         /\ \A p \in S : succ[p] # head /\ succ[p] # p
         /\ \A p, q \in S : succ[p] = succ[q] /\ succ[p] # last => p = q
<1>1. PICK n \in Nat : n = Cardinality(S)
  BY FS_CardinalityType DEF Linked
<1>2. PICK e \in [0 .. n -> S \cup {last}] : Along(succ, head, S, last, e)
  BY <1>1 DEF Linked
<1>3. /\ e[0] = head /\ e[n] = last
      /\ \A i \in 0 .. n - 1 : e[i] \in S /\ succ[e[i]] = e[i + 1]
      /\ \A x \in S : \E i \in 0 .. n - 1 : e[i] = x
  BY <1>1, <1>2 DEF Along
<1>4. \A i, j \in 0 .. n - 1 : e[i] = e[j] => i = j
  <2>1. IsFiniteSet(S)
    BY DEF Linked
  <2> QED BY <1>1, <1>2, <2>1, AlongOnce
<1>5. ASSUME NEW x \in S, x # head PROVE \E p \in S : succ[p] = x
  <2>1. PICK i \in 0 .. n - 1 : e[i] = x
    BY <1>3
  <2>2. i # 0
    BY <1>3, <1>5, <2>1
  <2>3. i - 1 \in 0 .. n - 1 /\ (i - 1) + 1 = i
    BY <2>2
  <2> QED BY <1>3, <2>1, <2>3
<1>6. ASSUME NEW p \in S, succ[p] = head PROVE FALSE
  <2>1. PICK i \in 0 .. n - 1 : e[i] = p
    BY <1>3
  <2>2. e[i + 1] = e[0]
    BY <1>3, <1>6, <2>1
  <2>3. CASE i = n - 1
    <3>1. i + 1 = n /\ 0 \in 0 .. n - 1
      BY <2>3
    <3> QED BY <1>3, <2>2, <2>3, <3>1
  <2>4. CASE i # n - 1
    <3>1. i + 1 \in 0 .. n - 1 /\ 0 \in 0 .. n - 1 /\ i + 1 # 0
      BY <2>4
    <3> QED BY <1>4, <2>2, <3>1
  <2> QED BY <2>3, <2>4
<1>7. ASSUME NEW p \in S PROVE succ[p] # p
  <2>1. PICK i \in 0 .. n - 1 : e[i] = p
    BY <1>3
  <2>2. CASE i = n - 1
    <3>1. (n - 1) + 1 = n
      OBVIOUS
    <3> QED BY <1>3, <2>1, <2>2, <3>1
  <2>3. CASE i # n - 1
    <3>1. i + 1 \in 0 .. n - 1 /\ i + 1 # i
      BY <2>3
    <3> QED BY <1>3, <1>4, <2>1, <3>1
  <2> QED BY <2>2, <2>3
<1>8. ASSUME NEW p \in S, NEW q \in S, succ[p] = succ[q], succ[p] # last PROVE p = q
  <2>1. PICK i \in 0 .. n - 1, j \in 0 .. n - 1 : e[i] = p /\ e[j] = q
    BY <1>3
  <2>2. e[i + 1] = e[j + 1] /\ e[i + 1] # last
    BY <1>3, <1>8, <2>1
  <2>3. i # n - 1 /\ j # n - 1
    <3>1. (n - 1) + 1 = n
      OBVIOUS
    <3> QED BY <1>3, <2>2, <3>1
  <2>4. i + 1 \in 0 .. n - 1 /\ j + 1 \in 0 .. n - 1
    BY <2>3
  <2>5. i + 1 = j + 1
    BY <1>4, <2>2, <2>4
  <2> QED BY <2>1, <2>5
<1> QED BY <1>5, <1>6, <1>7, <1>8

(* The head taken off the list. *)
LEMMA LinkedPop ==
  ASSUME NEW succ, NEW head, NEW S, NEW last, Linked(succ, head, S, last),
         last \notin S, head # last
  PROVE  head \in S /\ Linked(succ, succ[head], S \ {head}, last)
<1> DEFINE n == Cardinality(S)
           T == S \ {head}
<1>1. head \in S /\ n \in Nat /\ n # 0 /\ IsFiniteSet(T) /\ Cardinality(T) = n - 1
  <2>1. head \in S
    BY LinkedHead
  <2> QED BY <2>1, FS_CardinalityType, FS_RemoveElement, FS_EmptySet DEF Linked
<1>2. PICK e \in [0 .. n -> S \cup {last}] : Along(succ, head, S, last, e)
  BY DEF Linked
<1> DEFINE w == [i \in 0 .. n - 1 |-> e[i + 1]]
<1> HIDE DEF n
<1>3. w[0] = succ[head] /\ w[n - 1] = last
  BY <1>1, <1>2 DEF Along, n
<1>4. ASSUME NEW i \in 1 .. n - 1 PROVE e[i] # head
  <2>1. i - 1 \in 0 .. n - 1 /\ (i - 1) + 1 = i
    BY <1>1
  <2>2. e[i - 1] \in S /\ succ[e[i - 1]] = e[(i - 1) + 1]
    BY <2>1, <1>2 DEF Along, n
  <2>3. succ[e[i - 1]] # head
    BY <2>2, LinkedOnce
  <2> QED BY <2>1, <2>2, <2>3
<1>5. ASSUME NEW i \in 0 .. n - 2
      PROVE  w[i] \in T /\ succ[w[i]] = w[i + 1]
  <2>1. i + 1 \in 0 .. n - 1 /\ i + 1 \in 1 .. n - 1 /\ i \in 0 .. n - 1
    BY <1>1
  <2>2. e[i + 1] \in S /\ succ[e[i + 1]] = e[(i + 1) + 1]
    BY <2>1, <1>2 DEF Along, n
  <2>3. w[i] = e[i + 1] /\ w[i + 1] = e[(i + 1) + 1]
    BY <2>1
  <2> QED BY <1>4, <2>1, <2>2, <2>3
<1>6. ASSUME NEW y \in T PROVE \E i \in 0 .. n - 2 : w[i] = y
  <2>1. PICK j \in 0 .. n - 1 : e[j] = y
    BY <1>2 DEF Along, n
  <2>2. j # 0
    BY <2>1, <1>2 DEF Along
  <2>3. j - 1 \in 0 .. n - 2 /\ j - 1 \in 0 .. n - 1 /\ (j - 1) + 1 = j
    BY <2>2, <1>1
  <2> QED BY <2>1, <2>3
<1>7. w \in [0 .. n - 1 -> T \cup {last}]
  <2>1. ASSUME NEW i \in 0 .. n - 1 PROVE e[i + 1] \in T \cup {last}
    <3>1. CASE i = n - 1
      <4>1. (n - 1) + 1 = n
        BY <1>1
      <4> QED BY <3>1, <4>1, <1>2 DEF Along, n
    <3>2. CASE i # n - 1
      <4>1. i \in 0 .. n - 2
        BY <1>1, <3>2
      <4>2. w[i] = e[i + 1]
        OBVIOUS
      <4> QED BY <1>5, <4>1, <4>2
    <3> QED BY <3>1, <3>2
  <2> QED BY <2>1
<1> HIDE DEF w
<1>8. Along(succ, succ[head], T, last, w)
  <2>1. (n - 1) - 1 = n - 2
    BY <1>1
  <2> HIDE DEF T
  <2> QED BY <1>1, <1>3, <1>5, <1>6, <2>1 DEF Along
<1>9. T \subseteq DOMAIN succ
  BY DEF Linked
<1> QED BY <1>1, <1>7, <1>8, <1>9 DEF Linked

(* A node taken out behind its predecessor. *)
LEMMA LinkedCut ==
  ASSUME NEW succ, NEW head, NEW S, NEW last, Linked(succ, head, S, last), last \notin S,
         NEW p \in S, NEW x \in S, succ[p] = x,
         NEW succ2, succ2[p] = succ[x], S \subseteq DOMAIN succ2,
         \A y \in S : y # p => succ2[y] = succ[y]
  PROVE  Linked(succ2, head, S \ {x}, last)
<1>1. PICK n \in Nat : n = Cardinality(S)
  BY FS_CardinalityType DEF Linked
<1>2. PICK e \in [0 .. n -> S \cup {last}] : Along(succ, head, S, last, e)
  BY <1>1 DEF Linked
<1>3. /\ e[0] = head /\ e[n] = last
      /\ \A i \in 0 .. n - 1 : e[i] \in S /\ succ[e[i]] = e[i + 1]
      /\ \A y \in S : \E i \in 0 .. n - 1 : e[i] = y
  BY <1>1, <1>2 DEF Along
<1>4. \A i, j \in 0 .. n - 1 : e[i] = e[j] => i = j
  <2>1. IsFiniteSet(S)
    BY DEF Linked
  <2> QED BY <1>1, <1>2, <2>1, AlongOnce
<1>5. PICK k \in 0 .. n - 2 : e[k] = p /\ e[k + 1] = x
  <2>1. PICK i \in 0 .. n - 1 : e[i] = p
    BY <1>3
  <2>2. e[i + 1] = x
    BY <1>3, <2>1
  <2>3. i # n - 1
    <3>1. (n - 1) + 1 = n
      OBVIOUS
    <3> QED BY <1>3, <2>2, <3>1
  <2>4. i \in 0 .. n - 2
    BY <2>3
  <2> QED BY <2>1, <2>2, <2>4
<1>6. PICK T : T = S \ {x}
  OBVIOUS
<1>7. IsFiniteSet(T) /\ Cardinality(T) = n - 1 /\ T \subseteq DOMAIN succ2
  BY <1>1, <1>6, FS_RemoveElement DEF Linked
<1>8. PICK w : w = [i \in 0 .. n - 1 |-> IF i <= k THEN e[i] ELSE e[i + 1]]
  OBVIOUS
<1>9. w[0] = head /\ w[n - 1] = last
  <2>1. 0 \in 0 .. n - 1 /\ 0 <= k /\ n - 1 \in 0 .. n - 1 /\ ~(n - 1 <= k) /\ (n - 1) + 1 = n
    OBVIOUS
  <2> QED BY <1>3, <1>8, <2>1
<1>10. ASSUME NEW i \in 0 .. n - 2 PROVE w[i] \in T /\ succ2[w[i]] = w[i + 1]
  <2>1. i \in 0 .. n - 1 /\ i + 1 \in 0 .. n - 1 /\ k \in 0 .. n - 1 /\ k + 1 \in 0 .. n - 1
    OBVIOUS
  <2>2. CASE i < k
    <3>1. i <= k /\ i + 1 <= k /\ i # k /\ i # k + 1
      BY <2>2
    <3>2. w[i] = e[i] /\ w[i + 1] = e[i + 1]
      BY <1>8, <2>1, <3>1
    <3>3. e[i] # p /\ e[i] # x
      BY <1>4, <1>5, <2>1, <3>1
    <3>4. e[i] \in S /\ succ[e[i]] = e[i + 1]
      BY <1>3, <2>1
    <3> QED BY <1>6, <3>2, <3>3, <3>4
  <2>3. CASE i = k
    <3>1. i <= k /\ ~(i + 1 <= k) /\ i # k + 1
      BY <2>3
    <3>2. w[i] = e[k] /\ w[i + 1] = e[(k + 1) + 1]
      BY <1>8, <2>1, <2>3, <3>1
    <3>3. e[k] # x
      BY <1>4, <1>5, <2>1, <2>3, <3>1
    <3>4. succ[x] = e[(k + 1) + 1]
      BY <1>3, <1>5, <2>1
    <3> QED BY <1>5, <1>6, <3>2, <3>3, <3>4
  <2>4. CASE i > k
    <3>1. ~(i <= k) /\ ~(i + 1 <= k) /\ i + 1 # k /\ i + 1 # k + 1
      BY <2>4
    <3>2. w[i] = e[i + 1] /\ w[i + 1] = e[(i + 1) + 1]
      BY <1>8, <2>1, <3>1
    <3>3. e[i + 1] # p /\ e[i + 1] # x
      BY <1>4, <1>5, <2>1, <3>1
    <3>4. e[i + 1] \in S /\ succ[e[i + 1]] = e[(i + 1) + 1]
      BY <1>3, <2>1
    <3> QED BY <1>6, <3>2, <3>3, <3>4
  <2> QED BY <2>2, <2>3, <2>4
<1>11. ASSUME NEW y \in T PROVE \E i \in 0 .. n - 2 : w[i] = y
  <2>1. PICK j \in 0 .. n - 1 : e[j] = y
    BY <1>3, <1>6
  <2>2. j # k + 1
    BY <1>5, <1>6, <2>1
  <2>3. CASE j <= k
    <3>1. j \in 0 .. n - 2 /\ j \in 0 .. n - 1
      BY <2>3
    <3> QED BY <1>8, <2>1, <2>3, <3>1
  <2>4. CASE j > k
    <3>1. j - 1 \in 0 .. n - 2 /\ j - 1 \in 0 .. n - 1 /\ ~(j - 1 <= k) /\ (j - 1) + 1 = j
      BY <2>2, <2>4
    <3> QED BY <1>8, <2>1, <3>1
  <2> QED BY <2>3, <2>4
<1>12. w \in [0 .. n - 1 -> T \cup {last}]
  <2>1. ASSUME NEW i \in 0 .. n - 1 PROVE w[i] \in T \cup {last}
    <3>1. CASE i = n - 1
      BY <1>9, <3>1
    <3>2. CASE i # n - 1
      <4>1. i \in 0 .. n - 2
        BY <3>2
      <4> QED BY <1>10, <4>1
    <3> QED BY <3>1, <3>2
  <2> QED BY <1>8, <2>1
<1>13. Along(succ2, head, T, last, w)
  <2>1. (n - 1) - 1 = n - 2
    OBVIOUS
  <2> QED BY <1>7, <1>9, <1>10, <1>11, <2>1 DEF Along
<1> QED BY <1>6, <1>7, <1>12, <1>13 DEF Linked

(* A walk along any links, broken ones included, can be taken.             *)
LEMMA WalkExists ==
  ASSUME NEW succ, NEW head, NEW n \in Nat
  PROVE  \E e : Follows(succ, head, n, e)
<1> DEFINE T == {k \in Nat : ~\E e : Follows(succ, head, k, e)}
<1>1. SUFFICES ASSUME T # {} PROVE FALSE
  OBVIOUS
<1>2. PICK m \in T : \A k \in T : m <= k
  BY <1>1, LeastNatural
<1>3. m # 0
  <2>1. [i \in 0 .. 0 |-> head] = [i \in 0 .. 0 |-> IF i = 0 THEN head
          ELSE IF [j \in 0 .. 0 |-> head][i - 1] \in DOMAIN succ
               THEN succ[[j \in 0 .. 0 |-> head][i - 1]] ELSE [j \in 0 .. 0 |-> head][i - 1]]
    OBVIOUS
  <2>2. Follows(succ, head, 0, [i \in 0 .. 0 |-> head])
    BY <2>1 DEF Follows
  <2> QED BY <2>2
<1>4. m \in Nat /\ m - 1 \in Nat /\ ~(m <= m - 1)
  BY <1>3
<1>5. PICK e : Follows(succ, head, m - 1, e)
  BY <1>2, <1>4
<1>6. PICK x : x = IF e[m - 1] \in DOMAIN succ THEN succ[e[m - 1]] ELSE e[m - 1]
  OBVIOUS
<1>7. PICK d : d = [i \in 0 .. m |-> IF i = m THEN x ELSE e[i]]
  OBVIOUS
<1>8. \A i \in 0 .. m - 1 : e[i] = IF i = 0 THEN head
        ELSE IF e[i - 1] \in DOMAIN succ THEN succ[e[i - 1]] ELSE e[i - 1]
  <2>1. PICK r : r = [i \in 0 .. m - 1 |-> IF i = 0 THEN head
            ELSE IF e[i - 1] \in DOMAIN succ THEN succ[e[i - 1]] ELSE e[i - 1]]
    OBVIOUS
  <2>2. e = r
    BY <1>5, <2>1 DEF Follows
  <2> QED BY <2>1, <2>2
<1>9. ASSUME NEW i \in 0 .. m
      PROVE  d[i] = IF i = 0 THEN head
                    ELSE IF d[i - 1] \in DOMAIN succ THEN succ[d[i - 1]] ELSE d[i - 1]
  <2>1. CASE i = m
    <3>1. d[i] = x /\ d[i - 1] = e[m - 1] /\ i # 0
      BY <1>3, <1>4, <1>7, <2>1
    <3> QED BY <1>6, <3>1, <2>1
  <2>2. CASE i # m
    <3>1. i \in 0 .. m - 1 /\ d[i] = e[i]
      BY <1>4, <1>7, <2>2
    <3>2. i # 0 => i - 1 \in 0 .. m /\ i - 1 # m /\ d[i - 1] = e[i - 1]
      BY <1>4, <1>7, <3>1
    <3> QED BY <1>8, <3>1, <3>2
  <2> QED BY <2>1, <2>2
<1>10. Follows(succ, head, m, d)
  <2>1. d = [i \in 0 .. m |-> d[i]]
    BY <1>7
  <2> QED BY <1>9, <2>1 DEF Follows
<1> QED BY <1>2, <1>10

(* So what a chain names are nodes: past the end of the list the walk      *)
(* stays where it is, and only the links before it are counted.            *)
LEMMA ChainOfNodes ==
  ASSUME NEW succ, NEW head, IsFiniteSet(DOMAIN succ)
  PROVE  \A i \in DOMAIN Chain(succ, head) : Chain(succ, head)[i] \in DOMAIN succ
<1>1. PICK m \in Nat : m = Cardinality(DOMAIN succ)
  BY FS_CardinalityType
<1>2. PICK e : Follows(succ, head, m, e)
  BY WalkExists
<1>3. PICK w : w = Walk(succ, head, m)
  OBVIOUS
<1>4. \A i \in 0 .. m : w[i] = e[i]
  BY <1>2, <1>3, WalkIs
<1>5. \A i \in 1 .. m : e[i - 1] \notin DOMAIN succ => e[i] = e[i - 1]
  <2>1. PICK r : r = [i \in 0 .. m |-> IF i = 0 THEN head
            ELSE IF e[i - 1] \in DOMAIN succ THEN succ[e[i - 1]] ELSE e[i - 1]]
    OBVIOUS
  <2>2. e = r
    BY <1>2, <2>1 DEF Follows
  <2>3. \A i \in 1 .. m : i \in 0 .. m /\ i # 0
    OBVIOUS
  <2> QED BY <2>1, <2>2, <2>3
<1>6. ASSUME NEW a \in 0 .. m, NEW b \in 0 .. m, a <= b, e[a] \notin DOMAIN succ
      PROVE  e[b] \notin DOMAIN succ
  <2> DEFINE T == {k \in a .. m : e[k] \in DOMAIN succ}
  <2>1. SUFFICES ASSUME T # {} PROVE FALSE
    BY <1>6
  <2>2. PICK k \in T : \A j \in T : k <= j
    <3>1. T \in SUBSET Nat
      OBVIOUS
    <3> HIDE DEF T
    <3> QED BY <2>1, <3>1, LeastNatural
  <2>3. k # a /\ k \in a .. m
    BY <1>6, <2>2
  <2>4. k - 1 \in a .. m /\ k \in 1 .. m /\ ~(k <= k - 1)
    BY <2>3
  <2>5. e[k - 1] \notin DOMAIN succ
    BY <2>2, <2>4
  <2> QED BY <1>5, <2>2, <2>4, <2>5
<1>7. PICK met : met = {i \in 0 .. m : w[i] \in DOMAIN succ}
  OBVIOUS
<1>8. Chain(succ, head) = [i \in 1 .. Cardinality(met) |-> w[i - 1]]
  BY <1>1, <1>3, <1>7 DEF Chain
<1>9. IsFiniteSet(met) /\ Cardinality(met) \in Nat
  <2>1. IsFiniteSet(0 .. m)
    BY FS_Interval
  <2> QED BY <1>7, <2>1, FS_Subset, FS_CardinalityType
<1>10. ASSUME NEW i \in 1 .. Cardinality(met) PROVE w[i - 1] \in DOMAIN succ
  <2>1. SUFFICES ASSUME w[i - 1] \notin DOMAIN succ PROVE FALSE
    OBVIOUS
  <2>2. met \subseteq 0 .. i - 2
    <3> SUFFICES ASSUME NEW k \in met PROVE k \in 0 .. i - 2
      OBVIOUS
    <3>1. k \in 0 .. m /\ e[k] \in DOMAIN succ
      BY <1>4, <1>7
    <3>2. CASE k >= i - 1
      <4>1. i - 1 \in 0 .. m /\ i - 1 <= k
        BY <1>9, <3>1, <3>2
      <4>2. e[i - 1] \notin DOMAIN succ
        BY <1>4, <2>1, <4>1
      <4> QED BY <1>6, <3>1, <4>1, <4>2
    <3> QED BY <1>9, <3>1, <3>2
  <2>3. IsFiniteSet(0 .. i - 2) /\ Cardinality(0 .. i - 2) = i - 1
    <3>1. 0 \in Int /\ i - 2 \in Int /\ (0 > i - 2 => i - 1 = 0) /\ (i - 2) - 0 + 1 = i - 1
      BY <1>9
    <3> QED BY <3>1, FS_Interval
  <2>4. Cardinality(met) <= i - 1
    BY <2>2, <2>3, FS_Subset
  <2> QED BY <1>9, <2>4
<1> QED BY <1>8, <1>10

(* A chain is the path that follows the links up to a node without any.    *)
LEMMA ChainIsPath ==
  ASSUME NEW succ, IsFiniteSet(DOMAIN succ), NEW head, NEW n \in Nat,
         n <= Cardinality(DOMAIN succ), NEW e, e[0] = head,
         \A i \in 0 .. n - 1 : e[i] \in DOMAIN succ /\ succ[e[i]] = e[i + 1],
         e[n] \notin DOMAIN succ
  PROVE  Chain(succ, head) = [i \in 1 .. n |-> e[i - 1]]
<1>1. PICK m \in Nat : m = Cardinality(DOMAIN succ)
  BY FS_CardinalityType
<1>2. PICK f : f = [i \in 0 .. m |-> IF i <= n THEN e[i] ELSE e[n]]
  OBVIOUS
<1>3. \A i \in 0 .. m : IF i < n THEN f[i] = e[i] /\ e[i] \in DOMAIN succ ELSE f[i] = e[n]
  <2>1. \A i \in 0 .. m : i < n => i \in 0 .. n - 1
    OBVIOUS
  <2>2. \A i \in 0 .. m : i <= n /\ ~(i < n) => i = n
    OBVIOUS
  <2> QED BY <1>2, <2>1, <2>2
<1>4. ASSUME NEW i \in 0 .. m
      PROVE  f[i] = IF i = 0 THEN head
                    ELSE IF f[i - 1] \in DOMAIN succ THEN succ[f[i - 1]] ELSE f[i - 1]
  <2>1. CASE i = 0
    <3>1. f[0] = e[0]
      BY <1>2, <1>1
    <3> QED BY <2>1, <3>1
  <2>2. CASE i # 0 /\ i <= n
    <3>1. i - 1 \in 0 .. m /\ i - 1 < n /\ i - 1 \in 0 .. n - 1 /\ (i - 1) + 1 = i
      BY <2>2
    <3>2. f[i - 1] = e[i - 1] /\ f[i - 1] \in DOMAIN succ /\ f[i] = e[i]
      BY <1>2, <1>3, <2>2, <3>1
    <3>3. succ[e[i - 1]] = e[(i - 1) + 1]
      BY <3>1
    <3> QED BY <2>2, <3>1, <3>2, <3>3
  <2>3. CASE ~(i <= n)
    <3>1. i - 1 \in 0 .. m /\ ~(i - 1 < n) /\ ~(i < n) /\ i # 0
      BY <2>3
    <3>2. f[i - 1] = e[n] /\ f[i] = e[n]
      BY <1>3, <3>1
    <3> QED BY <3>1, <3>2
  <2> QED BY <2>1, <2>2, <2>3
<1>5. Follows(succ, head, m, f)
  <2>1. f = [i \in 0 .. m |-> f[i]]
    BY <1>2
  <2> QED BY <1>4, <2>1 DEF Follows
<1>6. PICK w : w = Walk(succ, head, m)
  OBVIOUS
<1>7. \A i \in 0 .. m : w[i] = f[i]
  BY <1>5, <1>6, WalkIs
<1>8. {i \in 0 .. m : w[i] \in DOMAIN succ} = 0 .. n - 1
  <2>1. \A i \in 0 .. m : i \in 0 .. n - 1 <=> i < n
    OBVIOUS
  <2>2. \A i \in 0 .. n - 1 : i \in 0 .. m
    BY <1>1
  <2>3. \A i \in 0 .. m : w[i] \in DOMAIN succ <=> i < n
    BY <1>3, <1>7
  <2> QED BY <2>1, <2>2, <2>3
<1>9. Cardinality(0 .. n - 1) = n
  <2>1. 0 \in Int /\ n - 1 \in Int /\ (0 > n - 1 => n = 0) /\ (n - 1) - 0 + 1 = n
    OBVIOUS
  <2> QED BY <2>1, FS_Interval
<1>10. Chain(succ, head) = [i \in 1 .. n |-> w[i - 1]]
  BY <1>1, <1>6, <1>8, <1>9 DEF Chain
<1>11. \A i \in 1 .. n : w[i - 1] = e[i - 1]
  <2> TAKE i \in 1 .. n
  <2>1. i - 1 \in 0 .. m /\ i - 1 < n
    BY <1>1
  <2> QED BY <1>3, <1>7, <2>1
<1> QED BY <1>10, <1>11

(* The chains of at most two nodes.                                        *)
LEMMA ShortChains ==
  ASSUME NEW succ, IsFiniteSet(DOMAIN succ), NEW p
  PROVE  /\ p \notin DOMAIN succ => Chain(succ, p) = << >>
         /\ p \in DOMAIN succ /\ succ[p] \notin DOMAIN succ => Chain(succ, p) = <<p>>
         /\ p \in DOMAIN succ /\ succ[p] \in DOMAIN succ /\ succ[p] # p
            /\ succ[succ[p]] \notin DOMAIN succ => Chain(succ, p) = <<p, succ[p]>>
<1> DEFINE D == DOMAIN succ
<1>1. Cardinality(D) \in Nat
  BY FS_CardinalityType
<1>2. ASSUME p \notin D PROVE Chain(succ, p) = << >>
  <2>1. PICK e : e = [i \in 0 .. 0 |-> p]
    OBVIOUS
  <2>2. e[0] = p /\ e[0] \notin D /\ 0 \in Nat /\ 0 <= Cardinality(D)
        /\ \A i \in 0 .. 0 - 1 : e[i] \in D /\ succ[e[i]] = e[i + 1]
    BY <1>1, <1>2, <2>1
  <2>3. Chain(succ, p) = [i \in 1 .. 0 |-> e[i - 1]]
    BY <2>2, ChainIsPath
  <2>4. [i \in 1 .. 0 |-> e[i - 1]] = << >>
    OBVIOUS
  <2> QED BY <2>3, <2>4
<1>3. ASSUME p \in D, succ[p] \notin D PROVE Chain(succ, p) = <<p>>
  <2>1. PICK e : e = [i \in 0 .. 1 |-> IF i = 0 THEN p ELSE succ[p]]
    OBVIOUS
  <2>2. e[0] = p /\ e[1] = succ[p] /\ 1 \in Nat
    BY <2>1
  <2>3. \A i \in 0 .. 1 - 1 : e[i] \in D /\ succ[e[i]] = e[i + 1]
    <3>1. \A i \in 0 .. 1 - 1 : i = 0 /\ i + 1 = 1
      OBVIOUS
    <3> QED BY <1>3, <2>2, <3>1
  <2>4. 1 <= Cardinality(D)
    <3>1. {p} \subseteq D /\ Cardinality({p}) = 1
      BY <1>3, FS_Singleton
    <3> QED BY <3>1, FS_Subset
  <2>5. e[1] \notin DOMAIN succ
    BY <1>3, <2>2
  <2>6. Chain(succ, p) = [i \in 1 .. 1 |-> e[i - 1]]
    <3>1. PICK n \in Nat : n = 1
      OBVIOUS
    <3>2. n <= Cardinality(DOMAIN succ) /\ e[n] \notin DOMAIN succ
          /\ \A i \in 0 .. n - 1 : e[i] \in DOMAIN succ /\ succ[e[i]] = e[i + 1]
      BY <2>3, <2>4, <2>5, <3>1
    <3>3. Chain(succ, p) = [i \in 1 .. n |-> e[i - 1]]
      BY <2>2, <3>2, ChainIsPath
    <3> QED BY <3>1, <3>3
  <2>7. \A i \in 1 .. 1 : e[i - 1] = <<p>>[i]
    <3>1. \A i \in 1 .. 1 : i = 1 /\ i - 1 = 0
      OBVIOUS
    <3> QED BY <2>2, <3>1
  <2>8. <<p>> = [i \in 1 .. 1 |-> <<p>>[i]]
    OBVIOUS
  <2> QED BY <2>6, <2>7, <2>8
<1>4. ASSUME p \in D, succ[p] \in D, succ[p] # p, succ[succ[p]] \notin D
      PROVE  Chain(succ, p) = <<p, succ[p]>>
  <2>1. PICK e : e = [i \in 0 .. 2 |-> IF i = 0 THEN p ELSE IF i = 1 THEN succ[p]
                                       ELSE succ[succ[p]]]
    OBVIOUS
  <2>2. e[0] = p /\ e[1] = succ[p] /\ e[2] = succ[succ[p]] /\ 2 \in Nat
    BY <2>1
  <2>3. \A i \in 0 .. 2 - 1 : e[i] \in D /\ succ[e[i]] = e[i + 1]
    <3>1. \A i \in 0 .. 2 - 1 : (i = 0 /\ i + 1 = 1) \/ (i = 1 /\ i + 1 = 2)
      OBVIOUS
    <3> QED BY <1>4, <2>2, <3>1
  <2>4. 2 <= Cardinality(D)
    <3>1. Cardinality({p}) = 1 /\ IsFiniteSet({p}) /\ succ[p] \notin {p}
      BY <1>4, FS_Singleton
    <3>2. Cardinality({p} \cup {succ[p]}) = 1 + 1
      BY <3>1, FS_AddElement
    <3>3. {p} \cup {succ[p]} \subseteq D
      BY <1>4
    <3>4. Cardinality({p} \cup {succ[p]}) <= Cardinality(D)
      BY <3>3, FS_Subset
    <3> QED BY <3>2, <3>4
  <2>5. e[2] \notin DOMAIN succ
    BY <1>4, <2>2
  <2>6. Chain(succ, p) = [i \in 1 .. 2 |-> e[i - 1]]
    <3>1. PICK n \in Nat : n = 2
      OBVIOUS
    <3>2. n <= Cardinality(DOMAIN succ) /\ e[n] \notin DOMAIN succ
          /\ \A i \in 0 .. n - 1 : e[i] \in DOMAIN succ /\ succ[e[i]] = e[i + 1]
      BY <2>3, <2>4, <2>5, <3>1
    <3>3. Chain(succ, p) = [i \in 1 .. n |-> e[i - 1]]
      BY <2>2, <3>2, ChainIsPath
    <3> QED BY <3>1, <3>3
  <2>7. PICK s : s = <<p, succ[p]>>
    OBVIOUS
  <2>8. \A i \in 1 .. 2 : e[i - 1] = s[i]
    <3>1. \A i \in 1 .. 2 : (i = 1 /\ i - 1 = 0) \/ (i = 2 /\ i - 1 = 1)
      OBVIOUS
    <3>2. s[1] = p /\ s[2] = succ[p]
      BY <2>7
    <3> QED BY <2>2, <3>1, <3>2
  <2>9. s = [i \in 1 .. 2 |-> s[i]]
    BY <2>7
  <2> QED BY <2>6, <2>7, <2>8, <2>9
<1> QED BY <1>2, <1>3, <1>4

(* A chain starts with its head and is made of nodes.                     *)
LEMMA ChainFacts ==
  ASSUME NEW succ, IsFiniteSet(DOMAIN succ), NEW head
  PROVE  /\ Len(Chain(succ, head)) \in Nat
         /\ Len(Chain(succ, head)) > 0 => Chain(succ, head)[1] = head
         /\ \A i \in 1 .. Len(Chain(succ, head)) : Chain(succ, head)[i] \in DOMAIN succ
<1>1. PICK m \in Nat : m = Cardinality(DOMAIN succ)
  BY FS_CardinalityType
<1>2. PICK w : w = Walk(succ, head, m)
  OBVIOUS
<1>3. w[0] = head
  <2>1. PICK e : Follows(succ, head, m, e)
    BY WalkExists
  <2>2. PICK f : f = [i \in 0 .. m |-> IF i = 0 THEN head
                       ELSE IF e[i - 1] \in DOMAIN succ THEN succ[e[i - 1]] ELSE e[i - 1]]
    OBVIOUS
  <2>3. e = f
    BY <2>1, <2>2 DEF Follows
  <2>4. 0 \in 0 .. m
    OBVIOUS
  <2>5. f[0] = head
    BY <2>2, <2>4
  <2>6. \A i \in 0 .. m : w[i] = e[i]
    BY <1>2, <2>1, WalkIs
  <2> QED BY <2>3, <2>4, <2>5, <2>6
<1>4. PICK met : met = {i \in 0 .. m : w[i] \in DOMAIN succ}
  OBVIOUS
<1>5. Chain(succ, head) = [i \in 1 .. Cardinality(met) |-> w[i - 1]]
  BY <1>1, <1>2, <1>4 DEF Chain
<1>6. PICK c \in Nat : c = Cardinality(met)
  <2>1. IsFiniteSet(0 .. m)
    BY FS_Interval
  <2> QED BY <1>4, <2>1, FS_Subset, FS_CardinalityType
<1>7. PICK s : s = Chain(succ, head)
  OBVIOUS
<1>8. s = [i \in 1 .. c |-> w[i - 1]]
  BY <1>5, <1>6, <1>7
<1>9. Len(s) = c /\ DOMAIN s = 1 .. c
  BY <1>8
<1>10. c > 0 => s[1] = head
  <2> SUFFICES ASSUME c > 0 PROVE s[1] = head
    OBVIOUS
  <2>1. 1 \in 1 .. c /\ 1 - 1 = 0
    OBVIOUS
  <2> QED BY <1>3, <1>8, <2>1
<1>11. \A i \in DOMAIN s : s[i] \in DOMAIN succ
  BY <1>7, ChainOfNodes
<1> QED BY <1>6, <1>7, <1>9, <1>10, <1>11

(* A chain goes on with what follows.                                      *)
LEMMA ChainLinks ==
  ASSUME NEW succ, IsFiniteSet(DOMAIN succ), NEW head
  PROVE  /\ head \in DOMAIN succ => Len(Chain(succ, head)) > 0
         /\ \A i \in 1 .. Len(Chain(succ, head)) - 1 :
              Chain(succ, head)[i + 1] = succ[Chain(succ, head)[i]]
<1>1. PICK m \in Nat : m = Cardinality(DOMAIN succ)
  BY FS_CardinalityType
<1>2. PICK w : w = Walk(succ, head, m)
  OBVIOUS
<1>3. /\ w[0] = head
      /\ \A i \in 1 .. m : w[i] = IF w[i - 1] \in DOMAIN succ THEN succ[w[i - 1]] ELSE w[i - 1]
  <2>1. PICK e : Follows(succ, head, m, e)
    BY WalkExists
  <2>2. PICK f : f = [i \in 0 .. m |-> IF i = 0 THEN head
                       ELSE IF e[i - 1] \in DOMAIN succ THEN succ[e[i - 1]] ELSE e[i - 1]]
    OBVIOUS
  <2>3. e = f
    BY <2>1, <2>2 DEF Follows
  <2>4. f[0] = head
    BY <2>2
  <2>5. \A i \in 1 .. m : f[i] = IF e[i - 1] \in DOMAIN succ THEN succ[e[i - 1]] ELSE e[i - 1]
    BY <2>2
  <2>6. \A i \in 0 .. m : w[i] = e[i]
    BY <1>2, <2>1, WalkIs
  <2>7. \A i \in 1 .. m : i \in 0 .. m /\ i - 1 \in 0 .. m
    OBVIOUS
  <2>8. 0 \in 0 .. m
    OBVIOUS
  <2> QED BY <2>3, <2>4, <2>5, <2>6, <2>7, <2>8
<1>4. PICK met : met = {i \in 0 .. m : w[i] \in DOMAIN succ}
  OBVIOUS
<1>5. IsFiniteSet(0 .. m) /\ Cardinality(0 .. m) = m + 1
  <2>1. PICK a \in Int, b \in Int : a = 0 /\ b = m
    OBVIOUS
  <2>2. IsFiniteSet(a .. b) /\ Cardinality(a .. b) = IF a > b THEN 0 ELSE b - a + 1
    BY FS_Interval
  <2> QED BY <2>1, <2>2
<1>6. met \subseteq 0 .. m /\ IsFiniteSet(met)
  BY <1>4, <1>5, FS_Subset
<1>7. PICK c \in Nat : c = Cardinality(met) /\ c <= m + 1
  <2>1. Cardinality(met) \in Nat
    BY <1>6, FS_CardinalityType
  <2>2. Cardinality(met) <= Cardinality(0 .. m)
    BY <1>5, <1>6, FS_Subset
  <2> QED BY <1>5, <2>1, <2>2
<1>8. PICK s : s = Chain(succ, head)
  OBVIOUS
<1>9. s = [i \in 1 .. c |-> w[i - 1]]
  BY <1>1, <1>2, <1>4, <1>7, <1>8 DEF Chain
<1>10. Len(s) = c /\ DOMAIN s = 1 .. c
  BY <1>9
<1>11. head \in DOMAIN succ => c > 0
  <2> SUFFICES ASSUME head \in DOMAIN succ, c = 0 PROVE FALSE
    BY <1>7
  <2>1. met = {}
    BY <1>6, <1>7, FS_EmptySet
  <2>2. 0 \in met
    BY <1>3, <1>4
  <2> QED BY <2>1, <2>2
<1>12. ASSUME NEW i \in 1 .. c - 1 PROVE s[i + 1] = succ[s[i]]
  <2>1. i \in 1 .. c /\ i + 1 \in 1 .. c /\ i \in 1 .. m /\ i + 1 - 1 = i
    BY <1>7
  <2>2. s[i] = w[i - 1] /\ s[i + 1] = w[i]
    BY <1>9, <2>1
  <2>3. s[i] \in DOMAIN succ
    BY <1>8, <1>10, <2>1, ChainOfNodes
  <2> QED BY <1>3, <2>1, <2>2, <2>3
<1> QED BY <1>8, <1>10, <1>11, <1>12

(* Values that are all different are as many as their places.              *)
LEMMA OnceCounted ==
  ASSUME NEW n \in Nat, NEW f, \A i, j \in 1 .. n : f[i] = f[j] => i = j,
         NEW T, T = {f[i] : i \in 1 .. n}
  PROVE  IsFiniteSet(T) /\ Cardinality(T) = n
<1>1. IsFiniteSet(1 .. n) /\ Cardinality(1 .. n) = n
  <2>1. 1 \in Int /\ n \in Int /\ (1 > n => n = 0) /\ n - 1 + 1 = n
    OBVIOUS
  <2> QED BY <2>1, FS_Interval
<1>2. PICK g : g = [i \in 1 .. n |-> f[i]]
  OBVIOUS
<1>3. g \in [1 .. n -> T]
  BY <1>2
<1>4. \A x \in T : \E i \in 1 .. n : g[i] = x
  BY <1>2
<1>5. g \in Surjection(1 .. n, T)
  BY <1>3, <1>4, Fun_IsSurj
<1>6. g \in Injection(1 .. n, T)
  <2>1. \A i, j \in 1 .. n : g[i] = g[j] => i = j
    BY <1>2
  <2> QED BY <1>3, <2>1 DEF Injection, IsInjective
<1> QED BY <1>1, <1>5, <1>6, FS_Surjection

(* A path without a node twice, up to a node without link, is the chain.   *)
LEMMA PathChain ==
  ASSUME NEW succ, IsFiniteSet(DOMAIN succ), NEW n \in Nat, n > 0, NEW s,
         \A i, j \in 1 .. n : s[i] = s[j] => i = j, \A i \in 1 .. n : s[i] \in DOMAIN succ,
         \A i \in 1 .. n - 1 : succ[s[i]] = s[i + 1], succ[s[n]] \notin DOMAIN succ
  PROVE  Chain(succ, s[1]) = [i \in 1 .. n |-> s[i]]
<1>1. PICK T : T = {s[i] : i \in 1 .. n}
  OBVIOUS
<1>2. IsFiniteSet(T) /\ Cardinality(T) = n
  BY <1>1, OnceCounted
<1>3. T \subseteq DOMAIN succ
  BY <1>1
<1>4. n <= Cardinality(DOMAIN succ)
  BY <1>2, <1>3, FS_Subset
<1>5. PICK e : e = [i \in 0 .. n |-> IF i < n THEN s[i + 1] ELSE succ[s[n]]]
  OBVIOUS
<1>6. e[0] = s[1] /\ e[n] = succ[s[n]]
  BY <1>5
<1>7. ASSUME NEW i \in 0 .. n - 1 PROVE e[i] \in DOMAIN succ /\ succ[e[i]] = e[i + 1]
  <2>1. i \in 0 .. n /\ i < n /\ i + 1 \in 1 .. n /\ i + 1 \in 0 .. n
    OBVIOUS
  <2>2. e[i] = s[i + 1]
    BY <1>5, <2>1
  <2>3. CASE i + 1 < n
    <3>1. i + 1 \in 1 .. n - 1
      BY <2>3
    <3>2. succ[s[i + 1]] = s[(i + 1) + 1]
      BY <3>1
    <3>3. e[i + 1] = s[(i + 1) + 1]
      BY <1>5, <2>1, <2>3
    <3> QED BY <2>1, <2>2, <3>2, <3>3
  <2>4. CASE ~(i + 1 < n)
    <3>1. i + 1 = n
      BY <2>4
    <3> QED BY <1>6, <2>1, <2>2, <3>1
  <2> QED BY <2>3, <2>4
<1>8. Chain(succ, s[1]) = [i \in 1 .. n |-> e[i - 1]]
  <2>1. PICK head : head = s[1]
    OBVIOUS
  <2>2. Chain(succ, head) = [i \in 1 .. n |-> e[i - 1]]
    <3>1. e[0] = head /\ e[n] \notin DOMAIN succ
      BY <1>6, <2>1
    <3>2. \A i \in 0 .. n - 1 : e[i] \in DOMAIN succ /\ succ[e[i]] = e[i + 1]
      BY <1>7
    <3> QED BY <1>4, <3>1, <3>2, ChainIsPath
  <2> QED BY <2>1, <2>2
<1>9. \A i \in 1 .. n : e[i - 1] = s[i]
  <2> TAKE i \in 1 .. n
  <2>1. i - 1 \in 0 .. n /\ i - 1 < n /\ (i - 1) + 1 = i
    OBVIOUS
  <2> QED BY <1>5, <2>1
<1> QED BY <1>8, <1>9
=============================================================================
