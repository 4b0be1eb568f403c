------------------------------- MODULE SlotMap -------------------------------
(***************************************************************************)
(* What BufHashTable promises the buffer pool: a map from pages to frames  *)
(* that changes one page at a time.  BufferMgr uses it in this form.       *)
(***************************************************************************)
CONSTANTS Keys, Slots, Absent

VARIABLE map

Init == map = [k \in Keys |-> Absent]

Insert(k, s) == map[k] = Absent /\ map' = [map EXCEPT ![k] = s]
Remove(k) == map[k] # Absent /\ map' = [map EXCEPT ![k] = Absent]

Next == \E k \in Keys : Remove(k) \/ \E s \in Slots : Insert(k, s)

Spec == Init /\ [][Next]_map
=============================================================================
