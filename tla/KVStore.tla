------------------------------- MODULE KVStore -------------------------------
(***************************************************************************)
(* What storage.Engine (storage/engine.go) promises the MVCC layer: a map  *)
(* from keys to values that only Set and Delete change, one key at a time. *)
(* Opening, closing, compacting, scanning and dying are no steps of it.    *)
(***************************************************************************)
CONSTANTS Key, Value, Nil

VARIABLE store

Init == store = [k \in Key |-> Nil]

Set(k, value) == store' = [store EXCEPT ![k] = value]

Delete(k) == store' = [store EXCEPT ![k] = Nil]

Next == \E k \in Key : Delete(k) \/ \E value \in Value : Set(k, value)

Spec == Init /\ [][Next]_store

=============================================================================
