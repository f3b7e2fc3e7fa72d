---------------------------- MODULE KeyValueMap ----------------------------
(***************************************************************************)
(* What environment.c promises of a HashTable: a finite map from keys to   *)
(* values.  Storing a key replaces its value and nothing else, removing it *)
(* forgets it and nothing else, clearing forgets every key at once.        *)
(***************************************************************************)
CONSTANTS Keys, Vals, Absent

VARIABLE map

Init == map = [k \in Keys |-> Absent]

Put(k, v) == map' = [map EXCEPT ![k] = v]

Remove(k) == map' = [map EXCEPT ![k] = Absent]

Clear == map' = [k \in Keys |-> Absent]

Next ==
  \/ \E k \in Keys, v \in Vals : Put(k, v)
  \/ \E k \in Keys : Remove(k)
  \/ Clear

Spec == Init /\ [][Next]_map
=============================================================================
