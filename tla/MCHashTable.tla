---------------------------- MODULE MCHashTable ----------------------------
(* Instances of HashTable for TLC: keys that collide at the last bucket of *)
(* a table of 4, so that probing wraps around, and part again in a table   *)
(* of 8.                                                                   *)
EXTENDS HashTable, TLC

CONSTANTS k1, k2, k3, k4

MCHash == [k \in Keys |-> CASE k = k1 -> 3 [] k = k2 -> 7 
                            [] k = k3 -> 11 [] k = k4 -> 0]
=============================================================================
