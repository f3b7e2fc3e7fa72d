---------------------------- MODULE MCCollector ----------------------------
(* Instances of Collector for TLC.  Addresses are only compared for        *)
(* equality, so safety may be checked up to their permutations.            *)
EXTENDS Collector, TLC

CONSTANTS x, proc

AddressSymmetry == Permutations(Addr) \cup Permutations(Cell)
=============================================================================
