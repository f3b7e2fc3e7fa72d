---------------------------- MODULE MCEvaluator ----------------------------
(* Instances of Evaluator for TLC.  Frames and variable addresses are only *)
(* compared for equality, so any permutation of them is a symmetry.        *)
EXTENDS Evaluator, TLC

CONSTANTS x, y

AddressSymmetry == Permutations(FrameId \ {Global}) \cup Permutations(Cell)
=============================================================================
