------------------------------- MODULE MCRepl -------------------------------
(* Instances of Repl for TLC.  Texts are only compared for equality, so any *)
(* permutation of them is a symmetry.                                       *)
EXTENDS Repl, TLC

CONSTANTS x, builtin

TextSymmetry == Permutations(Text)
=============================================================================
