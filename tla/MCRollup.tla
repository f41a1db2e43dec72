------------------------------ MODULE MCRollup ------------------------------
(* Rollup on a session with a few exchanges behind it.                      *)
EXTENDS Rollup, TLC

Symmetry == Permutations(Turns)
=============================================================================
