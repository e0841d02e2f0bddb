---------------------------- MODULE MCRepository ----------------------------
(* Model-checking instances of Repository. *)
EXTENDS Repository, TLC
CONSTANTS p1, p2
TwoProcs == {p1, p2}
Symmetry == Permutations(TwoProcs)
=============================================================================
