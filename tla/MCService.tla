------------------------------ MODULE MCService -----------------------------
(* Service for TLC: the symmetric set of the safety runs. *)
EXTENDS Service

Symmetry == Permutations(Call)
=============================================================================
