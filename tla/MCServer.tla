------------------------------ MODULE MCServer ------------------------------
(* Server for TLC: requests are interchangeable. *)
EXTENDS Server, TLC

Symmetry == Permutations(Tasks)

=============================================================================
