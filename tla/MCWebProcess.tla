---------------------------- MODULE MCWebProcess ----------------------------
(***************************************************************************)
(* Three users in a store with room for two.                               *)
(***************************************************************************)
EXTENDS WebProcess, TLC

CONSTANTS u1, u2, u3

Symmetry == Permutations({u1, u2, u3})

=============================================================================
