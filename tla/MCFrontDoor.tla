---------------------------- MODULE MCFrontDoor ----------------------------
(***************************************************************************)
(* Two logins that may be listed and one that is not.                      *)
(***************************************************************************)
EXTENDS FrontDoor, TLC

CONSTANTS a, b, c

Symmetry == Permutations({a, b})

=============================================================================
