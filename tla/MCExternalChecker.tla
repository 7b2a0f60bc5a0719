-------------------------- MODULE MCExternalChecker --------------------------
(***************************************************************************)
(* Two requests sharing one checker.                                       *)
(***************************************************************************)
EXTENDS ExternalChecker

CONSTANTS t1, t2, v1, v2

=============================================================================
