----------------------------- MODULE MCAuditLog -----------------------------
(***************************************************************************)
(* Two servers on one database: two threads in one of them, one thread in  *)
(* the other.                                                              *)
(***************************************************************************)
EXTENDS AuditLog, TLC

CONSTANTS p1, p2, w1, w2, w3

MCProcOf == [w \in Workers |-> IF w = w3 THEN p2 ELSE p1]

=============================================================================
