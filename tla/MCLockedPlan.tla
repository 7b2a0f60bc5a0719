---------------------------- MODULE MCLockedPlan ----------------------------
(***************************************************************************)
(* Two plans.  In the first both stages ask the same thing under a         *)
(* contingency, so the second may be one the ledger cannot afford.  In the *)
(* other each stage is guarded by the one before, and one of them names a  *)
(* dimension the data does not have.                                       *)
(***************************************************************************)
EXTENDS LockedPlan

MCStage(question, guard, statuses, dimension) ==
    [question |-> question, guard |-> guard, statuses |-> statuses, dimension |-> dimension]

MCPlans ==
    {<<MCStage("q1", NoGuard, {}, "known"),
       MCStage("q1", NoGuard, {}, "known")>>,
     <<MCStage("q1", NoGuard, {}, "known"),
       MCStage("q2", 1, {"released", "redacted"}, "unknown"),
       MCStage("q1", 2, {"denied"}, "none")>>}

=============================================================================
