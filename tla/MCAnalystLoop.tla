--------------------------- MODULE MCAnalystLoop ---------------------------
(***************************************************************************)
(* Conclusions that cite the first two steps, a step that never was, or    *)
(* none, with a verdict of their own, another, none, or one that is no     *)
(* verdict.                                                                *)
(***************************************************************************)
EXTENDS AnalystLoop

MCClaims == [verdict : {"supported", "null"}, evidence : {{}, {1}, {1, 2}, {9}}]

MCConclusions ==
    {[verdict |-> v, claims |-> {c, d}] :
        v \in {"supported", "not_answerable", "absent", "other"}, c, d \in MCClaims \cup {NotAnswered}}

=============================================================================
