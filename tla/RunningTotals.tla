--------------------------- MODULE RunningTotals ---------------------------
(***************************************************************************)
(* The sum of a stretch of numbers, as a recursive function: what the rows *)
(* of a log cost, what the records of a plan disclose.                     *)
(***************************************************************************)
EXTENDS Integers

\* c[lo + 1] + ... + c[hi].
RunningTotal(c, lo, hi) ==
    LET upTo[n \in lo..hi] == IF n = lo THEN 0 ELSE upTo[n - 1] + c[n]
    IN  upTo[hi]

=============================================================================
