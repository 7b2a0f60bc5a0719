----------------------------- MODULE Suppression -----------------------------
(***************************************************************************)
(* What the gateway does with a cell table: the rules that withhold a cell, *)
(* the vetters that apply them, complementary suppression, the finalized    *)
(* table, and the decision about the request.                               *)
(*                                                                         *)
(* A frame has a cell for each key, a key being a tuple of levels (numbers, *)
(* or Missing); the columns it carries; the declared domain of each key     *)
(* column (Missing when none is declared); and whether the caller knows     *)
(* which columns are keys.  Shares and influences are percentages, Missing  *)
(* when the engine could not resolve them.                                  *)
(***************************************************************************)
EXTENDS Cohorts, SequencesExt

CountColumns == {"n", "n_donors"}
CellRules == {"small_cell", "dominance", "influence", "nonfinite_value", "undeclared_cell_key"}

FindingOf(severity, rule) ==
    [severity |-> severity, rule |-> rule, suppressable |-> rule \in CellRules]

Counted(f) == f.columns \cap CountColumns # {}
Width(f) == Len(f.domains)

-----------------------------------------------------------------------------
(* The rules                                                                *)

\* An unresolved witness fails the comparison.
Within(x, bound) == x # Missing /\ x <= bound

\* dominance_for: squares have a bound of their own when one is configured.
DominanceBound(f, par) ==
    IF f.class = "moment2" /\ par.moment2 # Missing THEN par.moment2 ELSE par.dominance

\* _suppression_hits: the cells that fail one rule.
Fails(rule, f, par) ==
    {k \in DOMAIN f.cells : LET c == f.cells[k] IN
        \/ rule = "small_cell" /\
           \/ "n" \in f.columns /\ (c.n = Missing \/ c.n < par.threshold)
           \/ "n_donors" \in f.columns /\ (c.donors = Missing \/ c.donors < par.threshold)
        \/ rule = "dominance" /\ "dominance" \in f.columns /\ ~Within(c.share, DominanceBound(f, par))
        \/ rule = "influence" /\ "influence" \in f.columns /\ ~Within(c.influence, par.influence)
        \/ rule = "nonfinite_value" /\ Counted(f) /\ "value" \in f.columns /\ ~c.finite
        \/ rule = "undeclared_cell_key" /\ f.known /\
           \E i \in 1..Width(f) : f.domains[i] # Missing /\ k[i] \notin f.domains[i] \cup {Missing}}

\* leak_detector: what no suppression resolves, the rules that fired, and the
\* number of candidate cells.
Findings(f, par) ==
    IF DOMAIN f.cells = {} THEN {} ELSE
    {FindingOf("high", "identifier_egress") : x \in f.columns \cap {"identifier"}}
    \cup {FindingOf("high", "raw_sensitive") :
            x \in IF Counted(f) THEN {} ELSE f.columns \cap {"sensitive"}}
    \cup {FindingOf("high", "free_text_egress") : x \in f.columns \cap {"free_text"}}
    \cup {FindingOf("high", r) : r \in {r \in CellRules : Fails(r, f, par) # {}}}
    \cup {FindingOf("medium", "too_granular") :
            x \in {k \in {Cardinality(DOMAIN f.cells)} : k > par.rows}}

StandinVetter(f, par) ==
    LET found == Findings(f, par)
    IN  [suppress |-> UNION {Fails(r, f, par) : r \in CellRules},
         findings |-> found,
         deny |-> \E x \in found : x.severity = "high" /\ ~x.suppressable]

CompositeVetter(v, w) ==
    [suppress |-> v.suppress \cup w.suppress,
     findings |-> v.findings \cup w.findings,
     deny |-> v.deny \/ w.deny]

-----------------------------------------------------------------------------
(* Keys, rounding and order                                                 *)

\* A missing level sorts like the empty text.
Rank(level) == IF level = Missing THEN 0 ELSE level
KeyBefore(k, l) ==
    \E i \in DOMAIN k : /\ Rank(k[i]) < Rank(l[i])
                        /\ \A j \in 1..(i - 1) : Rank(k[j]) = Rank(l[j])

ReleasedCount(f, k, par) == RoundTo(f.cells[k].n, par.base)

\* The orders of cells: the smaller or the larger count as released first, ties
\* broken on the public key.
Smaller(f, k, l, par) ==
    \/ ReleasedCount(f, k, par) < ReleasedCount(f, l, par)
    \/ ReleasedCount(f, k, par) = ReleasedCount(f, l, par) /\ KeyBefore(k, l)
Larger(f, k, l, par) ==
    \/ ReleasedCount(f, k, par) > ReleasedCount(f, l, par)
    \/ ReleasedCount(f, k, par) = ReleasedCount(f, l, par) /\ KeyBefore(k, l)

\* Mutant: the cell with the smallest exact count is given up (hardening #27).
SacrificeExact(f, keys, par) ==
    CHOOSE k \in keys : \A l \in keys \ {k} :
        \/ f.cells[k].n < f.cells[l].n
        \/ f.cells[k].n = f.cells[l].n /\ KeyBefore(k, l)

\* _sacrifice: the first of some cells.
Sacrifice(f, keys, par) == CHOOSE k \in keys : \A l \in keys \ {k} : Smaller(f, k, l, par)

-----------------------------------------------------------------------------
(* Complementary suppression                                                *)

\* The slices that have a total of their own: the whole table for one key
\* column, a level of a column otherwise.  A missing level equals nothing, so
\* its slice is empty.
Margins(f, i) ==
    IF Width(f) = 1 THEN {DOMAIN f.cells}
    ELSE {{k \in DOMAIN f.cells : k[i] = level} :
             level \in {k[i] : k \in DOMAIN f.cells} \ {Missing}}

Exposed(margin, released) ==
    Cardinality(margin \ released) = 1 /\ margin \cap released # {}

\* The margins of one column are disjoint, so their order does not matter.
ProtectColumn(f, released, i, par) ==
    released \ {Sacrifice(f, m \cap released, par) :
                   m \in {m \in Margins(f, i) : Exposed(m, released)}}

\* One pass, column by column.
ProtectOnce(f, released, par) ==
    LET kept[i \in 0..Width(f)] == IF i = 0 THEN released
                                   ELSE ProtectColumn(f, kept[i - 1], i, par)
    IN  kept[Width(f)]

\* _secondary_suppress: until a pass changes nothing; every other pass drops a
\* cell, so there are no more passes than cells.
SecondarySuppress(f, released, par) ==
    IF ~Counted(f) \/ Width(f) = 0 \/ released = DOMAIN f.cells THEN released
    ELSE LET n == Cardinality(released)
             after[i \in 0..n] == IF i = 0 THEN released
                                  ELSE ProtectOnce(f, after[i - 1], par)
         IN  after[n]

-----------------------------------------------------------------------------
(* The release                                                              *)

\* _finalize: helper columns dropped, counts rounded, rows in an order the
\* released numbers and the public keys give: row i has i - 1 before it.
Finalize(f, keys, par) ==
    LET row(i) == CHOOSE k \in keys : Cardinality({l \in keys : Larger(f, l, k, par)}) = i - 1
    IN  [i \in 1..Cardinality(keys) |-> [key |-> row(i), n |-> ReleasedCount(f, row(i), par)]]

\* _granularity: decided again on what is left.
Granularity(released, findings, par) ==
    {x \in findings : x.rule # "too_granular"}
    \cup {FindingOf("medium", "too_granular") :
            x \in {n \in {Cardinality(released)} : n > par.rows}}

\* DisclosurePolicy.apply, given its vetter's verdicts.
Apply(f, verdicts, par) ==
    LET passed == DOMAIN f.cells \ verdicts.suppress
        kept == IF verdicts.suppress = {} THEN passed ELSE SecondarySuppress(f, passed, par)
        noted == verdicts.findings
                 \cup {FindingOf("low", "secondary_suppression") : x \in passed \ kept}
    IN  IF verdicts.deny
        THEN [action |-> "deny", table |-> <<>>, findings |-> verdicts.findings]
        ELSE [action |-> IF verdicts.suppress = {} THEN "release" ELSE "redacted",
              table |-> Finalize(f, kept, par),
              findings |-> Granularity(kept, noted, par)]

\* hitl_decision on what suppression did not settle.
Hitl(findings) ==
    LET residual == {x.severity : x \in {x \in findings : ~x.suppressable}}
    IN  IF "high" \in residual THEN "deny" ELSE IF "medium" \in residual THEN "human" ELSE "auto"

\* _handle_inner from apply to the row: nothing left is a refusal as well.
Decide(applied, flagged) ==
    IF flagged \/ applied.action = "deny" \/ applied.table = <<>> \/ Hitl(applied.findings) = "deny"
    THEN "denied"
    ELSE IF Hitl(applied.findings) = "human" THEN "review"
    ELSE IF applied.action = "redacted" THEN "redacted" ELSE "released"

=============================================================================
