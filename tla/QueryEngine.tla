----------------------------- MODULE QueryEngine -----------------------------
(***************************************************************************)
(* What the engine answers to one aggregate: the released columns and the   *)
(* internal columns beside them (people counted, dominance, influence),     *)
(* each the result of a query of its own over the same view, and the        *)
(* contributions an external checker is given.                              *)
(*                                                                         *)
(* A row gives its donor and a value, perhaps missing, in each column.  A   *)
(* question names a procedure, the measure columns it reads, the columns it *)
(* groups by and its filters.  Shares are percentages rounded up; of a      *)
(* correlation only whether it can be computed is kept.  The order of rows  *)
(* and the cap on their number are left out.                                *)
(***************************************************************************)
EXTENDS Suppression

\* The registered procedures: the power of the values that a cell adds up, the
\* class of the released value, the witness, and what a checker is told to do.
Procedure ==
    [count    |-> [power |-> 0, class |-> "none",      witness |-> "none",      aggregate |-> "none"],
     mean     |-> [power |-> 1, class |-> "magnitude", witness |-> "dominance", aggregate |-> "mean"],
     sum      |-> [power |-> 1, class |-> "magnitude", witness |-> "dominance", aggregate |-> "sum"],
     sum_sq   |-> [power |-> 2, class |-> "moment2",   witness |-> "dominance", aggregate |-> "sum"],
     sum_cube |-> [power |-> 3, class |-> "moment3",   witness |-> "dominance", aggregate |-> "sum"],
     sum_quad |-> [power |-> 4, class |-> "moment4",   witness |-> "dominance", aggregate |-> "sum"],
     corr     |-> [power |-> 0, class |-> "statistic", witness |-> "influence", aggregate |-> "none"]]

Additive(q) == Procedure[q.fn].power > 0

\* Mutant: a one-column aggregate has no guard (hardening #92).
GuardsOfCorrOnly(q) == IF q.fn = "corr" THEN Range(q.columns) ELSE {}

\* The columns that must have a value for a row to count.
Guards(q) == Range(q.columns)

-----------------------------------------------------------------------------
(* Rows and cells                                                           *)

RowsOf(table, q, guards) ==
    {i \in Selected(table, q.filters) : \A c \in guards : table[i].at[c] # Missing}

KeyOf(row, q) == [i \in DOMAIN q.by |-> row.at[q.by[i]]]

InCell(table, ids, q, k) == {i \in ids : KeyOf(table[i], q) = k}

\* Without GROUP BY there is one row, even over nothing.
Groups(table, ids, q) == IF q.by = <<>> THEN {<<>>} ELSE {KeyOf(table[i], q) : i \in ids}

\* The number of rows is the sum of powers of 0.
Power(x, power) ==
    CASE power = 0 -> 1 [] power = 1 -> x [] power = 2 -> x * x
      [] power = 3 -> x * x * x [] power = 4 -> x * x * x * x

Total(table, ids, column, power) == SumFunction([i \in ids |-> Power(table[i].at[column], power)])

-----------------------------------------------------------------------------
(* The witnesses                                                            *)

\* What each person adds to a cell, a missing value adding nothing; a person
\* with no value at all adds NULL, which no aggregate counts.
Contributions(table, ids, q) ==
    LET c == q.columns[1]
        valued == {i \in ids : table[i].at[c] # Missing}
    IN  [d \in DonorsOf(table, valued) |->
            Total(table, {i \in valued : table[i].donor = d}, c, Procedure[q.fn].power)]

Magnitude(x) == IF x < 0 THEN -x ELSE x
Percent(part, whole) == IF whole = 0 THEN Missing ELSE (100 * part + whole - 1) \div whole

\* GREATEST: the larger of the values that are there, a missing one being skipped.
Greatest(S) == IF S \subseteq {Missing} THEN Missing ELSE Max(S \ {Missing})

\* compile_dominance_query: a cell's largest contributor, against the sum of
\* the magnitudes and against the magnitude of the sum.  Of a sum of zero there is
\* no share, and the other one decides.  It has the filters of the query and none
\* of its guards.
Dominance(table, q, k) ==
    LET c == Contributions(table, InCell(table, RowsOf(table, q, {}), q, k), q)
        sizes == [d \in DOMAIN c |-> Magnitude(c[d])]
        top == Max({0} \cup Range(sizes))
    IN  Greatest({Percent(top, SumFunction(sizes)), Percent(top, Magnitude(SumFunction(c)))})

Spread(table, ids, c) ==
    Cardinality(ids) * Total(table, ids, c, 2) - Power(Total(table, ids, c, 1), 2)

\* A correlation of these rows can be computed.
Varies(table, ids, q) == Spread(table, ids, q.columns[1]) * Spread(table, ids, q.columns[2]) > 0

\* compile_influence_query: removing any one person must leave three rows that
\* both measures vary over.  By how much r then moves is taken to be nothing.
Influence(table, q, k) ==
    LET ids == InCell(table, RowsOf(table, q, Guards(q)), q, k)
        without(d) == {i \in ids : table[i].donor # d}
    IN  IF Varies(table, ids, q) /\ \A d \in DonorsOf(table, ids) :
              Cardinality(without(d)) >= 3 /\ Varies(table, without(d), q)
        THEN 0 ELSE Missing

-----------------------------------------------------------------------------
(* The answer                                                               *)

\* compile_donor_count_query; a cell it does not have counts nobody.
DonorCount(table, q, k) ==
    Cardinality(DonorsOf(table, InCell(table, RowsOf(table, q, Guards(q)), q, k)))

\* The released columns of one cell.
CountOf(table, q, k) == Cardinality(InCell(table, RowsOf(table, q, Guards(q)), q, k))
Value(table, q, k) ==
    Total(table, InCell(table, RowsOf(table, q, Guards(q)), q, k),
          q.columns[1], Procedure[q.fn].power)

CellOf(table, q, k) ==
    LET rows == CountOf(table, q, k) IN
    [n |-> rows, donors |-> DonorCount(table, q, k),
     share |-> IF Additive(q) THEN Dominance(table, q, k) ELSE Missing,
     influence |-> IF q.fn = "corr" THEN Influence(table, q, k) ELSE Missing,
     finite |-> CASE q.fn = "count" -> TRUE
                  [] q.fn = "corr"  -> Varies(table, InCell(table, RowsOf(table, q, Guards(q)), q, k), q)
                  [] OTHER          -> rows > 0]

\* run, with the context a vetter gets (cell_context): a frame for Suppression.
Run(table, q, domains) ==
    [cells   |-> [k \in Groups(table, RowsOf(table, q, Guards(q)), q) |-> CellOf(table, q, k)],
     columns |-> {"n", "n_donors"} \cup {"value" : x \in {q.fn} \ {"count"}}
                 \cup ({Procedure[q.fn].witness} \ {"none"}),
     domains |-> [i \in DOMAIN q.by |-> domains[q.by[i]]],
     known   |-> TRUE,
     class   |-> Procedure[q.fn].class]

\* contributions: what each person gave to each cell, for a checker; only the
\* additive procedures say how much.
CheckerFrame(table, q) ==
    LET ids == RowsOf(table, q, Guards(q)) IN
    [k \in {KeyOf(table[i], q) : i \in ids} |->
        IF Additive(q) THEN Contributions(table, InCell(table, ids, q, k), q)
        ELSE [d \in DonorsOf(table, InCell(table, ids, q, k)) |-> 0]]

=============================================================================
