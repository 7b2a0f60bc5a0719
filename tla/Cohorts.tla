------------------------------- MODULE Cohorts -------------------------------
(***************************************************************************)
(* Which people two releases differ over: the predicates of the engine      *)
(* with SQL's three truth values, the two legs that decide whether a        *)
(* cohort is too close to an earlier one, the comparison across views, the  *)
(* marginals that are published, and the sparse levels a plan may drop.     *)
(*                                                                         *)
(* A table is a function from row ids to rows, a row names its donor, the   *)
(* value it has in each filterable column and the amount it contributes; a  *)
(* value may be missing.  A normalized predicate has a set where the code   *)
(* has the sorted tuple of an `in`.                                         *)
(***************************************************************************)
EXTENDS Integers, Sequences, FiniteSets, FiniteSetsExt, Functions

CONSTANT Missing        \* SQL's NULL

-----------------------------------------------------------------------------
(* Predicates                                                               *)

No == 0
Unknown == 1
Yes == 2
And(S) == Min(S \cup {Yes})
Or(S) == Max(S \cup {No})
Not(truth) == Yes - truth

\* _normalized_filters: order, repetition and one-element lists do not count.
NormalForm(f) ==
    IF f.op = "in" /\ Cardinality(Range(f.value)) = 1
    THEN [column |-> f.column, op |-> "==", value |-> f.value[1]]
    ELSE [f EXCEPT !.value = IF f.op = "in" THEN Range(f.value) ELSE f.value]
Normalized(filters) == {NormalForm(filters[i]) : i \in DOMAIN filters}

Meets(v, p) ==
    \/ p.op = "==" /\ v = p.value
    \/ p.op = "!=" /\ v # p.value
    \/ p.op = "in" /\ v \in p.value
    \/ p.op = "<"  /\ v < p.value
    \/ p.op = "<=" /\ v <= p.value
    \/ p.op = ">"  /\ v > p.value
    \/ p.op = ">=" /\ v >= p.value

\* _predicate_sql on one row: a comparison with a missing value is unknown.
Truth(row, filters) ==
    And({IF row.at[p.column] = Missing THEN Unknown
         ELSE IF Meets(row.at[p.column], p) THEN Yes ELSE No : p \in filters})

Selected(table, filters) == {i \in DOMAIN table : Truth(table[i], filters) = Yes}
DonorsOf(table, ids) == {table[i].donor : i \in ids}

-----------------------------------------------------------------------------
(* The cheap leg: what the marginals of the whole population bound           *)

\* marginal_donor_counts, for one column; a missing value is a key like any.
Marginal(table, column) ==
    [v \in {table[i].at[column] : i \in DOMAIN table} |->
        Cardinality(DonorsOf(table, {i \in DOMAIN table : table[i].at[column] = v}))]

DimValueSet(universe, predicates) ==
    {v \in universe : \A p \in predicates : v # Missing /\ Meets(v, p)}

On(filters, column) == {p \in filters : p.column = column}

\* The values of a column that exactly one of the two cohorts selects.
DiffersAt(marginal, column, a, b) ==
    SymDiff(DimValueSet(DOMAIN marginal, On(a, column)),
            DimValueSet(DOMAIN marginal, On(b, column)))

SimulatableCohortBound(table, a, b) ==
    LET cost(m, c) == SumFunctionOnSet(m, DiffersAt(m, c, a, b))
    IN  SumFunction([c \in {p.column : p \in a \cup b} |-> cost(Marginal(table, c), c)])

-----------------------------------------------------------------------------
(* The exact legs                                                           *)

\* cohort_symdiff: the donors of exactly one of two cohorts, of one view or of two.
CohortSymdiff(s, a, t, b) ==
    Cardinality(SymDiff(DonorsOf(s, Selected(s, a)), DonorsOf(t, Selected(t, b))))

\* _donor_total: a donor counts once in each cell of the grouping it has rows in.
DonorTotal(table, filters, group) ==
    SumFunction([v \in {table[i].at[group] : i \in DOMAIN table} |->
        Cardinality(DonorsOf(table, {i \in Selected(table, filters) : table[i].at[group] = v}))])

\* Mutant: the donor sets are compared, not the rows (hardening #40).
RowSymdiffOfPeople(table, a, b) == CohortSymdiff(table, a, table, b)

\* row_symdiff_donors: exactly one of the two predicates is true of the row.
RowSymdiffDonors(table, a, b) ==
    LET apart(row) == LET pa == Truth(row, a)  pb == Truth(row, b)
                      IN  Or({And({pa, Not(pb)}), And({pb, Not(pa)})})
    IN  Cardinality(DonorsOf(table, {i \in DOMAIN table : apart(table[i]) = Yes}))

\* A donor's summed contribution to a release; a missing amount adds nothing.
Contribution(table, filters, donor) ==
    SumFunction([i \in {i \in Selected(table, filters) :
                            table[i].donor = donor /\ table[i].amount # Missing} |-> table[i].amount])

\* contribution_symdiff, for amounts that are whole numbers.
ContributionSymdiff(s, a, t, b) ==
    Cardinality({d \in DonorsOf(s, Selected(s, a)) \cup DonorsOf(t, Selected(t, b)) :
                    Contribution(s, a, d) # Contribution(t, b, d)})

-----------------------------------------------------------------------------
(* The decision                                                             *)

\* _difference_bound inside one view: the cheap leg may only deny.
DifferenceBound(table, a, b, threshold) ==
    LET cheap == SimulatableCohortBound(table, a, b)
    IN  IF cheap < threshold THEN cheap ELSE RowSymdiffDonors(table, a, b)

\* observe_cohort for an earlier release and a new one, `views` holding the
\* table of each view: equal predicates are never compared, and two views only
\* when both releases carry one declared quantity.
ComesTooClose(views, prev, new, threshold) ==
    /\ prev.filters # new.filters
    /\ \/ /\ prev.view = new.view
          /\ DifferenceBound(views[new.view], prev.filters, new.filters, threshold) < threshold
       \/ /\ prev.view # new.view
          /\ new.quantity # Missing
          /\ prev.quantity = new.quantity
          /\ ContributionSymdiff(views[prev.view], prev.filters,
                                 views[new.view], new.filters) < threshold

-----------------------------------------------------------------------------
(* What is published, and what a plan may exclude                            *)

\* round(c / base) * base, halves to even.
RoundTo(c, base) ==
    LET low == c \div base  twice == 2 * (c % base)
    IN  base * (IF twice > base \/ (twice = base /\ low % 2 = 1) THEN low + 1 ELSE low)

\* published_marginal_donor_counts for a column with a declared domain.
Published(marginal, domain, threshold, base) ==
    [v \in DOMAIN marginal \cap domain |->
        IF marginal[v] >= threshold THEN RoundTo(marginal[v], base) ELSE Missing]

\* ... and for a column without one: rare values are not even named.
PublishedUndeclared(marginal, threshold, base) ==
    [v \in {v \in DOMAIN marginal : marginal[v] >= threshold} |-> RoundTo(marginal[v], base)]

\* sparse_levels: counted inside the cohort, declared levels only.
SparseLevels(table, column, domain, filters, threshold) ==
    {v \in domain :
        Cardinality(DonorsOf(table, {i \in Selected(table, filters) :
                                        table[i].at[column] = v})) < threshold}

\* The stage's filters once its contingency has been applied.
ExcludeSparse(column, levels, filters) ==
    filters \cup {[column |-> column, op |-> "!=", value |-> v] : v \in levels}

=============================================================================
