----------------------------- MODULE Differences -----------------------------
(***************************************************************************)
(* What two releases tell by their difference, for every table and every    *)
(* pair of cohorts: a state is one question with its inputs, a property     *)
(* says what the answer must be.                                            *)
(***************************************************************************)
EXTENDS Cohorts, SequencesExt

CONSTANTS
    Threshold,          \* the fewest people a difference may be about
    Columns,            \* the filterable columns
    Tables, Samples,    \* views, and views for lists of filters
    FilterSets,         \* cohorts
    FilterLists,        \* filters as an analyst writes them
    DomainOf,           \* the declared domain of each column
    Persons, Profiles,   \* persons, and what is known of each
    Logs,               \* events: of whom, of what amount
    ProfileFilters,     \* cohorts of persons
    Marginals, Thresholds, Bases, Domains   \* what is published, and how

VARIABLE asked

Is(subject) == asked.about = subject

IsTable(t) ==
    /\ IsFiniteSet(DOMAIN t)
    /\ \A i \in DOMAIN t : DOMAIN t[i].at = Columns

IsCohort(a) ==
    /\ IsFiniteSet(a)
    /\ \A p \in a : p.column \in Columns

\* A filter as it is written: an `in` has a list.
IsFilter(f) ==
    /\ f = [column |-> f.column, op |-> f.op, value |-> f.value]
    /\ f.op = "in" => f.value \in Seq(Range(f.value))

ASSUME DifferencesAssumption ==
    /\ Missing \notin Int /\ Missing # "spend"
    /\ Threshold \in Nat
    /\ \A t \in Tables \cup Samples : IsTable(t)
    /\ \A a \in FilterSets : IsCohort(a)
    /\ \A l \in FilterLists : l \in Seq(Range(l)) /\ \A f \in Range(l) : IsFilter(f)
    /\ \A c \in DOMAIN DomainOf : Missing \notin DomainOf[c]
    /\ IsFiniteSet(Persons)
    /\ \A l \in Logs : /\ IsFiniteSet(DOMAIN l)
                       /\ \A i \in DOMAIN l : l[i].donor \in Persons /\ l[i].amount \in Int \cup {Missing}
    /\ \A m \in Marginals : \A v \in DOMAIN m : m[v] \in Nat
    /\ Thresholds \subseteq Nat /\ Bases \subseteq Nat \ {0}

-----------------------------------------------------------------------------
(* Two cohorts of one view                                                  *)

AskPair ==
    \E t \in Tables, a, b \in FilterSets :
        /\ a # b
        /\ asked' = [about |-> "pair", table |-> t, a |-> a, b |-> b]

\* The people whose rows exactly one of the two queries counts.
Apart(t, a, b) == DonorsOf(t, SymDiff(Selected(t, a), Selected(t, b)))

\* The bound decided from the marginals covers everybody the two queries
\* differ over, people with missing values included: what it denies is close,
\* whatever the dimensions (simulatable_cohort_bound, _dim_value_set).
CheapBoundCovers ==
    Is("pair") => Cardinality(Apart(asked.table, asked.a, asked.b))
                    <= SimulatableCohortBound(asked.table, asked.a, asked.b)

\* Two releases of one view that differ over fewer people than the threshold
\* are never both given, a difference of nobody included, although each leg
\* alone may say otherwise (_difference_bound, row_symdiff_donors).
SmallDifferenceDenied ==
    Is("pair") /\ Cardinality(Apart(asked.table, asked.a, asked.b)) < Threshold =>
        ComesTooClose([v |-> asked.table],
                      [view |-> "v", filters |-> asked.a, quantity |-> Missing],
                      [view |-> "v", filters |-> asked.b, quantity |-> Missing], Threshold)

\* No row of a table lacks a value.
Whole(t) == \A i \in DOMAIN t : Missing \notin Range(t[i].at)

\* Where no row lacks a value the exact leg counts exactly the people the two
\* queries differ over, so a denial it gives is one the threshold asks for.
ExactLegExact ==
    Is("pair") /\ Whole(asked.table) =>
        RowSymdiffDonors(asked.table, asked.a, asked.b)
            = Cardinality(Apart(asked.table, asked.a, asked.b))

\* A column that is the same in all of a person's rows.
Fixed(t, c) == \A i, j \in DOMAIN t : t[i].donor = t[j].donor => t[i].at[c] = t[j].at[c]

\* On columns that are the same in all of a person's rows the exact leg is the
\* comparison of people; and of two nested cohorts it denies whatever the
\* donor totals would have shown to be close, also by a grouping under which
\* the totals count a person twice (_donor_total, row_symdiff_donors).
TotalsCovered ==
    LET t == asked.table IN
    Is("pair") /\ Whole(t) /\ (\A p \in asked.a \cup asked.b : Fixed(t, p.column)) =>
        LET people == CohortSymdiff(t, asked.a, t, asked.b) IN
        /\ RowSymdiffDonors(t, asked.a, asked.b) = people
        /\ Selected(t, asked.a) \subseteq Selected(t, asked.b) =>
              \A g \in Columns :
                  LET apart == DonorTotal(t, asked.b, g) - DonorTotal(t, asked.a, g)
                  IN  people <= apart /\ (Fixed(t, g) => people = apart)

-----------------------------------------------------------------------------
(* Cohorts of two views                                                     *)

\* Events and the rollup of them by person; a person may have no event.
EventsOf(profile, log) ==
    [i \in DOMAIN log |->
        [donor |-> log[i].donor, at |-> profile[log[i].donor], amount |-> log[i].amount]]
Rollup(profile, events) ==
    [d \in Persons |-> [donor |-> d, at |-> profile[d], amount |-> Contribution(events, {}, d)]]

AskViews ==
    \E profile \in Profiles, log \in Logs, a, b \in ProfileFilters :
        LET events == EventsOf(profile, log) IN
        asked' = [about |-> "views", events |-> events, rollup |-> Rollup(profile, events),
                  a |-> a, b |-> b]

\* A total of events and a total of the rollup of them, over cohorts that
\* differ, are never both given when their difference is what fewer people
\* than the threshold contributed, however many people who contributed
\* nothing the two cohorts differ over (contribution_symdiff).
CrossViewDenied ==
    Is("views") /\ asked.a # asked.b =>
        LET paid == {d \in SymDiff(DonorsOf(asked.rollup, Selected(asked.rollup, asked.a)),
                                   DonorsOf(asked.rollup, Selected(asked.rollup, asked.b))) :
                        asked.rollup[d].amount # 0}
        IN  Cardinality(paid) < Threshold =>
              ComesTooClose([events |-> asked.events, rollup |-> asked.rollup],
                            [view |-> "events", filters |-> asked.a, quantity |-> "spend"],
                            [view |-> "rollup", filters |-> asked.b, quantity |-> "spend"],
                            Threshold)

-----------------------------------------------------------------------------
(* Filters and what is published                                            *)

AskNormalForm ==
    \E t \in Samples, l \in FilterLists :
        asked' = [about |-> "normal", table |-> t, list |-> l]

\* The canonical form of a filter list selects the rows the list selects, and
\* does not depend on its order: two releases skipped as equal predicates did
\* count the same rows (_normalized_filters, observe_cohort).
NormalFormKeepsRows ==
    Is("normal") =>
        LET meets(v, f) == v # Missing /\
                Meets(v, IF f.op = "in" THEN [f EXCEPT !.value = Range(f.value)] ELSE f)
        IN  /\ Selected(asked.table, Normalized(asked.list))
                 = {i \in DOMAIN asked.table : \A j \in DOMAIN asked.list :
                        meets(asked.table[i].at[asked.list[j].column], asked.list[j])}
            /\ Normalized(asked.list) = Normalized(Reverse(asked.list))

AskPublished ==
    \E marginal \in Marginals, threshold \in Thresholds, base \in Bases, domain \in Domains :
        asked' = [about |-> "published", marginal |-> marginal, threshold |-> threshold, base |-> base,
                  named |-> IF domain = Missing THEN DOMAIN marginal ELSE DOMAIN marginal \cap domain,
                  public |-> IF domain = Missing
                             THEN PublishedUndeclared(marginal, threshold, base)
                             ELSE Published(marginal, domain, threshold, base)]

\* Whoever reads the published marginals reaches the verdict of the cheap leg
\* on the exclusion of one value: a value is rare exactly when it has no
\* number, be it withheld or not even named, and where rounding keeps the
\* threshold no number is below it (published_marginal_donor_counts).
PublishedSimulates ==
    Is("published") =>
        \A v \in asked.named :
            LET given == v \in DOMAIN asked.public /\ asked.public[v] # Missing IN
            /\ given <=> asked.marginal[v] >= asked.threshold
            /\ given /\ asked.threshold % asked.base = 0 => asked.public[v] >= asked.threshold

AskSparse ==
    \E t \in Tables, filters \in FilterSets, c \in DOMAIN DomainOf :
        asked' = [about |-> "sparse", table |-> t, filters |-> filters, column |-> c,
                  levels |-> SparseLevels(t, c, DomainOf[c], filters, Threshold)]

\* A stage rewritten by its contingency has no declared level left whose cell
\* is below the threshold in its own cohort, so the refit it was declared for
\* is not refused for that column again (sparse_levels, _apply_contingency).
RefitCellsSafe ==
    Is("sparse") =>
        LET c == asked.column
            left == Selected(asked.table, ExcludeSparse(c, asked.levels, asked.filters))
        IN  \A v \in DomainOf[c] \ asked.levels :
                Cardinality(DonorsOf(asked.table,
                    {i \in left : asked.table[i].at[c] = v})) >= Threshold

\* Whatever two releases the history admits, their difference is not a small
\* group's: every leg, and the comparison across views; and filters written,
\* canonical, published or added by a plan say the same of the same rows.
DifferencingSound ==
    /\ CheapBoundCovers /\ SmallDifferenceDenied /\ ExactLegExact /\ TotalsCovered
    /\ CrossViewDenied
    /\ NormalFormKeepsRows /\ PublishedSimulates /\ RefitCellsSafe

Unasked == asked.about = "nothing"
AskCohorts == AskPair \/ AskViews \/ AskNormalForm \/ AskPublished \/ AskSparse
Comparisons == Unasked /\ [][AskCohorts]_asked

=============================================================================
