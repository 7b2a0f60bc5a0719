----------------------------- MODULE QuerySpecs ------------------------------
(***************************************************************************)
(* The boundary between a proposal and the engine: when a definition of a   *)
(* study loads, when a query or a model over it is accepted, and which view *)
(* an accepted query is compiled against.                                   *)
(*                                                                         *)
(* A definition gives its views, the columns that are identifiers, the      *)
(* edges that ranges on an internal column may use, the quantities that     *)
(* measures of several views share, and the declared windows of a time      *)
(* axis (NoDomain when none are).  A value of a proposal carries its type.  *)
(* Identifiers' spelling, joins and references to tables are left out.      *)
(***************************************************************************)
EXTENDS Integers, Sequences, FiniteSets, FiniteSetsExt, Functions, SequencesExt

NoColumn == "none"
NoDomain == 0

MaxGroupBy == 3
MaxFilters == 5
MaxInValues == 50
MaxModelTerms == MaxGroupBy
MinWindows == 4
Families == {"gaussian", "binomial", "poisson"}
Kinds == {"cat", "int", "bool"}
RangeOps == {">=", "<=", "=="}

-----------------------------------------------------------------------------
(* Definitions                                                              *)

\* The unit view adds the person and the internal columns.
UnitColumns(v) == v.columns \cup v.unit \cup {"donor_id"}

RuleLoads(rule) ==
    /\ DOMAIN rule # {} /\ DOMAIN rule \subseteq RangeOps
    /\ \A op \in DOMAIN rule : rule[op] # <<>>
    /\ Cardinality(DOMAIN rule) = 2 =>
          \A o, p \in DOMAIN rule : Len(rule[o]) = Len(rule[p])

\* _check_view.
ViewLoads(d, v) ==
    /\ v.columns \cap v.unit = {} /\ "donor_id" \notin v.columns \cup v.unit
    /\ v.columns \cap (d.identifiers \cup {v.person}) = {}
    /\ Range(v.dims) \cup Range(v.filters) \subseteq Kinds
    /\ DOMAIN v.dims \cup v.measures \subseteq v.columns
    /\ DOMAIN v.filters \cup v.internal \subseteq UnitColumns(v)
    /\ DOMAIN v.dims \cap DOMAIN v.filters = {} /\ v.measures \cap v.internal = {}
    /\ \A t \in v.times : t \in DOMAIN v.dims /\ v.dims[t] = "int"
    /\ DOMAIN v.responses \subseteq DOMAIN v.dims \cup v.measures
    /\ UNION Range(v.responses) \subseteq Families

Members(d) == UNION {Range(d.quantities[q]) : q \in DOMAIN d.quantities}

\* _check_quantities: a member is a view and a measure of it.
QuantitiesLoad(d) ==
    \A q \in DOMAIN d.quantities : LET members == d.quantities[q] IN
        /\ Len(members) >= 2
        /\ \A i \in DOMAIN members :
              /\ members[i][1] \in DOMAIN d.views
              /\ members[i][2] \in d.views[members[i][1]].measures
              /\ \A j \in 1..(i - 1) : members[j][1] # members[i][1]
              /\ \A p \in DOMAIN d.quantities \ {q} : members[i] \notin Range(d.quantities[p])

Loads(d) ==
    /\ DOMAIN d.views # {}
    /\ \A n \in DOMAIN d.views : ViewLoads(d, d.views[n])
    /\ QuantitiesLoad(d)
    /\ \A c \in DOMAIN d.rules : /\ RuleLoads(d.rules[c])
                                 /\ \E n \in DOMAIN d.views : c \in DOMAIN d.views[n].filters

\* quantity_of.
QuantityOf(d, view, column) ==
    {q \in DOMAIN d.quantities : <<view, column>> \in Range(d.quantities[q])}

-----------------------------------------------------------------------------
(* Filters                                                                  *)

TypeOf == [cat |-> "str", bool |-> "bool", int |-> "int"]
CatOps == {"==", "!=", "in"}
NumOps == CatOps \cup {"<", "<=", ">", ">="}

\* _check_filter_value: True is no integer, and only `in` takes a list.
ValueFits(f, kind) ==
    IF f.op = "in"
    THEN /\ f.value[1] = "list" /\ f.value[2] # <<>> /\ Len(f.value[2]) <= MaxInValues
         /\ \A i \in DOMAIN f.value[2] : f.value[2][i][1] = TypeOf[kind]
    ELSE f.value[1] = TypeOf[kind]

\* Mutant: an internal filter without a rule is a filter like any other.
FollowsRuleIfAny(d, v, f) ==
    f.column \in DOMAIN d.rules =>
        /\ f.op \in DOMAIN d.rules[f.column]
        /\ f.value \in Range(d.rules[f.column][f.op])

\* The rule of a column, which an internal filter must have (hardening #39).
FollowsRule(d, v, f) ==
    /\ f.column \in DOMAIN v.filters => f.column \in DOMAIN d.rules
    /\ f.column \in DOMAIN d.rules =>
          /\ f.op \in DOMAIN d.rules[f.column]
          /\ f.value \in Range(d.rules[f.column][f.op])

\* check_filters for one filter.
FilterFits(d, v, f) ==
    /\ f.column \in DOMAIN v.dims \cup DOMAIN v.filters
    /\ LET kind == IF f.column \in DOMAIN v.filters THEN v.filters[f.column]
                   ELSE v.dims[f.column]
       IN  f.op \in (IF kind = "int" THEN NumOps ELSE CatOps) /\ ValueFits(f, kind)
    /\ FollowsRule(d, v, f)

FiltersFit(d, v, filters) == \A i \in DOMAIN filters : FilterFits(d, v, filters[i])
FilteredOn(filters) == {filters[i].column : i \in DOMAIN filters}

-----------------------------------------------------------------------------
(* Queries                                                                  *)

\* validate_measure, by procedure.
MeasureFits(v, m) ==
    \/ m.fn = "count" /\ {m.column, m.x, m.y} = {NoColumn}
    \/ /\ m.fn \in {"mean", "sum", "sum_sq", "sum_cube", "sum_quad"}
       /\ m.x = NoColumn /\ m.y = NoColumn /\ m.column \in v.measures
    \/ /\ m.fn = "corr" /\ m.column = NoColumn /\ m.x # m.y
       /\ {m.x, m.y} \subseteq v.measures \cup v.internal

Distinct(s) == Cardinality(Range(s)) = Len(s)

\* QuerySpec.
Accepts(d, q) ==
    /\ q.view \in DOMAIN d.views
    /\ LET v == d.views[q.view] IN
       /\ Len(q.by) <= MaxGroupBy /\ Distinct(q.by) /\ Range(q.by) \subseteq DOMAIN v.dims
       /\ Len(q.filters) <= MaxFilters /\ FiltersFit(d, v, q.filters)
       /\ MeasureFits(v, q.measure)

ColumnsRead(m) == {m.column, m.x, m.y} \ {NoColumn}

\* _source_view: the columns of the view the query is compiled against.
SourceColumns(d, q) ==
    LET v == d.views[q.view] IN
    IF FilteredOn(q.filters) \cap DOMAIN v.filters # {} \/ ColumnsRead(q.measure) \cap v.internal # {}
    THEN UnitColumns(v) ELSE v.columns

MeasureOf(fn, column) == [fn |-> fn, column |-> column, x |-> NoColumn, y |-> NoColumn]
Count == MeasureOf("count", NoColumn)

\* A correlation is configured once, in one of its two orders.
Correlation(pair) ==
    LET x == CHOOSE x \in pair : TRUE IN
    [fn |-> "corr", column |-> NoColumn, x |-> x, y |-> CHOOSE y \in pair : y # x]

\* measure_configs: the measures a view offers.
MeasureConfigs(v) ==
    {Count}
    \cup {MeasureOf(fn, c) : fn \in {"mean", "sum", "sum_sq", "sum_cube", "sum_quad"}, c \in v.measures}
    \cup {Correlation(pair) : pair \in {s \in SUBSET (v.measures \cup v.internal) : Cardinality(s) = 2}}

\* measure_key: a correlation is the same either way round.
MeasureKey(m) == <<m.fn, m.column, {m.x, m.y}>>

-----------------------------------------------------------------------------
(* Models                                                                   *)

\* A generalized linear model leaves a slot for the response's predicate.
ModelFilters(m) == IF m.tool = "glm" THEN MaxFilters - 1 ELSE MaxFilters

\* check_model_allowlist.
ModelFits(d, v, m, family) ==
    /\ m.response \in DOMAIN v.responses /\ family \in v.responses[m.response]
    /\ Range(m.terms) \subseteq DOMAIN v.dims /\ m.response \notin Range(m.terms)
    /\ FiltersFit(d, v, m.filters) /\ m.response \notin FilteredOn(m.filters)

\* SeriesSpec: enough declared windows, and neither axis nor response filtered.
SeriesFits(d, v, m) ==
    /\ m.response \in v.measures /\ m.terms[1] \in v.times
    /\ d.windows[m.terms[1]] # NoDomain => d.windows[m.terms[1]] >= MinWindows
    /\ FiltersFit(d, v, m.filters)
    /\ FilteredOn(m.filters) \cap {m.response, m.terms[1]} = {}

GlmAccepts(d, v, m) ==
    /\ Len(m.terms) \in 1..MaxModelTerms /\ Distinct(m.terms)
    /\ m.family \in Families /\ ModelFits(d, v, m, m.family)

\* One factor, and the family is fixed.
FactorAccepts(d, v, m) == Len(m.terms) = 1 /\ ModelFits(d, v, m, "gaussian")

SeriesAccepts(d, v, m) ==
    m.family \in {"mean", "sum"} /\ Len(m.terms) = 1 /\ SeriesFits(d, v, m)

AcceptsModel(d, m) ==
    /\ m.view \in DOMAIN d.views /\ Len(m.filters) <= ModelFilters(m)
    /\ LET v == d.views[m.view] IN
       \/ m.tool = "glm" /\ GlmAccepts(d, v, m)
       \/ m.tool \in {"anova", "normality"} /\ FactorAccepts(d, v, m)
       \/ m.tool = "series" /\ SeriesAccepts(d, v, m)

-----------------------------------------------------------------------------
(* The skeleton: the models without filters that a view offers, their terms *)
(* as a set.  The family of a series is its statistic; an ANOVA has none.   *)

Listed(tool, family, response, terms) ==
    [tool |-> tool, family |-> family, response |-> response, terms |-> terms]

GlmSkeleton(v) ==
    UNION {{Listed("glm", family, r, s) : family \in v.responses[r],
               s \in {s \in SUBSET (DOMAIN v.dims \ {r}) : Cardinality(s) \in 1..MaxModelTerms}} :
           r \in DOMAIN v.responses}

FactorSkeleton(v) ==
    UNION {{Listed(tool, NoColumn, r, s) : tool \in {"anova", "normality"}, s \in {{t} : t \in DOMAIN v.dims \ {r}}} :
           r \in {r \in DOMAIN v.responses : "gaussian" \in v.responses[r]}}

SeriesSkeleton(d, v) ==
    {Listed("series", stat, r, s) : stat \in {"mean", "sum"}, r \in v.measures,
        s \in {{t} : t \in {t \in v.times : d.windows[t] = NoDomain \/ d.windows[t] >= MinWindows}}}

Skeleton(d, v) == GlmSkeleton(v) \cup FactorSkeleton(v) \cup SeriesSkeleton(d, v)

-----------------------------------------------------------------------------
(* The queries a model is planned as                                        *)

Over(m, fn, filters) ==
    [view |-> m.view, by |-> m.terms, filters |-> filters,
     measure |-> IF fn = "count" THEN Count ELSE MeasureOf(fn, m.response)]
Moments(m, fns) == [i \in DOMAIN fns |-> Over(m, fns[i], m.filters)]

\* The predicate of a binomial's successes.
Success(m) == [column |-> m.response, op |-> "==", value |-> <<"bool", TRUE>>]

GlmAggregates(m) ==
    CASE m.family = "gaussian" -> Moments(m, <<"mean", "sum_sq">>)
      [] m.family = "poisson"  -> Moments(m, <<"sum">>)
      [] OTHER -> <<Over(m, "count", m.filters), Over(m, "count", Append(m.filters, Success(m)))>>
AnovaAggregates(m) == Moments(m, <<"mean", "sum_sq">>)
NormalityAggregates(m) == Moments(m, <<"sum", "sum_sq", "sum_cube", "sum_quad">>)
SeriesAggregates(m) == Moments(m, <<m.family>>)

\* plan_aggregates.
PlanAggregates(m) ==
    CASE m.tool = "glm"       -> GlmAggregates(m)
      [] m.tool = "anova"     -> AnovaAggregates(m)
      [] m.tool = "normality" -> NormalityAggregates(m)
      [] OTHER                -> SeriesAggregates(m)

=============================================================================
