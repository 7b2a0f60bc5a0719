------------------------------ MODULE Proposals ------------------------------
(***************************************************************************)
(* What an accepted proposal is, for every definition of a study: a state   *)
(* is one query, model or request put to a definition, one list of shared   *)
(* quantities, or one age; a property says what acceptance must have meant. *)
(***************************************************************************)
EXTENDS RequestGates, Differences

CONSTANTS
    Proposed,           \* sets of definitions, each with what is put to them
    SharedQuantities,   \* definitions with what their views share
    Probes,             \* values of an internal column that are told apart
    AgeRules, AskedAges \* edges of bands of ages, and the ages in a text

\* Finitely many measures and internal columns in a view.
IsDefinition(d) ==
    \A n \in DOMAIN d.views : IsFiniteSet(d.views[n].measures) /\ IsFiniteSet(d.views[n].internal)

IsMeasure(m) == m = [fn |-> m.fn, column |-> m.column, x |-> m.x, y |-> m.y]
IsList(s) == s \in Seq(Range(s))
IsShared(l) == IsList(l) /\ \A m \in Range(l) : m = <<m[1], m[2]>>
IsSpec(q) == IsMeasure(q.measure) /\ IsList(q.by) /\ IsList(q.filters)

\* The procedures of one factor have no family.
IsModelSpec(m) ==
    /\ IsList(m.terms) /\ IsList(m.filters)
    /\ m.tool \in {"anova", "normality"} => m.family = NoColumn

\* Bands of ages follow each other, up to a thousand years.
IsAgeRule(r) ==
    /\ r.lower \in SUBSET Nat /\ r.upper \in SUBSET (0..1000)
    /\ IsFiniteSet(r.lower) /\ r.lower # {} /\ r.upper # {}
    /\ Min(r.lower) <= Min(r.upper) /\ Max(r.lower) <= Max(r.upper)
    /\ \A e \in r.upper : e # Max(r.upper) => e + 1 \in r.lower
    /\ \A b \in r.lower : b # Min(r.lower) => b - 1 \in r.upper

ASSUME ProposalsAssumption ==
    /\ \A p \in Proposed :
          /\ \A d \in p.studies : IsDefinition(d)
          /\ \A q \in p.queries : IsSpec(q)
          /\ \A m \in p.models : IsModelSpec(m)
          /\ \A r \in p.requests : IsList(r)
    /\ \A d \in SharedQuantities : \A q \in DOMAIN d.quantities : IsShared(d.quantities[q])
    /\ \A r \in AgeRules : IsAgeRule(r)
    /\ AskedAges \subseteq Int

-----------------------------------------------------------------------------
(* Queries                                                                  *)

AskSpec ==
    \E p \in Proposed : \E d \in {d \in p.studies : Loads(d)}, q \in p.queries :
        asked' = [about |-> "spec", study |-> d, query |-> q]

TheView == asked.study.views[asked.query.view]

\* An accepted query names only columns that the view it is compiled against
\* has, and its cells are keyed by no identifier and no internal column, for
\* every definition that loads (_check_view, _source_view).
NamesResolve ==
    Is("spec") /\ Accepts(asked.study, asked.query) =>
        LET q == asked.query IN
        /\ Range(q.by) \cup ColumnsRead(q.measure) \cup FilteredOn(q.filters)
              \subseteq SourceColumns(asked.study, q)
        /\ Range(q.by) \cap (asked.study.identifiers \cup {TheView.person, "donor_id"} \cup TheView.unit) = {}

\* The values of an internal column that all filters on it let through.
Through(c) ==
    {x \in Probes : \A i \in DOMAIN asked.query.filters :
        LET f == asked.query.filters[i] IN f.column = c => Meets(x, [f EXCEPT !.value = @[2]])}

\* No edge that the rule of a column offers lies between two values.
InOneBand(c, x, y) ==
    c \in DOMAIN asked.study.rules =>
        \A op \in DOMAIN asked.study.rules[c] : \A e \in Range(asked.study.rules[c][op]) :
            LET edge == [column |-> c, op |-> op, value |-> e[2]] IN Meets(x, edge) <=> Meets(y, edge)

\* Ranges on an internal column cut the people only where its public bands do:
\* two people between the same declared edges are both counted or neither, so
\* no query counts part of a band (hardening #39; check_filters, RangeRule).
WholeBands ==
    Is("spec") /\ Accepts(asked.study, asked.query) =>
        \A c \in DOMAIN TheView.filters : \A x, y \in Probes :
            TheView.filters[c] = "int" /\ InOneBand(c, x, y) => (x \in Through(c) <=> y \in Through(c))

\* What a definition is said to offer is what is accepted: each configuration
\* of the skeleton is, and an accepted measure is one of them (R16).
SkeletonExact ==
    Is("spec") /\ asked.query.view \in DOMAIN asked.study.views =>
        LET m == asked.query.measure IN
        /\ \A c \in MeasureConfigs(TheView) : MeasureFits(TheView, c)
        /\ MeasureFits(TheView, m) => MeasureKey(m) \in {MeasureKey(c) : c \in MeasureConfigs(TheView)}

-----------------------------------------------------------------------------
(* Quantities that measures of several views share                          *)

AskQuantities ==
    \E d \in SharedQuantities :
        QuantitiesLoad(d) /\ asked' = [about |-> "quantities", study |-> d]

\* A measure has at most one quantity, and a quantity one column of a view, so
\* two releases are compared as one quantity or not at all (_check_quantities).
QuantitiesApart ==
    Is("quantities") =>
        \A m \in Members(asked.study) :
            /\ Cardinality(QuantityOf(asked.study, m[1], m[2])) = 1
            /\ \A q \in QuantityOf(asked.study, m[1], m[2]) :
                  {n[2] : n \in {n \in Range(asked.study.quantities[q]) : n[1] = m[1]}} = {m[2]}

-----------------------------------------------------------------------------
(* Models                                                                   *)

AskModel ==
    \E p \in Proposed : \E d \in {d \in p.studies : Loads(d)}, m \in p.models :
        AcceptsModel(d, m) /\ asked' = [about |-> "model", study |-> d, model |-> m]

\* A response suits its families, and no other view has it as an internal
\* column with a rule.
Responsible(d, v) ==
    \A r \in DOMAIN v.responses :
        /\ {"gaussian", "poisson"} \cap v.responses[r] # {} => r \in v.measures
        /\ "binomial" \in v.responses[r] =>
              r \in DOMAIN v.dims /\ v.dims[r] = "bool" /\ r \notin DOMAIN d.rules

\* Every query an accepted model plans is itself accepted, the predicate the
\* procedure adds included, for definitions whose responses suit their
\* families (plan_aggregates; ModelProcedure's contract).
PlansAccepted ==
    Is("model") /\ Responsible(asked.study, asked.study.views[asked.model.view]) =>
        \A i \in DOMAIN PlanAggregates(asked.model) :
            Accepts(asked.study, PlanAggregates(asked.model)[i])

\* Accepted models are those the skeleton lists (R16).
ModelsListed ==
    Is("model") =>
        LET m == asked.model IN
        Listed(m.tool, m.family, m.response, Range(m.terms))
            \in Skeleton(asked.study, asked.study.views[m.view])

-----------------------------------------------------------------------------
(* Requests in words                                                        *)

Worded(request, terms, keyword, dropped, exempt) ==
    [about |-> "request", request |-> request, terms |-> terms, keyword |-> keyword,
     dropped |-> dropped, exempt |-> exempt]

AskRequest ==
    \E p \in Proposed : \E d \in {d \in p.studies : Loads(d)}, request \in p.requests :
        /\ ~Literal(request)
        /\ \/ \E q \in p.queries : /\ Admits(d, request, q)
                                   /\ asked' = Worded(request, q.by, "by", {}, {})
           \/ \E m \in p.models :
                 /\ AdmitsModel(d, request, m)
                 /\ asked' = Worded(request, m.terms, "on", {m.response}, d.views[m.view].times)

\* A request that names a breakdown is answered with a row for each value of
\* all it names, and by nothing it does not mention, a model's response and its
\* time axis aside: what was asked for is answered or refused, never quietly
\* something else (check_grouping_coherence, check_term_coherence).  A
\* breakdown that follows a first filter is not looked at.
RequestsKept ==
    Is("request") =>
        LET r == asked.request
            wanted == {j \in DOMAIN r :
                          /\ r[j][1] = "dim" /\ <<"word", asked.keyword>> \in {r[i] : i \in 1..j}
                          /\ {r[i] : i \in 1..j} \cap FilterTerminators = {}}
        IN  wanted # {} =>
                /\ {r[j][2] : j \in wanted} \ asked.dropped \subseteq Range(asked.terms)
                /\ Range(asked.terms) \ asked.exempt \subseteq {r[j][2] : j \in {j \in DOMAIN r : r[j][1] = "dim"}}

-----------------------------------------------------------------------------
(* Ages in a text                                                           *)

AskAge ==
    \E r \in AgeRules, op \in {"<", "<=", ">", ">=", "=="}, age \in AskedAges :
        asked' = [about |-> "age", rule |-> r, op |-> op, age |-> age,
                  filters |-> AgeFilters(r.lower, r.upper, op, age)]

\* The filters planned for an age keep only people of whom the words are true,
\* or for an exact age its band, where some band is made of such people alone;
\* where none is, there is no filter (_age_window_filters,
\* _containing_band_filters).
AgesKept ==
    Is("age") =>
        LET r == asked.rule
            ages == Min(r.lower)..Max(r.upper)
            holds(a, f) == Meets(a, [f EXCEPT !.value = @[2]])
            kept == {a \in ages : \A i \in DOMAIN asked.filters : holds(a, asked.filters[i])}
            true == {a \in ages : holds(a, Filter(asked.op, asked.age))}
            bands == {b..Min({e \in r.upper : e >= b}) : b \in r.lower}
        IN  CASE asked.op = "=="                                        -> asked.age \in ages => kept = UNION {b \in bands : asked.age \in b}
              [] asked.op # "==" /\ (\E b \in bands : b \subseteq true) -> kept = UNION {b \in bands : b \subseteq true}
              [] OTHER                                                  -> asked.filters = <<>>

-----------------------------------------------------------------------------

\* The boundary lets through what the engine can answer and nothing finer, and
\* what is accepted for a request is what the request asked.
SpecsSound ==
    /\ NamesResolve /\ WholeBands /\ SkeletonExact /\ QuantitiesApart
    /\ PlansAccepted /\ ModelsListed /\ RequestsKept /\ AgesKept

AskProposal == AskSpec \/ AskQuantities \/ AskModel \/ AskRequest \/ AskAge
Proposals == Unasked /\ [][AskProposal]_asked

=============================================================================
