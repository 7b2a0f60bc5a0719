----------------------------- MODULE RequestGates -----------------------------
(***************************************************************************)
(* Whether an accepted specification answers the request that was made: the *)
(* filter of intents before planning, the checks of grouping and of model   *)
(* terms after validation, and the two planners that need no model.         *)
(*                                                                         *)
(* A request is a sequence of phrases, each a pair of a kind and a name: a  *)
(* dimension or a response it names, a keyword, or another cue.  Keywords   *)
(* that overlap in the text, and the synonyms of a name, are left out.      *)
(***************************************************************************)
EXTENDS QuerySpecs

Named(kind, request) == {p[2] : p \in {p \in Range(request) : p[1] = kind}}

\* GROUPING_KEYWORDS, MODEL_TERM_KEYWORDS and FILTER_TERMINATORS, by what they do.
GroupingKeywords == {<<"word", "by">>, <<"word", "per">>}
ModelTermKeywords == {<<"word", "by">>, <<"word", "on">>}
FilterTerminators == {<<"word", "for">>}

-----------------------------------------------------------------------------
(* The gates                                                                *)

\* vet_request: nothing row-level, no text, and both kinds of cue.
VetRequest(request) ==
    /\ Named("row", request) = {} /\ Named("text", request) = {}
    /\ Named("analysis", request) # {} /\ Named("topic", request) # {}

\* _grouping_clause and _term_clause: from the first keyword to the filter
\* that follows it.
Clause(request, keywords) ==
    LET starts == {i \in DOMAIN request : request[i] \in keywords}
        start == Min(starts \cup {Len(request)})
        ends == {j \in DOMAIN request : j > start /\ request[j] \in FilterTerminators}
    IN  SubSeq(request, start + 1, Min(ends \cup {Len(request) + 1}) - 1)

DimsMentioned(phrases) == Named("dim", phrases)

\* Rules A, C and B: what is offered, what was dropped, what nobody asked for.
Keeps(wanted, offered, given, mentioned, exempt) ==
    /\ wanted \subseteq offered
    /\ wanted \ exempt \subseteq given
    /\ given \subseteq mentioned

CheckGroupingCoherence(v, request, by) ==
    LET wanted == DimsMentioned(Clause(request, GroupingKeywords)) IN
    wanted = {} \/ Keeps(wanted, DOMAIN v.dims, Range(by), DimsMentioned(request), {})

\* A time axis needs no mention, and a response is no term that was dropped.
CheckTermCoherence(v, request, response, terms) ==
    /\ LET named == Named("response", request) IN named = {} \/ response \in named
    /\ Keeps(DimsMentioned(Clause(request, ModelTermKeywords)), DOMAIN v.dims, Range(terms),
             DimsMentioned(request) \cup v.times, {response})

\* _literal_spec: a request that is a JSON object is the specification, and one
\* that only begins like an object is refused.
Literal(request) == Named("json", request) # {}
Broken(request) == "broken" \in Named("json", request)

\* handle and _handle_model, up to the engine: the allowlist for every
\* specification, and for one that was planned the intent and the question.
Admits(d, request, q) ==
    /\ ~Broken(request) /\ Accepts(d, q)
    /\ Literal(request) \/ /\ VetRequest(request)
                           /\ CheckGroupingCoherence(d.views[q.view], request, q.by)
AdmitsModel(d, request, m) ==
    /\ ~Broken(request) /\ AcceptsModel(d, m)
    /\ Literal(request) \/ /\ VetRequest(request)
                           /\ CheckTermCoherence(d.views[m.view], request, m.response, m.terms)

-----------------------------------------------------------------------------
(* The planner's filters on an age, over the edges of a rule                *)

Filter(op, value) == [column |-> "age_years", op |-> op, value |-> <<"int", value>>]
SomeOf(test, f) == IF test THEN <<f>> ELSE <<>>

\* _age_window_filters: the bands inside [lo, hi]; an outermost edge is no
\* filter, and neither is an edge that no band has.
AgeWindow(lower, upper, lo, hi) ==
    LET los == {b \in lower : b >= lo}  his == {b \in upper : b <= hi} IN
    SomeOf(los # {} /\ Min(los) > Min(lower), Filter(">=", Min(los)))
    \o SomeOf(his # {} /\ Max(his) < Max(upper), Filter("<=", Max(his)))

\* _containing_band_filters.
ContainingBand(lower, upper, v) ==
    LET los == {b \in lower : b <= v}  his == {b \in upper : b >= v} IN
    SomeOf(los # {} /\ Max(los) > Min(lower), Filter(">=", Max(los)))
    \o SomeOf(his # {} /\ Min(his) < Max(upper), Filter("<=", Min(his)))

\* _filters_from_text for one comparison; an exclusion is dropped.
AgeFilters(lower, upper, op, v) ==
    CASE op = "==" -> ContainingBand(lower, upper, v)
      [] op = ">=" -> AgeWindow(lower, upper, v, 1000)
      [] op = ">"  -> AgeWindow(lower, upper, v + 1, 1000)
      [] op = "<=" -> AgeWindow(lower, upper, 0, v)
      [] op = "<"  -> AgeWindow(lower, upper, 0, v - 1)
      [] OTHER     -> <<>>

=============================================================================
