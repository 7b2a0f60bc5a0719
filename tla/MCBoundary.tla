------------------------------ MODULE MCBoundary ------------------------------
(***************************************************************************)
(* Questions about what lies around the gateway: its settings, requests and *)
(* proposals before they are accepted, shadow tables, and the analyst's     *)
(* prose.  MCAlgorithms asks them.                                          *)
(***************************************************************************)
EXTENDS Releases, Policies, Shadows, Proposals, Narratives, TLC

Demo == INSTANCE OfflinePlanner

-----------------------------------------------------------------------------
(* Policies                                                                 *)

\* A value at each side of each bound of a dial; shares in percent.
Numeric ==
    [min_cell_size |-> {0, 1, 4, 5}, round_base |-> {0, 1, 4, 5}, differencing_delta |-> {4, 5},
     dom_threshold |-> {0, 1, 50, 51, 100, 101}, influence_threshold |-> {0, 50, 51},
     moment2_dom_threshold |-> {0, 80, 81, 101}, selection_budget_bits |-> {-1, 0, 17},
     query_budget |-> {0, 1, 83, 84, 1001}, session_window_hours |-> {0, 1, 2161},
     max_output_rows |-> {0, 1, 10001}, response_quantum_ms |-> {0, 9, 10, 12, 23, 30},
     response_ceiling_ms |-> {0, 23, 24, 100, 120}]
Textual ==
    [vetter |-> {"", "standin", "standin+external", "strict"}, checker_cmd |-> {"", " ", "acro"}]

\* Each value as a number of the file and as a text, between two values, as a
\* truth, and what is no number; and of a dial of texts, what is no text.
Written(dial) ==
    {Blank, YesNo(TRUE)} \cup
    IF dial \in DOMAIN Textual THEN {Text(v) : v \in Textual[dial]} \cup {WholeText(5), Number(500)}
    ELSE {Text("ten")} \cup
         IF dial \in ShareDials
         THEN {Number(v) : v \in Numeric[dial]} \cup {PointText(v) : v \in Numeric[dial]} \cup {WholeText(0)}
         ELSE {Number(100 * v) : v \in Numeric[dial]} \cup {WholeText(v) : v \in Numeric[dial]}
              \cup {Number(100 * v + 90) : v \in Numeric[dial]} \cup {Number(-50), PointText(500)}
MCGiven == {<< >>} \cup UNION {{dial :> t : t \in Written(dial)} : dial \in DOMAIN Defaults}

MCRetries == {-1, 0, 1}

-----------------------------------------------------------------------------
(* RequestGates                                                             *)

Surveyed ==
    [views |-> [panel |-> [columns |-> {"sex", "band", "wave", "score", "pay"}, unit |-> {}, person |-> "nhs",
                           dims |-> [sex |-> "cat", band |-> "cat", wave |-> "int"], measures |-> {"score", "pay"},
                           filters |-> << >>, internal |-> {}, times |-> {"wave"},
                           responses |-> [score |-> {"gaussian"}, pay |-> {"gaussian"}]]],
     identifiers |-> {"nhs"}, rules |-> << >>, quantities |-> << >>, windows |-> [wave |-> 6]]

Cues == <<<<"analysis", "mean">>, <<"topic", "spend">>>>
Phrases ==
    {<<"dim", "sex">>, <<"dim", "band">>, <<"dim", "device">>, <<"response", "score">>,
     <<"word", "by">>, <<"word", "on">>, <<"word", "for">>}
TermChoices == {<<>>, <<"sex">>, <<"band">>, <<"sex", "band">>, <<"wave">>, <<"sex", "wave">>}

\* Every request of four phrases, with the proposals a planner may answer it by.
Requests ==
    [studies |-> {Surveyed},
     queries |-> {[view |-> "panel", measure |-> MeasureOf("mean", "score"), by |-> terms, filters |-> <<>>] :
                     terms \in TermChoices},
     models |-> {[tool |-> "glm", view |-> "panel", family |-> "gaussian", response |-> response,
                  terms |-> terms, filters |-> <<>>] : response \in {"score", "pay"}, terms \in TermChoices},
     requests |-> {Cues \o body : body \in BoundedSeq(Phrases, 4)}]

-----------------------------------------------------------------------------
(* OfflinePlanner                                                           *)

LowerAges == {13, 16, 18, 25, 35, 50}
UpperAges == {15, 17, 24, 34, 49, 69}

MCAgeRules == {[lower |-> LowerAges, upper |-> UpperAges]}
MCAskedAges == 10..75

KindWords == {{}, {"series"}, {"normality"}, {"anova"}, {"regression"}, {"regression", "anova"}}
Words ==
    {"region", "device", "free text", "per donor", "correlation", "wellbeing", "wemwbs", "pgsi", "igds", "spend",
     "age", "mental", "lootbox", "purchase", "currency", "total", "income", "genre", "price", "rating"}
AgeFilter == AgeFilters(LowerAges, UpperAges, ">=", 18)

AskPlanner ==
    \E kind \in KindWords, a, b, c \in Words, more \in {{}, {"sex", "age", "device"}}, filters \in {<<>>, AgeFilter} :
      LET u == kind \cup {a, b, c} \cup more IN
        asked' = [about |-> "proposal", words |-> u, filters |-> filters, kind |-> Demo!Kind(u),
                  proposal |-> CASE Demo!Kind(u) = "query"      -> Demo!PlanQuery(u, filters)
                                 [] Demo!Kind(u) = "regression" -> Demo!PlanModel(u, filters)
                                 [] Demo!Kind(u) = "series"     -> Demo!PlanSeries(u, filters)
                                 [] OTHER -> Demo!PlanFactor(Demo!Kind(u), u, filters)]

\* Whatever the words, the offline planner proposes what the demonstration study
\* accepts: but for the two proposals that are there to be refused, a series
\* (two waves are too few windows) and a model of more factors than it may have.
ProposalsOffered ==
    Is("proposal") =>
        LET q == asked.proposal IN
        IF asked.kind = "query"
        THEN Accepts(Demo!DemoStudy, q) <=> Range(q.by) \cap {"free_text", "donor_id"} = {}
        ELSE AcceptsModel(Demo!DemoStudy, q)
                <=> asked.kind # "series" /\ Len(q.terms) <= MaxModelTerms

-----------------------------------------------------------------------------
(* Shadows                                                                  *)

Levels(names) == [i \in DOMAIN names |-> <<"level", names[i]>>]
Study(names, domains, rules, appKind, sexKind, joins, shown) ==
    [names |-> names,
     tables |-> [apps |-> {"app", "genre"}, events |-> {"donor", "app", "price"}, genres |-> {"genre"},
                 people |-> {"donor", "sex", "age", "band", "nhs"}],
     person |-> "donor", identifiers |-> {"donor", "nhs"}, domains |-> domains, rules |-> rules,
     views |-> {[dims |-> [sex |-> "cat", band |-> "cat"], filters |-> "age" :> "int", measures |-> {"age"},
                 joins |-> {}, columns |-> [sex |-> "sex", band |-> "band"] @@ shown],
                [dims |-> (IF appKind = "none" THEN << >> ELSE "app" :> appKind) @@ "sex" :> sexKind,
                 filters |-> << >>, measures |-> {"price"}, joins |-> joins,
                 columns |-> [app |-> "app", price |-> "price"]]}]
Arguments(persons, rows, ranges, derive) == [persons |-> persons, rows |-> rows, ranges |-> ranges, derive |-> derive]

AB == Levels(<<"a", "b", "c">>)
Labels == [sex |-> Levels(<<"f", "m", "x">>), band |-> Levels(<<"young", "old">>)]
\* Edges of whole years that tile, that overlap, that leave a gap or a label out;
\* of half years; of cents that tile; none.
Years(low, high) == ">=" :> [i \in DOMAIN low |-> Thousand * low[i]] @@ "<=" :> [i \in DOMAIN high |-> Thousand * high[i]]
RuleChoices ==
    {<< >>, "age" :> (">=" :> <<10 * Thousand, 20 * Thousand>>), "age" :> (">=" :> << >>),
     "age" :> (">=" :> <<10500, 20500>> @@ "<=" :> <<19500, 30500>>),
     "price" :> (">=" :> <<10, 50>> @@ "<=" :> <<40, 70>>),
     "price" :> (">=" :> <<14, 50>> @@ "<=" :> <<40, 70>>)}
    \cup {"age" :> Years(<<10, 20>>, high) : high \in {<<19, 30>>, <<18, 30>>, <<30>>}}
RowChoices == {<< >>, "people" :> 1, "apps" :> 0, "apps" :> -1, "nowhere" :> 1}
Orders == {<<"apps", "events", "genres", "people">>, <<"genres", "apps", "events", "people">>}

Build(study, wanted) == [study |-> study, wanted |-> wanted]

KeyBuilds ==
    {Build(Study(order, Labels @@ appDomain, << >>, appKind, sexKind, joins, shown),
           Arguments(2, rows, "price" :> <<0, 30>>, << >>)) :
        order \in Orders, appDomain \in {<< >>, "app" :> AB}, appKind \in {"none", "cat", "int"},
        sexKind \in {"cat", "bool"},
        joins \in {{}, {<<"app", "apps">>, <<"donor", "people">>}, {<<"app", "apps">>, <<"app", "events">>},
                   {<<"app", "apps">>, <<"genre", "genres">>}},
        shown \in {<< >>, "who" :> "donor", "nhs" :> "nhs"}, rows \in RowChoices}
ValueBuilds ==
    {Build(Study(<<"apps", "events", "genres", "people">>, domains, rules, "none", "cat", {<<"app", "apps">>}, << >>),
           Arguments(persons, rows, ranges, derive)) :
        domains \in {Labels, "band" :> Labels.band}, rules \in RuleChoices, persons \in {0, 2, 5}, rows \in RowChoices,
        ranges \in {"price" :> <<0, 30>>, "age" :> <<5 * Thousand, 40 * Thousand>> @@ "price" :> <<0, 30>>},
        derive \in {<< >>, "band" :> "age", "nothing" :> "age"}}

\* Bounds finer than what is drawn, the wrong way round, and none for a price.
RangeBuilds ==
    {Build(Study(<<"apps", "events", "genres", "people">>, Labels, rules, "none", "cat", {<<"app", "apps">>}, << >>),
           Arguments(2, << >>, ranges, << >>)) :
        rules \in RuleChoices,
        ranges \in {"price" :> price @@ "age" :> age : price \in {<<1, 4>>, <<0, 7>>, <<-6, 14>>, <<7, 2>>, <<20, 20>>},
                       age \in {<<5500, 8500>>, <<5000, 8500>>, <<-5500, -500>>, <<5500, 5900>>, <<9000, 5000>>}}}
    \cup {Build([Study(<<"apps", "events", "genres", "people">>,
                       Labels, rules, "none", "cat", {<<"app", "apps">>}, << >>) EXCEPT !.tables.people = @ \cup {"price"}],
                Arguments(2, << >>, << >>, derive)) :
             rules \in RuleChoices, derive \in {<< >>, "band" :> "price"}}
MCBuilds == KeyBuilds \cup ValueBuilds \cup RangeBuilds

-----------------------------------------------------------------------------
(* Narratives                                                               *)

AskTests ==
    \E p \in [1..4 -> {0, 1, 2, 3, 4, 5, 40, Missing}] : asked' = [about |-> "tests", p |-> p]

\* The adjusted p-values reject at every level exactly what the step-up
\* procedure rejects, are no smaller than the p-values, and a test without an
\* answer neither is corrected nor counts (benjamini_hochberg).
CorrectionExact ==
    Is("tests") =>
        LET p == asked.p  adjusted == BenjaminiHochberg(p)  live == Live(p)  m == Cardinality(live) IN
        /\ \A i \in DOMAIN p : adjusted[i] = Missing <=> p[i] = Missing
        /\ \A i \in live : adjusted[i] >= p[i] * Parts
        /\ \A level \in {1, 2, 3, 5, 10, 50} :
              LET passing == {RankOf(p, i) : i \in {i \in live : p[i] * m <= RankOf(p, i) * level}}
              IN  {i \in live : adjusted[i] <= level * Parts}
                     = {i \in live : RankOf(p, i) <= Max(passing \cup {0})}

Amounts == {0, 4, 7, 25, 50, 99, 100, 994, 1400, 2650, 4750, 4850, 4866, 9500, 14900, 95049, 102000, 999900, -1266, -4866}
FigureValues == Amounts \cup {1500, 2000, 2600, 2700, 3500, 4870, 4900, 5000, 9900, 10000, 15000, 95000, 100000, 1000000, -1300, -1270}
Figures == {f \in [value : FigureValues, decimals : 0..2] : f.value % Unit(f.decimals) = 0}

AskProse ==
    \E x \in Amounts, y \in {Missing, 50, 4866}, p \in {Missing, 4}, f \in Figures :
        LET row == [value |-> <<"number", x>>, band |-> <<"text", {2000, 3500}>>]
            tested == [value |-> <<"number", y>>, p_value |-> <<"number", p>>]
            steps == <<[rows |-> <<row, tested>>], [rows |-> <<>>], [rows |-> <<tested>>]>>
        IN  asked' = [about |-> "prose", steps |-> steps, figure |-> f, bad |-> CheckNarrative(steps, {f})]

\* A figure that passes is small, conventional, or within half a unit of its
\* last digit that is not zero of a released number or of a percentage of one;
\* and no rounding of a released number to its decimals is called an invention
\* (check_narrative, _rounds_to).
FiguresGrounded ==
    Is("prose") =>
        LET f == asked.figure  released == ReleasedNumbers(asked.steps)
            last == Unit(-Max({e \in -2..5 : f.value % Unit(-e) = 0}))
            apart(x) == IF x < f.value THEN f.value - x ELSE x - f.value
        IN  /\ asked.bad = {} => \/ f.value \in {1, 5} \cup {100 * i : i \in 0..12}
                                 \/ \E x \in released \cup {100 * x : x \in released \cap (0..100)} :
                                        2 * apart(x) <= last
            /\ (\E x \in released : RoundTo(x, Unit(f.decimals)) = f.value) => asked.bad = {}

=============================================================================
