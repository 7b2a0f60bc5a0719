---------------------------- MODULE OfflinePlanner -----------------------------
(***************************************************************************)
(* The planner that needs no model (MockPlanner): a decision list over the  *)
(* words of a request, keyed to the demonstration study's catalogue.        *)
(*                                                                         *)
(* A request is the set of words it contains, synonyms counted as one word, *)
(* and the filters its text has.                                            *)
(***************************************************************************)
EXTENDS QuerySpecs, TLC

-----------------------------------------------------------------------------
(* The demonstration study                                                  *)

People == [age_band |-> "cat", sex |-> "cat", region |-> "cat", income_band |-> "cat", device_os |-> "cat"]

View(columns, dims, measures, internal, responses, times) ==
    [columns |-> columns \cup DOMAIN dims \cup measures, unit |-> {"age_years"}, person |-> "donor_id",
     dims |-> dims, measures |-> measures, filters |-> "age_years" :> "int",
     internal |-> internal, responses |-> responses, times |-> times]

DemoStudy ==
    [views |->
        [spend |-> View({}, People @@ [genre |-> "cat", contains_lootboxes |-> "bool", price_tier |-> "cat",
                                       event_type |-> "cat", age_rating |-> "int"],
                        {"amount_gbp", "ingame_currency"}, {},
                        [amount_gbp |-> {"gaussian"}, ingame_currency |-> {"gaussian"},
                         contains_lootboxes |-> {"binomial"}], {}),
         donor_spend |-> View({}, People, {"total_spend_gbp", "purchase_events", "lootbox_events"}, {"age_years"},
                              [total_spend_gbp |-> {"gaussian"}, purchase_events |-> {"poisson"},
                               lootbox_events |-> {"poisson"}], {}),
         wellbeing |-> View({}, People @@ "wave" :> "int",
                            {"pgsi_score", "igds_score", "wemwbs_score", "monthly_spend_selfreport"}, {},
                            [m \in {"pgsi_score", "igds_score", "wemwbs_score", "monthly_spend_selfreport"} |->
                                {"gaussian"}], {"wave"})],
     identifiers |-> {"donor_id"},
     rules |-> "age_years" :> (">=" :> <<<<"int", 13>>, <<"int", 16>>, <<"int", 18>>, <<"int", 25>>, <<"int", 35>>, <<"int", 50>>>>
                               @@ "<=" :> <<<<"int", 15>>, <<"int", 17>>, <<"int", 24>>, <<"int", 34>>, <<"int", 49>>, <<"int", 69>>>>),
     quantities |-> [spend_gbp |-> <<<<"spend", "amount_gbp">>, <<"donor_spend", "total_spend_gbp">>>>],
     windows |-> [wave |-> 2]]

-----------------------------------------------------------------------------
(* Words and the dimensions they name                                       *)

Factors == <<<<"region", "region">>, <<"sex", "sex">>, <<"age_band", "age">>,
             <<"income_band", "income">>, <<"device_os", "device">>>>
GameTerms == <<<<"genre", "genre">>, <<"price_tier", "price">>, <<"age_rating", "rating">>>>

\* _terms_from_text, or the term that is used when no word names one.  The
\* order of terms differs between the branches and is left out.
TermsFromText(u, candidates, default) ==
    LET hits == SelectSeq(candidates, LAMBDA c : c[2] \in u) IN
    IF hits = <<>> THEN <<default>> ELSE [i \in DOMAIN hits |-> hits[i][1]]

Scores == {"wellbeing", "wemwbs", "pgsi", "igds"}
ScoreOf(u) ==
    CASE "pgsi" \in u -> "pgsi_score" [] "igds" \in u -> "igds_score" [] OTHER -> "wemwbs_score"

Model(tool, view, family, response, terms, filters) ==
    [tool |-> tool, view |-> view, family |-> family, response |-> response,
     terms |-> terms, filters |-> filters]
Query(view, measure, by, filters) == [view |-> view, measure |-> measure, by |-> by, filters |-> filters]

-----------------------------------------------------------------------------
(* Models                                                                   *)

PlanModel(u, filters) ==
    CASE "lootbox" \in u ->
            Model("glm", "spend", "binomial", "contains_lootboxes", TermsFromText(u, GameTerms, "genre"), filters)
      [] "lootbox" \notin u /\ "purchase" \in u ->
            Model("glm", "donor_spend", "poisson", "purchase_events",
                  TermsFromText(u, Factors, "income_band"), filters)
      [] u \cap {"lootbox", "purchase"} = {} /\ u \cap Scores # {} ->
            Model("glm", "wellbeing", "gaussian", ScoreOf(u), TermsFromText(u, Factors, "region"), filters)
      [] OTHER ->
            Model("glm", "donor_spend", "gaussian", "total_spend_gbp",
                  TermsFromText(u, Factors, "age_band"), filters)

\* _plan_anova: the first factor named; _plan_normality is the same question.
PlanFactor(tool, u, filters) ==
    LET factor == <<TermsFromText(u, Factors, "region")[1]>> IN
    CASE u \cap (Scores \cup {"mental"}) # {} -> Model(tool, "wellbeing", NoColumn, ScoreOf(u), factor, filters)
      [] u \cap (Scores \cup {"mental"}) = {} /\ "currency" \in u ->
            Model(tool, "spend", NoColumn, "ingame_currency", factor, filters)
      [] OTHER -> Model(tool, "donor_spend", NoColumn, "total_spend_gbp", factor, filters)

\* _plan_series: the first time axis of the view, or a name it does not have.
PlanSeries(u, filters) ==
    LET view == IF u \cap (Scores \cup {"mental"}) # {} THEN "wellbeing" ELSE "spend"
        response == CASE view = "wellbeing" -> ScoreOf(u)
                      [] "currency" \in u /\ view = "spend" -> "ingame_currency"
                      [] OTHER -> "amount_gbp"
    IN  Model("series", view, IF "total" \in u THEN "sum" ELSE "mean", response, <<"wave">>, filters)

-----------------------------------------------------------------------------
(* Queries                                                                  *)

Mean(column) == [Count EXCEPT !.fn = "mean", !.column = column]
Corr(x, y) == [Count EXCEPT !.fn = "corr", !.x = x, !.y = y]
Spending == <<[column |-> "event_type", op |-> "in",
               value |-> <<"list", <<<<"str", "purchase">>, <<"str", "lootbox_open">>>>>>]>>

PlanCorrelation(u, filters) ==
    IF {"age", "spend"} \subseteq u
    THEN Query("donor_spend", Corr("age_years", "total_spend_gbp"), <<>>, filters)
    ELSE IF u \cap {"wellbeing", "wemwbs"} # {}
    THEN Query("wellbeing", Corr("monthly_spend_selfreport", "wemwbs_score"), <<>>, filters)
    ELSE IF "pgsi" \in u
    THEN Query("wellbeing", Corr("monthly_spend_selfreport", "pgsi_score"), <<>>, filters)
    ELSE Query("spend", Corr("amount_gbp", "ingame_currency"), <<>>, filters)

\* The queries of plan, tried in this order; two name columns no view offers.
PlanQuery(u, filters) ==
    IF {"region", "device"} \subseteq u
    THEN Query("spend", Mean("amount_gbp"), <<"age_band", "region", "device_os">>, Spending)
    ELSE IF "free text" \in u THEN Query("wellbeing", Count, <<"free_text">>, <<>>)
    ELSE IF "per donor" \in u THEN Query("wellbeing", Mean("wemwbs_score"), <<"donor_id">>, <<>>)
    ELSE IF "correlation" \in u THEN PlanCorrelation(u, filters)
    ELSE IF "wellbeing" \in u THEN Query("wellbeing", Mean("wemwbs_score"), <<"region">>, <<>>)
    ELSE IF "region" \in u THEN Query("spend", Mean("amount_gbp"), <<"region">>, Spending)
    ELSE Query("spend", Mean("amount_gbp"), <<"age_band">>, Spending)

\* plan: which kind of question the words make it.
Kind(u) ==
    LET kinds == SelectSeq(<<"series", "normality", "anova", "regression">>, LAMBDA k : k \in u) IN
    IF kinds = <<>> THEN "query" ELSE kinds[1]

=============================================================================
