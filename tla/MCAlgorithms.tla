---------------------------- MODULE MCAlgorithms ----------------------------
(***************************************************************************)
(* The pure parts of the program, each asked every question of a small set. *)
(* A state is one question with its inputs; a property says what the        *)
(* answer must be.                                                          *)
(***************************************************************************)
EXTENDS MCBoundary, Answers, ModelPlans, ResearchRecords

-----------------------------------------------------------------------------
(* Differences: three rows of two or three people, any value missing          *)

Values == {1, 2, Missing}
Places == [sex : Values, age : Values]
DonorPlans == {<<"d1", "d2", "d3">>, <<"d1", "d1", "d2">>}
MCTables == {[i \in 1..3 |-> [donor |-> who[i], at |-> at[i], amount |-> i]] :
                who \in DonorPlans, at \in [1..3 -> Places]}
MCSamples == {[i \in 1..2 |-> [donor |-> "d1", at |-> at[i], amount |-> 1]] : at \in [1..2 -> Places]}

P(c, o, v) == [column |-> c, op |-> o, value |-> v]
MCFilterSets ==
    {{}, {P("sex", "==", 1)}, {P("sex", "!=", 1)}, {P("sex", "!=", 3)}, {P("sex", "in", {1, 2})},
     {P("age", ">=", 2)}, {P("age", "<=", 1), P("sex", "==", 2)}, {P("age", "<", 3)},
     {P("age", "!=", 1), P("sex", "!=", 2)}}
MCDomainOf == [sex |-> {1, 2, 3}]

\* Three people, one of whom may have no event; both views carry one declared quantity.
MCPersons == {"d1", "d2", "d3"}
MCProfiles == [MCPersons -> [sex : Values]]
MCLogs == {[i \in 1..2 |-> [donor |-> who[i], amount |-> amount[i]]] :
              who \in [1..2 -> MCPersons], amount \in [1..2 -> {3, 5, Missing}]}
MCProfileFilters == {{}, {P("sex", "==", 1)}, {P("sex", "!=", 1)}, {P("sex", "!=", 3)}}

RawFilters ==
    {P("sex", "==", 1), P("sex", "!=", 2), P("sex", "in", <<1>>), P("sex", "in", <<2, 1>>),
     P("sex", "in", <<1, 2>>), P("age", ">=", 2), P("age", "in", <<2, 2>>)}
MCFilterLists == BoundedSeq(RawFilters, 2)

MCMarginals == [{1, 2, 9} -> 1..9]
MCDomains == {{1, 2, 3}, Missing}

-----------------------------------------------------------------------------
(* Releases: two-way, gappy and one-way tables, and tables with witnesses      *)

MCPar == [threshold |-> 2, base |-> 2, rows |-> 3, dominance |-> 60, moment2 |-> 70, influence |-> 50]
EngineColumns == {"n", "n_donors", "value"}
CellWith(n, share, finite) ==
    [n |-> n, donors |-> n, share |-> share, influence |-> 0, finite |-> finite]
Grid(keys, n, domains) ==
    [cells |-> [k \in keys |-> CellWith(n[k], 0, TRUE)], columns |-> EngineColumns,
     domains |-> domains, known |-> TRUE, class |-> "magnitude"]

TwoWay == {1, 2, 3} \X {1, 2}
Gappy == {<<1, 1>>, <<1, 2>>, <<Missing, 1>>, <<Missing, 2>>, <<2, 1>>}
OneWay == {<<1>>, <<2>>, <<7>>, <<Missing>>}

CountedFrames ==
    {Grid(TwoWay, n, <<{1, 2, 3}, {1, 2}>>) : n \in [TwoWay -> {1, 4, 6}]}
    \cup {Grid(Gappy, n, <<{1, 2, 3}, Missing>>) : n \in [Gappy -> {1, 3, 4, 6}]}
    \cup {[Grid(OneWay, n, <<d>>) EXCEPT !.known = known] :
              n \in [OneWay -> {1, 2, 5, Missing}], d \in {Missing, {1, 2, 3}}, known \in BOOLEAN}

WitnessFrames ==
    {[cells |-> [k \in {<<1>>, <<2>>, <<3>>} |-> CellWith(4, share[k[1]], finite[k[1]])],
      columns |-> EngineColumns \cup {"dominance"} \cup extra, domains |-> <<{1, 2, 3}>>,
      known |-> TRUE, class |-> class] :
        share \in [1..3 -> {50, 60, 70, 80, Missing}], finite \in [1..3 -> BOOLEAN],
        extra \in {{}, {"identifier"}}, class \in {"magnitude", "moment2"}}

MCFrames == CountedFrames \cup WitnessFrames

\* Another vetter, such as an external checker, withholds at most one cell.
MCOtherVerdicts(f) ==
    {[suppress |-> s, findings |-> {}, deny |-> FALSE] : s \in {{}} \cup {{k} : k \in DOMAIN f.cells}}

-----------------------------------------------------------------------------
(* Answers: three people with four rows, and four people for a correlation    *)

Survey(who, sex, x, y) ==
    [i \in DOMAIN who |-> [donor |-> who[i], at |-> [sex |-> sex[i], x |-> x[i], y |-> y[i]]]]

Question(fn, columns, by, filters) == [fn |-> fn, columns |-> columns, by |-> by, filters |-> filters]
Totals == {"mean", "sum", "sum_sq", "sum_cube", "sum_quad"}
Sexes == {<<1, 1, 1, 1>>, <<1, 1, 1, 2>>, <<1, 2, 1, 2>>, <<2, 2, 1, 1>>}

MCSurveys ==
    {[tables |-> {Survey(<<"d1", "d1", "d2", "d3">>, sex, x, x) :
                    sex \in Sexes, x \in [1..4 -> {-2, 1, 3, Missing}]},
      questions |-> {Question(fn, IF fn = "count" THEN <<>> ELSE <<"x">>, by, filters) :
                       fn \in Totals \cup {"count"}, by \in {<<>>, <<"sex">>},
                       filters \in {{}, {P("sex", "!=", 1)}}}],
     [tables |-> {Survey(<<"d1", "d2", "d3", "d4", "d4">>, <<1, 1, 1, 1, 1>>, x, y) :
                    x \in [1..5 -> {0, 1, Missing}], y \in [1..5 -> {0, 1}]},
      questions |-> {Question("corr", <<"x", "y">>, <<>>, {})}]}

-----------------------------------------------------------------------------
(* QuerySpecs                                                               *)

Num(n) == <<"int", n>>
Lower == <<Num(18), Num(30), Num(50)>>
Upper == <<Num(29), Num(49), Num(64)>>
NoRule == << >>
RuleSets ==
    {NoRule, "age" :> (">=" :> Lower), "age" :> (">=" :> Lower @@ "<=" :> Upper),
     "age" :> (">=" :> Lower @@ "<=" :> Tail(Upper)), "age" :> ("<" :> Lower),
     "sex" :> (">=" :> Lower), "nhs" :> ("==" :> <<<<"str", "n1">>>>)}

Dims == [sex |-> "cat", wave |-> "int", smoker |-> "bool", band |-> "cat"]
StudyColumns == DOMAIN Dims \cup {"score", "pay"}
Responses == [score |-> {"gaussian"}, pay |-> {"gaussian", "poisson"}, smoker |-> {"binomial"}]

Views ==
    [columns : {StudyColumns, StudyColumns \cup {"nhs"}, StudyColumns \ {"score"}},
     unit : {{"age", "nhs"}, {"age", "sex"}}, person : {"nhs", "band"},
     dims : {Dims, Dims @@ "age" :> "int", Dims @@ "nhs" :> "cat"},
     measures : {{"score", "pay"}, {"pay", "age"}},
     filters : {"age" :> "int", "nhs" :> "cat", << >>}, internal : {{"age"}, {"pay"}, {"age", "nhs"}},
     responses : {Responses, Responses @@ "sex" :> {"gaussian", "binomial"}, Responses @@ "sex" :> {"cox"}},
     times : {{"wave"}, {"sex"}}]

Definition(v, rules, windows) ==
    [views |-> [people |-> v], identifiers |-> {"nhs"}, rules |-> rules, quantities |-> << >>,
     windows |-> [wave |-> windows, sex |-> NoDomain]]

Loaded ==
    {d \in {Definition(v, rules, windows) : v \in Views, rules \in RuleSets, windows \in {3, 4, NoDomain}} :
        Loads(d)}
Unruled == {d \in Loaded : d.rules = NoRule}

Txt(x) == <<"str", x>>
Many(f, n) == [i \in 1..n |-> f]
SpecFilters ==
    LET sex == P("sex", "==", Txt("f")) IN
    {<<>>, <<sex>>, Many(sex, 4), Many(sex, 5), Many(sex, 6), <<P("sex", "==", Num(1))>>,
     <<P("sex", "<", Txt("f"))>>, <<P("wave", ">=", Num(2))>>, <<P("wave", "==", <<"bool", TRUE>>)>>,
     <<P("wave", "in", <<"list", <<Num(1), Num(2)>>>>)>>, <<P("wave", "in", <<"list", <<>>>>)>>,
     <<P("wave", "in", Num(1))>>, <<P("smoker", "==", <<"bool", TRUE>>)>>,
     <<P("nhs", "==", Txt("n1"))>>, <<P("age", "==", Num(18))>>, <<P("age", "in", <<"list", <<Num(18)>>>>)>>,
     <<P("age", ">=", Num(31))>>, <<P("age", ">=", Num(30))>>, <<P("age", ">=", Num(30)), P("age", "<=", Num(49))>>}
Keys == {<<>>, <<"sex">>, <<"sex", "sex">>, <<"wave", "smoker", "band">>, <<"wave", "smoker", "band", "sex">>,
         <<"age">>, <<"nhs">>}
Measures ==
    LET named(fn, c, x, y) == [fn |-> fn, column |-> c, x |-> x, y |-> y] IN
    {Count, MeasureOf("count", "pay")}
    \cup {named(fn, c, NoColumn, NoColumn) : fn \in {"mean", "sum_sq"}, c \in {"score", "sex", "nhs", "age"}}
    \cup {named("corr", NoColumn, x, y) : x, y \in {"age", "score", "pay", "nhs", "sex"}}

Query(measure, by, filters) == [view |-> "people", measure |-> measure, by |-> by, filters |-> filters]

\* Each measure by each key, and two measures under each list of filters.
Queries ==
    {Query(m, by, <<>>) : m \in Measures, by \in Keys}
    \cup {Query(m, <<"sex">>, filters) : m \in {Count, MeasureOf("mean", "pay")}, filters \in SpecFilters}

\* At, under and above each edge of the rules.
MCProbes == {17, 18, 29, 30, 31, 49, 50, 64, 65}

\* Two quantities, of up to three and two measures, over two views that are alike.
SharedView == CHOOSE v \in Views : ViewLoads(Definition(v, NoRule, 4), v) /\ v.measures = {"score", "pay"}
Shareable == {"spend", "rollup"} \X {"pay", "score"}
MCSharedQuantities ==
    [views : {[spend |-> SharedView, rollup |-> SharedView]}, identifiers : {{"nhs"}}, rules : {NoRule},
     quantities : [gbp : BoundedSeq(Shareable, 3), hours : BoundedSeq(Shareable, 2)],
     windows : {[wave |-> 4, sex |-> NoDomain]}]

-----------------------------------------------------------------------------
(* ModelPlans                                                               *)

Model(tool, family, response, terms, filters) ==
    [tool |-> tool, view |-> "people", family |-> family, response |-> response,
     terms |-> terms, filters |-> filters]

\* As many people of each kind as counted, a row each.
Kinded(counts) ==
    [id \in {<<at, i>> \in (DOMAIN counts) \X (1..4) : i <= counts[at]} |->
        [donor |-> id, at |-> id[1]]]

Strict == [threshold |-> 2, base |-> 2, rows |-> 9, dominance |-> 60, moment2 |-> 50, influence |-> 50]
ModelDomains == [sex |-> {1, 2}, band |-> {1, 2}, wave |-> 1..6]

CountDesigns ==
    {[counts |-> counts, model |-> m, par |-> Strict] :
        counts \in {c \in [[sex : {1, 2}, band : {1, 2}, smoker : BOOLEAN] -> {0, 2, 3}] :
                        c[[sex |-> 2, band |-> 2, smoker |-> FALSE]] = 2},
        m \in {Model("glm", "binomial", "smoker", <<"sex", "band">>, <<>>),
               Model("glm", "binomial", "smoker", <<"sex">>, <<P("band", "!=", Num(2))>>)}}

MomentDesigns ==
    {[counts |-> counts, model |-> m, par |-> [Strict EXCEPT !.rows = rows]] :
        counts \in {c \in [[sex : {1, 2}, pay : {-1, 1, 3}] -> {0, 1, 3}] : c[[sex |-> 2, pay |-> 3]] = 3},
        rows \in {1, 9},
        m \in {Model("glm", family, "pay", <<"sex">>, <<>>) : family \in {"gaussian", "poisson"}}
              \cup {Model(tool, "gaussian", "pay", <<"sex">>, <<>>) : tool \in {"anova", "normality"}}}

SeriesDesigns ==
    {[counts |-> counts, model |-> Model("series", "mean", "pay", <<"wave">>, <<>>), par |-> Strict] :
        counts \in [[wave : 1..6, pay : {1}] -> {0, 1, 2}]}

AskVetted ==
    \E x \in CountDesigns \cup MomentDesigns \cup SeriesDesigns :
        asked' = [about |-> "vetted", table |-> Kinded(x.counts), model |-> x.model, par |-> x.par,
                  vetted |-> Vetted(Kinded(x.counts), x.model, ModelDomains, x.par)]

AskFit ==
    /\ Is("vetted")
    /\ asked' = [about |-> "fit", table |-> asked.table, model |-> asked.model, par |-> asked.par,
                 fitted |-> Fitted(asked.model, asked.vetted)]

FittedOf(status) == Is("fit") /\ asked.fitted.status = status

\* A model that leaves has every cell of its cohort that the plain query would
\* answer, and each number in it is one that the plain query would release: no
\* cell was merged, dropped or taken from a table that lost one (P19).
CellsWhole ==
    FittedOf("released") =>
        LET m == asked.model  planned == PlanAggregates(m) IN
        \A i \in DOMAIN planned :
            LET q == Asked(planned[i])  f == Run(asked.table, q, ModelDomains)
                role == TableRoles(m)[i]
                given == {k \in DOMAIN asked.fitted.cells :
                             role \in DOMAIN asked.fitted.cells[k].of}
            IN  given # {} \/ role \in {"trials", "successes"} =>
                  /\ \A r \in CellRules : Fails(r, f, asked.par) = {}
                  /\ role # "successes" => DOMAIN asked.fitted.cells = DOMAIN f.cells

\* A cell without successes has nobody with one, and never more successes than
\* trials, whatever rounding did (_merge_binomial).
SuccessesTrue ==
    FittedOf("released") /\ asked.model.family = "binomial" =>
        \A k \in DOMAIN asked.fitted.cells :
            LET c == asked.fitted.cells[k]  q == Asked(PlanAggregates(asked.model)[2]) IN
            /\ c.of.k <= c.n
            /\ c.of.k = 0 => CountOf(asked.table, q, k) = 0

\* The released cells alone give the tables of the fit back, and those pass
\* the preconditions again: whoever has the cells has the fit (P21).
RefitFromCells ==
    FittedOf("released") =>
        LET tables == FromArtifact(asked.model, asked.fitted.cells) IN
        /\ Assemble(asked.model, tables) = asked.fitted.cells
        /\ Ready(asked.model, tables)

\* A model whose tables are whole is fitted or refused: it never raises, or
\* breaks its own contract, after it was paid for (preconditions, fit,
\* output_contract).
NoneRaises == ~FittedOf("error") /\ ~FittedOf("violation")

\* A table too fine for the plain path does not leave as the cells of a model
\* (hardening #96).
NoFinerThanPlain ==
    FittedOf("released") => Cardinality(DOMAIN asked.fitted.cells) <= asked.par.rows

TermLists == {<<>>, <<"sex">>, <<"smoker">>, <<"sex", "sex">>, <<"wave", "band", "sex">>, <<"wave">>}
Models(lists, filters) ==
    {Model(tf[1], tf[2], r, terms, fs) :
        tf \in ({"glm"} \X Families) \cup ({"anova", "normality"} \X {NoColumn}) \cup {<<"series", "mean">>},
        r \in {"score", "pay", "smoker", "age"}, terms \in lists, fs \in filters}

MCProposed ==
    {[studies |-> Loaded, queries |-> Queries, models |-> Models(TermLists, {<<>>}), requests |-> {}],
     [studies |-> Unruled, queries |-> {}, models |-> Models({<<"sex">>}, SpecFilters), requests |-> {}],
     Requests}

\* A model is the plain queries it is planned as and their released cells, and
\* what the offline planner proposes is what the study offers.
ModelsSound ==
    /\ CellsWhole /\ SuccessesTrue /\ RefitFromCells /\ NoneRaises /\ NoFinerThanPlain
    /\ ProposalsOffered

-----------------------------------------------------------------------------
(* ResearchRecords                                                          *)

Declared(question, guard, kind, spec) == [question |-> question, guard |-> guard, kind |-> kind, spec |-> spec]
Program == <<Declared("q1", 0, "aggregate", {"pay"}), Declared("q2", 1, "aggregate", {"pay", "band"}),
             Declared("q3", 1, "model", {"pay", "sex"})>>

Gave(status, tables, excluded, message, rowed) ==
    [status |-> status, tables |-> tables, output |-> tables # <<>>, bits |-> Cardinality(excluded),
     excluded |-> excluded, message |-> message, rowed |-> rowed]
Table(value) == [output |-> <<[band |-> 1, value |-> value, n |-> 3], [band |-> 2, value |-> value, n |-> 3]>>]
Denied == Gave("denied", <<>>, {}, {"withheld"}, TRUE)
Skipped == Gave("skipped", <<>>, {}, {"guard"}, FALSE)
Runs ==
    {r \in ({Gave("released", Table(5), {}, {}, TRUE), Gave("redacted", Table(4), {}, {}, TRUE), Denied}
            \X {Gave("released", Table(6), {}, {}, TRUE), Gave("released", Table(6), {"rare"}, {}, TRUE),
                Denied, Gave("denied", <<>>, {}, {"no bits"}, FALSE), Skipped}
            \X {Gave("released", [output |-> <<[term |-> "sex", level |-> "f", estimate |-> 2]>>,
                                  cells |-> <<[sex |-> 1, n |-> 3, sum |-> 9]>>,
                                  model |-> <<[cells |-> 1, df |-> 2]>>], {}, {}, TRUE),
                Denied, Skipped}) :
        /\ r[2].status = "skipped" <=> r[1].status # "released"
        /\ r[3].status = "skipped" <=> r[1].status = "redacted"}

\* The rows of the run, with the commitment before the place given, or nowhere.
LogOf(r, place) ==
    LET wrote == SelectSeq(<<1, 2, 3>>, LAMBDA k : r[k].rowed)
        row(status, question, hash) == [status |-> status, request |-> question, hash |-> hash]
        rows == [i \in DOMAIN wrote |-> row(r[wrote[i]].status, Program[wrote[i]].question, <<>>)]
    IN  IF place > Len(rows) THEN rows ELSE InsertAt(rows, place, row("plan", "[plan]", Program))

Here == [code |-> "v1", policy |-> "strict", study |-> "panel", tables |-> "june", snapshot |-> "s6",
         key |-> "inner", custodian |-> "office"]
TraceOf(r, place, verified) == PrivateTrace(LogOf(r, place), verified, Program, r, Here, "alice")

AskSameRelease ==
    \E a, b \in Runs, place \in {1, 9}, verified \in BOOLEAN, withRefused \in BOOLEAN :
        /\ a # b
        /\ \A k \in 1..3 : a[k].tables = b[k].tables
        /\ asked' = [about |-> "release", a |-> TraceOf(a, place, verified), b |-> TraceOf(b, place, verified),
                     results |-> <<a, b>>, withRefused |-> withRefused]

\* Two runs that released the same have the same public half, whatever was
\* refused, skipped, excluded or told to the analyst on the way
\* (compile_public_provenance).
RefusalsUnseen ==
    Is("release") =>
        LET evidence(t, k) == ExtractRun(t, asked.results[k], asked.withRefused) IN
        Provenance(asked.a, evidence(asked.a, 1)) = Provenance(asked.b, evidence(asked.b, 2))

\* Every row released is the keys and values of exactly one item that cites its
\* stage, and no item is anything else (extract, M3).
NumbersIdentified ==
    Is("release") =>
        LET r == asked.results[1]  items == ExtractRun(asked.a, r, FALSE) IN
        /\ Distinguished(items)
        /\ \A k \in 1..3 :
              ToBag([i \in DOMAIN SelectSeq(items, LAMBDA e : e.stage = k) |->
                        LET e == SelectSeq(items, LAMBDA x : x.stage = k)[i] IN e.keys @@ e.values])
                = ToBag(Concat([i \in 1..3 |-> RowsIn(r[k].tables, <<"output", "cells", "model">>[i])]))

Fresh(r, place, verified, withRefused) ==
    LET trace == TraceOf(r, place, verified) IN
    [record |-> NewRecord(trace, ExtractRun(trace, r, withRefused)),
     results |-> r, attested |-> {}, signed |-> {}, rerun |-> {}, place |-> place, files |-> {}, intact |-> TRUE,
     left |-> {"compile", "label", "rewrite", "replay", "sign"}]

\* A level excluded, a stage refused, nothing released.
FewRuns ==
    {r \in Runs : \/ r[3].output /\ (r[2].excluded # {} \/ r[2] = Denied)
                  \/ \A k \in 1..3 : ~r[k].output}

AskRecord ==
    \E r \in FewRuns, place \in {1, 2, 9}, verified \in BOOLEAN, withRefused \in BOOLEAN :
        /\ verified \/ place = 1
        /\ withRefused = (r[2].status = "denied")
        /\ asked' = [about |-> "record", life |-> Fresh(r, place, verified, withRefused)]

\* What becomes of a record, each step once and in any order: the callers of the
\* modules are outside src/safetre.
Life(step, life) ==
    /\ Is("record") /\ step \in asked.life.left
    /\ asked' = [asked EXCEPT !.life = [life EXCEPT !.left = @ \ {step}]]

Compile ==
    LET r == asked.life.record IN
    /\ Compilable(r.trace, r.evidence)
    /\ Life("compile", [asked.life EXCEPT !.record.provenance = {Provenance(r.trace, r.evidence)}])

LabelFirst ==
    /\ asked.life.record.evidence # <<>>
    /\ \E label \in {"figure 2b", "rare"} :
          Life("label", [asked.life EXCEPT !.record.evidence[1].label = {label}])

\* The number reported is changed by hand.
Rewrite ==
    /\ asked.life.record.evidence # <<>>
    /\ Life("rewrite", [asked.life EXCEPT !.record.evidence[1].values = [c \in DOMAIN @ |-> 8]])

\* An auditor without history may release what the session's refused, and the reverse.
ReplayRecord ==
    \E policy \in {"strict", "lax"}, rerun \in {asked.life.results} \cup {q \in Runs : q[2].excluded = {"rare"} /\ q[3].output} :
        Life("replay", [asked.life EXCEPT
            !.record.certificate = {Replay(asked.life.record, [Here EXCEPT !.policy = policy], rerun)},
            !.rerun = {rerun}])

Sign ==
    Life("sign", [asked.life EXCEPT !.attested = {Attest(asked.life.record, "custodian")},
                                    !.signed = {VerifiedDigest(asked.life.record)}])

Export ==
    \E allowed \in {{}, {"rare"}} :
        /\ Is("record") /\ asked.life.files = {}
        /\ Exportable(asked.life.record, asked.life.attested, allowed)
        /\ asked' = [asked EXCEPT !.life.files = {Files(asked.life.record, asked.life.attested)},
                                  !.life.left = {"alter"}]

\* Somebody without the custodian's key changes a file, and may then bring the
\* digests and the report into line with it, and sign with a key of their own.
Changed(f) ==
    {[f EXCEPT !.manifests.disclosure.policy = "lax"], [f EXCEPT !.attestation = {}],
     [f EXCEPT !.certificate = {[c EXCEPT !.outcome = "COMPUTATION_REPRODUCED"] : c \in @}]}
    \cup {[f EXCEPT !.evidence = Tail(@)] : x \in {1} \cap DOMAIN f.evidence}
    \cup {[f EXCEPT !.evidence[i].values = [c \in DOMAIN @ |-> 7]] : i \in {1} \cap DOMAIN f.evidence}
    \cup {[f EXCEPT !.provenance = {[p EXCEPT !.classification = "TRE_PRECOMMITTED"] : p \in @}]}
Mended(f) ==
    LET digest == [id |-> f.header.id, provenance |-> f.provenance, evidence |-> f.evidence] IN
    Rendered([f EXCEPT !.header.digest = digest, !.header.manifests = f.manifests,
                       !.certificate = {[c EXCEPT !.digest = digest] : c \in @}])
Resigned(f) ==
    [f EXCEPT !.attestation =
        {LET p == [b.payload EXCEPT !.digest = f.header.digest]
         IN  [payload |-> p, digest |-> p, key |-> "mallory", signature |-> <<"mallory", p>>] : b \in @}]

Alter ==
    \E f \in asked.life.files : f.attestation # {} /\ f.certificate # {} /\ \E g \in Changed(f) :
      \E h \in {g, Mended(g), Resigned(Mended(g))} \ {f} :
        Life("alter", [asked.life EXCEPT !.files = {h}, !.intact = FALSE])

RecordStep ==
    Is("record") /\ (Compile \/ LabelFirst \/ Rewrite \/ ReplayRecord \/ Sign \/ Export \/ Alter)

\* A bundle nobody touched verifies only if its evidence is exactly what the
\* replay released, under the record's own semantics: a label, a correction or
\* a compilation after the replay makes the certificate stale.
ReproducedIsReported ==
    Is("record") =>
        \A f \in asked.life.files :
            asked.life.intact /\ Verifies(f, {"custodian"}) /\ f.evidence # <<>> =>
                \E rerun \in asked.life.rerun :
                    Identities(f.evidence) = Identities(ReplayedEvidence(asked.life.record.trace, rerun))

\* Whoever holds the custodian's key reads the provenance and the evidence that
\* were signed, whatever became of the files.
ReadIsSigned ==
    Is("record") =>
        \A f \in asked.life.files :
            Verifies(f, {"custodian"}) =>
                [id |-> f.header.id, provenance |-> f.provenance, evidence |-> f.evidence] \in asked.life.signed

\* A record that its attestation and its certificate are about is exported as a
\* bundle that verifies: the checks of the files ask no more than the checks of
\* the record (verify_attestation, certifies, verify_bundle_dir).
HonestBundleVerifies ==
    Is("record") /\ asked.life.intact =>
        LET r == asked.life.record IN
        \A f \in asked.life.files, block \in asked.life.attested, c \in r.certificate :
            /\ AttestationHolds(block, r, "custodian") /\ Certifies(c, r)
            /\ c.outcome = "COMPUTATION_REPRODUCED"
            => Verifies(f, {"custodian"}) /\ f.evidence # <<>>

\* No file the export wrote names a stage that released nothing, and its headline
\* is the weakest label among the stages behind its evidence (#108 to #110).
BundleHonest ==
    Is("record") /\ asked.life.intact =>
        \A f \in asked.life.files :
            LET p == Only(f.provenance)  stages == asked.life.record.trace.stages
                named == {n.id : n \in p.nodes} \cup ({n.input : n \in p.nodes} \ {0}) \cup StagesOf(Range(f.evidence))
            IN  /\ \A k \in named : Released(stages[k].status)
                /\ p.classification = "TRE_PRECOMMITTED" =>
                      p.verified /\ \A k \in named : stages[k].label /\ stages[k].audit > asked.life.place

\* What is reported, in a record or in a dossier's prose, was released, and of
\* what was not released nothing is said.
RecordsSound ==
    /\ RefusalsUnseen /\ NumbersIdentified /\ ReproducedIsReported /\ ReadIsSigned
    /\ HonestBundleVerifies /\ BundleHonest /\ CorrectionExact /\ FiguresGrounded

-----------------------------------------------------------------------------

Subjects ==
    {"records", "cohorts", "tables", "answers", "specs", "models", "settings", "requests", "shadows", "prose"}
Init == asked \in [about : {"nothing"}, next : Subjects]

Turn(subject) == Is("nothing") /\ asked.next = subject

Ask ==
    \/ Turn("records") /\ (AskSameRelease \/ AskRecord)
    \/ Turn("cohorts") /\ AskCohorts
    \/ Turn("tables") /\ AskRelease
    \/ Turn("answers") /\ AskAnswer
    \/ Turn("specs") /\ (AskSpec \/ AskQuantities)
    \/ Turn("models") /\ (AskVetted \/ AskModel \/ AskPlanner)
    \/ Turn("settings") /\ AskPolicy
    \/ Turn("requests") /\ (AskRequest \/ AskAge)
    \/ Turn("shadows") /\ AskShadow
    \/ Turn("prose") /\ (AskTests \/ AskProse)

Next == Ask \/ AskFit \/ RecordStep

Spec == Init /\ [][Next]_asked

\* One subject alone.
AnswersOnly == Init /\ [][Turn("answers") /\ AskAnswer]_asked

=============================================================================
