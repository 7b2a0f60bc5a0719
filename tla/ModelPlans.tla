----------------------------- MODULE ModelPlans ------------------------------
(***************************************************************************)
(* A model from its vetted cells: the queries its procedure plans, what the *)
(* gateway makes of each table, the preconditions decided on what it let    *)
(* out, the cells the fit is a function of, and what leaves with it.        *)
(*                                                                         *)
(* A finalized table gives each key its count and its value, a mean being   *)
(* the pair of total and rows; rounding to decimals is left out, and so are *)
(* the numerics of the fits.  What the auditor makes of each table is in    *)
(* GatewaySession.                                                          *)
(***************************************************************************)
EXTENDS QueryEngine, QuerySpecs

TableRoles(m) ==
    CASE m.tool = "series"     -> <<"series">>
      [] m.tool = "anova"      -> <<"mean", "sum_sq">>
      [] m.tool = "normality"  -> <<"sum", "sum_sq", "sum_cube", "sum_quad">>
      [] m.family = "gaussian" -> <<"mean", "sum_sq">>
      [] m.family = "binomial" -> <<"trials", "successes">>
      [] OTHER                 -> <<"sum">>

OptionalRoles(m) == IF m.tool = "glm" /\ m.family = "gaussian" THEN {"sum_sq"} ELSE {}

-----------------------------------------------------------------------------
(* From the plan to the finalized tables                                    *)

Plain(f) ==
    [f EXCEPT !.value = IF f.op = "in" THEN {f.value[2][i][2] : i \in DOMAIN f.value[2]} ELSE f.value[2]]

\* A planned query as the engine is asked it.
Asked(q) ==
    [fn |-> q.measure.fn, by |-> q.by, filters |-> {Plain(q.filters[i]) : i \in DOMAIN q.filters},
     columns |-> SelectSeq(<<q.measure.column, q.measure.x, q.measure.y>>, LAMBDA c : c # NoColumn)]

\* Mutant: a table that lost cells is used.
UsableInPart(applied) == applied.action # "deny" /\ applied.table # <<>>

\* A table that lost a cell, or has none, is no table to fit from (P19).
Usable(applied) == applied.action = "release" /\ applied.table # <<>>

\* postprocess on what the gateway let out, keyed.
Finalized(table, q, applied) ==
    [k \in {applied.table[i].key : i \in DOMAIN applied.table} |->
        [n |-> (CHOOSE i \in Range(applied.table) : i.key = k).n,
         value |-> CASE q.fn = "count" -> 0
                     [] q.fn = "mean"  -> <<Value(table, q, k), CountOf(table, q, k)>>
                     [] OTHER          -> Value(table, q, k)]]

\* The role loop: what each planned table became.
Vetted(table, m, domains, par) ==
    LET planned == PlanAggregates(m)
        vet(i) == LET q == Asked(planned[i])  f == Run(table, q, domains)
                      applied == Apply(f, StandinVetter(f, par), par)
                  IN  [role |-> TableRoles(m)[i], usable |-> Usable(applied),
                       findings |-> IF Usable(applied) THEN applied.findings ELSE {},
                       cells |-> Finalized(table, q, applied)]
    IN  [i \in DOMAIN planned |-> vet(i)]

Incomplete(m, vetted) ==
    \E i \in DOMAIN vetted : ~vetted[i].usable /\ vetted[i].role \notin OptionalRoles(m)

\* The findings of every table count, and a human is asked once (hardening #96).
Notes(vetted) == UNION {vetted[i].findings : i \in DOMAIN vetted}

FinalTables(vetted) ==
    [r \in {vetted[i].role : i \in {i \in DOMAIN vetted : vetted[i].usable}} |->
        vetted[CHOOSE i \in DOMAIN vetted : vetted[i].role = r].cells]

-----------------------------------------------------------------------------
(* The cells of the fit                                                     *)

\* _merge_binomial: a key without successes has none.
Successes(tables, k) ==
    IF k \in DOMAIN tables.successes THEN tables.successes[k].n ELSE 0

\* _assemble_cells: the count, and what the role of each table supplies.
Assemble(m, tables) ==
    IF TableRoles(m)[1] = "trials"
    THEN [k \in DOMAIN tables.trials |->
             [n |-> tables.trials[k].n, of |-> [k |-> Successes(tables, k)]]]
    ELSE LET first == tables[TableRoles(m)[1]]
             joined == {k \in DOMAIN first : \A r \in DOMAIN tables : k \in DOMAIN tables[r]}
         IN  [k \in joined |-> [n |-> first[k].n, of |-> [r \in DOMAIN tables |-> tables[r][k].value]]]

\* refit_from_artifact: the tables that the released cells stand for.
FromArtifact(m, cells) ==
    IF TableRoles(m)[1] = "trials"
    THEN [trials |-> [k \in DOMAIN cells |-> [n |-> cells[k].n, value |-> 0]],
          successes |-> [k \in DOMAIN cells |-> [n |-> cells[k].of.k, value |-> 0]]]
    ELSE [r \in UNION {DOMAIN cells[k].of : k \in DOMAIN cells} |->
             [k \in DOMAIN cells |-> [n |-> cells[k].n, value |-> cells[k].of[r]]]]

Sizes(cells) == MapThenSumSet(LAMBDA k : cells[k].n, DOMAIN cells)

-----------------------------------------------------------------------------
(* Preconditions, on the finalized tables alone                             *)

LevelsOf(cells, i) == {k[i] : k \in DOMAIN cells}
SameKeys(tables, roles) == \A r, s \in roles \cap DOMAIN tables : DOMAIN tables[r] = DOMAIN tables[s]

\* A level of a term with no successes, or nothing else.
Separated(cells, i) ==
    \E level \in LevelsOf(cells, i) :
        LET margin == {k \in DOMAIN cells : k[i] = level}
            k == MapThenSumSet(LAMBDA c : cells[c].of.k, margin)
        IN  k = 0 \/ k = MapThenSumSet(LAMBDA c : cells[c].n, margin)

\* GLMProcedure: two levels of each term, every cross of them, the tables of
\* one design.  Main effects over a whole grid are never aliased.
GlmReady(m, tables) ==
    LET primary == tables[TableRoles(m)[1]]
        levels(i) == LevelsOf(primary, i)
    IN  /\ \A i \in DOMAIN m.terms : Cardinality(levels(i)) >= 2
        /\ Cardinality(DOMAIN primary)
              = MapThenFoldSet(LAMBDA x, y : x * y, 1, LAMBDA i : Cardinality(levels(i)),
                               LAMBDA s : CHOOSE i \in s : TRUE, DOMAIN m.terms)
        /\ m.family = "gaussian" => SameKeys(tables, {"mean", "sum_sq"})
        /\ m.family = "binomial" =>
              \A i \in DOMAIN m.terms : ~Separated(Assemble(m, tables), i)

\* AnovaProcedure: two groups, the same in both tables, and a row to spare.
AnovaReady(tables) ==
    /\ Cardinality(DOMAIN tables.mean) >= 2
    /\ SameKeys(tables, DOMAIN tables)
    /\ Sizes(tables.mean) > Cardinality(DOMAIN tables.mean)

\* SeriesProcedure: enough windows, and none missing between them.
SeriesReady(tables) ==
    LET times == LevelsOf(tables.series, 1) IN
    /\ Cardinality(times) >= MinWindows
    /\ \A a, b \in times : a..b \subseteq times

NormalityReady(tables) == SameKeys(tables, DOMAIN tables)

Ready(m, tables) ==
    CASE m.tool = "glm"    -> GlmReady(m, tables)
      [] m.tool = "anova"  -> AnovaReady(tables)
      [] m.tool = "series" -> SeriesReady(tables)
      [] OTHER             -> NormalityReady(tables)

-----------------------------------------------------------------------------
(* What leaves: the frames of a fit and the contract they are held to       *)

HasDispersion(cells) == \A k \in DOMAIN cells : "sum_sq" \in DOMAIN cells[k].of

\* The degrees of freedom a fit needs; a gaussian model that has its sums of
\* squares raises without any.
Fits(m, cells) ==
    m.tool = "glm" /\ m.family = "gaussian" /\ HasDispersion(cells) =>
        Sizes(cells) > 1 + MapThenSumSet(LAMBDA i : Cardinality(LevelsOf(cells, i)) - 1, DOMAIN m.terms)

\* The columns of the cells, which leave as they were fitted from.
CellColumns(m, cells) ==
    Range(m.terms) \cup {"n"}
    \cup IF m.tool = "series" THEN {"value"} ELSE UNION {DOMAIN cells[k].of : k \in DOMAIN cells}

FramesOf(m, cells, output, model) ==
    [output |-> output, cells |-> CellColumns(m, cells), model |-> model]

Inference == {"std_error", "statistic", "p_value"}

GlmFrames(m, cells) ==
    LET told == {"family", "link", "response", "n", "n_cells", "params", "df_resid"} IN
    IF m.family = "gaussian" /\ ~HasDispersion(cells)
    THEN FramesOf(m, cells, {"term", "level", "estimate"}, told \cup {"dispersion_released"})
    ELSE FramesOf(m, cells, {"term", "level", "estimate"} \cup Inference,
                told \cup {"deviance"} \cup {"r_squared" : x \in {m.family} \cap {"gaussian"}})
GlmContract(m) ==
    [output |-> {"term", "level", "estimate"} \cup Inference,
     cells |-> Range(m.terms) \cup {"n"}
               \cup (CASE m.family = "gaussian" -> {"mean", "sum_sq"}
                       [] m.family = "binomial" -> {"k"}
                       [] OTHER -> {"sum"}),
     model |-> {"family", "link", "response", "n", "n_cells", "params", "df_resid",
                "deviance", "r_squared", "dispersion_released"}]

AnovaModel == {"response", "factor", "n", "n_groups", "grand_mean", "eta_squared",
               "df_between", "df_within", "bartlett_chi2", "bartlett_df", "bartlett_p"}
AnovaFrames(m, cells) ==
    FramesOf(m, cells, {"source", "df", "sum_sq", "mean_sq", "statistic", "p_value"}, AnovaModel)
AnovaContract(m) ==
    [output |-> {"source", "df", "sum_sq", "mean_sq", "statistic", "p_value"},
     cells |-> Range(m.terms) \cup {"mean", "n", "sum_sq"}, model |-> AnovaModel]

NormalityShape == {"n", "skewness", "kurtosis", "jarque_bera", "df", "p_value"}
NormalityFrames(m, cells) ==
    FramesOf(m, cells, Range(m.terms) \cup NormalityShape, {"response", "factor", "n", "n_groups"})
NormalityContract(m) ==
    [output |-> Range(m.terms) \cup NormalityShape,
     cells |-> Range(m.terms) \cup {"n", "sum", "sum_sq", "sum_cube", "sum_quad"},
     model |-> {"response", "factor", "n", "n_groups"}]

SeriesModel == {"response", "time", "stat", "n_windows", "n", "first_window", "last_window"}
SeriesFrames(m, cells) == FramesOf(m, cells, {"quantity", "value"}, SeriesModel)
SeriesContract(m) ==
    [output |-> {"quantity", "value"}, cells |-> Range(m.terms) \cup {"value", "n"}, model |-> SeriesModel]

\* Every column that leaves is declared.
ContractKept(m, cells) ==
    LET kept(frames, contract) == \A f \in DOMAIN frames : frames[f] \subseteq contract[f] IN
    CASE m.tool = "glm"       -> kept(GlmFrames(m, cells), GlmContract(m))
      [] m.tool = "anova"     -> kept(AnovaFrames(m, cells), AnovaContract(m))
      [] m.tool = "normality" -> kept(NormalityFrames(m, cells), NormalityContract(m))
      [] OTHER                -> kept(SeriesFrames(m, cells), SeriesContract(m))

\* _handle_model once its tables are vetted: denied, sent to a human, an error, or the
\* cells that leave with the fit.
Fitted(m, vetted) ==
    LET tables == FinalTables(vetted)
        end(status, cells) == [status |-> status, cells |-> cells]
    IN  CASE Incomplete(m, vetted)                -> end("denied", << >>)
          [] Hitl(Notes(vetted)) = "deny"         -> end("denied", << >>)
          [] Hitl(Notes(vetted)) = "human"        -> end("review", << >>)
          [] ~Ready(m, tables)                    -> end("denied", << >>)
          [] ~Fits(m, Assemble(m, tables))        -> end("error", << >>)
          [] ~ContractKept(m, Assemble(m, tables)) -> end("violation", << >>)
          [] OTHER                                -> end("released", Assemble(m, tables))

=============================================================================
