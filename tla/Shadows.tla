------------------------------- MODULE Shadows -------------------------------
(***************************************************************************)
(* What a shadow of a study promises, for every definition and all that may *)
(* be wanted of it: a state is one build, a property says what must be true *)
(* of its tables.                                                           *)
(***************************************************************************)
EXTENDS Shadow, Differences

CONSTANT Builds         \* definitions of studies, each with what is wanted of it

\* Finitely many columns in a table, lists of levels and of edges, numbers for
\* bounds, and no column banded from one that is itself banded (a label is no
\* number).
IsBuild(b) ==
    LET d == b.study  a == b.wanted IN
    /\ d.names \in Seq(Range(d.names))
    /\ \A t \in TableNames(d) : IsFiniteSet(d.tables[t])
    /\ \A c \in DOMAIN d.domains : d.domains[c] \in Seq(Range(d.domains[c]))
    /\ \A c \in DOMAIN d.rules :
          IsFiniteSet(DOMAIN d.rules[c]) /\ \A op \in DOMAIN d.rules[c] : d.rules[c][op] \in Seq(Int)
    /\ a.persons \in Int
    /\ \A t \in DOMAIN a.rows : a.rows[t] \in Int
    /\ \A c \in DOMAIN a.ranges : a.ranges[c] \in Int \X Int
    /\ \A c \in DOMAIN a.derive : a.derive[c] \notin DOMAIN a.derive

ASSUME ShadowsAssumption == \A b \in Builds : IsBuild(b)

-----------------------------------------------------------------------------

AskShadow ==
    \E b \in Builds : asked' = [about |-> "shadow", study |-> b.study, wanted |-> b.wanted]

BuildsUp ==
    Is("shadow") /\ ~Refused(asked.study, asked.wanted) /\ ~DrawsFromNothing(asked.study, asked.wanted)

\* A factor an analyst may use has in the shadow every level it has in the
\* study, however few rows were asked for, or there is no shadow: what can be
\* estimated here can be estimated there (row_count, _cover_draw).  A column
\* that is banded from another is as that one fell.
LevelsKept ==
    BuildsUp =>
        LET d == asked.study  a == asked.wanted IN
        \A x \in Cells(d) :
            x[2] \notin OwnedKeys(d) \cup {d.person} \cup DOMAIN a.derive =>
                /\ KindOf(d, x[2]) = "cat" => x[2] \in DOMAIN d.domains
                /\ x[2] \in DOMAIN d.domains => Generated(d, a, x[1], x[2]).must = Range(d.domains[x[2]])

\* Every row of the tables a view joins finds its partner (the owning table's
\* pool is the one all others draw from).
JoinsMatch ==
    BuildsUp =>
        LET d == asked.study  a == asked.wanted IN
        \A v \in d.views : \A j \in v.joins : \A t \in {t \in TableNames(d) : j[1] \in d.tables[t]} :
            j[1] # d.person => ColumnValues(d, a, t, j[1]).can \subseteq ColumnValues(d, a, j[2], j[1]).must

\* What is drawn for a column of numbers is a multiple of this.
Grain(kind) == IF kind = "int" THEN Thousand ELSE Cent

\* The generator and its verifier agree: a definition whose keys declare neither
\* a domain nor a number's kind, whose views show no person, and whose bounds are
\* no finer than the draws (whole for whole numbers, cents for real ones: a draw
\* is cut or rounded, and the verifier compares it with the bound as it was
\* written), is never refused by the verification of what was generated for it
\* (_column_values, verify_shadow).
SelfConsistent ==
    BuildsUp =>
        LET d == asked.study  a == asked.wanted
            keys == OwnedKeys(d) \cup {d.person}
        IN  \/ keys \cap DOMAIN d.domains # {} \/ \E c \in keys : KindOf(d, c) \in {"int", "num", "bool"}
            \/ \E s \in Shown(d) : s[1] \in d.identifiers \/ s[2] = d.person
            \/ \E c \in BaseColumns(d) :
                  IsNumber(d, c) /\ \E i \in 1..2 : NumericBounds(d, a, c)[i] % Grain(KindOf(d, c)) # 0
            \/ ~MayFailVerification(d, a)

\* The bands of a column follow each other, from its least edge to its greatest,
\* in steps of what is drawn for it.
Tile(d, source) ==
    LET low == d.rules[source][">="]  high == d.rules[source]["<="]  step == Grain(KindOf(d, source)) IN
    /\ \A edge \in Edges(d, source) : edge % step = 0
    /\ low[1] = Min(Edges(d, source)) /\ high[Len(high)] = Max(Edges(d, source))
    /\ \A i \in 1..(Len(low) - 1) : low[i + 1] = high[i] + step

\* Bands that tile the range of a number label every value drawn for it, so the
\* derived build is not left to chance (_band, _numeric_bounds).
BandsCover ==
    BuildsUp =>
        LET d == asked.study
            sources == {asked.wanted.derive[banded] : banded \in DOMAIN asked.wanted.derive}
        IN  (\A source \in sources :
                /\ IsNumber(d, source) /\ source \notin DOMAIN asked.wanted.ranges
                /\ source \in DOMAIN d.rules => Tile(d, source))
                => ~MayFallOutside(d, asked.wanted)

\* A shadow looks like the study and is made of its definition alone.
ShadowSound == LevelsKept /\ JoinsMatch /\ SelfConsistent /\ BandsCover

Shadows == Unasked /\ [][AskShadow]_asked

=============================================================================
