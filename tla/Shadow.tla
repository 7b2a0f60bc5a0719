-------------------------------- MODULE Shadow --------------------------------
(***************************************************************************)
(* Synthetic tables built from a study's definition alone, and the check    *)
(* every build passes before it is handed back.                             *)
(*                                                                         *)
(* A definition d gives its tables (their columns, in the order of their    *)
(* names), the person key, the direct identifiers, the domains of columns,  *)
(* the edges of range rules, and its views: the kinds of their dimensions   *)
(* and internal filters, their measures, their joins (a key and the table   *)
(* it points at), and which base column each public column shows.  The      *)
(* arguments a give numbers of persons and rows, ranges, and bands derived. *)
(*                                                                         *)
(* A draw is random: a column is the set `can` of the values it may have    *)
(* and the set `must` of those it surely has.  A value is a pair or triple   *)
(* that begins with its sort.  Numbers, bounds and edges are in thousandths, *)
(* so that a bound may be finer than what is drawn within it.               *)
(***************************************************************************)
EXTENDS Integers, Sequences, FiniteSets, FiniteSetsExt, Functions, SequencesExt

Thousand == 1000
Cent == 10

FallbackRange == <<0, 100 * Thousand>>
MinEntityRows == 8
EntityRowsPerPerson == 50

Person(i) == <<"person", i>>
Key(column, i) == <<"key", column, i>>
Placeholder(column, i) == <<"row", column, i>>
Booleans == {"bool"} \X BOOLEAN
Numbers(b) == {"num"} \X (b[1]..b[2])

-----------------------------------------------------------------------------
(* What each column is                                                      *)

TableNames(d) == Range(d.names)
BaseColumns(d) == UNION {d.tables[t] : t \in TableNames(d)}

\* _declared_kinds: an explicit kind outranks the role of a measure.
ExplicitKinds(d, c) ==
    UNION {{m[c] : m \in {m \in {v.dims, v.filters} : c \in DOMAIN m}} : v \in d.views}
KindsAgree(d) == \A c \in BaseColumns(d) : Cardinality(ExplicitKinds(d, c)) <= 1
KindOf(d, c) ==
    LET kinds == ExplicitKinds(d, c)
              \cup {k \in {"num"} : ExplicitKinds(d, c) = {} /\ \E v \in d.views : c \in v.measures}
    IN  IF kinds = {} THEN "none" ELSE CHOOSE k \in kinds : TRUE

\* _numeric_bounds: the caller, the edges of every operator, the fallback.
Edges(d, c) == UNION {Range(d.rules[c][op]) : op \in DOMAIN d.rules[c]}
NumericBounds(d, a, c) ==
    IF c \in DOMAIN a.ranges THEN a.ranges[c]
    ELSE IF c \in DOMAIN d.rules /\ Edges(d, c) # {} THEN <<Min(Edges(d, c)), Max(Edges(d, c))>>
    ELSE FallbackRange

-----------------------------------------------------------------------------
(* Rows and keys                                                            *)

\* The joins that are on no person key: a key has one owning table.
Joins(d) == {j \in UNION {v.joins : v \in d.views} : j[1] # d.person}
OwnersAgree(d) == \A i, j \in Joins(d) : i[1] = j[1] => i = j
OwnedKeys(d) == {j[1] : j \in Joins(d)}
Owner(d, key) == (CHOOSE j \in Joins(d) : j[1] = key)[2]

Widest(d, t) == Max({0} \cup {Len(d.domains[c]) : c \in d.tables[t] \cap DOMAIN d.domains})

\* Mutant: a number of rows that was asked for is taken as it is.
RowCountAsAsked(d, a, t) ==
    CASE t \in DOMAIN a.rows -> a.rows[t]
      [] t \notin DOMAIN a.rows /\ d.person \in d.tables[t] -> Max({a.persons, Widest(d, t)})
      [] OTHER -> Max({MinEntityRows, a.persons \div EntityRowsPerPerson, Widest(d, t)})

\* row_count: never fewer than the widest declared domain has levels.
RowCount(d, a, t) ==
    CASE t \in DOMAIN a.rows -> Max({a.rows[t], Widest(d, t)})
      [] t \notin DOMAIN a.rows /\ d.person \in d.tables[t] -> Max({a.persons, Widest(d, t)})
      [] OTHER -> Max({MinEntityRows, a.persons \div EntityRowsPerPerson, Widest(d, t)})

\* Owning tables are generated first, each group in the order of the names.
Before(d, t, u) ==
    LET owning(x) == x \in {j[2] : j \in Joins(d)}
        place(x) == CHOOSE i \in DOMAIN d.names : d.names[i] = x
    IN  \/ owning(t) /\ ~owning(u)
        \/ owning(t) = owning(u) /\ place(t) < place(u)

-----------------------------------------------------------------------------
(* Generation                                                               *)

\* _cover_draw: every value of the pool before any of them twice.
CoverDraw(pool, n) ==
    [can |-> {v \in pool : n > 0}, must |-> {v \in pool : n >= Cardinality(pool)}]
AnyOf(values, n) == [can |-> {v \in values : n > 0}, must |-> {}]
All(values) == [can |-> values, must |-> values]

\* A whole number is drawn between the bounds without their fractions, a real
\* one between the bounds and then rounded to a cent, either way from a half.
Cut(x) == IF x >= 0 THEN x \div Thousand ELSE -((-x) \div Thousand)
Drawn(kind, b) ==
    {"num"} \X IF kind = "int" THEN {Thousand * k : k \in Cut(b[1])..Cut(b[2])}
               ELSE {Cent * k : k \in ((b[1] + 4) \div Cent)..((b[2] + 5) \div Cent)}

KeyPool(d, a, key) == {Key(key, i) : i \in 1..RowCount(d, a, Owner(d, key))}

\* _column_values, where it returns.
ColumnValues(d, a, t, c) ==
    LET n == RowCount(d, a, t) IN
    IF c = d.person THEN CoverDraw({Person(i) : i \in 1..a.persons}, n)
    ELSE IF c \in OwnedKeys(d)
    THEN IF Owner(d, c) = t THEN All(KeyPool(d, a, c)) ELSE CoverDraw(KeyPool(d, a, c), n)
    ELSE IF c \in DOMAIN d.domains THEN CoverDraw(Range(d.domains[c]), n)
    ELSE CASE KindOf(d, c) = "bool" -> AnyOf(Booleans, n)
           [] KindOf(d, c) \in {"int", "num"} -> AnyOf(Drawn(KindOf(d, c), NumericBounds(d, a, c)), n)
           [] OTHER -> All({Placeholder(c, i) : i \in 1..n})

\* ShadowError while a column is drawn: a key before its pool, and a category
\* nobody wrote the levels of.
ColumnRefused(d, a, t, c) ==
    /\ c # d.person
    /\ \/ c \in OwnedKeys(d) /\ Owner(d, c) # t
          /\ ~(c \in d.tables[Owner(d, c)] /\ Before(d, Owner(d, c), t))
       \/ c \notin OwnedKeys(d) \cup DOMAIN d.domains /\ KindOf(d, c) = "cat"

\* _band: the labels and the edges are paired by position.
BandsDeclared(d, t, banded, source) ==
    /\ source \in d.tables[t] /\ banded \in DOMAIN d.domains /\ d.domains[banded] # <<>>
    /\ source \in DOMAIN d.rules /\ {">=", "<="} \subseteq DOMAIN d.rules[source]
    /\ Len(d.rules[source][">="]) = Len(d.domains[banded])
    /\ Len(d.rules[source]["<="]) = Len(d.domains[banded])
BandsOf(d, banded, source, v) ==
    {i \in DOMAIN d.domains[banded] : d.rules[source][">="][i] <= v[2] /\ v[2] <= d.rules[source]["<="][i]}
Label(d, banded, source, v) == d.domains[banded][Min(BandsOf(d, banded, source, v))]
Unbanded(d, banded, source, drawn) == {v \in drawn.can : BandsOf(d, banded, source, v) = {}}
Banded(d, banded, source, drawn) ==
    [can |-> {Label(d, banded, source, v) : v \in drawn.can \ Unbanded(d, banded, source, drawn)},
     must |-> {}]

\* A table's column as it leaves the generator.
Generated(d, a, t, c) ==
    IF c \in DOMAIN a.derive THEN Banded(d, c, a.derive[c], ColumnValues(d, a, t, a.derive[c]))
    ELSE ColumnValues(d, a, t, c)

Cells(d) == UNION {{t} \X d.tables[t] : t \in TableNames(d)}

\* The refusals before verification: of the declarations and the arguments, of
\* a column, of a derivation that is not declared.
Refused(d, a) ==
    \/ a.persons < 1 \/ ~(DOMAIN a.rows \subseteq TableNames(d))
    \/ ~KindsAgree(d) \/ ~OwnersAgree(d)
    \/ \E t \in TableNames(d) : RowCount(d, a, t) < 0
    \/ \E x \in Cells(d) : ColumnRefused(d, a, x[1], x[2])
    \/ ~(DOMAIN a.derive \subseteq BaseColumns(d))
    \/ \E x \in Cells(d) : x[2] \in DOMAIN a.derive /\ ~BandsDeclared(d, x[1], x[2], a.derive[x[2]])

\* A derivation fails by chance when a value drawn for its source is in no band.
MayFallOutside(d, a) ==
    \E x \in Cells(d) : x[2] \in DOMAIN a.derive
        /\ Unbanded(d, x[2], a.derive[x[2]], ColumnValues(d, a, x[1], a.derive[x[2]])) # {}

IsNumber(d, c) ==
    c \notin OwnedKeys(d) \cup {d.person} \cup DOMAIN d.domains /\ KindOf(d, c) \in {"int", "num"}

\* No whole number between the bounds, or bounds the wrong way round.
NothingBetween(kind, b) == IF kind = "int" THEN Cut(b[1]) > Cut(b[2]) ELSE b[1] > b[2]

\* A draw from a pool that has nothing raises, and so does one between bounds
\* with nothing between them (or, for reals, the verification of it).
DrawsFromNothing(d, a) ==
    \E x \in Cells(d) :
        /\ RowCount(d, a, x[1]) > 0
        /\ \/ x[2] \in OwnedKeys(d) /\ Owner(d, x[2]) # x[1] /\ KeyPool(d, a, x[2]) = {}
           \/ IsNumber(d, x[2]) /\ NothingBetween(KindOf(d, x[2]), NumericBounds(d, a, x[2]))

-----------------------------------------------------------------------------
(* verify_shadow                                                            *)

\* The values a column of the base tables may have.
Permits(d, a, c, v) ==
    IF c \in DOMAIN d.domains THEN v \in Range(d.domains[c])
    ELSE IF c = d.person THEN v \in {Person(i) : i \in 1..a.persons}
    ELSE CASE KindOf(d, c) = "bool" -> v \in Booleans
           [] KindOf(d, c) \in {"int", "num"} -> v \in Numbers(NumericBounds(d, a, c))
           [] OTHER -> v \in {Key(c, v[3]), Placeholder(c, v[3])}

\* The public columns of the views, each with the base column it shows.
Shown(d) == UNION {{<<out, v.columns[out]>> : out \in DOMAIN v.columns} : v \in d.views}
CarriesPersons(d, a, s) == s[2] = d.person

\* It compares a key of a numeric kind with its bounds, which raises: no build
\* either.
MayFailVerification(d, a) ==
    \/ \E x \in Cells(d) : \E v \in Generated(d, a, x[1], x[2]).can : ~Permits(d, a, x[2], v)
    \/ \E s \in Shown(d) : s[1] \in d.identifiers \/ CarriesPersons(d, a, s)

=============================================================================
