------------------------------ MODULE Narratives ------------------------------
(***************************************************************************)
(* The figures of an analyst's prose: the correction of p-values for the    *)
(* number of tests, the numbers that were released, and whether a figure is *)
(* an ordinary rounding of one of them.                                     *)
(*                                                                         *)
(* Numbers have two decimals and are counted in hundredths; the tie of a    *)
(* rounding goes to the even neighbour, as it does where the decimal is     *)
(* exact.  A figure is its value and the number of decimals it is written   *)
(* with.  A step has its rows, maps of columns to numbers, texts (the       *)
(* numbers written in one).  An adjusted p-value is rounded to the last      *)
(* place there is; signs, separators and spaces in a text are left out.     *)
(***************************************************************************)
EXTENDS Cohorts, SequencesExt

-----------------------------------------------------------------------------
(* Multiple tests                                                           *)

Certain == 100
\* A multiple of every rank of at most four tests.
Parts == 12

\* The place of a p-value in ascending order, the earlier first among equals.
RankOf(p, i) ==
    Cardinality({j \in DOMAIN p : p[j] # Missing /\ (p[j] < p[i] \/ (p[j] = p[i] /\ j <= i))})
Live(p) == {i \in DOMAIN p : p[i] # Missing}

\* benjamini_hochberg, in parts of a hundredth.
BenjaminiHochberg(p) ==
    [i \in DOMAIN p |->
        IF p[i] = Missing THEN Missing
        ELSE Min({Certain * Parts} \cup {p[j] * Cardinality(Live(p)) * (Parts \div RankOf(p, j)) :
                                             j \in {j \in Live(p) : RankOf(p, j) >= RankOf(p, i)}})]

-----------------------------------------------------------------------------
(* Released numbers                                                         *)

RowsOfSteps(steps) == UNION {Range(s.rows) : s \in Range(steps)}

\* correct_multiplicity: one test is not corrected.
PValues(steps) ==
    LET rows == FlattenSeq([i \in DOMAIN steps |-> steps[i].rows])
    IN  SelectSeq([i \in DOMAIN rows |-> IF "p_value" \in DOMAIN rows[i] THEN rows[i].p_value[2] ELSE Missing],
                  LAMBDA p : p # Missing)
Multiplicity(steps) ==
    IF Len(PValues(steps)) < 2 THEN <<>> ELSE BenjaminiHochberg(PValues(steps))

\* released_numbers: a value is <<"number", x>> or <<"text", numbers in it>>.
NumbersIn(value) ==
    CASE value[1] = "number" -> {value[2]} \ {Missing}
      [] value[1] = "text" -> value[2]
ReleasedNumbers(steps) ==
    UNION {NumbersIn(row[c]) : <<row, c>> \in {x \in RowsOfSteps(steps) \X {"p_value", "value", "band"} :
                                                  x[2] \in DOMAIN x[1]}}
    \cup {RoundTo(a, Parts) \div Parts : a \in Range(Multiplicity(steps))}

-----------------------------------------------------------------------------
(* check_narrative                                                          *)

\* One unit of a place: the hundredths for two decimals, thousands for -3.
Unit(decimals) == IF decimals >= 2 THEN 1 ELSE 10 ^ (2 - decimals)

\* The exponent of the first digit, of a number that is not zero.
Magnitude10(x) == Max({e \in -2..5 : Unit(-e) <= (IF x < 0 THEN -x ELSE x)})

\* The digits of the figure but for its outer zeros: 10,200 has three and 48.0
\* has two.
Significant(x) ==
    IF x = 0 THEN 1
    ELSE Magnitude10(x) + 1 - Max({e \in -2..5 : x % Unit(-e) = 0})

\* _rounds_to: at the decimals of the figure or at its significant digits.
RoundsTo(x, figure) ==
    \/ x = figure.value
    \/ RoundTo(x, Unit(figure.decimals)) = figure.value
    \/ x # 0 /\ RoundTo(x, Unit(Significant(figure.value) - 1 - Magnitude10(x))) = figure.value

\* Months, waves and conventional thresholds (0.05 and 0.01).
Ordinary(value) == value \in {100 * i : i \in 0..12} \cup {5, 1}

\* A share may be written as a percentage.
Derived(released) == released \cup {100 * r : r \in {r \in released : 0 <= r /\ r <= 100}}

\* The figures of a text that no released number stands behind.
CheckNarrative(steps, figures) ==
    {f \in figures : /\ ~Ordinary(f.value)
                     /\ \A x \in Derived(ReleasedNumbers(steps)) : ~RoundsTo(x, f)}

=============================================================================
