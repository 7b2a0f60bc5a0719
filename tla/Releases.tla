------------------------------ MODULE Releases ------------------------------
(***************************************************************************)
(* What leaves the gateway, for every table of cells: a state is one        *)
(* question (a table with the verdicts on it, or two tables that rounding   *)
(* makes the same), a property says what the answer must be.                *)
(***************************************************************************)
EXTENDS Suppression, Differences

CONSTANTS
    Par,                \* the bounds in force
    Frames,             \* tables of cells
    Counts,             \* counts a cell may have instead of its own
    OtherVerdicts(_)    \* what another vetter, such as an external checker, says of a table

CellNumbers == Nat \cup {Missing}
KeyLevels == (Nat \ {0}) \cup {Missing}
Cell == [n : CellNumbers, donors : CellNumbers, share : CellNumbers, influence : CellNumbers, finite : BOOLEAN]

\* A table the engine may answer with: numbers or nothing in finitely many
\* cells, a level in each key column, and the two counts beside them.
IsFrame(f) ==
    /\ f = [cells |-> f.cells, columns |-> f.columns, domains |-> f.domains,
            known |-> f.known, class |-> f.class]
    /\ IsFiniteSet(DOMAIN f.cells)
    /\ f.cells \in [DOMAIN f.cells -> Cell]
    /\ CountColumns \subseteq f.columns
    /\ f.domains \in Seq({Missing} \cup SUBSET KeyLevels)
    /\ \A k \in DOMAIN f.cells : k \in [1..Width(f) -> KeyLevels]

\* What another vetter finds is resolved by withholding cells or denies: the
\* one medium finding a checker can cause is suppressable.
IsVerdict(v, f) ==
    /\ v.suppress \subseteq DOMAIN f.cells
    /\ \A x \in v.findings : x.severity = "medium" => x.suppressable

ASSUME ReleasesAssumption ==
    /\ Missing \notin Int
    /\ Par.threshold \in Nat /\ Par.base \in Nat \ {0} /\ Par.rows \in Nat
    /\ \A f \in Frames : IsFrame(f) /\ \A v \in OtherVerdicts(f) : IsVerdict(v, f)
    /\ Counts \subseteq Nat

-----------------------------------------------------------------------------

AskTable ==
    \E f \in Frames : \E v \in OtherVerdicts(f) :
        asked' = [about |-> "table", frame |-> f,
                  applied |-> Apply(f, CompositeVetter(StandinVetter(f, Par), v), Par)]

TableKeys(applied) == {applied.table[i].key : i \in DOMAIN applied.table}

\* A cell that leaves passed every rule of the stand-in, an unresolved witness
\* failing each, whatever another vetter and complementary suppression did to
\* the cells around it (_suppression_hits, CompositeVetter, apply).
ReleasedCellsSafe ==
    Is("table") =>
        /\ \A k \in TableKeys(asked.applied) :
              LET c == asked.frame.cells[k]  columns == asked.frame.columns IN
              /\ c.n # Missing /\ c.n >= Par.threshold
              /\ c.donors # Missing /\ c.donors >= Par.threshold
              /\ "value" \in columns => c.finite
              /\ "dominance" \in columns =>
                    /\ c.share # Missing
                    /\ c.share <= IF asked.frame.class = "moment2" /\ Par.moment2 # Missing
                                  THEN Par.moment2 ELSE Par.dominance
              /\ "influence" \in columns => c.influence # Missing /\ c.influence <= Par.influence
              /\ asked.frame.known =>
                    \A i \in DOMAIN k : asked.frame.domains[i] # Missing =>
                        k[i] \in asked.frame.domains[i] \cup {Missing}
        /\ "identifier" \in asked.frame.columns => asked.applied.table = <<>>

\* No total that a coarser query could give has exactly one withheld cell
\* beside released ones: the whole of a one-way table, each level of a column
\* that has a value otherwise (_secondary_suppress).
NoLoneCell ==
    Is("table") =>
        LET left == TableKeys(asked.applied)  all == DOMAIN asked.frame.cells
            safe(s) == Cardinality(s \ left) = 1 => s \cap left = {}
        IN  IF Width(asked.frame) = 1 THEN safe(all)
            ELSE \A i \in 1..Width(asked.frame), l \in all :
                    l[i] # Missing => safe({k \in all : k[i] = l[i]})

\* A table is sent to a human exactly when the cells that leave are too many,
\* not when the candidates were (_granularity, hitl_decision).
ReviewedByRelease ==
    Is("table") =>
        LET rows == Len(asked.applied.table) IN
        /\ Decide(asked.applied, FALSE) = "review" => rows > Par.rows
        /\ Decide(asked.applied, FALSE) \in {"released", "redacted"} => 0 < rows /\ rows <= Par.rows

AskTwins ==
    \E f \in Frames : \E k \in DOMAIN f.cells, m \in Counts :
        LET c == f.cells[k] IN
        /\ c.n # Missing /\ c.n >= Par.threshold /\ c.donors # Missing /\ c.donors >= Par.threshold
        /\ m # c.n /\ m >= Par.threshold /\ RoundTo(m, Par.base) = RoundTo(c.n, Par.base)
        /\ asked' = [about |-> "twins", one |-> f,
                     two |-> [f EXCEPT !.cells[k] = [@ EXCEPT !.n = m, !.donors = m]]]

\* Two tables that differ only in what rounding erases are released alike: the
\* rows, their order and the cell given up are no trace of an exact count
\* (_finalize, _sacrifice; hardening #27 and #28).
ReleaseOfRounded ==
    Is("twins") =>
        LET release(f) == Apply(f, StandinVetter(f, Par), Par)
        IN  release(asked.one) = release(asked.two)

\* What leaves is safe cell by cell, by subtraction, for the number of its rows
\* and as a trace of what was rounded.
ReleaseSafe == ReleasedCellsSafe /\ NoLoneCell /\ ReviewedByRelease /\ ReleaseOfRounded

AskRelease == AskTable \/ AskTwins
Releases == Unasked /\ [][AskRelease]_asked

=============================================================================
