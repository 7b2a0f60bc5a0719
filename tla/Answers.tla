------------------------------- MODULE Answers -------------------------------
(***************************************************************************)
(* What one aggregate tells, for every table and every question: a state is *)
(* one question with the frame the engine makes of it and what is left of   *)
(* it, a property says what both must be.                                   *)
(***************************************************************************)
EXTENDS QueryEngine, Releases

CONSTANT Surveys        \* sets of tables, each with the questions put to its tables

\* A count reads no column, a correlation two, the other procedures one.
Arity(fn) == IF fn = "count" THEN 0 ELSE IF fn = "corr" THEN 2 ELSE 1

\* A measure is a whole number or missing; a column that is grouped by has a
\* level, and a declared domain of levels or none.
IsQuestion(t, q) ==
    /\ IsFiniteSet(DOMAIN t)
    /\ q.fn \in DOMAIN Procedure
    /\ DOMAIN q.columns = 1..Arity(q.fn)
    /\ \A c \in Range(q.columns), i \in DOMAIN t : t[i].at[c] \in Int \cup {Missing}
    /\ q.by \in Seq(Range(q.by))
    /\ \A c \in Range(q.by) : /\ DomainOf[c] \in {Missing} \cup SUBSET KeyLevels
                              /\ \A i \in DOMAIN t : t[i].at[c] \in KeyLevels

\* The smallest cell has someone in it, or the process does not start.
ASSUME AnswersAssumption ==
    /\ \A s \in Surveys : \A t \in s.tables, q \in s.questions : IsQuestion(t, q)
    /\ Par.threshold >= 1
    /\ Par.dominance \in Nat /\ Par.moment2 \in Nat \cup {Missing}

AskAnswer ==
    \E s \in Surveys : \E t \in s.tables, q \in s.questions :
        LET f == Run(t, q, DomainOf) IN
        asked' = [about |-> "answer", table |-> t, question |-> q, frame |-> f,
                  applied |-> Apply(f, StandinVetter(f, Par), Par)]

\* What the engine makes of any question is a table that Releases speaks of, so
\* what holds of every such table holds of every answer (run, cell_context).
AnswersAreFrames == Is("answer") => IsFrame(asked.frame)

\* Every query behind one answer describes the same rows: the people counted
\* are the people the value is made of, and a checker is given those people
\* and amounts that add up to it (select_exprs, _measure_guards, hardening #92).
OneSetOfRows ==
    Is("answer") =>
        \A k \in DOMAIN asked.frame.cells :
            LET given == CheckerFrame(asked.table, asked.question)
                people == IF k \in DOMAIN given THEN DOMAIN given[k] ELSE {}
            IN  /\ asked.frame.cells[k].donors = Cardinality(people)
                /\ Additive(asked.question) /\ people # {} =>
                      Value(asked.table, asked.question, k) = SumFunction(given[k])

\* The amounts of a cell without their signs, and the share of a total that the
\* rules allow one person (VettingParameters.dominance_for).
Unsigned(c) == [d \in DOMAIN c |-> Magnitude(c[d])]
ShareBound(q) == IF q.fn = "sum_sq" /\ Par.moment2 # Missing THEN Par.moment2 ELSE Par.dominance

\* A number that leaves is nobody's own.  Of a released total that is not zero
\* no person is more than the bound, whatever the signs; of one that is zero no
\* person is more than the bound of all that was given to it, and something was;
\* and a released correlation can still be computed without any one person
\* (compile_dominance_query, compile_influence_query; hardening #41, #93, #94).
NobodysNumber ==
    Is("answer") =>
        \A k \in TableKeys(asked.applied) : LET q == asked.question IN
            /\ Additive(q) =>
                  LET c == CheckerFrame(asked.table, q)[k]
                      total == Magnitude(SumFunction(c))
                      given == SumFunction(Unsigned(c))
                      whole == IF total = 0 THEN given ELSE total
                  IN  /\ Cardinality(DOMAIN c) >= Par.threshold
                      /\ given > 0
                      /\ \A d \in DOMAIN c : 100 * Magnitude(c[d]) <= ShareBound(q) * whole
            /\ q.fn = "corr" =>
                  \A d \in DonorsOf(asked.table, DOMAIN asked.table) :
                      LET cell == InCell(asked.table, RowsOf(asked.table, q, Guards(q)), q, k)
                          rest == {i \in cell : asked.table[i].donor # d}
                      IN  Cardinality(rest) >= 3 /\ Varies(asked.table, rest, q)

\* What the comment beside the two shares says (engine.py:200-202): a cell whose
\* total is zero is withheld, since such a total bounds nobody's share of
\* anything.
ZeroTotalWithheld ==
    Is("answer") =>
        \A k \in TableKeys(asked.applied) :
            Additive(asked.question) => SumFunction(CheckerFrame(asked.table, asked.question)[k]) # 0

\* The numbers that are vetted are about the rows of the number released.
AnswersSound == AnswersAreFrames /\ OneSetOfRows /\ NobodysNumber

Answers == Unasked /\ [][AskAnswer]_asked

=============================================================================
