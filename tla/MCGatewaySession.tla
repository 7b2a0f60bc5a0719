-------------------------- MODULE MCGatewaySession --------------------------
(***************************************************************************)
(* A small study for GatewaySession: six donors on two views.  "norare"    *)
(* leaves one donor out, "half" leaves out three.  The queries hold a      *)
(* plain query, a model whose first role is the other half of a            *)
(* differencing pair on the second view and whose second role is optional, *)
(* and a count whose total is too close to the plain query's.              *)
(***************************************************************************)
EXTENDS GatewaySession, TLC

CONSTANTS u1, u2, t1, t2

Donors == 1..6

Selected(filters) ==
    CASE filters = "all" -> Donors
      [] filters = "norare" -> Donors \ {6}
      [] filters = "half" -> {1, 2, 3}

\* The donors exactly one of the two cohorts selects.
MCBound ==
    [pair \in Cohort \X Cohort |->
        LET a == Selected(pair[1].filters)
            b == Selected(pair[2].filters)
        IN  Cardinality((a \ b) \cup (b \ a))]

Agg(dataset, filters, quantity, measure, total) ==
    [cohort |-> [dataset |-> dataset, filters |-> filters, quantity |-> quantity],
     observed |-> [measure |-> measure, total |-> total]]

Plain(agg) == [kind |-> "plain", aggs |-> <<agg>>, optional |-> {}]

\* The sum of the declared quantity over everybody, on the first view.
SumAll == Plain(Agg("d1", "all", "spend", "sum", 6))

\* A total within the threshold of SumAll's, over an unrelated cohort.
CountHalf == Plain(Agg("d2", "half", NoQuantity, "sum", 5))

\* Its first role is the same quantity on the second view without one donor.
Model ==
    [kind |-> "model",
     aggs |-> <<Agg("d2", "norare", "spend", "r1", 5),
                Agg("d1", "half", NoQuantity, "r2", 3)>>,
     optional |-> {2}]

MCQueries == {SumAll, CountHalf, Model}

\* The two halves of a differencing pair, and a model.
MCFewQueries == {SumAll, Model}

ThreadSymmetry == Permutations(Threads)

=============================================================================
