------------------------ MODULE GatewaySessionProofs ------------------------
(***************************************************************************)
(* Proofs about GatewaySession, for every set of users, threads, queries,  *)
(* every Bound, Threshold and Budget, every failure and any number of      *)
(* restarts.  The first half is about what may be observed: the bound on   *)
(* differences of cohorts.  The second is about what is paid and given:    *)
(* one row per request, every cohort and every aggregate paid for          *)
(* beforehand, one cost model between the running process and a restart,   *)
(* and the ledger of releases implemented.                                 *)
(***************************************************************************)
EXTENDS GatewaySession, RunningTotalsProofs, SequenceTheorems, FiniteSetTheorems, TLAPS

-----------------------------------------------------------------------------
(***************************************************************************)
(* The bounded history.                                                    *)
(***************************************************************************)

LEMMA RememberFacts ==
    ASSUME NEW past \in Seq(Observation), NEW totals \in Seq(Observation)
    PROVE  /\ Remember(past, totals) \in Seq(Observation)
           /\ Len(Remember(past, totals)) <= Len(past) + Len(totals)
           /\ Len(past) + Len(totals) <= MaxHistory =>
                  Remember(past, totals) = past \o totals
<1> DEFINE all == past \o totals
           excess == IF Len(all) > MaxHistory THEN Len(all) - MaxHistory ELSE 0
<1>1. all \in Seq(Observation) /\ Len(all) = Len(past) + Len(totals)
    BY ConcatProperties
<1>2. MaxHistory \in Nat /\ Len(past) \in Nat /\ Len(totals) \in Nat
    BY LenProperties, SessionAssumption
<1>3. /\ excess \in Nat /\ excess <= Len(all)
      /\ Len(all) <= MaxHistory => excess = 0
    BY <1>1, <1>2
<1>4. Remember(past, totals) = SubSeq(all, excess + 1, Len(all))
    BY DEF Remember
<1> HIDE DEF all, excess
<1>5. SubSeq(all, 1, Len(all)) = all
    BY <1>1, SubSeqFull
<1>6. \A i \in excess + 1 .. Len(all) : all[i] \in Observation
    BY <1>1, <1>2, <1>3, ElementOfSeq
<1>7. /\ SubSeq(all, excess + 1, Len(all)) \in Seq(Observation)
      /\ Len(SubSeq(all, excess + 1, Len(all))) = Len(all) - excess
    BY <1>1, <1>2, <1>3, <1>6, SubSeqProperties
<1>8. Len(all) <= MaxHistory => Remember(past, totals) = all
    BY <1>3, <1>4, <1>5
<1>9. Len(past) + Len(totals) <= MaxHistory => Remember(past, totals) = past \o totals
    BY <1>1, <1>8 DEF all
<1>10. Len(Remember(past, totals)) <= Len(past) + Len(totals)
    BY <1>1, <1>2, <1>3, <1>4, <1>7
<1> QED BY <1>4, <1>7, <1>9, <1>10

-----------------------------------------------------------------------------
(***************************************************************************)
(* The constants.                                                          *)
(***************************************************************************)

LEMMA QueryFacts ==
    ASSUME NEW q \in Queries
    PROVE  /\ q.aggs \in Seq(Aggregate)
           /\ Len(q.aggs) \in Nat \ {0}
           /\ DOMAIN q.aggs = 1 .. Len(q.aggs)
           /\ \A i \in DOMAIN q.aggs :
                  q.aggs[i].cohort \in Cohort /\ q.aggs[i].observed \in Observation
<1>1. q.aggs \in Seq(Aggregate) /\ Len(q.aggs) >= 1
    BY SessionAssumption DEF Query
<1>2. Len(q.aggs) \in Nat /\ DOMAIN q.aggs = 1 .. Len(q.aggs)
    BY <1>1, LenProperties
<1>3. \A i \in DOMAIN q.aggs : q.aggs[i] \in Aggregate
    BY <1>1, <1>2, ElementOfSeq
<1> QED BY <1>1, <1>2, <1>3 DEF Aggregate

LEMMA AnyQueryFacts == AnyQuery \in Queries
    BY SessionAssumption DEF AnyQuery

-----------------------------------------------------------------------------
(***************************************************************************)
(* Types.                                                                  *)
(***************************************************************************)

LEMMA TypeInit == Init => TypeOK
<1> SUFFICES ASSUME Init PROVE TypeOK
    OBVIOUS
<1>1. 1 \in DOMAIN AnyQuery.aggs
    BY AnyQueryFacts, QueryFacts
<1> QED BY <1>1, AnyQueryFacts, SessionAssumption
        DEF Init, TypeOK, PerUser, PerThread, Status, ReleasedStatus

LEMMA RowsTyped ==
    ASSUME TypeOK, NEW t \in Threads, before[t] <= spent[who[t]]
    PROVE  OutcomeRow(t) \in Row /\ ErrorRow(t) \in Row /\ ConfigRow \in Row
<1>1. spent[who[t]] - before[t] \in Nat
    BY DEF TypeOK
<1> QED BY <1>1, SessionAssumption
        DEF TypeOK, OutcomeRow, ErrorRow, ConfigRow, Row, Status, ReleasedStatus

\* A request's session has spent no less than when the request entered.
LEMMA NeverRefunded ==
    ASSUME TypeOK, PaidFor, NEW t \in Threads
    PROVE  before[t] <= spent[who[t]]
<1>1. Len(seen[t]) \in Nat
    BY LenProperties DEF TypeOK
<1>2. before[t] \in Nat /\ spent[who[t]] \in Nat
    BY DEF TypeOK
<1>3. before[t] + Len(seen[t]) <= spent[who[t]]
    BY DEF PaidFor
<1> QED BY <1>1, <1>2, <1>3

LEMMA FrameTyped ==
    ASSUME TypeOK, NEW t \in Threads, NEW u \in Users, NEW q \in Queries,
           NEW now \in Nat, Frame(t, u, q, now)
    PROVE  /\ who' \in [Threads -> Users]
           /\ query' \in [Threads -> Queries]
           /\ role' \in [Threads -> Nat]
           /\ \A x \in Threads : role'[x] \in DOMAIN query'[x].aggs
           /\ before' \in [Threads -> Nat]
           /\ kept' \in [Threads -> SUBSET Cohort]
           /\ seen' \in [Threads -> Seq(Observation)]
           /\ out' \in [Threads -> Status]
           /\ written' \in [Threads -> Nat]
           /\ rowAt' \in [Threads -> Nat]
<1>1. 1 \in DOMAIN q.aggs
    BY QueryFacts
<1>2. \A x \in Threads : role'[x] \in DOMAIN query'[x].aggs
    BY <1>1 DEF TypeOK, Frame
<1>3. /\ who' \in [Threads -> Users]
      /\ query' \in [Threads -> Queries]
      /\ role' \in [Threads -> Nat]
    BY DEF TypeOK, Frame
<1>4. before' \in [Threads -> Nat]
    BY DEF TypeOK, Frame
<1>5. kept' \in [Threads -> SUBSET Cohort]
    BY DEF TypeOK, Frame
<1>6. seen' \in [Threads -> Seq(Observation)]
    BY DEF TypeOK, Frame
<1>7. /\ out' \in [Threads -> Status]
      /\ written' \in [Threads -> Nat]
      /\ rowAt' \in [Threads -> Nat]
    BY DEF TypeOK, Frame, Status, ReleasedStatus
<1> QED BY <1>2, <1>3, <1>4, <1>5, <1>6, <1>7

LEMMA CommitTyped ==
    ASSUME TypeOK, NEW t \in Threads, NEW row \in Row,
           NEW next \in {"return", "error", "retry"}, Commit(t, row, next)
    PROVE  /\ log' \in Seq(Row) /\ Len(log') = Len(log) + 1
           /\ rowAt' \in [Threads -> Nat]
           /\ written' \in [Threads -> Nat]
           /\ pc' \in [Threads -> {"idle", "gates", "role", "decide", "append",
                                   "error", "errorRow", "retry", "return"}]
    BY DEF TypeOK, Commit

LEMMA RowFacts ==
    ASSUME TypeOK, NEW i \in DOMAIN log
    PROVE  /\ i \in Nat /\ 1 <= i /\ i <= Len(log) /\ Len(log) \in Nat
           /\ DOMAIN log = 1 .. Len(log)
           /\ log[i].user \in Users /\ log[i].cost \in Nat
           /\ log[i].cohorts \in SUBSET Cohort
           /\ log[i].totals \in Seq(Observation)
<1>1. log \in Seq(Row) /\ Len(log) \in Nat /\ DOMAIN log = 1 .. Len(log)
    BY LenProperties DEF TypeOK
<1>2. log[i] \in Row
    BY <1>1, ElementOfSeq
<1> QED BY <1>1, <1>2 DEF Row

\* What one aggregate can do to its request: go on to the next role, settle
\* the status, or end in a refusal.  Only an unflagged one goes on.
LEMMA ObserveCases ==
    ASSUME NEW t \in Threads, NEW v, Observe(t, v)
    PROVE  LET u == who[t]
               agg == query[t].aggs[role[t]]
           IN
           /\ pc[t] = "role"
           /\ spent' = [spent EXCEPT ![u] = @ + 1]
           /\ history' = [history EXCEPT ![u] = Remember(@, <<agg.observed>>)]
           /\ seen' = [seen EXCEPT ![t] = Append(@, agg.observed)]
           /\ UNCHANGED <<phase, cursor, forgotten, crashes, cohorts, lock, log,
                          who, query, before, delivered, written, rowAt, gap>>
           /\ \/ /\ ~Flagged(u, agg)
                 /\ kept' = kept \/ kept' = [kept EXCEPT ![t] = @ \cup {agg.cohort}]
                 /\ \/ /\ role[t] # Len(query[t].aggs)
                       /\ role' = [role EXCEPT ![t] = @ + 1]
                       /\ pc' = [pc EXCEPT ![t] = "role"]
                       /\ out' = out
                    \/ /\ role' = role
                       /\ pc' = [pc EXCEPT ![t] = "decide"]
                       /\ \/ out' = [out EXCEPT ![t] = "released"]
                          \/ out' = [out EXCEPT ![t] = "redacted"]
              \/ /\ pc' = [pc EXCEPT ![t] = "append"]
                 /\ UNCHANGED <<kept, role, out>>
<1> DEFINE q == query[t]
           agg == q.aggs[role[t]]
           last == role[t] = Len(q.aggs)
           clear == ~Flagged(who[t], agg)
           keep == clear /\ v \in (IF q.kind = "plain" THEN {"release", "redacted"}
                                   ELSE {"release"})
           skip == clear /\ v \notin (IF q.kind = "plain" THEN {"release", "redacted"}
                                      ELSE {"release"}) /\ role[t] \in q.optional
           status == IF v = "redacted" /\ q.kind = "plain" THEN "redacted" ELSE "released"
<1>1. /\ pc[t] = "role"
      /\ spent' = [spent EXCEPT ![who[t]] = @ + 1]
      /\ history' = [history EXCEPT ![who[t]] = Remember(@, <<agg.observed>>)]
      /\ seen' = [seen EXCEPT ![t] = Append(@, agg.observed)]
      /\ UNCHANGED <<phase, cursor, forgotten, crashes, cohorts, lock, log,
                     who, query, before, delivered, written, rowAt, gap>>
    BY DEF Observe, aux
<1>2. IF keep \/ skip
      THEN /\ kept' = IF keep THEN [kept EXCEPT ![t] = @ \cup {agg.cohort}] ELSE kept
           /\ role' = IF last THEN role ELSE [role EXCEPT ![t] = @ + 1]
           /\ pc' = [pc EXCEPT ![t] = IF last THEN "decide" ELSE "role"]
           /\ out' = IF ~last THEN out ELSE [out EXCEPT ![t] = status]
      ELSE /\ pc' = [pc EXCEPT ![t] = "append"]
           /\ UNCHANGED <<kept, role, out>>
    BY DEF Observe
<1>3. keep \/ skip => ~Flagged(who[t], agg)
    OBVIOUS
<1>4. last => (IF last THEN "decide" ELSE "role") = "decide"
    OBVIOUS
<1>5. ~last => (IF last THEN "decide" ELSE "role") = "role"
    OBVIOUS
<1>6. status = "redacted" \/ status = "released"
    OBVIOUS
<1> HIDE DEF keep, skip, status, agg
<1>7. CASE (keep \/ skip) /\ last
    BY <1>1, <1>2, <1>3, <1>4, <1>6, <1>7 DEF agg
<1>8. CASE (keep \/ skip) /\ ~last
    BY <1>1, <1>2, <1>3, <1>5, <1>8 DEF agg
<1>9. CASE ~(keep \/ skip)
    BY <1>1, <1>2, <1>9 DEF agg
<1> QED BY <1>7, <1>8, <1>9

LEMMA ObserveMoves ==
    ASSUME NEW t \in Threads, NEW v \in Verdicts, Observe(t, v)
    PROVE  /\ pc[t] = "role"
           /\ UNCHANGED <<phase, lock, who, log, forgotten, cursor>>
           /\ \/ out' = out /\ pc' = [pc EXCEPT ![t] = "append"]
              \/ out' = out /\ pc' = [pc EXCEPT ![t] = "role"]
              \/ /\ pc' = [pc EXCEPT ![t] = "decide"]
                 /\ \/ out' = [out EXCEPT ![t] = "released"]
                    \/ out' = [out EXCEPT ![t] = "redacted"]
<1>1. pc[t] = "role" /\ UNCHANGED <<phase, lock, who, log, forgotten, cursor>>
    BY ObserveCases
<1> QED BY <1>1, ObserveCases

\* The same, thread by thread.
LEMMA ObserveSteps ==
    ASSUME TypeOK, NEW t \in Threads, NEW v \in Verdicts, Observe(t, v)
    PROVE  /\ pc[t] = "role" /\ pc'[t] \in {"append", "role", "decide"}
           /\ pc'[t] # "decide" => out'[t] = out[t]
           /\ pc'[t] = "decide" => out'[t] \in {"released", "redacted"}
           /\ \A x \in Threads : x # t => pc'[x] = pc[x] /\ out'[x] = out[x]
<1>1. t \in DOMAIN pc /\ t \in DOMAIN out /\ DOMAIN pc = Threads /\ DOMAIN out = Threads
    BY DEF TypeOK
<1>2. pc[t] = "role"
    BY ObserveMoves
<1>3. CASE out' = out /\ \/ pc' = [pc EXCEPT ![t] = "append"]
                         \/ pc' = [pc EXCEPT ![t] = "role"]
    BY <1>1, <1>2, <1>3
<1>4. CASE /\ pc' = [pc EXCEPT ![t] = "decide"]
           /\ \/ out' = [out EXCEPT ![t] = "released"]
              \/ out' = [out EXCEPT ![t] = "redacted"]
    BY <1>1, <1>2, <1>4
<1> QED BY <1>3, <1>4, ObserveMoves

\* The steps that move the request on and leave its outcome and its locals.
LEMMA PlainMoves ==
    ASSUME TypeOK, NEW t \in Threads,
           \/ Refuse(t) \/ OverBudget(t) \/ PassGates(t) \/ Raise(t) \/ RecordCohorts(t)
           \/ ObserveThenRaise(t) \/ AuditGap(t)
    PROVE  /\ UNCHANGED <<who, before, kept, seen, out>>
           /\ \/ pc[t] = "gates" /\ pc'[t] \in {"append", "role"}
              \/ pc[t] = "decide" /\ pc'[t] = "append"
              \/ pc'[t] \in {"error", "return"}
           /\ \A x \in Threads : x # t => pc'[x] = pc[x]
<1>1. UNCHANGED <<who, before, kept, seen, out>>
    BY DEF Refuse, OverBudget, PassGates, Raise, RecordCohorts, ObserveThenRaise,
           AuditGap, locals
<1>2. \/ pc[t] = "gates" /\ pc' = [pc EXCEPT ![t] = "append"]
      \/ pc[t] = "gates" /\ pc' = [pc EXCEPT ![t] = "role"]
      \/ pc[t] = "decide" /\ pc' = [pc EXCEPT ![t] = "append"]
      \/ pc' = [pc EXCEPT ![t] = "error"]
      \/ pc' = [pc EXCEPT ![t] = "return"]
    BY DEF Refuse, OverBudget, PassGates, Raise, RecordCohorts, ObserveThenRaise, AuditGap
<1>3. DOMAIN pc = Threads
    BY DEF TypeOK
<1> QED BY <1>1, <1>2, <1>3

\* The appends: of the outcome's row, of the error's, or one that stores none.
LEMMA AppendCases ==
    ASSUME NEW t \in Threads,
           AppendRow(t) \/ AppendTorn(t) \/ AppendError(t) \/ AppendErrorFails(t)
    PROVE  /\ UNCHANGED <<phase, cursor, forgotten, crashes, spent, cohorts, history,
                          lock, who, query, role, before, kept, seen, out, delivered,
                          gap>>
           /\ \/ /\ pc[t] = "append"
                 /\ \/ Commit(t, OutcomeRow(t), "return")
                    \/ Commit(t, OutcomeRow(t), "error")
              \/ /\ pc[t] = "errorRow" \/ pc[t] = "retry"
                 /\ \/ Commit(t, ErrorRow(t), "return")
                    \/ Commit(t, ErrorRow(t), "retry")
              \/ /\ pc[t] = "errorRow"
                 /\ pc' = [pc EXCEPT ![t] = "retry"]
                 /\ UNCHANGED <<log, written, rowAt>>
    BY DEF AppendRow, AppendTorn, AppendError, AppendErrorFails, session, locals

LEMMA TypeNext == TypeOK /\ PaidFor /\ [Next]_vars => TypeOK'
<1> SUFFICES ASSUME TypeOK, PaidFor, [Next]_vars
             PROVE  TypeOK'
    OBVIOUS
<1> USE DEF session, locals, aux
<1>0. \A t \in Threads : before[t] <= spent[who[t]]
    BY NeverRefunded
<1>1. ASSUME NEW t \in Threads, NEW u \in Users, NEW q \in Queries, Enter(t, u, q)
      PROVE  TypeOK'
    <2>1. spent[u] \in Nat /\ Frame(t, u, q, spent[u])
        BY <1>1 DEF TypeOK, Enter
    <2> QED BY <1>1, <2>1, FrameTyped DEF TypeOK, Enter
<1>2. ASSUME NEW t \in Threads, Refuse(t) \/ OverBudget(t) \/ PassGates(t) \/ Raise(t)
      PROVE  TypeOK'
    BY <1>2 DEF TypeOK, Refuse, OverBudget, PassGates, Raise
<1>3. ASSUME NEW t \in Threads, NEW v \in Verdicts, Observe(t, v)
      PROVE  TypeOK'
    <2> DEFINE q == query[t]
               agg == q.aggs[role[t]]
    <2>1. /\ q \in Queries /\ agg.cohort \in Cohort /\ agg.observed \in Observation
          /\ role[t] \in 1 .. Len(q.aggs) /\ Len(q.aggs) \in Nat
          /\ DOMAIN q.aggs = 1 .. Len(q.aggs)
        BY QueryFacts DEF TypeOK
    <2> HIDE DEF q, agg
    <2>2. /\ spent' = [spent EXCEPT ![who[t]] = @ + 1]
          /\ history' = [history EXCEPT ![who[t]] = Remember(@, <<agg.observed>>)]
          /\ seen' = [seen EXCEPT ![t] = Append(@, agg.observed)]
          /\ UNCHANGED <<phase, cursor, forgotten, crashes, cohorts, lock, log,
                         who, query, before, delivered, written, rowAt, gap>>
        BY <1>3, ObserveCases DEF q, agg
    <2>3. kept' = kept \/ kept' = [kept EXCEPT ![t] = @ \cup {agg.cohort}]
        BY <1>3, ObserveCases DEF q, agg
    <2>4. \/ role' = role
          \/ role[t] # Len(q.aggs) /\ role' = [role EXCEPT ![t] = @ + 1]
        BY <1>3, ObserveCases DEF q, agg
    <2>5. \/ pc' = [pc EXCEPT ![t] = "append"] \/ pc' = [pc EXCEPT ![t] = "decide"]
          \/ pc' = [pc EXCEPT ![t] = "role"]
        BY <1>3, ObserveCases DEF q, agg
    <2>6. \/ out' = out \/ out' = [out EXCEPT ![t] = "released"]
          \/ out' = [out EXCEPT ![t] = "redacted"]
        BY <1>3, ObserveCases DEF q, agg
    <2>7. /\ who[t] \in Users /\ history[who[t]] \in Seq(Observation)
          /\ <<agg.observed>> \in Seq(Observation)
        BY <2>1 DEF TypeOK
    <2>8. Remember(history[who[t]], <<agg.observed>>) \in Seq(Observation)
        BY <2>7, RememberFacts
    <2>9. history' \in [Users -> Seq(Observation)] /\ spent' \in [Users -> Nat]
        BY <2>2, <2>7, <2>8 DEF TypeOK
    <2>10. role' \in [Threads -> Nat]
        <3>1. role \in [Threads -> Nat] /\ role[t] + 1 \in Nat
            BY DEF TypeOK
        <3> QED BY <2>4, <3>1
    <2>11. ASSUME NEW x \in Threads PROVE role'[x] \in DOMAIN query'[x].aggs
        <3>1. CASE x = t
            BY <2>1, <2>2, <2>4, <3>1 DEF TypeOK, q
        <3>2. CASE x # t
            BY <2>2, <2>4, <3>2 DEF TypeOK
        <3> QED BY <3>1, <3>2
    <2>12. kept' \in [Threads -> SUBSET Cohort]
        <3>1. kept \in [Threads -> SUBSET Cohort] /\ kept[t] \cup {agg.cohort} \in SUBSET Cohort
            BY <2>1 DEF TypeOK
        <3> QED BY <2>3, <3>1
    <2>13. seen' \in [Threads -> Seq(Observation)]
        BY <2>1, <2>2 DEF TypeOK
    <2>14. out' \in [Threads -> Status]
        BY <2>6 DEF TypeOK, Status, ReleasedStatus
    <2>15. pc' \in [Threads -> {"idle", "gates", "role", "decide", "append",
                                "error", "errorRow", "retry", "return"}]
        BY <2>5 DEF TypeOK
    <2> QED BY <2>2, <2>9, <2>10, <2>11, <2>12, <2>13, <2>14, <2>15 DEF TypeOK
<1>4. ASSUME NEW t \in Threads, ObserveThenRaise(t)
      PROVE  TypeOK'
    <2> DEFINE agg == query[t].aggs[role[t]]
    <2>1. agg.observed \in Observation
        BY QueryFacts DEF TypeOK
    <2>2. who[t] \in Users /\ history[who[t]] \in Seq(Observation)
        BY DEF TypeOK
    <2> HIDE DEF agg
    <2>3. <<agg.observed>> \in Seq(Observation)
        BY <2>1
    <2>4. Remember(history[who[t]], <<agg.observed>>) \in Seq(Observation)
        BY <2>2, <2>3, RememberFacts
    <2> QED BY SMTT(30), <1>4, <2>4 DEF TypeOK, ObserveThenRaise, agg
<1>5. ASSUME NEW t \in Threads, NEW s \in {"denied", "review"}, Withhold(t, s)
      PROVE  TypeOK'
    BY <1>5 DEF TypeOK, Withhold, Status
<1>6. ASSUME NEW t \in Threads, RecordCohorts(t)
      PROVE  TypeOK'
    BY <1>6 DEF TypeOK, RecordCohorts
<1>7. ASSUME NEW t \in Threads, AppendRow(t) \/ AppendTorn(t)
      PROVE  TypeOK'
    <2>1. OutcomeRow(t) \in Row
        BY <1>0, RowsTyped
    <2>2. Commit(t, OutcomeRow(t), "return") \/ Commit(t, OutcomeRow(t), "error")
        BY <1>7 DEF AppendRow, AppendTorn
    <2>3. /\ log' \in Seq(Row) /\ Len(log') = Len(log) + 1
          /\ rowAt' \in [Threads -> Nat] /\ written' \in [Threads -> Nat]
          /\ pc' \in [Threads -> {"idle", "gates", "role", "decide", "append",
                                  "error", "errorRow", "retry", "return"}]
        BY <2>1, <2>2, CommitTyped
    <2>4. forgotten' <= Len(log')
        BY <1>7, <2>3, LenProperties DEF TypeOK, AppendRow, AppendTorn
    <2> QED BY <1>7, <2>3, <2>4 DEF TypeOK, AppendRow, AppendTorn
<1>8. ASSUME NEW t \in Threads, ChargeError(t)
      PROVE  TypeOK'
    <2>1. spent' = spent \/ spent' = [spent EXCEPT ![who[t]] = @ + 1]
        BY <1>8 DEF ChargeError
    <2>2. spent' \in [Users -> Nat]
        <3>1. spent \in [Users -> Nat] /\ spent[who[t]] + 1 \in Nat
            BY DEF TypeOK
        <3> QED BY <2>1, <3>1
    <2> QED BY <1>8, <2>2 DEF TypeOK, ChargeError, Status
<1>9. ASSUME NEW t \in Threads, AppendError(t) \/ AppendErrorFails(t)
      PROVE  TypeOK'
    <2>1. ErrorRow(t) \in Row
        BY <1>0, RowsTyped
    <2>2. \/ Commit(t, ErrorRow(t), "return") \/ Commit(t, ErrorRow(t), "retry")
          \/ pc' = [pc EXCEPT ![t] = "retry"] /\ UNCHANGED <<log, written, rowAt>>
        BY <1>9 DEF AppendError, AppendErrorFails
    <2>3. /\ log' \in Seq(Row) /\ Len(log') \in {Len(log), Len(log) + 1}
          /\ rowAt' \in [Threads -> Nat] /\ written' \in [Threads -> Nat]
          /\ pc' \in [Threads -> {"idle", "gates", "role", "decide", "append",
                                  "error", "errorRow", "retry", "return"}]
        <3>1. CASE Commit(t, ErrorRow(t), "return") \/ Commit(t, ErrorRow(t), "retry")
            BY <2>1, <3>1, CommitTyped
        <3>2. CASE pc' = [pc EXCEPT ![t] = "retry"] /\ UNCHANGED <<log, written, rowAt>>
            BY <3>2 DEF TypeOK
        <3> QED BY <2>2, <3>1, <3>2
    <2>4. forgotten' <= Len(log')
        BY <1>9, <2>3, LenProperties DEF TypeOK, AppendError, AppendErrorFails
    <2> QED BY <1>9, <2>3, <2>4 DEF TypeOK, AppendError, AppendErrorFails
<1>10. ASSUME NEW t \in Threads, AuditGap(t)
       PROVE  TypeOK'
    <2>1. ErrorRow(t).cost \in Nat
        BY <1>0 DEF TypeOK, ErrorRow
    <2>2. /\ pc' = [pc EXCEPT ![t] = "return"]
          /\ gap' = [gap EXCEPT ![who[t]] = gap[who[t]] + ErrorRow(t).cost]
          /\ UNCHANGED <<phase, cursor, forgotten, crashes, session, log, locals,
                         delivered, written, rowAt>>
        BY <1>10 DEF AuditGap
    <2> HIDE DEF ErrorRow
    <2>3. gap' \in [Users -> Nat]
        <3>1. gap \in [Users -> Nat] /\ who[t] \in Users
            BY DEF TypeOK
        <3>2. gap[who[t]] + ErrorRow(t).cost \in Nat
            BY <2>1, <3>1
        <3> QED BY <2>2, <3>1, <3>2
    <2> QED BY <2>2, <2>3 DEF TypeOK, session, locals
<1>11. ASSUME NEW t \in Threads, Return(t)
       PROVE  TypeOK'
    <2>1. SystemUser \in Users /\ AnyQuery \in Queries /\ Frame(t, SystemUser, AnyQuery, 0)
        BY <1>11, AnyQueryFacts, SessionAssumption DEF Return
    <2>2. lock' \in [Users -> Threads \cup {NoThread}]
        BY <1>11 DEF TypeOK, Return
    <2>3. [user |-> who[t], cohorts |-> kept[t], totals |-> seen[t], row |-> rowAt[t]]
             \in [user: Users, cohorts: SUBSET Cohort, totals: Seq(Observation), row: Nat]
        BY DEF TypeOK
    <2>4. delivered' \subseteq [user: Users, cohorts: SUBSET Cohort,
                                totals: Seq(Observation), row: Nat]
        BY <1>11, <2>3 DEF TypeOK, Return
    <2> QED BY <1>11, <2>1, <2>2, <2>4, FrameTyped DEF TypeOK, Return
<1>12. ASSUME NEW old \in forgotten .. Len(log), Crash(old)
       PROVE  TypeOK'
    <2>1. 1 \in DOMAIN AnyQuery.aggs
        BY AnyQueryFacts, QueryFacts
    <2>2. old \in Nat /\ old <= Len(log)
        BY LenProperties DEF TypeOK
    <2> QED BY <1>12, <2>1, <2>2, AnyQueryFacts, SessionAssumption
            DEF TypeOK, Crash, PerUser, PerThread, Status, ReleasedStatus
<1>13. ASSUME ReplayRow
       PROVE  TypeOK'
    <2> DEFINE row == log[cursor]
    <2>1. row \in Row
        BY <1>13, LenProperties, ElementOfSeq DEF TypeOK, ReplayRow
    <2>2. /\ row.user \in Users /\ row.cost \in Nat /\ row.cohorts \in SUBSET Cohort
          /\ row.totals \in Seq(Observation)
        BY <2>1 DEF Row
    <2> HIDE DEF row
    <2>3. Remember(history[row.user], row.totals) \in Seq(Observation)
        BY <2>2, RememberFacts DEF TypeOK
    <2>4. \/ UNCHANGED <<spent, cohorts, history>>
          \/ /\ spent' = [spent EXCEPT ![row.user] = @ + row.cost]
             /\ cohorts' = [cohorts EXCEPT ![row.user] = @ \cup row.cohorts]
             /\ history' = [history EXCEPT ![row.user] = Remember(@, row.totals)]
        BY <1>13 DEF ReplayRow, Replay, row
    <2>5. spent' \in [Users -> Nat]
        <3>1. spent[row.user] + row.cost \in Nat /\ spent \in [Users -> Nat]
            BY <2>2 DEF TypeOK
        <3> QED BY <2>4, <3>1
    <2>6. cohorts' \in [Users -> SUBSET Cohort]
        <3>1. /\ cohorts[row.user] \cup row.cohorts \in SUBSET Cohort
              /\ cohorts \in [Users -> SUBSET Cohort]
            BY <2>2 DEF TypeOK
        <3> QED BY <2>4, <3>1
    <2>7. history' \in [Users -> Seq(Observation)]
        BY <2>2, <2>3, <2>4 DEF TypeOK
    <2> QED BY <1>13, <2>5, <2>6, <2>7 DEF TypeOK, ReplayRow
<1>14. ASSUME StartServing
       PROVE  TypeOK'
    <2>1. ConfigRow \in Row
        BY SessionAssumption DEF ConfigRow, Row
    <2> QED BY <1>14, <2>1 DEF TypeOK, StartServing
<1>15. ASSUME UNCHANGED vars
       PROVE  TypeOK'
    BY <1>15 DEF TypeOK, vars
<1> QED BY <1>1, <1>2, <1>3, <1>4, <1>5, <1>6, <1>7, <1>8, <1>9, <1>10, <1>11,
           <1>12, <1>13, <1>14, <1>15 DEF Next, Step

-----------------------------------------------------------------------------
(***************************************************************************)
(* One request per session at a time.                                      *)
(***************************************************************************)

LEMMA LockNext == TypeOK /\ HoldsLock /\ [Next]_vars => HoldsLock'
<1> SUFFICES ASSUME TypeOK, HoldsLock, [Next]_vars
             PROVE  HoldsLock'
    OBVIOUS
<1> USE DEF session, locals, aux
<1>1. ASSUME NEW t \in Threads, NEW u \in Users, NEW q \in Queries, Enter(t, u, q)
      PROVE  HoldsLock'
    <2>1. /\ phase = "serving" /\ phase' = phase /\ lock[u] = NoThread
          /\ lock' = [lock EXCEPT ![u] = t] /\ who' = [who EXCEPT ![t] = u]
          /\ \A x \in Threads : x # t => pc'[x] = pc[x]
        BY <1>1 DEF TypeOK, Enter, Frame
    <2>2. ASSUME NEW x \in Threads, Active(x), x # t
          PROVE  who[x] # u
        BY <2>1, <2>2, SessionAssumption DEF HoldsLock
    <2>3. ASSUME NEW x \in Threads, Active(x)'
          PROVE  phase' = "serving" /\ lock'[who'[x]] = x
        <3>1. CASE x = t
            BY <2>1, <3>1 DEF TypeOK
        <3>2. CASE x # t
            BY <2>1, <2>2, <2>3, <3>2 DEF TypeOK, HoldsLock, Active
        <3> QED BY <3>1, <3>2
    <2> QED BY <2>3 DEF HoldsLock
<1>2. ASSUME NEW t \in Threads, Step(t), ~Return(t)
      PROVE  HoldsLock'
    <2>1. /\ Active(t) /\ UNCHANGED <<phase, lock, who>>
          /\ \A x \in Threads : x # t => pc'[x] = pc[x]
        <3>1. CASE \E v \in Verdicts : Observe(t, v)
            BY <3>1, ObserveMoves, ObserveSteps DEF Active
        <3>2. CASE AppendRow(t) \/ AppendTorn(t) \/ AppendError(t) \/ AppendErrorFails(t)
            <4>1. pc[t] # "idle" /\ UNCHANGED <<phase, lock, who>>
                BY <3>2, AppendCases
            <4>2. \/ pc' = [pc EXCEPT ![t] = "return"] \/ pc' = [pc EXCEPT ![t] = "error"]
                  \/ pc' = [pc EXCEPT ![t] = "retry"]
                BY <3>2, AppendCases DEF Commit
            <4> QED BY <4>1, <4>2 DEF TypeOK, Active
        <3>3. CASE Refuse(t) \/ OverBudget(t) \/ PassGates(t) \/ Raise(t) \/ ChargeError(t)
            BY <3>3 DEF TypeOK, Active, Refuse, OverBudget, PassGates, Raise, ChargeError
        <3>4. CASE \/ ObserveThenRaise(t) \/ \E st \in {"denied", "review"} : Withhold(t, st)
                   \/ RecordCohorts(t) \/ AuditGap(t)
            BY <3>4 DEF TypeOK, Active, ObserveThenRaise, Withhold, RecordCohorts, AuditGap
        <3> QED BY <1>2, <3>1, <3>2, <3>3, <3>4 DEF Step
    <2> QED BY <2>1 DEF HoldsLock, Active
<1>3. ASSUME NEW t \in Threads, Return(t)
      PROVE  HoldsLock'
    BY <1>3 DEF TypeOK, HoldsLock, Active, Return, Frame
<1>4. ASSUME \E old \in forgotten .. Len(log) : Crash(old)
      PROVE  HoldsLock'
    BY <1>4 DEF HoldsLock, Active, Crash, PerThread
<1>5. ASSUME ReplayRow \/ StartServing
      PROVE  HoldsLock'
    BY <1>5 DEF HoldsLock, Active, ReplayRow, StartServing
<1>6. ASSUME UNCHANGED vars
      PROVE  HoldsLock'
    BY <1>6 DEF HoldsLock, Active, vars
<1> QED BY <1>1, <1>2, <1>3, <1>4, <1>5, <1>6 DEF Next

\* Two requests in flight are of different users.
LEMMA OneRequestPerUser ==
    ASSUME HoldsLock, NEW t \in Threads, NEW x \in Threads,
           Active(t), Active(x), t # x
    PROVE  who[t] # who[x]
    BY DEF HoldsLock

LEMMA StatusNext == TypeOK /\ StatusSettled /\ [Next]_vars => StatusSettled'
<1> SUFFICES ASSUME TypeOK, StatusSettled, [Next]_vars
             PROVE  StatusSettled'
    OBVIOUS
<1> USE DEF session, locals, aux, StatusSettled, ReleasedStatus
<1>1. ASSUME NEW t \in Threads, NEW u \in Users, NEW q \in Queries, Enter(t, u, q)
      PROVE  StatusSettled'
    BY <1>1 DEF TypeOK, Enter, Frame
<1>2. ASSUME NEW t \in Threads, \E v \in Verdicts : Observe(t, v)
      PROVE  StatusSettled'
    BY <1>2, ObserveSteps
<1>3. ASSUME NEW t \in Threads,
             \/ Refuse(t) \/ OverBudget(t) \/ PassGates(t) \/ Raise(t) \/ ChargeError(t)
             \/ ObserveThenRaise(t) \/ \E st \in {"denied", "review"} : Withhold(t, st)
             \/ RecordCohorts(t) \/ AuditGap(t)
      PROVE  StatusSettled'
    <2>1. CASE \/ Refuse(t) \/ OverBudget(t) \/ PassGates(t) \/ Raise(t)
               \/ RecordCohorts(t) \/ ObserveThenRaise(t) \/ AuditGap(t)
        BY <2>1, PlainMoves
    <2>2. CASE ChargeError(t)
        <3>1. /\ out' = [out EXCEPT ![t] = "error"]
              /\ pc' = [pc EXCEPT ![t] = "errorRow"]
            BY <2>2 DEF ChargeError
        <3> QED BY <3>1 DEF TypeOK
    <2>3. CASE \E st \in {"denied", "review"} : Withhold(t, st)
        <3>1. pc' = [pc EXCEPT ![t] = "append"]
            BY <2>3 DEF Withhold
        <3>2. \A x \in Threads : x # t => out'[x] = out[x]
            BY <2>3 DEF TypeOK, Withhold
        <3> QED BY <3>1, <3>2 DEF TypeOK
    <2> QED BY <1>3, <2>1, <2>2, <2>3
<1>4. ASSUME NEW t \in Threads,
             AppendRow(t) \/ AppendTorn(t) \/ AppendError(t) \/ AppendErrorFails(t)
      PROVE  StatusSettled'
    <2>1. /\ pc[t] = "append" \/ pc[t] = "errorRow" \/ pc[t] = "retry"
          /\ out' = out
        BY <1>4, AppendCases
    <2>2. \/ pc' = [pc EXCEPT ![t] = "return"] \/ pc' = [pc EXCEPT ![t] = "error"]
          \/ pc[t] # "append" /\ pc' = [pc EXCEPT ![t] = "retry"]
        BY <1>4, AppendCases DEF Commit
    <2> QED BY <2>1, <2>2 DEF TypeOK
<1>5. ASSUME NEW t \in Threads, Return(t)
      PROVE  StatusSettled'
    BY <1>5 DEF TypeOK, Return, Frame
<1>6. ASSUME \E old \in forgotten .. Len(log) : Crash(old)
      PROVE  StatusSettled'
    BY <1>6 DEF Crash, PerThread
<1>7. ASSUME ReplayRow \/ StartServing \/ UNCHANGED vars
      PROVE  StatusSettled'
    BY <1>7 DEF ReplayRow, StartServing, vars
<1> QED BY <1>1, <1>2, <1>3, <1>4, <1>5, <1>6, <1>7 DEF Next, Step

-----------------------------------------------------------------------------
(***************************************************************************)
(* What is held, recorded and remembered was paid for.                     *)
(***************************************************************************)

LEMMA SpendRises ==
    ASSUME TypeOK, NEW u \in Users, NEW n \in Nat,
           spent' = spent \/ spent' = [spent EXCEPT ![u] = @ + n]
    PROVE  \A w \in Users : spent'[w] \in Nat /\ spent'[w] >= spent[w]
<1>1. spent \in [Users -> Nat]
    BY DEF TypeOK
<1> QED BY <1>1

LEMMA PaidNext == TypeOK /\ StatusSettled /\ PaidFor /\ [Next]_vars => PaidFor'
<1> SUFFICES ASSUME TypeOK, StatusSettled, PaidFor, [Next]_vars
             PROVE  PaidFor'
    OBVIOUS
<1> USE DEF session, locals, aux
<1> DEFINE Paid(x) ==
        /\ before[x] + Len(seen[x]) <= spent[who[x]]
        /\ IsFiniteSet(kept[x]) /\ Cardinality(kept[x]) <= Len(seen[x])
        /\ pc[x] = "decide" => Len(seen[x]) >= 1
        /\ pc[x] = "append" /\ out[x] \in ReleasedStatus => Len(seen[x]) >= 1
<1>0. /\ \A x \in Threads : Paid(x)
      /\ \A x \in Threads : Len(seen[x]) \in Nat /\ before[x] \in Nat
      /\ Len(<<>>) = 0 /\ IsFiniteSet({}) /\ Cardinality({}) = 0
    BY LenProperties, EmptySeq, FS_EmptySet DEF PaidFor, TypeOK
<1>a. (\A x \in Threads : Paid(x)') => PaidFor'
    BY DEF PaidFor
<1> HIDE DEF Paid
\* Nothing that is held changes, and the spend does not fall.
<1>b. ASSUME UNCHANGED <<before, seen, kept, who>>,
             \A u \in Users : spent'[u] \in Nat /\ spent'[u] >= spent[u],
             \A x \in Threads :
                \/ pc'[x] = pc[x] /\ out'[x] = out[x]
                \/ pc[x] = "decide" /\ pc'[x] = "append"
                \/ pc'[x] # "decide" /\ (pc'[x] = "append" => out'[x] \notin ReleasedStatus)
      PROVE  PaidFor'
    <2>1. ASSUME NEW x \in Threads PROVE Paid(x)'
        <3>1. who[x] \in Users /\ spent[who[x]] \in Nat
            BY DEF TypeOK
        <3> QED BY <1>0, <1>b, <3>1 DEF Paid
    <2> QED BY <1>a, <2>1
<1>1. ASSUME NEW t \in Threads, NEW u \in Users, NEW q \in Queries, Enter(t, u, q)
      PROVE  PaidFor'
    <2>1. ASSUME NEW x \in Threads PROVE Paid(x)'
        <3>1. CASE x = t
            BY SMTT(20), <1>0, <1>1, <3>1 DEF Paid, TypeOK, Enter, Frame
        <3>2. CASE x # t
            BY <1>0, <1>1, <3>2 DEF Paid, TypeOK, Enter, Frame
        <3> QED BY <3>1, <3>2
    <2> QED BY <1>a, <2>1
<1>2. ASSUME NEW t \in Threads, NEW v \in Verdicts, Observe(t, v)
      PROVE  PaidFor'
    <2> DEFINE agg == query[t].aggs[role[t]]
    <2>1. agg.observed \in Observation /\ seen[t] \in Seq(Observation)
        BY QueryFacts DEF TypeOK
    <2>2. Len(Append(seen[t], agg.observed)) = Len(seen[t]) + 1
        BY <2>1, AppendProperties
    <2>3. /\ spent' = [spent EXCEPT ![who[t]] = @ + 1]
          /\ seen' = [seen EXCEPT ![t] = Append(@, agg.observed)]
          /\ UNCHANGED <<who, before>>
        BY <1>2, ObserveCases
    <2>4. kept' = kept \/ kept' = [kept EXCEPT ![t] = @ \cup {agg.cohort}]
        BY <1>2, ObserveCases
    <2>5. \A x \in Threads : x # t => pc'[x] = pc[x] /\ out'[x] = out[x]
        BY <1>2, ObserveSteps
    <2> HIDE DEF agg
    <2>6. ASSUME NEW x \in Threads PROVE Paid(x)'
        <3>0. who[x] \in Users /\ who[t] \in Users /\ spent \in [Users -> Nat]
            BY DEF TypeOK
        <3>1. spent'[who[x]] \in Nat /\ spent'[who[x]] >= spent[who[x]]
            BY <2>3, <3>0
        <3>2. CASE x # t
            <4>1. seen'[x] = seen[x] /\ kept'[x] = kept[x]
                BY <2>3, <2>4, <3>2 DEF TypeOK
            <4> QED BY <1>0, <2>3, <2>5, <3>0, <3>1, <3>2, <4>1 DEF Paid
        <3>3. CASE x = t
            <4>1. Len(seen'[t]) = Len(seen[t]) + 1 /\ spent'[who'[t]] = spent[who[t]] + 1
                BY <2>2, <2>3, <3>0 DEF TypeOK
            <4>2. IsFiniteSet(kept[t]) /\ Cardinality(kept[t]) \in Nat
                BY <1>0, FS_CardinalityType DEF Paid
            <4>3. /\ IsFiniteSet(kept[t] \cup {agg.cohort})
                  /\ Cardinality(kept[t] \cup {agg.cohort}) <= Cardinality(kept[t]) + 1
                BY <4>2, FS_AddElement
            <4>4. /\ IsFiniteSet(kept'[t])
                  /\ Cardinality(kept'[t]) <= Cardinality(kept[t]) + 1
                <5>1. kept'[t] = kept[t] \/ kept'[t] = kept[t] \cup {agg.cohort}
                    BY <2>4 DEF TypeOK
                <5>2. CASE kept'[t] = kept[t]
                    BY <4>2, <5>2
                <5>3. CASE kept'[t] = kept[t] \cup {agg.cohort}
                    BY <4>3, <5>3
                <5> QED BY <5>1, <5>2, <5>3
            <4>5. Cardinality(kept'[t]) \in Nat
                BY <4>4, FS_CardinalityType
            <4> QED BY <1>0, <2>3, <3>0, <3>3, <4>1, <4>2, <4>4, <4>5 DEF Paid
        <3> QED BY <3>2, <3>3
    <2> QED BY <1>a, <2>6
<1>3. ASSUME NEW t \in Threads,
             \/ Refuse(t) \/ OverBudget(t) \/ PassGates(t) \/ Raise(t) \/ RecordCohorts(t)
             \/ ObserveThenRaise(t) \/ AuditGap(t)
      PROVE  PaidFor'
    <2>1. spent' = spent \/ spent' = [spent EXCEPT ![who[t]] = @ + 1]
        BY <1>3 DEF Refuse, OverBudget, PassGates, Raise, RecordCohorts, ObserveThenRaise,
                    AuditGap
    <2>2. who[t] \in Users
        BY DEF TypeOK
    <2>3. \A u \in Users : spent'[u] \in Nat /\ spent'[u] >= spent[u]
        BY <2>1, <2>2, SpendRises
    <2>4. pc[t] = "gates" => out[t] = "denied"
        BY DEF StatusSettled
    <2>5. \A x \in Threads :
                \/ pc'[x] = pc[x] /\ out'[x] = out[x]
                \/ pc[x] = "decide" /\ pc'[x] = "append"
                \/ pc'[x] # "decide" /\ (pc'[x] = "append" => out'[x] \notin ReleasedStatus)
        BY <1>3, <2>4, PlainMoves DEF ReleasedStatus
    <2> QED BY <1>b, <1>3, <2>3, <2>5, PlainMoves
<1>4. ASSUME NEW t \in Threads, NEW st \in {"denied", "review"}, Withhold(t, st)
      PROVE  PaidFor'
    <2>1. /\ pc' = [pc EXCEPT ![t] = "append"] /\ out' = [out EXCEPT ![t] = st]
          /\ UNCHANGED <<before, seen, kept, who, spent>>
        BY <1>4 DEF Withhold
    <2>2. \A u \in Users : spent'[u] \in Nat /\ spent'[u] >= spent[u]
        BY <2>1 DEF TypeOK
    <2>3. \A x \in Threads :
                \/ pc'[x] = pc[x] /\ out'[x] = out[x]
                \/ pc'[x] # "decide" /\ (pc'[x] = "append" => out'[x] \notin ReleasedStatus)
        BY <2>1 DEF TypeOK, ReleasedStatus
    <2> QED BY <1>b, <2>1, <2>2, <2>3
<1>5. ASSUME NEW t \in Threads, ChargeError(t)
      PROVE  PaidFor'
    <2>1. spent' = spent \/ spent' = [spent EXCEPT ![who[t]] = @ + 1]
        BY <1>5 DEF ChargeError
    <2>2. who[t] \in Users
        BY DEF TypeOK
    <2>3. \A u \in Users : spent'[u] \in Nat /\ spent'[u] >= spent[u]
        BY <2>1, <2>2, SpendRises
    <2> QED BY <1>5, <1>b, <2>3 DEF TypeOK, ChargeError
<1>6. ASSUME NEW t \in Threads,
             AppendRow(t) \/ AppendTorn(t) \/ AppendError(t) \/ AppendErrorFails(t)
      PROVE  PaidFor'
    <2>1. UNCHANGED <<before, seen, kept, who, spent, out>>
        BY <1>6, AppendCases
    <2>2. \/ pc' = [pc EXCEPT ![t] = "return"] \/ pc' = [pc EXCEPT ![t] = "error"]
          \/ pc' = [pc EXCEPT ![t] = "retry"]
        BY <1>6, AppendCases DEF Commit
    <2>3. ASSUME NEW x \in Threads
          PROVE  \/ pc'[x] = pc[x] /\ out'[x] = out[x]
                 \/ pc'[x] # "decide" /\ pc'[x] # "append"
        BY <2>1, <2>2 DEF TypeOK
    <2>4. \A u \in Users : spent'[u] \in Nat /\ spent'[u] >= spent[u]
        BY <2>1 DEF TypeOK
    <2> QED BY <1>b, <2>1, <2>3, <2>4
<1>7. ASSUME NEW t \in Threads, Return(t)
      PROVE  PaidFor'
    <2>1. ASSUME NEW x \in Threads PROVE Paid(x)'
        <3>1. CASE x = t
            BY <1>0, <1>7, <3>1, SessionAssumption DEF Paid, TypeOK, Return, Frame
        <3>2. CASE x # t
            BY <1>0, <1>7, <3>2 DEF Paid, TypeOK, Return, Frame
        <3> QED BY <3>1, <3>2
    <2> QED BY <1>a, <2>1
<1>8. ASSUME \E old \in forgotten .. Len(log) : Crash(old)
      PROVE  PaidFor'
    BY <1>0, <1>a, <1>8, SessionAssumption DEF Paid, Crash, PerUser, PerThread
<1>9. ASSUME ReplayRow
      PROVE  PaidFor'
    <2>1. log[cursor] \in Row
        BY <1>9, LenProperties, ElementOfSeq DEF TypeOK, ReplayRow
    <2>2. \/ spent' = spent
          \/ spent' = [spent EXCEPT ![log[cursor].user] = @ + log[cursor].cost]
        BY <1>9 DEF ReplayRow, Replay
    <2>3. log[cursor].user \in Users /\ log[cursor].cost \in Nat
        BY <2>1 DEF Row
    <2>4. \A u \in Users : spent'[u] \in Nat /\ spent'[u] >= spent[u]
        BY <2>2, <2>3, SpendRises
    <2> QED BY <1>9, <1>b, <2>4 DEF ReplayRow
<1>10. ASSUME StartServing \/ UNCHANGED vars
       PROVE  PaidFor'
    BY <1>10, <1>b DEF TypeOK, StartServing, vars
<1> QED BY <1>1, <1>2, <1>3, <1>4, <1>5, <1>6, <1>7, <1>8, <1>9, <1>10 DEF Next, Step

LEMMA CommitFacts ==
    ASSUME TypeOK, NEW t \in Threads, NEW row \in Row, NEW next, Commit(t, row, next)
    PROVE  /\ Len(log) \in Nat /\ DOMAIN log = 1 .. Len(log)
           /\ DOMAIN log' = 1 .. Len(log) + 1 /\ Len(log') = Len(log) + 1
           /\ \A i \in DOMAIN log : log'[i] = log[i]
           /\ log'[Len(log) + 1] = row
<1>1. log' = Append(log, row) /\ log \in Seq(Row)
    BY DEF Commit, TypeOK
<1> QED BY <1>1, LenProperties, AppendProperties

LEMMA RowsPaidNext == TypeOK /\ PaidFor /\ RowsPaid /\ [Next]_vars => RowsPaid'
<1> SUFFICES ASSUME TypeOK, PaidFor, RowsPaid, [Next]_vars
             PROVE  RowsPaid'
    OBVIOUS
<1> USE DEF session, locals, aux
<1>0. \A x \in Threads :
          /\ Len(seen[x]) \in Nat /\ spent[who[x]] \in Nat /\ before[x] \in Nat
          /\ Len(seen[x]) <= spent[who[x]] - before[x] /\ Len(<<>>) = 0
    BY LenProperties, EmptySeq DEF TypeOK, PaidFor
<1>1. ASSUME NEW t \in Threads,
             AppendRow(t) \/ AppendTorn(t) \/ AppendError(t) \/ AppendErrorFails(t)
      PROVE  RowsPaid'
    <2>1. OutcomeRow(t) \in Row /\ ErrorRow(t) \in Row
        BY <1>0, RowsTyped
    <2>2. /\ Len(OutcomeRow(t).totals) <= OutcomeRow(t).cost
          /\ OutcomeRow(t).status # "config"
        <3>1. OutcomeRow(t).status = out[t] /\ out[t] # "config"
            BY DEF OutcomeRow, TypeOK, Status, ReleasedStatus
        <3>2. OutcomeRow(t).totals = seen[t] \/ OutcomeRow(t).totals = <<>>
            BY DEF OutcomeRow
        <3>3. OutcomeRow(t).cost = spent[who[t]] - before[t]
            BY DEF OutcomeRow
        <3> QED BY <1>0, <3>1, <3>2, <3>3
    <2>3. Len(ErrorRow(t).totals) <= ErrorRow(t).cost /\ ErrorRow(t).status # "config"
        BY <1>0 DEF ErrorRow
    <2>4. ASSUME NEW row \in Row, NEW next, Commit(t, row, next),
                 Len(row.totals) <= row.cost, row.status # "config"
          PROVE  RowsPaid'
        BY <2>4, CommitFacts DEF RowsPaid
    <2>5. log' = log => RowsPaid'
        BY DEF RowsPaid
    <2> QED BY <1>1, <2>1, <2>2, <2>3, <2>4, <2>5, AppendCases
<1>2. ASSUME StartServing
      PROVE  RowsPaid'
    <2>1. log \in Seq(Row) /\ log' = Append(log, ConfigRow) /\ ConfigRow \in Row
        BY <1>2, SessionAssumption DEF TypeOK, StartServing, ConfigRow, Row
    <2>2. /\ DOMAIN log' = 1 .. Len(log) + 1 /\ Len(log) \in Nat
          /\ \A i \in 1 .. Len(log) : log'[i] = log[i]
          /\ log'[Len(log) + 1] = ConfigRow /\ DOMAIN log = 1 .. Len(log)
        BY <2>1, LenProperties, AppendProperties
    <2> QED BY <1>0, <2>2, EmptySeq DEF RowsPaid, ConfigRow
<1>3. ASSUME UNCHANGED log
      PROVE  RowsPaid'
    BY <1>3 DEF RowsPaid
<1>4. ASSUME NEW t \in Threads, Step(t)
      PROVE  RowsPaid'
    BY <1>1, <1>3, <1>4, ObserveMoves
       DEF Step, Refuse, OverBudget, PassGates, ObserveThenRaise, Withhold, RecordCohorts,
           Raise, ChargeError, AuditGap, Return
<1> QED BY <1>2, <1>3, <1>4 DEF Next, Enter, Crash, ReplayRow, vars

LEMMA HistoryNext == TypeOK /\ RowsPaid /\ HistoryWithinSpend /\ [Next]_vars
                        => HistoryWithinSpend'
<1> SUFFICES ASSUME TypeOK, RowsPaid, HistoryWithinSpend, [Next]_vars
             PROVE  HistoryWithinSpend'
    OBVIOUS
<1> USE DEF session, locals, aux
\* Both grow at one user by a sequence of totals and at least its length.
<1>1. ASSUME NEW u \in Users, NEW totals \in Seq(Observation), NEW cost \in Nat,
             Len(totals) <= cost,
             spent'[u] = spent[u] + cost,
             history'[u] = Remember(history[u], totals),
             \A w \in Users : w # u => spent'[w] = spent[w] /\ history'[w] = history[w]
      PROVE  HistoryWithinSpend'
    <2>1. /\ spent \in [Users -> Nat] /\ history \in [Users -> Seq(Observation)]
          /\ \A w \in Users : Len(history[w]) \in Nat
          /\ Len(totals) \in Nat
        BY LenProperties DEF TypeOK
    <2>2. /\ Len(Remember(history[u], totals)) <= Len(history[u]) + Len(totals)
          /\ Len(Remember(history[u], totals)) \in Nat
        BY <2>1, RememberFacts, LenProperties
    <2>3. ASSUME NEW w \in Users PROVE Len(history'[w]) <= spent'[w]
        <3>1. CASE w = u
            BY <1>1, <2>1, <2>2, <3>1 DEF HistoryWithinSpend
        <3>2. CASE w # u
            BY <1>1, <2>1, <3>2 DEF HistoryWithinSpend
        <3> QED BY <3>1, <3>2
    <2> QED BY <2>3 DEF HistoryWithinSpend
<1>2. ASSUME NEW t \in Threads,
             (\E v \in Verdicts : Observe(t, v)) \/ ObserveThenRaise(t)
      PROVE  HistoryWithinSpend'
    <2> DEFINE agg == query[t].aggs[role[t]]
               totals == <<agg.observed>>
    <2>1. agg.observed \in Observation /\ who[t] \in Users
        BY QueryFacts DEF TypeOK
    <2>2. /\ spent' = [spent EXCEPT ![who[t]] = @ + 1]
          /\ history' = [history EXCEPT ![who[t]] = Remember(@, totals)]
        BY <1>2, ObserveCases DEF ObserveThenRaise
    <2>3. totals \in Seq(Observation) /\ Len(totals) = 1
        BY <2>1
    <2> HIDE DEF agg, totals
    <2>4. /\ spent'[who[t]] = spent[who[t]] + 1
          /\ history'[who[t]] = Remember(history[who[t]], totals)
          /\ \A w \in Users : w # who[t] => spent'[w] = spent[w] /\ history'[w] = history[w]
        BY <2>1, <2>2 DEF TypeOK
    <2>5. 1 \in Nat /\ Len(totals) <= 1
        BY <2>3
    <2> QED BY <1>1, <2>1, <2>3, <2>4, <2>5
<1>3. ASSUME ReplayRow
      PROVE  HistoryWithinSpend'
    <2> DEFINE row == log[cursor]
    <2>1. row \in Row /\ Len(row.totals) <= row.cost
        BY <1>3, LenProperties, ElementOfSeq DEF TypeOK, ReplayRow, RowsPaid
    <2>2. row.user \in Users /\ row.totals \in Seq(Observation) /\ row.cost \in Nat
        BY <2>1 DEF Row
    <2>3. \/ UNCHANGED <<spent, history>>
          \/ /\ spent' = [spent EXCEPT ![row.user] = @ + row.cost]
             /\ history' = [history EXCEPT ![row.user] = Remember(@, row.totals)]
        BY <1>3 DEF ReplayRow, Replay
    <2> HIDE DEF row
    <2>4. CASE UNCHANGED <<spent, history>>
        BY <2>4 DEF HistoryWithinSpend
    <2>5. ASSUME ~UNCHANGED <<spent, history>>
          PROVE  /\ spent'[row.user] = spent[row.user] + row.cost
                 /\ history'[row.user] = Remember(history[row.user], row.totals)
                 /\ \A w \in Users : w # row.user =>
                        spent'[w] = spent[w] /\ history'[w] = history[w]
        BY <2>2, <2>3, <2>5 DEF TypeOK
    <2> QED BY <1>1, <2>1, <2>2, <2>4, <2>5
<1>4. ASSUME NEW t \in Threads, ChargeError(t)
      PROVE  HistoryWithinSpend'
    <2>1. who[t] \in Users /\ UNCHANGED history
        BY <1>4 DEF TypeOK, ChargeError
    <2>2. spent' = spent \/ spent' = [spent EXCEPT ![who[t]] = @ + 1]
        BY <1>4 DEF ChargeError
    <2>3. \A w \in Users : spent'[w] \in Nat /\ spent'[w] >= spent[w]
        BY <2>1, <2>2, SpendRises
    <2>4. \A w \in Users : Len(history[w]) \in Nat /\ spent[w] \in Nat
        BY LenProperties DEF TypeOK
    <2> QED BY <2>1, <2>3, <2>4 DEF HistoryWithinSpend
<1>5. ASSUME \E old \in forgotten .. Len(log) : Crash(old)
      PROVE  HistoryWithinSpend'
    <2>1. \A w \in Users : history'[w] = <<>> /\ spent'[w] = 0
        BY <1>5 DEF Crash, PerUser
    <2>2. Len(<<>>) = 0
        BY EmptySeq
    <2> QED BY <2>1, <2>2 DEF HistoryWithinSpend
<1>6. ASSUME UNCHANGED <<spent, history>>
      PROVE  HistoryWithinSpend'
    BY <1>6 DEF HistoryWithinSpend
<1>7. ASSUME NEW t \in Threads, Step(t)
      PROVE  HistoryWithinSpend'
    BY <1>2, <1>4, <1>6, <1>7, AppendCases
       DEF Step, Refuse, OverBudget, PassGates, Withhold, RecordCohorts, Raise, AuditGap,
           Return
<1> QED BY <1>3, <1>5, <1>6, <1>7 DEF Next, Enter, StartServing, vars

-----------------------------------------------------------------------------
(***************************************************************************)
(* The auditors remember what the log released.                            *)
(***************************************************************************)

\* Nothing an auditor holds is lost, as long as a comparison may be afforded.
MemoryGrows ==
    \A w \in Users :
        /\ cohorts[w] \subseteq cohorts'[w]
        /\ spent'[w] <= MaxHistory =>
              /\ spent[w] <= MaxHistory
              /\ \A totals : Holds(history[w], totals) => Holds(history'[w], totals)

LEMMA HistoryGrows ==
    ASSUME TypeOK, HistoryWithinSpend,
           NEW u \in Users, NEW totals \in Seq(Observation), NEW cost \in Nat,
           Len(totals) <= cost,
           spent'[u] = spent[u] + cost,
           history'[u] = Remember(history[u], totals),
           \A w \in Users : w # u => spent'[w] = spent[w] /\ history'[w] = history[w],
           \A w \in Users : cohorts[w] \subseteq cohorts'[w]
    PROVE  /\ MemoryGrows
           /\ spent'[u] <= MaxHistory => Holds(history'[u], totals)
<1>1. /\ history[u] \in Seq(Observation) /\ Len(history[u]) \in Nat /\ Len(totals) \in Nat
      /\ Len(history[u]) <= spent[u] /\ spent[u] \in Nat /\ MaxHistory \in Nat
      /\ DOMAIN history[u] = 1 .. Len(history[u]) /\ DOMAIN totals = 1 .. Len(totals)
    BY LenProperties, SessionAssumption DEF TypeOK, HistoryWithinSpend
<1>2. ASSUME spent'[u] <= MaxHistory
      PROVE  /\ spent[u] <= MaxHistory
             /\ history'[u] = history[u] \o totals
    <2>1. spent[u] <= MaxHistory /\ Len(history[u]) + Len(totals) <= MaxHistory
        BY <1>1, <1>2
    <2> QED BY <1>1, <2>1, RememberFacts
<1>3. /\ DOMAIN (history[u] \o totals) = 1 .. Len(history[u]) + Len(totals)
      /\ \A i \in 1 .. Len(history[u]) : (history[u] \o totals)[i] = history[u][i]
      /\ \A i \in 1 .. Len(totals) :
            (history[u] \o totals)[Len(history[u]) + i] = totals[i]
    <2>1. /\ history[u] \o totals \in Seq(Observation)
          /\ Len(history[u] \o totals) = Len(history[u]) + Len(totals)
          /\ \A i \in 1 .. Len(history[u]) + Len(totals) : (history[u] \o totals)[i] =
                IF i <= Len(history[u]) THEN history[u][i] ELSE totals[i - Len(history[u])]
        BY <1>1, ConcatProperties
    <2>2. DOMAIN (history[u] \o totals) = 1 .. Len(history[u]) + Len(totals)
        BY <2>1, LenProperties
    <2>3. \A i \in 1 .. Len(history[u]) : (history[u] \o totals)[i] = history[u][i]
        BY <1>1, <2>1
    <2>4. ASSUME NEW i \in 1 .. Len(totals)
          PROVE  (history[u] \o totals)[Len(history[u]) + i] = totals[i]
        <3>1. /\ Len(history[u]) + i \in 1 .. Len(history[u]) + Len(totals)
              /\ ~(Len(history[u]) + i <= Len(history[u]))
              /\ (Len(history[u]) + i) - Len(history[u]) = i
            BY <1>1
        <3> QED BY <2>1, <3>1
    <2> QED BY <2>2, <2>3, <2>4
<1>4. ASSUME NEW past, Holds(history[u], past)
      PROVE  Holds(history[u] \o totals, past)
    BY <1>1, <1>3, <1>4 DEF Holds
<1>5. Holds(history[u] \o totals, totals)
    <2>1. ASSUME NEW k \in DOMAIN totals
          PROVE  /\ Len(history[u]) + k \in DOMAIN (history[u] \o totals)
                 /\ (history[u] \o totals)[Len(history[u]) + k] = totals[k]
        <3>1. k \in 1 .. Len(totals)
            BY <1>1
        <3> QED BY <1>1, <1>3, <3>1
    <2> QED BY <2>1 DEF Holds
<1> QED BY <1>2, <1>4, <1>5 DEF MemoryGrows

LEMMA RowsStayRemembered ==
    ASSUME TypeOK, RowsRemembered, MemoryGrows,
           NEW i \in Replayed, log'[i] = log[i]
    PROVE  /\ log'[i].cohorts \subseteq cohorts'[log'[i].user]
           /\ spent'[log'[i].user] <= MaxHistory =>
                  Holds(history'[log'[i].user], log'[i].totals)
<1>1. i \in DOMAIN log
    BY DEF Replayed
<1>2. log[i].user \in Users
    BY <1>1, RowFacts
<1> QED BY <1>2 DEF RowsRemembered, MemoryGrows

\* What observing one aggregate does to the memory of its user.
LEMMA ObserveMemory ==
    ASSUME TypeOK, HistoryWithinSpend, NEW t \in Threads,
           (\E v \in Verdicts : Observe(t, v)) \/ ObserveThenRaise(t)
    PROVE  LET obs == query[t].aggs[role[t]].observed IN
           /\ obs \in Observation
           /\ MemoryGrows
           /\ spent'[who[t]] <= MaxHistory => Holds(history'[who[t]], <<obs>>)
<1> DEFINE obs == query[t].aggs[role[t]].observed
           totals == <<obs>>
<1>1. obs \in Observation /\ who[t] \in Users
    BY QueryFacts DEF TypeOK
<1>2. /\ spent' = [spent EXCEPT ![who[t]] = @ + 1]
      /\ history' = [history EXCEPT ![who[t]] = Remember(@, totals)]
      /\ cohorts' = cohorts
    BY ObserveCases DEF ObserveThenRaise
<1>3. totals \in Seq(Observation) /\ Len(totals) = 1
    BY <1>1
<1> HIDE DEF obs, totals
<1>4. /\ spent'[who[t]] = spent[who[t]] + 1
      /\ history'[who[t]] = Remember(history[who[t]], totals)
      /\ \A w \in Users : w # who[t] => spent'[w] = spent[w] /\ history'[w] = history[w]
      /\ \A w \in Users : cohorts[w] \subseteq cohorts'[w]
      /\ 1 \in Nat /\ Len(totals) <= 1
    BY <1>1, <1>2, <1>3 DEF TypeOK
<1>5. /\ MemoryGrows
      /\ spent'[who[t]] <= MaxHistory => Holds(history'[who[t]], totals)
    BY <1>1, <1>3, <1>4, HistoryGrows
<1> QED BY <1>1, <1>5 DEF obs, totals

LEMMA StepMemory ==
    ASSUME TypeOK, HistoryWithinSpend, NEW t \in Threads, Step(t)
    PROVE  MemoryGrows
<1> USE DEF session, locals, aux
<1>1. CASE (\E v \in Verdicts : Observe(t, v)) \/ ObserveThenRaise(t)
    BY <1>1, ObserveMemory
<1>2. CASE ChargeError(t)
    <2>1. who[t] \in Users /\ UNCHANGED <<cohorts, history>>
        BY <1>2 DEF TypeOK, ChargeError
    <2>2. spent' = spent \/ spent' = [spent EXCEPT ![who[t]] = @ + 1]
        BY <1>2 DEF ChargeError
    <2>3. \A w \in Users : spent'[w] \in Nat /\ spent'[w] >= spent[w] /\ spent[w] \in Nat
        BY <2>1, <2>2, SpendRises DEF TypeOK
    <2>4. MaxHistory \in Nat
        BY SessionAssumption
    <2> QED BY <2>1, <2>3, <2>4 DEF MemoryGrows
<1>3. CASE RecordCohorts(t)
    BY <1>3 DEF TypeOK, RecordCohorts, MemoryGrows
<1>4. CASE UNCHANGED <<spent, cohorts, history>>
    BY <1>4 DEF MemoryGrows
<1> QED BY <1>1, <1>2, <1>3, <1>4, AppendCases
        DEF Step, Refuse, OverBudget, PassGates, Withhold, Raise, AuditGap, Return

LEMMA ReplayMemory ==
    ASSUME TypeOK, RowsPaid, HistoryWithinSpend, ReplayRow
    PROVE  LET row == log[cursor] IN
           /\ MemoryGrows
           /\ row.cohorts \subseteq cohorts'[row.user]
           /\ spent'[row.user] <= MaxHistory => Holds(history'[row.user], row.totals)
<1> DEFINE row == log[cursor]
<1>1. cursor \in DOMAIN log
    BY LenProperties DEF TypeOK, ReplayRow
<1>2. /\ row.user \in Users /\ row.cost \in Nat /\ row.cohorts \in SUBSET Cohort
      /\ row.totals \in Seq(Observation) /\ Len(row.totals) <= row.cost
      /\ row.status = "config" => row.cohorts = {} /\ row.totals = <<>>
    BY <1>1, RowFacts DEF RowsPaid
<1>3. \/ row.status = "config" /\ UNCHANGED <<spent, cohorts, history>>
      \/ /\ spent' = [spent EXCEPT ![row.user] = @ + row.cost]
         /\ cohorts' = [cohorts EXCEPT ![row.user] = @ \cup row.cohorts]
         /\ history' = [history EXCEPT ![row.user] = Remember(@, row.totals)]
    BY DEF ReplayRow, Replay
<1> HIDE DEF row
<1>4. CASE row.status = "config" /\ UNCHANGED <<spent, cohorts, history>>
    <2>1. MemoryGrows
        BY <1>4 DEF MemoryGrows
    <2>2. row.cohorts \subseteq cohorts'[row.user] /\ Holds(history'[row.user], row.totals)
        BY <1>2, <1>4 DEF Holds
    <2> QED BY <2>1, <2>2 DEF row
<1>5. CASE /\ spent' = [spent EXCEPT ![row.user] = @ + row.cost]
           /\ cohorts' = [cohorts EXCEPT ![row.user] = @ \cup row.cohorts]
           /\ history' = [history EXCEPT ![row.user] = Remember(@, row.totals)]
    <2>1. /\ spent'[row.user] = spent[row.user] + row.cost
          /\ history'[row.user] = Remember(history[row.user], row.totals)
          /\ \A w \in Users : w # row.user => spent'[w] = spent[w] /\ history'[w] = history[w]
        BY <1>2, <1>5 DEF TypeOK
    <2>2. /\ \A w \in Users : cohorts[w] \subseteq cohorts'[w]
          /\ row.cohorts \subseteq cohorts'[row.user]
        BY <1>2, <1>5 DEF TypeOK
    <2>3. /\ MemoryGrows
          /\ spent'[row.user] <= MaxHistory => Holds(history'[row.user], row.totals)
        BY <1>2, <2>1, <2>2, HistoryGrows
    <2> QED BY <2>2, <2>3 DEF row
<1> QED BY <1>3, <1>4, <1>5

LEMMA RowsRememberedNext ==
    /\ TypeOK /\ HoldsLock /\ PaidFor /\ RowsPaid /\ HistoryWithinSpend
    /\ RowsRemembered /\ RequestsRemembered /\ [Next]_vars
    => RowsRemembered'
<1> SUFFICES ASSUME TypeOK, HoldsLock, PaidFor, RowsPaid, HistoryWithinSpend,
                    RowsRemembered, RequestsRemembered, [Next]_vars
             PROVE  RowsRemembered'
    OBVIOUS
<1> USE DEF session, locals, aux
<1> DEFINE Remembered(i) ==
        /\ log[i].cohorts \subseteq cohorts[log[i].user]
        /\ spent[log[i].user] <= MaxHistory =>
               Holds(history[log[i].user], log[i].totals)
<1>a. (\A i \in Replayed' : Remembered(i)') => RowsRemembered'
    BY DEF RowsRemembered
<1>b. ASSUME MemoryGrows, NEW i \in Replayed, log'[i] = log[i]
      PROVE  Remembered(i)'
    BY <1>b, RowsStayRemembered
\* The log stays as it is and the memory grows.
<1>1. ASSUME UNCHANGED <<log, phase, cursor, forgotten>>, MemoryGrows
      PROVE  RowsRemembered'
    <2>1. Replayed' = Replayed
        BY <1>1 DEF Replayed
    <2> QED BY <1>1, <1>a, <1>b, <2>1
\* A row joins it that the memory already holds.
<1>2. ASSUME NEW row, log' = Append(log, row), UNCHANGED <<forgotten, spent, cohorts, history>>,
             phase' = "serving",
             phase = "serving" \/ cursor > Len(log),
             row \in Row, row.cohorts \subseteq cohorts[row.user],
             spent[row.user] <= MaxHistory => Holds(history[row.user], row.totals)
      PROVE  RowsRemembered'
    <2>1. /\ DOMAIN log' = 1 .. Len(log) + 1 /\ Len(log) \in Nat
          /\ \A i \in DOMAIN log : log'[i] = log[i]
          /\ log'[Len(log) + 1] = row /\ DOMAIN log = 1 .. Len(log)
        BY <1>2, LenProperties, AppendProperties DEF TypeOK
    <2>2. MemoryGrows
        BY <1>2 DEF MemoryGrows
    <2>3. ASSUME NEW i \in Replayed' PROVE Remembered(i)'
        <3>1. CASE i = Len(log) + 1
            BY <1>2, <2>1, <3>1
        <3>2. CASE i # Len(log) + 1
            <4>1. i \in DOMAIN log /\ forgotten < i
                BY <1>2, <2>1, <3>2 DEF Replayed
            <4>2. i \in Replayed
                BY <1>2, <2>1, <4>1 DEF Replayed, TypeOK
            <4> QED BY <1>b, <2>1, <2>2, <4>1, <4>2
        <3> QED BY <3>1, <3>2
    <2> QED BY <1>a, <2>3
<1>3. ASSUME NEW t \in Threads,
             AppendRow(t) \/ AppendTorn(t) \/ AppendError(t) \/ AppendErrorFails(t)
      PROVE  RowsRemembered'
    <2>1. UNCHANGED <<phase, cursor, forgotten, spent, cohorts, history>> /\ phase = "serving"
        BY <1>3, AppendCases DEF HoldsLock, Active
    <2>2. ASSUME log' = Append(log, OutcomeRow(t)), pc[t] = "append", OutcomeRow(t) \in Row
          PROVE  RowsRemembered'
        <3>1. /\ OutcomeRow(t).user = who[t]
              /\ \/ /\ out[t] \in ReleasedStatus
                    /\ OutcomeRow(t).cohorts = kept[t] /\ OutcomeRow(t).totals = seen[t]
                 \/ OutcomeRow(t).cohorts = {} /\ OutcomeRow(t).totals = <<>>
            BY DEF OutcomeRow
        <3>2. /\ out[t] \in ReleasedStatus => kept[t] \subseteq cohorts[who[t]]
              /\ spent[who[t]] <= MaxHistory => Holds(history[who[t]], seen[t])
            BY <2>2 DEF RequestsRemembered, Active
        <3>3. OutcomeRow(t).cohorts \subseteq cohorts[OutcomeRow(t).user]
            BY <3>1, <3>2
        <3>4. Holds(history[who[t]], <<>>)
            BY DEF Holds
        <3>5. spent[OutcomeRow(t).user] <= MaxHistory =>
                  Holds(history[OutcomeRow(t).user], OutcomeRow(t).totals)
            BY <3>1, <3>2, <3>4
        <3> QED BY <1>2, <2>1, <2>2, <3>3, <3>5
    <2>3. ASSUME log' = Append(log, ErrorRow(t)), ErrorRow(t) \in Row
          PROVE  RowsRemembered'
        <3>1. ErrorRow(t).cohorts = {} /\ ErrorRow(t).totals = <<>>
            BY DEF ErrorRow
        <3>2. /\ ErrorRow(t).cohorts \subseteq cohorts[ErrorRow(t).user]
              /\ Holds(history[ErrorRow(t).user], ErrorRow(t).totals)
            BY <3>1 DEF Holds
        <3> QED BY <1>2, <2>1, <2>3, <3>2
    <2>4. ASSUME log' = log PROVE RowsRemembered'
        <3>1. MemoryGrows
            BY <2>1 DEF MemoryGrows
        <3> QED BY <1>1, <2>1, <2>4, <3>1
    <2>5. OutcomeRow(t) \in Row /\ ErrorRow(t) \in Row
        <3>1. before[t] <= spent[who[t]]
            BY NeverRefunded
        <3> QED BY <3>1, RowsTyped
    <2>6. \/ pc[t] = "append" /\ log' = Append(log, OutcomeRow(t))
          \/ log' = Append(log, ErrorRow(t))
          \/ log' = log
        BY <1>3, AppendCases DEF Commit
    <2> QED BY <2>2, <2>3, <2>4, <2>5, <2>6
<1>4. ASSUME NEW t \in Threads, Step(t), UNCHANGED <<log, phase, cursor, forgotten>>
      PROVE  RowsRemembered'
    BY <1>1, <1>4, StepMemory
<1>5. ASSUME NEW t \in Threads, Step(t)
      PROVE  RowsRemembered'
    BY <1>3, <1>4, <1>5, ObserveMoves
       DEF Step, Refuse, OverBudget, PassGates, ObserveThenRaise, Withhold, RecordCohorts,
           Raise, ChargeError, AuditGap, Return
<1>6. ASSUME ReplayRow
      PROVE  RowsRemembered'
    <2>1. ASSUME NEW i \in Replayed' PROVE Remembered(i)'
        <3>1. CASE i = cursor
            BY <1>6, <3>1, ReplayMemory DEF ReplayRow
        <3>2. CASE i # cursor
            <4>1. i \in Replayed /\ log'[i] = log[i]
                BY <1>6, <3>2 DEF Replayed, ReplayRow, TypeOK
            <4> QED BY <1>6, <1>b, <4>1, ReplayMemory
        <3> QED BY <3>1, <3>2
    <2> QED BY <1>a, <2>1
<1>7. ASSUME StartServing
      PROVE  RowsRemembered'
    <2>1. /\ ConfigRow \in Row /\ ConfigRow.cohorts = {} /\ ConfigRow.totals = <<>>
        BY SessionAssumption DEF ConfigRow, Row
    <2>2. /\ ConfigRow.cohorts \subseteq cohorts[ConfigRow.user]
          /\ Holds(history[ConfigRow.user], ConfigRow.totals)
        BY <2>1 DEF Holds
    <2>3. /\ log' = Append(log, ConfigRow)
          /\ UNCHANGED <<forgotten, spent, cohorts, history>>
          /\ phase' = "serving" /\ cursor > Len(log)
        BY <1>7 DEF StartServing
    <2> QED BY <1>2, <2>1, <2>2, <2>3
<1>8. ASSUME NEW old \in forgotten .. Len(log), Crash(old)
      PROVE  RowsRemembered'
    <2>1. /\ phase' = "replaying" /\ forgotten' = old /\ cursor' = old + 1 /\ log' = log
          /\ old \in Int
        BY <1>8 DEF Crash, TypeOK
    <2>2. Replayed' = {}
        BY <2>1, LenProperties DEF Replayed, TypeOK
    <2> QED BY <2>2, <1>a
<1>9. ASSUME UNCHANGED <<log, phase, cursor, forgotten, spent, cohorts, history>>
      PROVE  RowsRemembered'
    BY <1>1, <1>9 DEF MemoryGrows
<1> QED BY <1>5, <1>6, <1>7, <1>8, <1>9 DEF Next, Enter, vars

LEMMA RequestsRememberedNext ==
    /\ TypeOK /\ HoldsLock /\ StatusSettled /\ HistoryWithinSpend
    /\ RequestsRemembered /\ [Next]_vars
    => RequestsRemembered'
<1> SUFFICES ASSUME TypeOK, HoldsLock, StatusSettled, HistoryWithinSpend,
                    RequestsRemembered, [Next]_vars
             PROVE  RequestsRemembered'
    OBVIOUS
<1> USE DEF session, locals, aux
<1> DEFINE Recorded(x) == pc[x] = "append" /\ out[x] \in ReleasedStatus
                              => kept[x] \subseteq cohorts[who[x]]
           Observed(x) == Active(x) /\ spent[who[x]] <= MaxHistory
                              => Holds(history[who[x]], seen[x])
<1>a. (\A x \in Threads : Recorded(x)' /\ Observed(x)') => RequestsRemembered'
    BY DEF RequestsRemembered
<1>b. \A x \in Threads : Recorded(x) /\ Observed(x) /\ who[x] \in Users
    BY DEF RequestsRemembered, TypeOK
\* A request whose locals stay as they are keeps what it had remembered.
<1>1. ASSUME MemoryGrows, NEW x \in Threads,
             UNCHANGED <<who[x], kept[x], seen[x]>>,
             Active(x)' => Active(x),
             Recorded(x)' \/ (pc'[x] = pc[x] /\ out'[x] = out[x])
      PROVE  Recorded(x)' /\ Observed(x)'
    BY <1>1, <1>b DEF MemoryGrows
<1>2. ASSUME NEW t \in Threads, NEW u \in Users, NEW q \in Queries, Enter(t, u, q)
      PROVE  RequestsRemembered'
    <2>1. MemoryGrows
        BY <1>2 DEF Enter, MemoryGrows
    <2>2. pc'[t] = "gates" /\ seen'[t] = <<>>
        BY <1>2 DEF Enter, Frame, TypeOK
    <2>3. Recorded(t)' /\ Observed(t)'
        BY <2>2 DEF Holds
    <2>4. ASSUME NEW x \in Threads, x # t
          PROVE  Recorded(x)' /\ Observed(x)'
        <3>1. UNCHANGED <<who[x], kept[x], seen[x], pc[x], out[x]>>
            BY <1>2, <2>4 DEF Enter, Frame, TypeOK
        <3> QED BY <1>1, <2>1, <3>1 DEF Active
    <2> QED BY <1>a, <2>3, <2>4
<1>3. ASSUME NEW t \in Threads, NEW v \in Verdicts, Observe(t, v)
      PROVE  RequestsRemembered'
    <2> DEFINE obs == query[t].aggs[role[t]].observed
    <2>1. MemoryGrows
        BY <1>3, ObserveMemory
    <2>2. /\ obs \in Observation
          /\ spent'[who[t]] <= MaxHistory => Holds(history'[who[t]], <<obs>>)
        BY <1>3, ObserveMemory
    <2>3. seen' = [seen EXCEPT ![t] = Append(@, obs)] /\ who' = who
        BY <1>3, ObserveCases
    <2>4. pc[t] = "role" /\ out[t] = "denied"
        BY <1>3, ObserveMoves DEF StatusSettled
    <2>5. Recorded(t)'
        BY <1>3, <2>4, ObserveMoves DEF ReleasedStatus, TypeOK
    <2> HIDE DEF obs
    <2>6. ASSUME spent'[who[t]] <= MaxHistory
          PROVE  Holds(history'[who[t]], Append(seen[t], obs))
        <3>1. Holds(history'[who[t]], seen[t])
            BY <1>b, <2>1, <2>4, <2>6 DEF MemoryGrows, Active
        <3>2. \E m \in DOMAIN history'[who[t]] : history'[who[t]][m] = obs
            BY <2>2, <2>6 DEF Holds
        <3>3. /\ DOMAIN Append(seen[t], obs) = 1 .. Len(seen[t]) + 1
              /\ \A i \in 1 .. Len(seen[t]) : Append(seen[t], obs)[i] = seen[t][i]
              /\ Append(seen[t], obs)[Len(seen[t]) + 1] = obs
              /\ DOMAIN seen[t] = 1 .. Len(seen[t]) /\ Len(seen[t]) \in Nat
            BY <2>2, LenProperties, AppendProperties DEF TypeOK
        <3> QED BY <3>1, <3>2, <3>3 DEF Holds
    <2>7. Observed(t)'
        BY <2>3, <2>6 DEF TypeOK
    <2>8. ASSUME NEW x \in Threads, x # t
          PROVE  Recorded(x)' /\ Observed(x)'
        <3>1. UNCHANGED <<who[x], seen[x]>>
            BY <2>3, <2>8 DEF TypeOK
        <3>2. kept'[x] = kept[x]
            <4>1. kept' = kept \/ kept' = [kept EXCEPT ![t] = @ \cup {query[t].aggs[role[t]].cohort}]
                BY <1>3, ObserveCases
            <4> QED BY <2>8, <4>1 DEF TypeOK
        <3>3. pc'[x] = pc[x] /\ out'[x] = out[x]
            <4>1. /\ \/ pc' = [pc EXCEPT ![t] = "append"] \/ pc' = [pc EXCEPT ![t] = "role"]
                     \/ pc' = [pc EXCEPT ![t] = "decide"]
                  /\ \/ out' = out \/ out' = [out EXCEPT ![t] = "released"]
                     \/ out' = [out EXCEPT ![t] = "redacted"]
                BY <1>3, ObserveMoves
            <4> QED BY <2>8, <4>1 DEF TypeOK
        <3> QED BY <1>1, <2>1, <3>1, <3>2, <3>3 DEF Active
    <2> QED BY <1>a, <2>5, <2>7, <2>8
<1>4. ASSUME NEW t \in Threads, Step(t), UNCHANGED <<who, kept, seen>>, Active(t),
             pc'[t] # "append" \/ out'[t] \notin ReleasedStatus
                \/ kept'[t] \subseteq cohorts'[who'[t]],
             \A x \in Threads : x # t => pc'[x] = pc[x] /\ out'[x] = out[x]
      PROVE  RequestsRemembered'
    <2>1. MemoryGrows
        BY <1>4, StepMemory
    <2>2. Recorded(t)'
        BY <1>4
    <2>3. ASSUME NEW x \in Threads PROVE Recorded(x)' /\ Observed(x)'
        BY <1>1, <1>4, <2>1, <2>2 DEF Active
    <2> QED BY <1>a, <2>3
<1>5. ASSUME NEW t \in Threads, Refuse(t) \/ OverBudget(t) \/ PassGates(t) \/ Raise(t)
      PROVE  RequestsRemembered'
    BY <1>4, <1>5 DEF Step, Active, TypeOK, StatusSettled, ReleasedStatus, Refuse, OverBudget,
                      PassGates, Raise
<1>6. ASSUME NEW t \in Threads,
             \/ ObserveThenRaise(t) \/ \E st \in {"denied", "review"} : Withhold(t, st)
             \/ ChargeError(t) \/ AuditGap(t)
      PROVE  RequestsRemembered'
    BY <1>4, <1>6 DEF Step, Active, TypeOK, ReleasedStatus, ObserveThenRaise, Withhold,
                      ChargeError, AuditGap
<1>7. ASSUME NEW t \in Threads, RecordCohorts(t)
      PROVE  RequestsRemembered'
    BY <1>4, <1>7 DEF Step, Active, TypeOK, RecordCohorts
<1>8. ASSUME NEW t \in Threads,
             AppendRow(t) \/ AppendTorn(t) \/ AppendError(t) \/ AppendErrorFails(t)
      PROVE  RequestsRemembered'
    <2>1. UNCHANGED <<who, kept, seen, out>> /\ Active(t)
        BY <1>8, AppendCases DEF Active
    <2>2. \/ pc' = [pc EXCEPT ![t] = "return"] \/ pc' = [pc EXCEPT ![t] = "error"]
          \/ pc' = [pc EXCEPT ![t] = "retry"]
        BY <1>8, AppendCases DEF Commit
    <2>3. Step(t)
        BY <1>8 DEF Step
    <2>4. /\ pc'[t] # "append"
          /\ \A x \in Threads : x # t => pc'[x] = pc[x] /\ out'[x] = out[x]
        BY <2>1, <2>2 DEF TypeOK
    <2> QED BY <1>4, <2>1, <2>3, <2>4
<1>9. ASSUME NEW t \in Threads, Return(t)
      PROVE  RequestsRemembered'
    <2>1. MemoryGrows
        BY <1>9, StepMemory DEF Step
    <2>2. ~Active(t)' /\ pc'[t] # "append"
        BY <1>9 DEF Return, Active, TypeOK
    <2>3. ASSUME NEW x \in Threads, x # t
          PROVE  Recorded(x)' /\ Observed(x)'
        <3>1. UNCHANGED <<who[x], kept[x], seen[x], pc[x], out[x]>>
            BY <1>9, <2>3 DEF Return, Frame, TypeOK
        <3> QED BY <1>1, <2>1, <3>1 DEF Active
    <2> QED BY <1>a, <2>2, <2>3
<1>10. ASSUME ReplayRow \/ StartServing \/ \E old \in forgotten .. Len(log) : Crash(old)
       PROVE  RequestsRemembered'
    <2>1. \A x \in Threads : pc'[x] = "idle"
        BY <1>10 DEF HoldsLock, Active, ReplayRow, StartServing, Crash, PerThread
    <2> QED BY <1>a, <2>1 DEF Active
<1>11. ASSUME UNCHANGED vars
       PROVE  RequestsRemembered'
    BY <1>11 DEF RequestsRemembered, Active, vars
<1> QED BY <1>2, <1>3, <1>5, <1>6, <1>7, <1>8, <1>9, <1>10, <1>11 DEF Next, Step

-----------------------------------------------------------------------------
(***************************************************************************)
(* What is released stays apart.                                           *)
(***************************************************************************)

LEMMA PendingApartNext ==
    /\ TypeOK /\ HoldsLock /\ StatusSettled /\ RowsRemembered
    /\ PendingApart /\ [Next]_vars
    => PendingApart'
<1> SUFFICES ASSUME TypeOK, HoldsLock, StatusSettled, RowsRemembered, PendingApart, [Next]_vars
             PROVE  PendingApart'
    OBVIOUS
<1> USE DEF session, locals, aux
<1> DEFINE Held(x) == [cohorts |-> kept[x], totals |-> seen[x]]
           Clear(x) == Pending(x) =>
                \A i \in DOMAIN log :
                    forgotten < i /\ log[i].user = who[x] => Apart(log[i], Held(x))
<1>a. (\A x \in Threads : Clear(x)') => PendingApart'
    BY DEF PendingApart
<1>b. \A x \in Threads : Clear(x)
    BY DEF PendingApart
\* Neither the log nor what the request holds changes.
<1>1. ASSUME NEW x \in Threads, UNCHANGED <<log, forgotten, who[x], kept[x], seen[x]>>,
             Pending(x)' => Pending(x)
      PROVE  Clear(x)'
    BY <1>1, <1>b
<1>2. ASSUME NEW t \in Threads, NEW u \in Users, NEW q \in Queries, Enter(t, u, q)
      PROVE  PendingApart'
    <2>1. kept'[t] = {} /\ seen'[t] = <<>>
        BY <1>2 DEF Enter, Frame, TypeOK
    <2>2. Clear(t)'
        BY <2>1 DEF Apart
    <2>3. ASSUME NEW x \in Threads, x # t
          PROVE  UNCHANGED <<log, forgotten, who[x], kept[x], seen[x], pc[x], out[x]>>
        BY <1>2, <2>3 DEF Enter, Frame, TypeOK
    <2> QED BY <1>1, <1>a, <2>2, <2>3 DEF Pending
<1>3. ASSUME NEW t \in Threads, UNCHANGED <<log, forgotten, who, kept, seen>>,
             Pending(t)' => Pending(t),
             \A x \in Threads : x # t => pc'[x] = pc[x] /\ out'[x] = out[x]
      PROVE  PendingApart'
    <2>1. ASSUME NEW x \in Threads PROVE Clear(x)'
        BY <1>1, <1>3 DEF Pending
    <2> QED BY <1>a, <2>1
<1>4. ASSUME NEW t \in Threads, Refuse(t) \/ OverBudget(t) \/ PassGates(t) \/ Raise(t)
      PROVE  PendingApart'
    BY <1>3, <1>4 DEF Pending, TypeOK, StatusSettled, ReleasedStatus, Refuse, OverBudget,
                      PassGates, Raise
<1>5. ASSUME NEW t \in Threads,
             \/ ObserveThenRaise(t) \/ \E st \in {"denied", "review"} : Withhold(t, st)
             \/ RecordCohorts(t) \/ ChargeError(t) \/ AuditGap(t)
      PROVE  PendingApart'
    BY <1>3, <1>5 DEF Pending, TypeOK, ReleasedStatus, ObserveThenRaise, Withhold,
                      RecordCohorts, ChargeError, AuditGap
\* Both layers were clear of everything remembered, which is all of the log.
<1>6. ASSUME NEW t \in Threads, NEW v \in Verdicts, Observe(t, v)
      PROVE  PendingApart'
    <2> DEFINE u == who[t]
               agg == query[t].aggs[role[t]]
    <2>1. /\ seen' = [seen EXCEPT ![t] = Append(@, agg.observed)]
          /\ UNCHANGED <<who, log, forgotten>> /\ pc[t] = "role"
        BY <1>6, ObserveCases
    <2>2. kept' = kept \/ kept' = [kept EXCEPT ![t] = @ \cup {agg.cohort}]
        BY <1>6, ObserveCases
    <2>3. /\ agg.observed \in Observation /\ agg.cohort \in Cohort /\ u \in Users
          /\ seen[t] \in Seq(Observation)
        BY QueryFacts DEF TypeOK
    <2>4. \/ ~Flagged(u, agg)
          \/ pc' = [pc EXCEPT ![t] = "append"] /\ out' = out
        BY <1>6, ObserveCases
    <2>5. phase = "serving"
        BY <2>1 DEF HoldsLock, Active
    <2> HIDE DEF agg, u
    <2>6. CASE pc' = [pc EXCEPT ![t] = "append"] /\ out' = out
        <3>1. out[t] = "denied"
            BY <2>1 DEF StatusSettled
        <3>2. ~Pending(t)'
            BY <2>6, <3>1 DEF Pending, TypeOK, ReleasedStatus
        <3>3. ASSUME NEW x \in Threads, x # t
              PROVE  UNCHANGED <<log, forgotten, who[x], kept[x], seen[x], pc[x], out[x]>>
            BY <2>1, <2>2, <2>6, <3>3 DEF TypeOK
        <3> QED BY <1>1, <1>a, <3>2, <3>3 DEF Pending
    <2>7. CASE ~Flagged(u, agg)
        <3>1. ASSUME NEW i \in DOMAIN log, forgotten < i, log[i].user = u
              PROVE  Apart(log[i], Held(t))'
            <4>1. /\ Apart(log[i], Held(t))
                  /\ i \in Replayed
                BY <1>b, <2>1, <2>5, <3>1 DEF Pending, Replayed, u
            <4>2. /\ log[i].cohorts \subseteq cohorts[u]
                  /\ spent[u] <= MaxHistory => Holds(history[u], log[i].totals)
                BY <3>1, <4>1 DEF RowsRemembered
            <4>3. spent[u] <= MaxHistory
                BY SMTT(30), <2>3, <2>7, SessionAssumption DEF Flagged, TypeOK
            <4>4. \A p \in log[i].cohorts : ~TooClose(p, agg.cohort)
                BY <2>7, <4>2 DEF Flagged
            <4>5. \A k \in DOMAIN log[i].totals : ~Near(log[i].totals[k], agg.observed)
                BY <2>7, <4>2, <4>3 DEF Flagged, Holds
            <4>6. ASSUME NEW p \in log[i].cohorts, NEW c \in kept'[t]
                  PROVE  ~TooClose(p, c)
                <5>1. c \in kept[t] \/ c = agg.cohort
                    BY <2>2, <4>6 DEF TypeOK
                <5>2. c \in kept[t] => ~TooClose(p, c)
                    BY <4>1, <4>6 DEF Apart
                <5> QED BY <4>4, <4>6, <5>1, <5>2
            <4>7. ASSUME NEW k \in DOMAIN log[i].totals, NEW j \in DOMAIN seen'[t]
                  PROVE  ~Near(log[i].totals[k], seen'[t][j])
                <5>1. /\ DOMAIN seen'[t] = 1 .. Len(seen[t]) + 1
                      /\ \A m \in 1 .. Len(seen[t]) : seen'[t][m] = seen[t][m]
                      /\ seen'[t][Len(seen[t]) + 1] = agg.observed
                      /\ DOMAIN seen[t] = 1 .. Len(seen[t]) /\ Len(seen[t]) \in Nat
                    BY <2>1, <2>3, LenProperties, AppendProperties DEF TypeOK
                <5>2. CASE j = Len(seen[t]) + 1
                    BY <4>5, <5>1, <5>2
                <5>3. CASE j # Len(seen[t]) + 1
                    <6>1. j \in DOMAIN seen[t] /\ seen'[t][j] = seen[t][j]
                        BY <5>1, <5>3
                    <6> QED BY <4>1, <6>1 DEF Apart
                <5> QED BY <5>2, <5>3
            <4> QED BY <2>1, <4>6, <4>7 DEF Apart
        <3>2. Clear(t)'
            BY <2>1, <3>1 DEF u
        <3>3. ASSUME NEW x \in Threads, x # t
              PROVE  Clear(x)'
            <4>1. UNCHANGED <<who[x], kept[x], seen[x]>>
                BY <2>1, <2>2, <3>3 DEF TypeOK
            <4>2. pc'[x] = pc[x] /\ out'[x] = out[x]
                <5>1. /\ \/ pc' = [pc EXCEPT ![t] = "append"] \/ pc' = [pc EXCEPT ![t] = "role"]
                         \/ pc' = [pc EXCEPT ![t] = "decide"]
                      /\ \/ out' = out \/ out' = [out EXCEPT ![t] = "released"]
                         \/ out' = [out EXCEPT ![t] = "redacted"]
                    BY <1>6, ObserveMoves
                <5> QED BY <3>3, <5>1 DEF TypeOK
            <4> QED BY <1>1, <2>1, <4>1, <4>2 DEF Pending
        <3> QED BY <1>a, <3>2, <3>3
    <2> QED BY <2>4, <2>6, <2>7
\* The new row is of the user of t, and no other request in flight is.
<1>7. ASSUME NEW t \in Threads,
             AppendRow(t) \/ AppendTorn(t) \/ AppendError(t) \/ AppendErrorFails(t)
      PROVE  PendingApart'
    <2>1. UNCHANGED <<forgotten, who, kept, seen, out>> /\ Active(t)
        BY <1>7, AppendCases DEF Active
    <2>2. \/ pc' = [pc EXCEPT ![t] = "return"] \/ pc' = [pc EXCEPT ![t] = "error"]
          \/ pc' = [pc EXCEPT ![t] = "retry"]
        BY <1>7, AppendCases DEF Commit
    <2>3. \/ log' = log
          \/ log' = Append(log, OutcomeRow(t)) \/ log' = Append(log, ErrorRow(t))
        BY <1>7, AppendCases DEF Commit
    <2>4. ~Pending(t)'
        BY <2>2 DEF Pending, TypeOK
    <2>5. ASSUME NEW x \in Threads, x # t
          PROVE  Clear(x)'
        <3>1. pc'[x] = pc[x] /\ out'[x] = out[x]
            BY <2>1, <2>2, <2>5 DEF TypeOK
        <3>2. CASE log' = log
            BY <1>1, <2>1, <3>1, <3>2 DEF Pending
        <3>3. ASSUME NEW row, log' = Append(log, row), row.user = who[t]
              PROVE  Clear(x)'
            <4>1. /\ DOMAIN log' = 1 .. Len(log) + 1 /\ DOMAIN log = 1 .. Len(log)
                  /\ \A i \in DOMAIN log : log'[i] = log[i]
                  /\ log'[Len(log) + 1] = row /\ Len(log) \in Nat
                BY SMTT(30), <3>3, LenProperties DEF TypeOK
            <4>2. ASSUME Pending(x), NEW i \in DOMAIN log', forgotten < i,
                         log'[i].user = who[x]
                  PROVE  Apart(log'[i], Held(x))
                <5>1. who[x] # who[t]
                    BY <2>1, <2>5, <4>2, OneRequestPerUser DEF Pending, Active
                <5>2. i \in DOMAIN log
                    BY <3>3, <4>1, <4>2, <5>1
                <5> QED BY <1>b, <4>1, <4>2, <5>2
            <4>3. Pending(x)' = Pending(x)
                BY <3>1 DEF Pending
            <4>4. Held(x)' = Held(x) /\ who'[x] = who[x] /\ forgotten' = forgotten
                BY <2>1
            <4> QED BY <4>2, <4>3, <4>4 DEF Apart
        <3> QED BY <2>3, <3>2, <3>3 DEF OutcomeRow, ErrorRow
    <2> QED BY <1>a, <2>4, <2>5
<1>8. ASSUME NEW t \in Threads, Return(t)
      PROVE  PendingApart'
    <2>1. ~Pending(t)'
        BY <1>8 DEF Return, Pending, TypeOK
    <2>2. ASSUME NEW x \in Threads, x # t
          PROVE  UNCHANGED <<log, forgotten, who[x], kept[x], seen[x], pc[x], out[x]>>
        BY <1>8, <2>2 DEF Return, Frame, TypeOK
    <2> QED BY <1>1, <1>a, <2>1, <2>2 DEF Pending
<1>9. ASSUME ReplayRow \/ StartServing \/ \E old \in forgotten .. Len(log) : Crash(old)
      PROVE  PendingApart'
    <2>1. \A x \in Threads : pc'[x] = "idle"
        BY <1>9 DEF HoldsLock, Active, ReplayRow, StartServing, Crash, PerThread
    <2> QED BY <1>a, <2>1 DEF Pending
<1>10. ASSUME UNCHANGED vars
       PROVE  PendingApart'
    BY <1>10 DEF PendingApart, Pending, Apart, vars
<1> QED BY <1>2, <1>4, <1>5, <1>6, <1>7, <1>8, <1>9, <1>10 DEF Next, Step

LEMMA RowsApartNext ==
    TypeOK /\ HoldsLock /\ PendingApart /\ RowsApart /\ [Next]_vars => RowsApart'
<1> SUFFICES ASSUME TypeOK, HoldsLock, PendingApart, RowsApart, [Next]_vars
             PROVE  RowsApart'
    OBVIOUS
<1> USE DEF session, locals, aux
<1>1. ASSUME log' = log, forgotten' >= forgotten, forgotten' \in Nat
      PROVE  RowsApart'
    <2>1. \A i \in DOMAIN log : forgotten' < i => forgotten < i
        BY <1>1, RowFacts DEF TypeOK
    <2> QED BY <1>1, <2>1 DEF RowsApart, Apart
\* A new row must be apart from the earlier rows of its user.
<1>2. ASSUME NEW row, log' = Append(log, row), forgotten' = forgotten,
             \A i \in DOMAIN log :
                forgotten < i /\ log[i].user = row.user => Apart(log[i], row)
      PROVE  RowsApart'
    <2>1. /\ DOMAIN log' = 1 .. Len(log) + 1 /\ DOMAIN log = 1 .. Len(log)
          /\ \A i \in DOMAIN log : log'[i] = log[i]
          /\ log'[Len(log) + 1] = row /\ Len(log) \in Nat
        BY <1>2, LenProperties DEF TypeOK
    <2>2. ASSUME NEW i \in DOMAIN log', NEW j \in DOMAIN log',
                 forgotten < i, i < j, log'[i].user = log'[j].user
          PROVE  Apart(log'[i], log'[j])
        <3>1. i \in DOMAIN log
            BY <2>1, <2>2
        <3>2. CASE j \in DOMAIN log
            BY <2>1, <2>2, <3>1, <3>2 DEF RowsApart
        <3>3. CASE j = Len(log) + 1
            BY <1>2, <2>1, <2>2, <3>1, <3>3
        <3> QED BY <2>1, <3>2, <3>3
    <2> QED BY <1>2, <2>2 DEF RowsApart, Apart
<1>3. ASSUME NEW row, row.cohorts = {}, row.totals = <<>>
      PROVE  \A d : Apart(d, row)
    BY <1>3 DEF Apart
<1>4. ASSUME NEW t \in Threads,
             AppendRow(t) \/ AppendTorn(t) \/ AppendError(t) \/ AppendErrorFails(t)
      PROVE  RowsApart'
    <2>1. forgotten' = forgotten
        BY <1>4, AppendCases
    <2>2. \/ pc[t] = "append" /\ log' = Append(log, OutcomeRow(t))
          \/ log' = Append(log, ErrorRow(t))
          \/ log' = log
        BY <1>4, AppendCases DEF Commit
    <2>3. /\ OutcomeRow(t).user = who[t]
          /\ \/ /\ out[t] \in ReleasedStatus
                /\ OutcomeRow(t).cohorts = kept[t] /\ OutcomeRow(t).totals = seen[t]
             \/ OutcomeRow(t).cohorts = {} /\ OutcomeRow(t).totals = <<>>
        BY DEF OutcomeRow
    <2>4. ErrorRow(t).cohorts = {} /\ ErrorRow(t).totals = <<>>
        BY DEF ErrorRow
    <2>5. CASE log' = Append(log, ErrorRow(t))
        BY <1>2, <1>3, <2>1, <2>4, <2>5
    <2>6. CASE pc[t] = "append" /\ log' = Append(log, OutcomeRow(t))
        <3>1. CASE OutcomeRow(t).cohorts = {} /\ OutcomeRow(t).totals = <<>>
            BY <1>2, <1>3, <2>1, <2>6, <3>1
        <3>2. CASE /\ out[t] \in ReleasedStatus
                   /\ OutcomeRow(t).cohorts = kept[t] /\ OutcomeRow(t).totals = seen[t]
            <4>1. \A i \in DOMAIN log :
                     forgotten < i /\ log[i].user = who[t] =>
                        Apart(log[i], [cohorts |-> kept[t], totals |-> seen[t]])
                BY <2>6, <3>2 DEF PendingApart, Pending
            <4>2. \A i \in DOMAIN log :
                     forgotten < i /\ log[i].user = who[t] => Apart(log[i], OutcomeRow(t))
                BY <3>2, <4>1 DEF Apart
            <4> QED BY <1>2, <2>1, <2>3, <2>6, <4>2
        <3> QED BY <2>3, <3>1, <3>2
    <2> QED BY SMTT(20), <1>1, <2>1, <2>2, <2>5, <2>6 DEF TypeOK
<1>5. ASSUME StartServing
      PROVE  RowsApart'
    <2>1. log' = Append(log, ConfigRow) /\ forgotten' = forgotten
        BY <1>5 DEF StartServing
    <2>2. ConfigRow.cohorts = {} /\ ConfigRow.totals = <<>>
        BY DEF ConfigRow
    <2> QED BY <1>2, <1>3, <2>1, <2>2
<1>6. ASSUME NEW old \in forgotten .. Len(log), Crash(old)
      PROVE  RowsApart'
    <2>1. log' = log /\ forgotten' = old /\ old \in Int /\ old >= forgotten
        BY <1>6, LenProperties DEF Crash, TypeOK
    <2> QED BY <1>1, <2>1 DEF TypeOK
<1>7. ASSUME log' = log, forgotten' = forgotten
      PROVE  RowsApart'
    BY <1>1, <1>7 DEF TypeOK
<1>8. ASSUME NEW t \in Threads, Step(t)
      PROVE  RowsApart'
    BY <1>4, <1>7, <1>8, ObserveMoves
       DEF Step, Refuse, OverBudget, PassGates, ObserveThenRaise, Withhold, RecordCohorts,
           Raise, ChargeError, AuditGap, Return
<1> QED BY <1>5, <1>6, <1>7, <1>8 DEF Next, Enter, ReplayRow, vars

-----------------------------------------------------------------------------
(***************************************************************************)
(* What is returned is on record.                                          *)
(***************************************************************************)

\* The record of a release t is about to return.
IsRowOf(t, i) ==
    /\ i \in DOMAIN log
    /\ log[i].status \in ReleasedStatus /\ log[i].user = who[t]
    /\ log[i].cohorts = kept[t] /\ log[i].totals = seen[t]
    /\ log[i].cost >= 1 /\ log[i].cost >= Cardinality(kept[t])

\* The log only grows.
LEMMA LogGrows ==
    ASSUME TypeOK, [Next]_vars, NEW i \in DOMAIN log
    PROVE  i \in DOMAIN log' /\ log'[i] = log[i]
<1> USE DEF session, locals, aux
<1>1. ASSUME NEW row, log' = Append(log, row)
      PROVE  i \in DOMAIN log' /\ log'[i] = log[i]
    BY <1>1, LenProperties DEF TypeOK
<1>2. \/ log' = log
      \/ \E row : log' = Append(log, row)
    <2>1. ASSUME NEW t \in Threads, Step(t)
          PROVE  log' = log \/ \E row : log' = Append(log, row)
        BY <2>1, ObserveMoves, AppendCases
           DEF Step, Refuse, OverBudget, PassGates, ObserveThenRaise, Withhold,
               RecordCohorts, Raise, ChargeError, AuditGap, Return, Commit
    <2> QED BY <2>1 DEF Next, Enter, Crash, ReplayRow, StartServing, vars
<1> QED BY <1>1, <1>2

LEMMA ReturnsNext ==
    TypeOK /\ PaidFor /\ StatusSettled /\ ReturnsItsRow /\ [Next]_vars => ReturnsItsRow'
<1> SUFFICES ASSUME TypeOK, PaidFor, StatusSettled, ReturnsItsRow, [Next]_vars
             PROVE  ReturnsItsRow'
    OBVIOUS
<1> USE DEF session, locals, aux
<1> DEFINE Returns(x) == pc[x] = "return" /\ out[x] \in ReleasedStatus => IsRowOf(x, rowAt[x])
<1>a. (\A x \in Threads : Returns(x)') => ReturnsItsRow'
    BY DEF ReturnsItsRow, IsRowOf
<1>b. \A x \in Threads : Returns(x)
    BY DEF ReturnsItsRow, IsRowOf
<1>1. ASSUME NEW x \in Threads, UNCHANGED <<who[x], kept[x], seen[x], rowAt[x], pc[x], out[x]>>
      PROVE  Returns(x)'
    <2>1. ASSUME NEW i, IsRowOf(x, i) PROVE IsRowOf(x, i)'
        BY <1>1, <2>1, LogGrows DEF IsRowOf
    <2> QED BY <1>1, <1>b, <2>1
<1>2. ASSUME NEW t \in Threads,
             \A x \in Threads : x # t =>
                UNCHANGED <<who[x], kept[x], seen[x], rowAt[x], pc[x], out[x]>>,
             pc'[t] # "return" \/ out'[t] \notin ReleasedStatus
      PROVE  ReturnsItsRow'
    BY <1>1, <1>2, <1>a
<1>3. ASSUME NEW t \in Threads, NEW u \in Users, NEW q \in Queries, Enter(t, u, q)
      PROVE  ReturnsItsRow'
    BY <1>2, <1>3 DEF Enter, Frame, TypeOK
<1>4. ASSUME NEW t \in Threads, NEW v \in Verdicts, Observe(t, v)
      PROVE  ReturnsItsRow'
    <2>1. \/ pc' = [pc EXCEPT ![t] = "append"] \/ pc' = [pc EXCEPT ![t] = "role"]
          \/ pc' = [pc EXCEPT ![t] = "decide"]
        BY <1>4, ObserveMoves
    <2>2. \/ out' = out \/ out' = [out EXCEPT ![t] = "released"]
          \/ out' = [out EXCEPT ![t] = "redacted"]
        BY <1>4, ObserveMoves
    <2>3. /\ seen' = [seen EXCEPT ![t] = Append(@, query[t].aggs[role[t]].observed)]
          /\ who' = who /\ rowAt' = rowAt
        BY <1>4, ObserveCases
    <2>4. \/ kept' = kept
          \/ kept' = [kept EXCEPT ![t] = @ \cup {query[t].aggs[role[t]].cohort}]
        BY <1>4, ObserveCases
    <2>5. ASSUME NEW x \in Threads, x # t
          PROVE  UNCHANGED <<who[x], kept[x], seen[x], rowAt[x], pc[x], out[x]>>
        <3>1. pc'[x] = pc[x] /\ out'[x] = out[x]
            BY <2>1, <2>2, <2>5 DEF TypeOK
        <3>2. kept'[x] = kept[x] /\ seen'[x] = seen[x]
            BY <2>3, <2>4, <2>5 DEF TypeOK
        <3> QED BY <2>3, <3>1, <3>2
    <2>6. pc'[t] # "return"
        BY <2>1 DEF TypeOK
    <2> QED BY <1>2, <2>5, <2>6
<1>5. ASSUME NEW t \in Threads,
             \/ Refuse(t) \/ OverBudget(t) \/ PassGates(t) \/ Raise(t) \/ RecordCohorts(t)
             \/ ObserveThenRaise(t) \/ \E st \in {"denied", "review"} : Withhold(t, st)
             \/ ChargeError(t)
      PROVE  ReturnsItsRow'
    BY <1>2, <1>5 DEF TypeOK, Refuse, OverBudget, PassGates, Raise, RecordCohorts,
                      ObserveThenRaise, Withhold, ChargeError
<1>6. ASSUME NEW t \in Threads, AuditGap(t)
      PROVE  ReturnsItsRow'
    BY <1>2, <1>6 DEF TypeOK, StatusSettled, ReleasedStatus, AuditGap
<1>7. ASSUME NEW t \in Threads,
             AppendRow(t) \/ AppendTorn(t) \/ AppendError(t) \/ AppendErrorFails(t)
      PROVE  ReturnsItsRow'
    <2>1. UNCHANGED <<who, kept, seen, out>>
        BY <1>7, AppendCases
    <2>2. \/ pc[t] = "append" /\ (\E next : Commit(t, OutcomeRow(t), next))
          \/ (pc[t] = "errorRow" \/ pc[t] = "retry") /\ (\E next : Commit(t, ErrorRow(t), next))
          \/ pc' = [pc EXCEPT ![t] = "retry"] /\ rowAt' = rowAt
        BY <1>7, AppendCases
    <2>3. ASSUME NEW x \in Threads, x # t
          PROVE  UNCHANGED <<rowAt[x], pc[x]>>
        BY <2>2, <2>3 DEF Commit, TypeOK
    <2>4. CASE pc' = [pc EXCEPT ![t] = "retry"] /\ rowAt' = rowAt
        BY <1>2, <2>1, <2>3, <2>4 DEF TypeOK
    <2>5. CASE pc[t] = "errorRow" \/ pc[t] = "retry"
        BY <1>2, <2>1, <2>3, <2>5 DEF StatusSettled, ReleasedStatus
    <2>6. ASSUME pc[t] = "append", NEW next, Commit(t, OutcomeRow(t), next),
                 out[t] \in ReleasedStatus
          PROVE  Returns(t)'
        <3>1. /\ before[t] \in Nat /\ spent[who[t]] \in Nat /\ Len(seen[t]) \in Nat
              /\ Len(seen[t]) >= 1 /\ before[t] + Len(seen[t]) <= spent[who[t]]
              /\ Cardinality(kept[t]) <= Len(seen[t]) /\ Cardinality(kept[t]) \in Nat
            BY <2>6, LenProperties, FS_CardinalityType DEF PaidFor, TypeOK
        <3>2. OutcomeRow(t) \in Row
            BY <3>1, RowsTyped
        <3>3. /\ Len(log) + 1 \in DOMAIN log' /\ log'[Len(log) + 1] = OutcomeRow(t)
              /\ rowAt'[t] = Len(log) + 1
            <4>1. Len(log) \in Nat /\ DOMAIN log' = 1 .. Len(log) + 1
                  /\ log'[Len(log) + 1] = OutcomeRow(t)
                BY <2>6, <3>2, CommitFacts
            <4> QED BY <2>6, <4>1 DEF Commit, TypeOK
        <3>4. /\ OutcomeRow(t).status = out[t] /\ OutcomeRow(t).user = who[t]
              /\ OutcomeRow(t).cohorts = kept[t] /\ OutcomeRow(t).totals = seen[t]
              /\ OutcomeRow(t).cost = spent[who[t]] - before[t]
            BY <2>6 DEF OutcomeRow
        <3>5. /\ OutcomeRow(t).cost >= 1
              /\ OutcomeRow(t).cost >= Cardinality(kept[t])
            BY <3>1, <3>4
        <3> QED BY <2>1, <2>6, <3>3, <3>4, <3>5 DEF IsRowOf
    <2>7. CASE pc[t] = "append" /\ (\E next : Commit(t, OutcomeRow(t), next))
        <3>1. CASE out[t] \in ReleasedStatus
            <4>1. \A x \in Threads : x # t => Returns(x)'
                BY <1>1, <2>1, <2>3
            <4> QED BY <1>a, <2>6, <2>7, <3>1, <4>1
        <3>2. CASE out[t] \notin ReleasedStatus
            BY <1>2, <2>1, <2>3, <3>2
        <3> QED BY <3>1, <3>2
    <2> QED BY <2>2, <2>4, <2>5, <2>7
<1>8. ASSUME NEW t \in Threads, Return(t)
      PROVE  ReturnsItsRow'
    BY <1>2, <1>8 DEF Return, Frame, TypeOK
<1>9. ASSUME NEW old \in forgotten .. Len(log), Crash(old)
      PROVE  ReturnsItsRow'
    BY <1>9, <1>a DEF Crash, PerThread
<1>10. ASSUME ReplayRow \/ StartServing \/ UNCHANGED vars
       PROVE  ReturnsItsRow'
    BY <1>1, <1>10, <1>a DEF ReplayRow, StartServing, vars
<1> QED BY <1>3, <1>4, <1>5, <1>6, <1>7, <1>8, <1>9, <1>10 DEF Next, Step

LEMMA LoggedNext ==
    TypeOK /\ ReturnsItsRow /\ ReleaseIsLogged /\ [Next]_vars => ReleaseIsLogged'
<1> SUFFICES ASSUME TypeOK, ReturnsItsRow, ReleaseIsLogged, [Next]_vars,
                    NEW d \in delivered'
             PROVE  /\ d.row \in DOMAIN log'
                    /\ log'[d.row].status \in ReleasedStatus
                    /\ log'[d.row].user = d.user /\ log'[d.row].cohorts = d.cohorts
                    /\ log'[d.row].totals = d.totals /\ log'[d.row].cost >= 1
                    /\ log'[d.row].cost >= Cardinality(d.cohorts)
    BY DEF ReleaseIsLogged
<1> USE DEF session, locals, aux
<1>1. CASE d \in delivered
    BY <1>1, LogGrows DEF ReleaseIsLogged
<1>2. ASSUME NEW t \in Threads, Return(t), d \notin delivered
      PROVE  /\ d.row \in DOMAIN log'
             /\ log'[d.row].status \in ReleasedStatus
             /\ log'[d.row].user = d.user /\ log'[d.row].cohorts = d.cohorts
             /\ log'[d.row].totals = d.totals /\ log'[d.row].cost >= 1
             /\ log'[d.row].cost >= Cardinality(d.cohorts)
    <2>1. /\ pc[t] = "return" /\ out[t] \in ReleasedStatus /\ log' = log
          /\ d = [user |-> who[t], cohorts |-> kept[t], totals |-> seen[t], row |-> rowAt[t]]
        BY <1>2 DEF Return
    <2>2. IsRowOf(t, rowAt[t])
        BY <2>1 DEF ReturnsItsRow, IsRowOf
    <2> QED BY <2>1, <2>2 DEF IsRowOf
<1>3. d \notin delivered => \E t \in Threads : Return(t)
    <2>1. ASSUME NEW t \in Threads, Step(t), ~Return(t)
          PROVE  delivered' = delivered
        <3>1. CASE \E v \in Verdicts : Observe(t, v)
            BY <3>1, ObserveCases
        <3> QED BY <2>1, <3>1, AppendCases
                DEF Step, Refuse, OverBudget, PassGates, ObserveThenRaise, Withhold,
                    RecordCohorts, Raise, ChargeError, AuditGap
    <2> QED BY <2>1 DEF Next, Enter, Crash, ReplayRow, StartServing, vars
<1> QED BY <1>1, <1>2, <1>3

-----------------------------------------------------------------------------
(***************************************************************************)
(* The theorems.                                                           *)
(***************************************************************************)

LEMMA SessionInit == Init => SessionInv /\ ReleaseIsLogged
<1> SUFFICES ASSUME Init PROVE SessionInv /\ ReleaseIsLogged
    OBVIOUS
<1>1. /\ \A t \in Threads : /\ pc[t] = "idle" /\ before[t] = 0 /\ seen[t] = <<>>
                            /\ kept[t] = {} /\ who[t] = SystemUser
      /\ \A u \in Users : spent[u] = 0 /\ history[u] = <<>>
      /\ log = <<>> /\ delivered = {}
    BY DEF Init, PerUser, PerThread
<1>2. Len(<<>>) = 0 /\ IsFiniteSet({}) /\ Cardinality({}) = 0
    BY EmptySeq, FS_EmptySet
<1>3. DOMAIN log = {}
    BY <1>1
<1>4. PaidFor
    <2>1. ASSUME NEW t \in Threads
          PROVE  /\ Len(seen[t]) = 0 /\ Cardinality(kept[t]) = 0 /\ IsFiniteSet(kept[t])
                 /\ before[t] = 0 /\ spent[who[t]] = 0 /\ pc[t] = "idle"
        BY <1>1, <1>2, SessionAssumption
    <2> QED BY <2>1 DEF PaidFor
<1>5. HistoryWithinSpend
    BY <1>1, <1>2 DEF HistoryWithinSpend
<1>6. HoldsLock /\ StatusSettled /\ RequestsRemembered /\ PendingApart /\ ReturnsItsRow
    BY <1>1 DEF HoldsLock, StatusSettled, RequestsRemembered, PendingApart, ReturnsItsRow,
                Active, Pending
<1>7. RowsPaid /\ RowsRemembered /\ RowsApart
    BY <1>3 DEF RowsPaid, RowsRemembered, RowsApart, Replayed
<1> QED BY <1>1, <1>4, <1>5, <1>6, <1>7 DEF SessionInv, ReleaseIsLogged

\* The auditors' ledgers, the log and every request in flight keep their
\* types, and SessionInv is inductive relative to them.
THEOREM SessionCorrect == Spec => [](TypeOK /\ SessionInv /\ ReleaseIsLogged)
<1>1. Init => TypeOK /\ SessionInv /\ ReleaseIsLogged
    BY TypeInit, SessionInit
<1>2. TypeOK /\ SessionInv /\ ReleaseIsLogged /\ [Next]_vars
         => (TypeOK /\ SessionInv /\ ReleaseIsLogged)'
    BY TypeNext, LockNext, StatusNext, PaidNext, RowsPaidNext, HistoryNext,
       RowsRememberedNext, RequestsRememberedNext, PendingApartNext, RowsApartNext,
       ReturnsNext, LoggedNext
       DEF SessionInv
<1> QED BY <1>1, <1>2, PTL DEF Spec

\* Every variable keeps its type (TypeOK).
THEOREM TypeCorrect == Spec => []TypeOK
BY SessionCorrect, PTL

\* Whatever a caller was given is in the log, with what a restart needs, and
\* was paid for there.
THEOREM ReleasesLogged == Spec => []ReleaseIsLogged
BY SessionCorrect, PTL

\* Two releases to one analyst are two rows of the log, which are apart.
LEMMA ApartReleases ==
    ASSUME RowsApart, ReleaseIsLogged, TypeOK
    PROVE  LineageSafe /\ TotalsSafe
<1>1. ASSUME NEW d \in delivered, NEW e \in delivered,
             d.user = e.user, forgotten < d.row, d.row < e.row
      PROVE  /\ \A p \in d.cohorts, c \in e.cohorts : ~TooClose(p, c)
             /\ \A i \in DOMAIN d.totals, j \in DOMAIN e.totals :
                    ~Near(d.totals[i], e.totals[j])
    <2>1. /\ d.row \in DOMAIN log /\ e.row \in DOMAIN log
          /\ log[d.row].user = log[e.row].user
          /\ log[d.row].cohorts = d.cohorts /\ log[e.row].cohorts = e.cohorts
          /\ log[d.row].totals = d.totals /\ log[e.row].totals = e.totals
        BY <1>1 DEF ReleaseIsLogged
    <2>2. Apart(log[d.row], log[e.row])
        BY <1>1, <2>1 DEF RowsApart
    <2> QED BY <2>1, <2>2 DEF Apart
<1> QED BY <1>1 DEF LineageSafe, TotalsSafe

\* No two releases inside the window are within the differencing threshold of
\* each other, whatever the threads, the failures and the restarts between.
THEOREM LineageCorrect == Spec => []LineageSafe
<1>1. TypeOK /\ SessionInv /\ ReleaseIsLogged => LineageSafe
    BY ApartReleases DEF SessionInv
<1> QED BY <1>1, SessionCorrect, PTL

\* Nor do two of them carry totals of one measure that are that close; the
\* bounded history suffices because the budget is at most its length.
THEOREM TotalsCorrect == Spec => []TotalsSafe
<1>1. TypeOK /\ SessionInv /\ ReleaseIsLogged => TotalsSafe
    BY ApartReleases DEF SessionInv
<1> QED BY <1>1, SessionCorrect, PTL

-----------------------------------------------------------------------------
(***************************************************************************)
(* What one step of a request can change.                                  *)
(***************************************************************************)

\* Nothing but the request's place and its outcome.
MovesOn(t) ==
    /\ UNCHANGED <<spent, cohorts, log, gap, role, written, rowAt>>
    /\ \/ pc[t] = "gates" /\ pc'[t] = "role" /\ Affordable(who[t], query[t]) /\ out' = out
       \/ pc[t] = "gates" /\ pc'[t] = "append" /\ out' = out
       \/ pc[t] = "decide" /\ pc'[t] = "append" /\ out'[t] \notin ReleasedStatus
       \/ pc[t] \in {"gates", "role", "decide", "append"} /\ pc'[t] = "error" /\ out' = out
       \/ pc[t] = "errorRow" /\ pc'[t] = "retry" /\ out' = out

\* One aggregate, charged whatever comes of it.
Observes(t) ==
    /\ pc[t] = "role"
    /\ spent' = [spent EXCEPT ![who[t]] = @ + 1]
    /\ UNCHANGED <<cohorts, log, gap, written, rowAt>>
    /\ \/ pc'[t] = "role" /\ role[t] # Len(query[t].aggs) /\ role'[t] = role[t] + 1
       \/ pc'[t] \in {"decide", "error"}
       \/ pc'[t] = "append" /\ out'[t] = out[t]

\* The lineage of what is about to be released.
Records(t) ==
    /\ pc[t] = "decide" /\ pc'[t] = "append"
    /\ cohorts' = [cohorts EXCEPT ![who[t]] = @ \cup kept[t]]
    /\ UNCHANGED <<spent, log, gap, role, out, written, rowAt>>

\* A row, of the outcome or of the error, and what comes after it.
Commits(t, row, next) ==
    /\ Commit(t, row, next)
    /\ UNCHANGED <<spent, cohorts, gap, role, out>>
    /\ \/ /\ pc[t] = "append" /\ row = OutcomeRow(t)
          /\ next = "return" \/ (next = "error" /\ "torn" \in Faults)
       \/ /\ pc[t] \in {"errorRow", "retry"} /\ row = ErrorRow(t)
          /\ next = "return" \/ (next = "retry" /\ "torn" \in Faults /\ pc[t] = "errorRow")

Charges(t) ==
    /\ pc[t] = "error" /\ pc'[t] = "errorRow" /\ out'[t] = "error"
    /\ spent' = spent \/ spent' = [spent EXCEPT ![who[t]] = @ + 1]
    /\ UNCHANGED <<cohorts, log, gap, role, written, rowAt>>

\* The row could not be stored.
Loses(t) ==
    /\ "lost" \in Faults
    /\ pc[t] = "retry" /\ pc'[t] = "return"
    /\ gap' = [gap EXCEPT ![who[t]] = @ + ErrorRow(t).cost]
    /\ UNCHANGED <<spent, cohorts, log, role, out, written, rowAt>>

Others(t) ==
    \A x \in Threads : x # t => UNCHANGED <<pc[x], role[x], out[x], written[x], rowAt[x]>>

LEMMA StepMoves ==
    ASSUME TypeOK, PaidFor, NEW t \in Threads, Step(t), ~Return(t)
    PROVE  /\ Active(t) /\ Others(t)
           /\ UNCHANGED <<phase, cursor, forgotten, lock, who, query, before, delivered>>
           /\ \/ MovesOn(t) \/ Observes(t) \/ Records(t) \/ Charges(t) \/ Loses(t)
              \/ \E row \in Row : \E next : Commits(t, row, next)
<1> USE DEF session, locals, aux
<1>0. /\ DOMAIN pc = Threads /\ DOMAIN out = Threads /\ DOMAIN role = Threads
      /\ DOMAIN written = Threads /\ DOMAIN rowAt = Threads
    BY DEF TypeOK
<1>1. CASE Refuse(t) \/ OverBudget(t) \/ PassGates(t) \/ Raise(t)
  <2>1. /\ UNCHANGED <<spent, cohorts, log, gap, role, out, written, rowAt>>
        /\ UNCHANGED <<phase, cursor, forgotten, lock, who, query, before, delivered>>
      BY <1>1 DEF Refuse, OverBudget, PassGates, Raise
  <2>2. \/ pc[t] = "gates" /\ pc' = [pc EXCEPT ![t] = "append"]
        \/ /\ pc[t] = "gates" /\ pc' = [pc EXCEPT ![t] = "role"]
           /\ Affordable(who[t], query[t])
        \/ /\ pc[t] \in {"gates", "role", "decide", "append"}
           /\ pc' = [pc EXCEPT ![t] = "error"]
      BY <1>1 DEF Refuse, OverBudget, PassGates, Raise
  <2>3. MovesOn(t)
      BY <1>0, <2>1, <2>2 DEF MovesOn
  <2> QED
      BY <1>0, <2>1, <2>2, <2>3 DEF Active, Others
<1>2. CASE \E v \in Verdicts : Observe(t, v)
  <2> DEFINE agg == query[t].aggs[role[t]]
  <2>1. /\ pc[t] = "role" /\ spent' = [spent EXCEPT ![who[t]] = @ + 1]
        /\ UNCHANGED <<cohorts, log, gap, written, rowAt>>
        /\ UNCHANGED <<phase, cursor, forgotten, lock, who, query, before, delivered>>
      BY <1>2, ObserveCases
  <2>2. \/ /\ role[t] # Len(query[t].aggs) /\ role' = [role EXCEPT ![t] = @ + 1]
           /\ pc' = [pc EXCEPT ![t] = "role"] /\ out' = out
        \/ /\ role' = role /\ pc' = [pc EXCEPT ![t] = "decide"]
           /\ \/ out' = [out EXCEPT ![t] = "released"]
              \/ out' = [out EXCEPT ![t] = "redacted"]
        \/ pc' = [pc EXCEPT ![t] = "append"] /\ role' = role /\ out' = out
      BY <1>2, ObserveCases
  <2>3. Observes(t)
      BY <1>0, <2>1, <2>2 DEF Observes
  <2> QED
      BY <1>0, <2>1, <2>2, <2>3 DEF Active, Others
<1>3. CASE ObserveThenRaise(t)
  <2>1. /\ pc[t] = "role" /\ spent' = [spent EXCEPT ![who[t]] = @ + 1]
        /\ pc' = [pc EXCEPT ![t] = "error"]
        /\ UNCHANGED <<cohorts, log, gap, role, out, written, rowAt>>
        /\ UNCHANGED <<phase, cursor, forgotten, lock, who, query, before, delivered>>
      BY <1>3 DEF ObserveThenRaise
  <2>2. Observes(t)
      BY <1>0, <2>1 DEF Observes
  <2> QED
      BY <1>0, <2>1, <2>2 DEF Active, Others
<1>4. CASE \E s \in {"denied", "review"} : Withhold(t, s)
  <2>1. PICK s \in {"denied", "review"} : Withhold(t, s)
      BY <1>4
  <2>2. /\ pc[t] = "decide" /\ out' = [out EXCEPT ![t] = s]
        /\ pc' = [pc EXCEPT ![t] = "append"]
        /\ UNCHANGED <<spent, cohorts, log, gap, role, written, rowAt>>
        /\ UNCHANGED <<phase, cursor, forgotten, lock, who, query, before, delivered>>
      BY <2>1 DEF Withhold
  <2>3. MovesOn(t)
      BY <1>0, <2>2 DEF MovesOn, ReleasedStatus
  <2> QED
      BY <1>0, <2>2, <2>3 DEF Active, Others
<1>5. CASE RecordCohorts(t)
  <2>1. /\ pc[t] = "decide" /\ pc' = [pc EXCEPT ![t] = "append"]
        /\ cohorts' = [cohorts EXCEPT ![who[t]] = @ \cup kept[t]]
        /\ UNCHANGED <<spent, log, gap, role, out, written, rowAt>>
        /\ UNCHANGED <<phase, cursor, forgotten, lock, who, query, before, delivered>>
      BY <1>5 DEF RecordCohorts
  <2>2. Records(t)
      BY <1>0, <2>1 DEF Records
  <2> QED
      BY <1>0, <2>1, <2>2 DEF Active, Others
<1>6. CASE ChargeError(t)
  <2>1. /\ pc[t] = "error" /\ pc' = [pc EXCEPT ![t] = "errorRow"]
        /\ out' = [out EXCEPT ![t] = "error"]
        /\ spent' = spent \/ spent' = [spent EXCEPT ![who[t]] = @ + 1]
        /\ UNCHANGED <<cohorts, log, gap, role, written, rowAt>>
        /\ UNCHANGED <<phase, cursor, forgotten, lock, who, query, before, delivered>>
      BY <1>6 DEF ChargeError
  <2>2. Charges(t)
      BY <1>0, <2>1 DEF Charges
  <2> QED
      BY <1>0, <2>1, <2>2 DEF Active, Others
<1>7. CASE AuditGap(t)
  <2>1. /\ "lost" \in Faults /\ pc[t] = "retry" /\ pc' = [pc EXCEPT ![t] = "return"]
        /\ gap' = [gap EXCEPT ![who[t]] = @ + ErrorRow(t).cost]
        /\ UNCHANGED <<spent, cohorts, log, role, out, written, rowAt>>
        /\ UNCHANGED <<phase, cursor, forgotten, lock, who, query, before, delivered>>
      BY <1>7 DEF AuditGap
  <2>2. Loses(t)
      BY <1>0, <2>1 DEF Loses
  <2> QED
      BY <1>0, <2>1, <2>2 DEF Active, Others
<1>8. CASE AppendRow(t) \/ AppendTorn(t) \/ AppendError(t) \/ AppendErrorFails(t)
  <2>1. /\ UNCHANGED <<spent, cohorts, gap, role, out>>
        /\ UNCHANGED <<phase, cursor, forgotten, lock, who, query, before, delivered>>
      BY <1>8, AppendCases
  <2>2. \/ /\ pc[t] = "append"
           /\ \/ Commit(t, OutcomeRow(t), "return")
              \/ "torn" \in Faults /\ Commit(t, OutcomeRow(t), "error")
        \/ /\ pc[t] \in {"errorRow", "retry"}
           /\ \/ Commit(t, ErrorRow(t), "return")
              \/ pc[t] = "errorRow" /\ "torn" \in Faults /\ Commit(t, ErrorRow(t), "retry")
        \/ /\ pc[t] = "errorRow" /\ pc' = [pc EXCEPT ![t] = "retry"]
           /\ UNCHANGED <<log, written, rowAt>>
      BY <1>8 DEF AppendRow, AppendTorn, AppendError, AppendErrorFails
  <2>3. CASE pc[t] = "errorRow" /\ pc' = [pc EXCEPT ![t] = "retry"]
             /\ UNCHANGED <<log, written, rowAt>>
    <3>1. MovesOn(t)
        BY <1>0, <2>1, <2>3 DEF MovesOn
    <3> QED
        BY <1>0, <2>1, <2>3, <3>1 DEF Active, Others
  <2>4. ASSUME NEW row, NEW next, Commits(t, row, next)
        PROVE  Active(t) /\ Others(t)
      BY <1>0, <2>1, <2>4 DEF Active, Others, Commits, Commit
  <2>5. OutcomeRow(t) \in Row /\ ErrorRow(t) \in Row
      BY NeverRefunded, RowsTyped
  <2> QED
      BY <2>1, <2>2, <2>3, <2>4, <2>5 DEF Commits
<1> QED
    BY <1>1, <1>2, <1>3, <1>4, <1>5, <1>6, <1>7, <1>8 DEF Step

\* A row that is written, and what its request has become.
LEMMA RowWritten ==
    ASSUME TypeOK, PaidFor, NEW t \in Threads, NEW row \in Row, NEW next, Commits(t, row, next)
    PROVE  /\ Len(log) \in Nat /\ DOMAIN log = 1 .. Len(log)
           /\ DOMAIN log' = 1 .. Len(log) + 1 /\ Len(log') = Len(log) + 1
           /\ \A i \in DOMAIN log : log'[i] = log[i]
           /\ log'[Len(log) + 1] = row
           /\ pc'[t] = next /\ written'[t] = written[t] + 1 /\ rowAt'[t] = Len(log) + 1
           /\ row.user = who[t] /\ row.cost = spent[who[t]] - before[t]
           /\ row.cost \in Nat /\ row.status # "config"
           /\ IsFiniteSet(row.cohorts) /\ Cardinality(row.cohorts) <= row.cost
           /\ row.status \in ReleasedStatus =>
                  pc[t] = "append" /\ out[t] \in ReleasedStatus /\ row.cost >= 1
<1>1. /\ Len(log) \in Nat /\ DOMAIN log = 1 .. Len(log)
      /\ DOMAIN log' = 1 .. Len(log) + 1 /\ Len(log') = Len(log) + 1
      /\ \A i \in DOMAIN log : log'[i] = log[i]
      /\ log'[Len(log) + 1] = row
    BY CommitFacts DEF Commits
<1>2. pc'[t] = next /\ written'[t] = written[t] + 1 /\ rowAt'[t] = Len(log) + 1
    BY DEF Commits, Commit, TypeOK
<1>3. /\ before[t] \in Nat /\ spent[who[t]] \in Nat /\ Len(seen[t]) \in Nat
      /\ before[t] + Len(seen[t]) <= spent[who[t]] /\ out[t] # "config"
      /\ IsFiniteSet(kept[t]) /\ Cardinality(kept[t]) <= Len(seen[t])
      /\ Cardinality(kept[t]) \in Nat /\ IsFiniteSet({}) /\ Cardinality({}) = 0
    BY LenProperties, FS_CardinalityType, FS_EmptySet DEF PaidFor, TypeOK, Status, ReleasedStatus
<1>4. CASE row = OutcomeRow(t) /\ pc[t] = "append"
  <2>1. /\ row.user = who[t] /\ row.cost = spent[who[t]] - before[t] /\ row.status = out[t]
        /\ row.cohorts = kept[t] \/ row.cohorts = {}
      BY <1>4 DEF OutcomeRow
  <2>2. out[t] \in ReleasedStatus => Len(seen[t]) >= 1
      BY <1>4 DEF PaidFor
  <2>3. row.cost \in Nat /\ Len(seen[t]) <= row.cost
      BY <1>3, <2>1
  <2>4. IsFiniteSet(row.cohorts) /\ Cardinality(row.cohorts) <= Len(seen[t])
    <3>1. CASE row.cohorts = kept[t]
        BY <1>3, <3>1
    <3>2. CASE row.cohorts = {}
        BY <1>3, <3>2
    <3> QED
        BY <2>1, <3>1, <3>2
  <2>5. Cardinality(row.cohorts) <= row.cost
      BY <1>3, <2>3, <2>4, FS_CardinalityType
  <2>6. row.status \in ReleasedStatus => row.cost >= 1
      BY <1>3, <2>1, <2>2, <2>3
  <2> QED
      BY <1>1, <1>2, <1>3, <1>4, <2>1, <2>3, <2>4, <2>5, <2>6
<1>5. CASE row = ErrorRow(t)
  <2>1. /\ row.user = who[t] /\ row.cost = spent[who[t]] - before[t]
        /\ row.status = "error" /\ row.cohorts = {}
      BY <1>5 DEF ErrorRow
  <2> QED
      BY <1>1, <1>2, <1>3, <2>1 DEF ReleasedStatus
<1> QED
    BY <1>4, <1>5 DEF Commits

-----------------------------------------------------------------------------
(***************************************************************************)
(* One row per request.                                                    *)
(***************************************************************************)

LEMMA WrittenNext ==
    TypeOK /\ HoldsLock /\ StatusSettled /\ PaidFor /\ RowsWritten /\ [Next]_vars => RowsWritten'
<1> SUFFICES ASSUME TypeOK, HoldsLock, StatusSettled, PaidFor, RowsWritten, [Next]_vars
             PROVE  RowsWritten'
    OBVIOUS
<1> DEFINE Covered(x) == spent[who[x]] - before[x] <= gap[who[x]]
           Good(x) ==
        /\ pc[x] \in {"gates", "role", "decide", "append"} => written[x] = 0
        /\ pc[x] \in {"error", "errorRow", "retry"} => written[x] = 0 \/ "torn" \in Faults
        /\ pc[x] = "return" =>
               /\ written[x] = 0 => "lost" \in Faults /\ out[x] = "error" /\ Covered(x)
               /\ written[x] > 1 => "torn" \in Faults /\ out[x] = "error"
<1>0. \A x \in Threads : Good(x) /\ written[x] \in Nat /\ who[x] \in Users
    BY DEF RowsWritten, TypeOK
<1>a. (\A x \in Threads : Good(x)') => RowsWritten'
    BY DEF RowsWritten
<1>1. ASSUME NEW t \in Threads, Step(t), ~Return(t)
      PROVE  Good(t)' /\ \A x \in Threads : x # t => Good(x)'
  <2>0. /\ Active(t) /\ Others(t)
        /\ UNCHANGED <<phase, cursor, forgotten, lock, who, query, before, delivered>>
      BY <1>1, StepMoves
  <2>1. ASSUME NEW x \in Threads, x # t PROVE Good(x)'
    <3>1. UNCHANGED <<pc[x], out[x], written[x], who[x], before[x]>>
        BY <2>0, <2>1 DEF Others
    <3>2. pc[x] = "return" => who[x] # who[t]
        BY <2>0, <2>1, OneRequestPerUser DEF Active
    <3>3. /\ spent' = spent \/ spent' = [spent EXCEPT ![who[t]] = @ + 1]
          /\ gap' = gap \/ gap' = [gap EXCEPT ![who[t]] = @ + ErrorRow(t).cost]
        BY <1>1, StepMoves DEF MovesOn, Observes, Records, Charges, Loses, Commits
    <3>4. who[x] # who[t] => UNCHANGED <<spent[who[x]], gap[who[x]]>>
        BY <1>0, <2>0, <3>3 DEF TypeOK
    <3> QED
        BY <1>0, <3>1, <3>2, <3>4
  <2>2. CASE MovesOn(t) \/ Observes(t) \/ Records(t) \/ Charges(t)
    <3>0. Good(t) /\ written[t] \in Nat
        BY <1>0
    <3>1. written'[t] = written[t]
        BY <2>2 DEF MovesOn, Observes, Records, Charges
    <3>2. \/ /\ pc[t] \in {"gates", "role", "decide", "append"}
             /\ pc'[t] \in {"role", "decide", "append", "error"}
          \/ pc[t] \in {"error", "errorRow"} /\ pc'[t] \in {"errorRow", "retry"}
        BY <2>2 DEF MovesOn, Observes, Records, Charges
    <3> QED
        BY <2>1, <3>0, <3>1, <3>2
  <2>3. CASE Loses(t)
    <3>1. /\ "lost" \in Faults /\ pc[t] = "retry" /\ pc'[t] = "return"
          /\ gap' = [gap EXCEPT ![who[t]] = @ + ErrorRow(t).cost]
          /\ UNCHANGED <<spent, out, written>>
        BY <2>3 DEF Loses
    <3>2. out[t] = "error" /\ (written[t] = 0 \/ "torn" \in Faults)
        BY <1>0, <3>1 DEF StatusSettled
    <3>3. /\ ErrorRow(t).cost = spent[who[t]] - before[t]
          /\ spent[who[t]] \in Nat /\ before[t] \in Nat /\ gap[who[t]] \in Nat
          /\ gap'[who[t]] = gap[who[t]] + ErrorRow(t).cost
        BY <1>0, <3>1 DEF ErrorRow, TypeOK
    <3>4. spent[who[t]] - before[t] <= gap'[who[t]]
        BY <3>3
    <3> QED
        BY <1>0, <2>0, <2>1, <3>1, <3>2, <3>4
  <2>4. ASSUME NEW row \in Row, NEW next, Commits(t, row, next)
        PROVE  Good(t)'
    <3>1. pc'[t] = next /\ written'[t] = written[t] + 1 /\ out' = out
        BY <2>4, RowWritten DEF Commits
    <3>2. pc[t] \in {"errorRow", "retry"} => out[t] = "error"
        BY DEF StatusSettled
    <3> QED
        BY <1>0, <2>4, <3>1, <3>2 DEF Commits
  <2> QED
      BY <1>1, <2>1, <2>2, <2>3, <2>4, StepMoves
<1>2. ASSUME NEW t \in Threads, Return(t) \/ \E u \in Users, q \in Queries : Enter(t, u, q)
      PROVE  RowsWritten'
  <2>1. /\ pc'[t] \in {"idle", "gates"} /\ written'[t] = 0
        /\ UNCHANGED <<spent, gap>>
        /\ \A x \in Threads : x # t =>
               UNCHANGED <<pc[x], written[x], out[x], who[x], before[x]>>
    <3>1. CASE Return(t)
        BY <3>1 DEF Return, Frame, TypeOK
    <3>2. CASE \E u \in Users, q \in Queries : Enter(t, u, q)
        BY <3>2 DEF Enter, Frame, TypeOK
    <3> QED
        BY <1>2, <3>1, <3>2
  <2> QED
      BY <1>0, <1>a, <2>1
<1>3. ASSUME NEW old \in forgotten .. Len(log), Crash(old)
      PROVE  RowsWritten'
    BY <1>3, <1>a DEF Crash, PerThread
<1>4. ASSUME ReplayRow \/ StartServing \/ UNCHANGED vars
      PROVE  RowsWritten'
  <2>1. CASE UNCHANGED vars
      BY <1>0, <2>1, <1>a DEF vars, session, locals, aux
  <2>2. CASE StartServing
      BY <1>0, <2>2, <1>a DEF StartServing, session, locals, aux
  <2>3. CASE ReplayRow
    <3>1. UNCHANGED <<pc, written>> /\ phase = "replaying"
        BY <2>3 DEF ReplayRow, aux
    <3>2. \A x \in Threads : pc[x] = "idle"
        BY <3>1 DEF HoldsLock, Active
    <3> QED
        BY <1>a, <3>1, <3>2
  <2> QED
      BY <1>4, <2>1, <2>2, <2>3
<1> QED
    BY <1>1, <1>2, <1>3, <1>4, <1>a DEF Next

-----------------------------------------------------------------------------
(***************************************************************************)
(* Every cohort and every aggregate is paid for beforehand.                *)
(***************************************************************************)

LEMMA UnionPaid ==
    ASSUME NEW A, NEW B, IsFiniteSet(A), IsFiniteSet(B)
    PROVE  /\ IsFiniteSet(A \cup B)
           /\ Cardinality(A) \in Nat /\ Cardinality(B) \in Nat /\ Cardinality(A \cup B) \in Nat
           /\ Cardinality(A \cup B) <= Cardinality(A) + Cardinality(B)
<1>1. IsFiniteSet(A \cup B) /\ IsFiniteSet(A \cap B)
    BY FS_Union, FS_Intersection
<1>2. Cardinality(A \cup B) = Cardinality(A) + Cardinality(B) - Cardinality(A \cap B)
    BY FS_Union
<1> QED
    BY <1>1, <1>2, FS_CardinalityType

LEMMA LineageNext ==
    TypeOK /\ HoldsLock /\ PaidFor /\ LineagePaid /\ [Next]_vars => LineagePaid'
<1> SUFFICES ASSUME TypeOK, HoldsLock, PaidFor, LineagePaid, [Next]_vars
             PROVE  LineagePaid'
    OBVIOUS
<1> USE DEF session, locals, aux
<1> DEFINE Held(u) == IsFiniteSet(cohorts[u]) /\ Cardinality(cohorts[u]) <= spent[u]
           Early(x) == pc[x] \in {"gates", "role", "decide"} =>
                           Cardinality(cohorts[who[x]]) <= before[x]
           Paid(i) == IsFiniteSet(log[i].cohorts)
                      /\ Cardinality(log[i].cohorts) <= log[i].cost
<1>0. /\ \A u \in Users : Held(u) /\ Cardinality(cohorts[u]) \in Nat /\ spent[u] \in Nat
      /\ \A x \in Threads : Early(x) /\ who[x] \in Users /\ before[x] \in Nat
      /\ \A i \in DOMAIN log : Paid(i)
    BY FS_CardinalityType DEF LineagePaid, TypeOK
<1>a. /\ \A u \in Users : Held(u)'
      /\ \A x \in Threads : Early(x)'
      /\ \A i \in DOMAIN log' : Paid(i)'
      => LineagePaid'
    BY DEF LineagePaid
<1>1. ASSUME NEW t \in Threads, Step(t), ~Return(t)
      PROVE  LineagePaid'
  <2>1. /\ Active(t) /\ Others(t)
        /\ UNCHANGED <<phase, cursor, forgotten, lock, who, query, before, delivered>>
      BY <1>1, StepMoves
  <2>2. ASSUME NEW x \in Threads, x # t, Active(x)
        PROVE  who[x] # who[t]
      BY <2>1, <2>2, OneRequestPerUser
  <2>3. CASE MovesOn(t) \/ Observes(t) \/ Charges(t) \/ Loses(t)
    <3>1. /\ cohorts' = cohorts /\ log' = log
          /\ spent' = spent \/ spent' = [spent EXCEPT ![who[t]] = @ + 1]
          /\ pc'[t] \in {"gates", "role", "decide"} => pc[t] \in {"gates", "role", "decide"}
        BY <2>3 DEF MovesOn, Observes, Charges, Loses
    <3>2. ASSUME NEW u \in Users PROVE Held(u)'
      <4>1. spent'[u] \in Nat /\ spent'[u] >= spent[u]
          BY <1>0, <3>1, SpendRises
      <4> QED
          BY <1>0, <3>1, <4>1
    <3>3. \A x \in Threads : Early(x)'
        BY <1>0, <2>1, <3>1 DEF Others
    <3>4. \A i \in DOMAIN log' : Paid(i)'
        BY <1>0, <3>1
    <3> HIDE DEF Held, Early, Paid
    <3> QED
        BY <1>a, <3>2, <3>3, <3>4
  <2>4. CASE Records(t)
    <3>1. /\ cohorts' = [cohorts EXCEPT ![who[t]] = @ \cup kept[t]]
          /\ log' = log /\ spent' = spent /\ pc[t] = "decide" /\ pc'[t] = "append"
        BY <2>4 DEF Records
    <3>2. ASSUME NEW u \in Users PROVE Held(u)'
      <4>1. CASE u # who[t]
          BY <1>0, <3>1, <4>1 DEF TypeOK
      <4>2. CASE u = who[t]
        <5>1. cohorts'[u] = cohorts[u] \cup kept[t]
            BY <3>1, <4>2 DEF TypeOK
        <5>2. /\ IsFiniteSet(kept[t]) /\ Cardinality(kept[t]) <= Len(seen[t])
              /\ before[t] + Len(seen[t]) <= spent[u] /\ Len(seen[t]) \in Nat
            BY <4>2, LenProperties DEF PaidFor, TypeOK
        <5>3. Cardinality(cohorts[u]) <= before[t]
            BY <1>0, <3>1, <4>2
        <5>4. /\ IsFiniteSet(cohorts[u] \cup kept[t])
              /\ Cardinality(kept[t]) \in Nat /\ Cardinality(cohorts[u] \cup kept[t]) \in Nat
              /\ Cardinality(cohorts[u] \cup kept[t]) <= Cardinality(cohorts[u]) + Cardinality(kept[t])
            BY <1>0, <5>2, UnionPaid
        <5>5. Cardinality(cohorts[u] \cup kept[t]) <= spent[u]
          <6>1. before[t] \in Nat /\ spent[u] \in Nat /\ Cardinality(cohorts[u]) \in Nat
              BY <1>0
          <6> QED
              BY <5>2, <5>3, <5>4, <6>1
        <5> QED
            BY <3>1, <5>1, <5>4, <5>5
      <4> QED
          BY <4>1, <4>2
    <3>3. ASSUME NEW x \in Threads PROVE Early(x)'
      <4>1. CASE x = t
          BY <3>1, <4>1
      <4>2. CASE x # t
        <5>1. pc'[x] \in {"gates", "role", "decide"} => who[x] # who[t]
            BY <2>1, <2>2, <4>2 DEF Others, Active
        <5>2. who[x] # who[t] => cohorts'[who[x]] = cohorts[who[x]]
            BY <1>0, <3>1 DEF TypeOK
        <5> QED
            BY <1>0, <2>1, <4>2, <5>1, <5>2 DEF Others
      <4> QED
          BY <4>1, <4>2
    <3>4. \A i \in DOMAIN log' : Paid(i)'
        BY <1>0, <3>1
    <3> HIDE DEF Held, Early, Paid
    <3> QED
        BY <1>a, <3>2, <3>3, <3>4
  <2>5. ASSUME NEW row \in Row, NEW next, Commits(t, row, next)
        PROVE  LineagePaid'
    <3>1. spent' = spent /\ cohorts' = cohorts /\ next \notin {"gates", "role", "decide"}
        BY <2>5 DEF Commits
    <3>2. /\ Len(log) \in Nat /\ DOMAIN log = 1 .. Len(log)
          /\ DOMAIN log' = 1 .. Len(log) + 1
          /\ \A i \in DOMAIN log : log'[i] = log[i]
          /\ log'[Len(log) + 1] = row /\ pc'[t] = next
          /\ IsFiniteSet(row.cohorts) /\ Cardinality(row.cohorts) <= row.cost
        BY <2>5, RowWritten
    <3>3. \A i \in DOMAIN log' : Paid(i)'
        BY <1>0, <3>2
    <3>4. \A x \in Threads : Early(x)'
        BY <1>0, <2>1, <3>1, <3>2 DEF Others
    <3>5. \A u \in Users : Held(u)'
        BY <1>0, <3>1
    <3> HIDE DEF Held, Early, Paid
    <3> QED
        BY <1>a, <3>3, <3>4, <3>5
  <2> QED
      BY <1>1, <2>3, <2>4, <2>5, StepMoves
<1>2. ASSUME NEW t \in Threads, Return(t) \/ \E u \in Users, q \in Queries : Enter(t, u, q)
      PROVE  LineagePaid'
  <2>1. UNCHANGED <<spent, cohorts, log>>
      BY <1>2 DEF Return, Enter
  <2>2. \A x \in Threads : Early(x)'
    <3>1. CASE Return(t)
        BY <1>0, <2>1, <3>1 DEF Return, Frame, TypeOK
    <3>2. ASSUME NEW u \in Users, NEW q \in Queries, Enter(t, u, q)
          PROVE  \A x \in Threads : Early(x)'
        BY <1>0, <2>1, <3>2 DEF Enter, Frame, TypeOK
    <3> QED
        BY <1>2, <3>1, <3>2
  <2> QED
      BY <1>0, <1>a, <2>1, <2>2
<1>3. ASSUME NEW old \in forgotten .. Len(log), Crash(old)
      PROVE  LineagePaid'
  <2>1. /\ \A u \in Users : cohorts'[u] = {} /\ spent'[u] = 0
        /\ \A x \in Threads : pc'[x] = "idle"
        /\ log' = log
      BY <1>3 DEF Crash, PerUser, PerThread
  <2>2. IsFiniteSet({}) /\ Cardinality({}) = 0
      BY FS_EmptySet
  <2>3. ASSUME NEW u \in Users PROVE Held(u)'
    <3>1. cohorts'[u] = {} /\ spent'[u] = 0
        BY <2>1
    <3> QED
        BY <2>2, <3>1
  <2>4. (\A x \in Threads : Early(x)') /\ (\A i \in DOMAIN log' : Paid(i)')
      BY <1>0, <2>1
  <2> QED
      BY <1>a, <2>3, <2>4
<1>4. ASSUME StartServing \/ UNCHANGED vars
      PROVE  LineagePaid'
  <2>1. UNCHANGED <<spent, cohorts, pc, who, before>>
      BY <1>4 DEF StartServing, vars
  <2>2. \A i \in DOMAIN log' : Paid(i)'
    <3>1. CASE log' = log
        BY <1>0, <3>1
    <3>2. CASE log' = Append(log, ConfigRow)
      <4>1. ConfigRow.cohorts = {} /\ ConfigRow.cost = 0
          BY DEF ConfigRow
      <4>2. /\ Len(log) \in Nat /\ DOMAIN log = 1 .. Len(log) /\ DOMAIN log' = 1 .. Len(log) + 1
            /\ \A i \in DOMAIN log : log'[i] = log[i]
            /\ log'[Len(log) + 1] = ConfigRow
          BY <3>2, LenProperties, AppendProperties DEF TypeOK
      <4>3. IsFiniteSet({}) /\ Cardinality({}) = 0
          BY FS_EmptySet
      <4>4. \A i \in DOMAIN log : Paid(i)'
          BY <1>0, <4>2
      <4>5. ASSUME NEW i \in DOMAIN log', i \notin DOMAIN log PROVE Paid(i)'
        <5>1. log'[i].cohorts = {} /\ log'[i].cost = 0
            BY <4>1, <4>2, <4>5
        <5> QED
            BY <4>3, <5>1
      <4> QED
          BY <4>4, <4>5
    <3> QED
        BY <1>4, <3>1, <3>2 DEF StartServing, vars
  <2> QED
      BY <1>0, <1>a, <2>1, <2>2
<1>5. ASSUME ReplayRow
      PROVE  LineagePaid'
  <2> DEFINE row == log[cursor]
  <2>1. /\ log' = log /\ cursor \in DOMAIN log
        /\ \A x \in Threads : pc'[x] = "idle"
        /\ \/ UNCHANGED <<spent, cohorts>>
           \/ /\ spent' = [spent EXCEPT ![row.user] = @ + row.cost]
              /\ cohorts' = [cohorts EXCEPT ![row.user] = @ \cup row.cohorts]
      BY <1>5, LenProperties DEF ReplayRow, Replay, TypeOK, HoldsLock, Active
  <2>2. row.user \in Users /\ row.cost \in Nat /\ Paid(cursor)
      BY <1>0, <2>1, RowFacts
  <2> HIDE DEF row
  <2>3. ASSUME NEW u \in Users PROVE Held(u)'
    <3>1. CASE UNCHANGED <<spent, cohorts>>
        BY <1>0, <3>1
    <3>2. CASE /\ spent' = [spent EXCEPT ![row.user] = @ + row.cost]
               /\ cohorts' = [cohorts EXCEPT ![row.user] = @ \cup row.cohorts]
      <4>1. CASE u # row.user
          BY <1>0, <3>2, <4>1 DEF TypeOK
      <4>2. CASE u = row.user
        <5>1. cohorts'[u] = cohorts[u] \cup row.cohorts /\ spent'[u] = spent[u] + row.cost
            BY <3>2, <4>2 DEF TypeOK
        <5>2. IsFiniteSet(row.cohorts) /\ Cardinality(row.cohorts) <= row.cost
            BY <2>2 DEF row
        <5> HIDE DEF Paid
        <5> QED
            BY <1>0, <2>2, <5>1, <5>2, UnionPaid
      <4> QED
          BY <4>1, <4>2
    <3> QED
        BY <2>1, <3>1, <3>2
  <2> QED
      BY <1>0, <1>a, <2>1, <2>3
<1> QED
    BY <1>1, <1>2, <1>3, <1>4, <1>5 DEF Next

\* A role that is paid for leaves the others reserved.
LEMMA OneRoleLess ==
    ASSUME NEW s \in Nat, NEW n \in Nat, NEW r \in Nat, NEW b \in Nat, s + n - r + 1 <= b
    PROVE  (s + 1) + n - (r + 1) + 1 <= b
OBVIOUS

\* What admits a model admits all its roles; a plain query has one.
LEMMA AllRolesReserved ==
    ASSUME NEW s \in Nat, NEW n \in Nat, NEW b \in Nat, s < b, s + n <= b \/ n = 1
    PROVE  s + n - 1 + 1 <= b
OBVIOUS

LEMMA RolesNext ==
    TypeOK /\ HoldsLock /\ PaidFor /\ RolesReserved /\ [Next]_vars => RolesReserved'
<1> SUFFICES ASSUME TypeOK, HoldsLock, PaidFor, RolesReserved, [Next]_vars
             PROVE  RolesReserved'
    OBVIOUS
<1> DEFINE Reserved(x) ==
        /\ pc[x] = "gates" => role[x] = 1
        /\ pc[x] = "role" =>
               spent[who[x]] + Len(query[x].aggs) - role[x] + 1 <= Budget
<1>0. \A x \in Threads : Reserved(x)
    BY DEF RolesReserved
<1>a. (\A x \in Threads : Reserved(x)') => RolesReserved'
    BY DEF RolesReserved
<1>b. \A x \in Threads : /\ who[x] \in Users /\ spent[who[x]] \in Nat /\ role[x] \in Nat
                          /\ Len(query[x].aggs) \in Nat /\ query[x] \in Queries
    BY QueryFacts DEF TypeOK
<1>1. ASSUME NEW t \in Threads, Step(t), ~Return(t)
      PROVE  RolesReserved'
  <2>1. /\ Active(t) /\ Others(t)
        /\ UNCHANGED <<phase, cursor, forgotten, lock, who, query, before, delivered>>
      BY <1>1, StepMoves
  <2>2. \/ spent' = spent \/ spent' = [spent EXCEPT ![who[t]] = @ + 1]
      BY <1>1, StepMoves DEF MovesOn, Observes, Records, Charges, Loses, Commits
  <2>3. ASSUME NEW x \in Threads, x # t PROVE Reserved(x)'
    <3>1. Active(x) => spent'[who[x]] = spent[who[x]]
        BY <1>b, <2>1, <2>2, <2>3, OneRequestPerUser DEF TypeOK
    <3>2. pc'[x] = pc[x] /\ role'[x] = role[x]
        BY <2>1, <2>3 DEF Others
    <3> QED
        BY <1>0, <2>1, <3>1, <3>2 DEF Active
  <2>4. Reserved(t)'
    <3>1. CASE MovesOn(t)
      <4>1. pc'[t] # "gates" /\ spent' = spent /\ role' = role
          BY <3>1 DEF MovesOn
      <4>2. CASE pc'[t] = "role"
        <5>1. /\ pc[t] = "gates" /\ role[t] = 1 /\ spent[who[t]] < Budget
              /\ query[t].kind = "model" => spent[who[t]] + Len(query[t].aggs) <= Budget
            BY <1>0, <3>1, <4>2 DEF MovesOn, Affordable
        <5>2. query[t].kind = "model" \/ Len(query[t].aggs) = 1
            BY <1>b, SessionAssumption DEF Query
        <5>3. Budget \in Nat /\ spent[who[t]] \in Nat /\ Len(query[t].aggs) \in Nat
            BY <1>b, SessionAssumption
        <5>4. spent[who[t]] + Len(query[t].aggs) - role[t] + 1 <= Budget
            BY <5>1, <5>2, <5>3, AllRolesReserved
        <5> QED
            BY <2>1, <4>1, <4>2, <5>4
      <4> QED
          BY <4>1, <4>2
    <3>2. CASE Observes(t)
      <4>1. pc'[t] # "gates" /\ pc[t] = "role" /\ spent'[who[t]] = spent[who[t]] + 1
          BY <1>b, <3>2 DEF Observes, TypeOK
      <4>2. pc'[t] = "role" => role'[t] = role[t] + 1
          BY <3>2 DEF Observes
      <4>3. /\ Budget \in Nat /\ spent[who[t]] \in Nat /\ role[t] \in Nat
            /\ Len(query[t].aggs) \in Nat
            /\ spent[who[t]] + Len(query[t].aggs) - role[t] + 1 <= Budget
          BY <1>0, <1>b, <4>1, SessionAssumption
      <4>4. (spent[who[t]] + 1) + Len(query[t].aggs) - (role[t] + 1) + 1 <= Budget
          BY <4>3, OneRoleLess
      <4> QED
          BY <2>1, <4>1, <4>2, <4>4
    <3>3. CASE Records(t) \/ Charges(t) \/ Loses(t)
        BY <3>3 DEF Records, Charges, Loses
    <3>4. ASSUME NEW row \in Row, NEW next, Commits(t, row, next)
          PROVE  Reserved(t)'
        BY <3>4, RowWritten DEF Commits
    <3> QED
        BY <1>1, <3>1, <3>2, <3>3, <3>4, StepMoves
  <2> QED
      BY <1>a, <2>3, <2>4
<1>2. ASSUME NEW t \in Threads, Return(t)
      PROVE  RolesReserved'
    BY <1>0, <1>2, <1>a DEF Return, Frame, TypeOK
<1>3. ASSUME NEW t \in Threads, NEW u \in Users, NEW q \in Queries, Enter(t, u, q)
      PROVE  RolesReserved'
    BY <1>0, <1>3, <1>a DEF Enter, Frame, TypeOK
<1>4. ASSUME NEW old \in forgotten .. Len(log), Crash(old)
      PROVE  RolesReserved'
    BY <1>4, <1>a DEF Crash, PerThread
<1>5. ASSUME ReplayRow
      PROVE  RolesReserved'
    BY <1>5, <1>a DEF ReplayRow, HoldsLock, Active
<1>6. ASSUME StartServing \/ UNCHANGED vars
      PROVE  RolesReserved'
    BY <1>0, <1>6, <1>a DEF StartServing, vars, session, locals
<1> QED
    BY <1>1, <1>2, <1>3, <1>4, <1>5, <1>6 DEF Next

-----------------------------------------------------------------------------
(***************************************************************************)
(* One cost model.                                                         *)
(***************************************************************************)

LEMMA CostsTyped ==
    ASSUME TypeOK, NEW u \in Users
    PROVE  /\ Len(log) \in Nat /\ DOMAIN log = 1 .. Len(log)
           /\ forgotten \in Nat /\ forgotten <= Len(log)
           /\ \A i \in DOMAIN log : CostTo(u)[i] \in Nat
           /\ Charged(u) \in Nat
<1>1. /\ Len(log) \in Nat /\ DOMAIN log = 1 .. Len(log)
      /\ forgotten \in Nat /\ forgotten <= Len(log)
    BY LenProperties DEF TypeOK
<1>2. \A i \in DOMAIN log : CostTo(u)[i] \in Nat
    BY RowFacts DEF CostTo
<1>3. \A i \in (forgotten + 1) .. Len(log) : CostTo(u)[i] \in Nat
    BY <1>1, <1>2
<1> QED
    BY <1>1, <1>2, <1>3, TotalIsNat DEF Charged

\* A row adds its cost to what its user is charged, and to nobody else.
LEMMA ChargedMore ==
    ASSUME TypeOK, NEW u \in Users, NEW row \in Row, log' = Append(log, row),
           forgotten' = forgotten
    PROVE  Charged(u)' = Charged(u) + (IF row.user = u THEN row.cost ELSE 0)
<1> DEFINE now == CostTo(u)'
           then == CostTo(u)
<1>1. /\ Len(log) \in Nat /\ DOMAIN log = 1 .. Len(log)
      /\ forgotten \in Nat /\ forgotten <= Len(log)
    BY CostsTyped
<1>2. /\ DOMAIN log' = 1 .. Len(log) + 1 /\ Len(log') = Len(log) + 1
      /\ \A i \in DOMAIN log : log'[i] = log[i]
      /\ log'[Len(log) + 1] = row
    BY LenProperties, AppendProperties DEF TypeOK
<1>3. /\ \A i \in DOMAIN log : now[i] = then[i]
      /\ now[Len(log) + 1] = IF row.user = u THEN row.cost ELSE 0
    BY <1>1, <1>2 DEF CostTo
<1> HIDE DEF now, then
<1>4. RunningTotal(now, forgotten, Len(log)) = RunningTotal(then, forgotten, Len(log))
  <2>1. \A i \in (forgotten + 1) .. Len(log) : now[i] = then[i]
      BY <1>1, <1>3
  <2> QED
      BY <1>1, <2>1, TotalOfSame
<1>5. RunningTotal(now, forgotten, Len(log) + 1)
        = RunningTotal(now, forgotten, Len(log)) + now[Len(log) + 1]
    BY <1>1, TotalOfOneMore
<1>6. /\ Charged(u)' = RunningTotal(now, forgotten, Len(log) + 1)
      /\ Charged(u) = RunningTotal(then, forgotten, Len(log))
    BY <1>2 DEF Charged, now, then
<1> QED
    BY <1>3, <1>4, <1>5, <1>6

LEMMA ChargedSame ==
    ASSUME log' = log, forgotten' = forgotten, NEW u
    PROVE  Charged(u)' = Charged(u)
BY DEF Charged, CostTo

\* c charged, g in gaps, b spent before and n now: a row of cost n - b settles it.
LEMMA CostRecorded ==
    ASSUME NEW c \in Nat, NEW g \in Nat, NEW b \in Nat, NEW n \in Nat, b <= n, b <= c + g
    PROVE  /\ n <= (c + (n - b)) + g /\ b <= (c + (n - b)) + g
           /\ n < (c + (n - b)) + g => b < c + g
OBVIOUS

LEMMA CostsNext ==
    TypeOK /\ HoldsLock /\ PaidFor /\ CostsAgree /\ [Next]_vars => CostsAgree'
<1> SUFFICES ASSUME TypeOK, HoldsLock, PaidFor, CostsAgree, [Next]_vars
             PROVE  CostsAgree'
    OBVIOUS
<1> USE DEF session, locals, aux
<1> DEFINE Due(x) == IF pc[x] = "return" THEN spent[who[x]] ELSE before[x]
           Replaying == phase = "replaying" =>
               /\ forgotten < cursor /\ cursor <= Len(log) + 1
               /\ \A u \in Users :
                      gap[u] = 0 /\ spent[u] = RunningTotal(CostTo(u), forgotten, cursor - 1)
           Serving == phase = "serving" =>
               \A u \in Users : lock[u] = NoThread => Settled(spent[u], u)
           Outstanding(x) == Active(x) => Settled(Due(x), who[x])
           FreeConfig == \A i \in DOMAIN log : log[i].status = "config" => log[i].cost = 0
<1>0. Replaying /\ Serving /\ FreeConfig /\ \A x \in Threads : Outstanding(x)
    BY DEF CostsAgree
<1>a. Replaying' /\ Serving' /\ FreeConfig' /\ (\A x \in Threads : Outstanding(x)') => CostsAgree'
    BY DEF CostsAgree
<1>b. /\ \A u \in Users : /\ Charged(u) \in Nat /\ gap[u] \in Nat /\ spent[u] \in Nat
                           /\ cohorts[u] \in SUBSET Cohort
      /\ \A x \in Threads : who[x] \in Users /\ before[x] \in Nat /\ before[x] <= spent[who[x]]
    BY CostsTyped, NeverRefunded DEF TypeOK
<1> HIDE DEF Replaying, Serving, FreeConfig, Outstanding
\* A step of a request, once it is known what it does to its own user.
<1>c. ASSUME NEW t \in Threads, Active(t), Others(t),
             UNCHANGED <<phase, cursor, forgotten, lock, who, query, before, delivered>>,
             \A u \in Users : u # who[t] =>
                 Charged(u)' = Charged(u) /\ gap'[u] = gap[u] /\ spent'[u] = spent[u],
             FreeConfig', Settled(Due(t), who[t])'
      PROVE  CostsAgree'
  <2>1. phase' = "serving" /\ lock'[who[t]] = t /\ t # NoThread
      BY <1>c, SessionAssumption DEF HoldsLock
  <2>2. \A u \in Users, n \in Nat : u # who[t] => (Settled(n, u) => Settled(n, u)')
      BY <1>b, <1>c DEF Settled
  <2>3. Replaying'
      BY <2>1 DEF Replaying
  <2>4. Serving'
    <3>1. ASSUME NEW u \in Users, lock'[u] = NoThread
          PROVE  Settled(spent[u], u)'
      <4>1. u # who[t] /\ lock[u] = NoThread /\ phase = "serving"
          BY <1>c, <2>1, <3>1
      <4>2. Settled(spent[u], u) /\ spent[u] \in Nat
          BY <1>0, <1>b, <4>1 DEF Serving
      <4>3. spent'[u] = spent[u]
          BY <1>c, <4>1
      <4> QED
          BY <1>c, <4>1, <4>2, <4>3 DEF Settled
    <3> QED
        BY <3>1 DEF Serving
  <2>5. ASSUME NEW x \in Threads PROVE Outstanding(x)'
    <3>1. CASE x = t
        BY <1>c, <3>1 DEF Outstanding
    <3>2. CASE x # t /\ Active(x)'
      <4>1. Active(x) /\ pc'[x] = pc[x] /\ who[x] # who[t]
          BY <1>c, <3>2, OneRequestPerUser DEF Others, Active
      <4>2. Due(x)' = Due(x)
          BY <1>b, <1>c, <4>1
      <4>3. Settled(Due(x), who[x])
          BY <1>0, <4>1 DEF Outstanding
      <4> QED
          BY <1>b, <1>c, <4>1, <4>2, <4>3 DEF Settled, Outstanding
    <3>3. CASE x # t /\ ~Active(x)'
        BY <3>3 DEF Outstanding
    <3> QED
        BY <3>1, <3>2, <3>3
  <2> QED
      BY <1>a, <1>c, <2>3, <2>4, <2>5
<1>1. ASSUME NEW t \in Threads, Step(t), ~Return(t)
      PROVE  CostsAgree'
  <2>1. /\ Active(t) /\ Others(t)
        /\ UNCHANGED <<phase, cursor, forgotten, lock, who, query, before, delivered>>
      BY <1>1, StepMoves
  <2>2. Settled(Due(t), who[t])
      BY <1>0, <2>1 DEF Outstanding
  <2>3. CASE MovesOn(t) \/ Observes(t) \/ Records(t) \/ Charges(t)
    <3>1. /\ log' = log /\ gap' = gap /\ pc[t] # "return" /\ pc'[t] # "return"
          /\ spent' = spent \/ spent' = [spent EXCEPT ![who[t]] = @ + 1]
        BY <2>3 DEF MovesOn, Observes, Records, Charges
    <3>2. \A u \in Users : Charged(u)' = Charged(u)
        BY <2>1, <3>1, ChargedSame
    <3>3. Due(t)' = Due(t)
        BY <2>1, <3>1
    <3>4. Settled(Due(t), who[t])'
        BY <1>b, <2>1, <2>2, <3>1, <3>2, <3>3 DEF Settled
    <3>5. FreeConfig'
        BY <1>0, <3>1 DEF FreeConfig
    <3> QED
        BY <1>c, <2>1, <3>1, <3>2, <3>4, <3>5 DEF TypeOK
  <2>4. CASE Loses(t)
    <3>1. /\ log' = log /\ spent' = spent /\ pc[t] = "retry" /\ pc'[t] = "return"
          /\ gap' = [gap EXCEPT ![who[t]] = @ + ErrorRow(t).cost]
        BY <2>4 DEF Loses
    <3>2. ErrorRow(t).cost = spent[who[t]] - before[t]
        BY DEF ErrorRow
    <3>3. \A u \in Users : Charged(u)' = Charged(u)
        BY <2>1, <3>1, ChargedSame
    <3>4. /\ gap'[who[t]] = gap[who[t]] + (spent[who[t]] - before[t])
          /\ \A u \in Users : u # who[t] => gap'[u] = gap[u]
        BY <1>b, <3>1, <3>2 DEF TypeOK
    <3>5. Due(t) = before[t] /\ Due(t)' = spent[who[t]]
        BY <2>1, <3>1
    <3>6. Settled(Due(t), who[t])'
        BY <1>b, <2>1, <2>2, <3>3, <3>4, <3>5 DEF Settled
    <3>7. FreeConfig'
        BY <1>0, <3>1 DEF FreeConfig
    <3> QED
        BY <1>c, <2>1, <3>1, <3>3, <3>4, <3>6, <3>7
  <2>5. ASSUME NEW row \in Row, NEW next, Commits(t, row, next)
        PROVE  CostsAgree'
    <3>1. /\ DOMAIN log = 1 .. Len(log) /\ DOMAIN log' = 1 .. Len(log) + 1
          /\ \A i \in DOMAIN log : log'[i] = log[i]
          /\ log'[Len(log) + 1] = row /\ pc'[t] = next
          /\ row.user = who[t] /\ row.cost = spent[who[t]] - before[t]
          /\ row.cost \in Nat /\ row.status # "config" /\ Len(log) \in Nat
        BY <2>5, RowWritten
    <3>2. log' = Append(log, row) /\ gap' = gap /\ spent' = spent /\ pc[t] # "return"
        BY <2>5 DEF Commits, Commit
    <3>3. next = "return" \/ (next # "return" /\ "torn" \in Faults)
        BY <2>5 DEF Commits
    <3>4. \A u \in Users : Charged(u)' = Charged(u) + (IF row.user = u THEN row.cost ELSE 0)
        BY <2>1, <3>2, ChargedMore
    <3>5. Charged(who[t])' = Charged(who[t]) + row.cost
      <4>1. row.user = who'[t] /\ who'[t] \in Users
          BY <1>b, <2>1, <3>1
      <4> QED
          BY <2>1, <3>4, <4>1
    <3>6. \A u \in Users : u # who[t] => Charged(u)' = Charged(u)
        BY <1>b, <3>1, <3>4
    <3>7. Due(t) = before[t] /\ (next = "return" => Due(t)' = spent[who[t]])
          /\ (next # "return" => Due(t)' = before[t])
        BY <2>1, <3>1, <3>2
    <3>8. Settled(Due(t), who[t])'
      <4>1. /\ before[t] <= Charged(who[t]) + gap[who[t]]
            /\ before[t] < Charged(who[t]) + gap[who[t]] => "torn" \in Faults
          BY <2>2, <3>7 DEF Settled
      <4>2. /\ who'[t] = who[t] /\ gap'[who[t]] = gap[who[t]]
            /\ Charged(who[t])' = Charged(who[t]) + (spent[who[t]] - before[t])
          BY <2>1, <3>1, <3>2, <3>5
      <4>3. /\ Charged(who[t]) \in Nat /\ gap[who[t]] \in Nat /\ spent[who[t]] \in Nat
            /\ before[t] \in Nat /\ before[t] <= spent[who[t]]
          BY <1>b
      <4>4. /\ spent[who[t]] <= Charged(who[t])' + gap'[who[t]]
            /\ spent[who[t]] < Charged(who[t])' + gap'[who[t]] =>
                   before[t] < Charged(who[t]) + gap[who[t]]
            /\ before[t] <= Charged(who[t])' + gap'[who[t]]
          BY <4>1, <4>2, <4>3, CostRecorded
      <4>5. CASE next = "return"
          BY <3>7, <4>1, <4>2, <4>4, <4>5 DEF Settled
      <4>6. CASE next # "return"
          BY <3>3, <3>7, <4>2, <4>4, <4>6 DEF Settled
      <4> QED
          BY <4>5, <4>6
    <3>9. FreeConfig'
        BY <1>0, <3>1 DEF FreeConfig
    <3> QED
        BY <1>c, <2>1, <3>2, <3>6, <3>8, <3>9
  <2> QED
      BY <1>1, <2>3, <2>4, <2>5, StepMoves
<1>2. ASSUME NEW t \in Threads, Return(t)
      PROVE  CostsAgree'
  <2>1. /\ pc[t] = "return" /\ lock' = [lock EXCEPT ![who[t]] = NoThread]
        /\ pc' = [pc EXCEPT ![t] = "idle"]
        /\ UNCHANGED <<phase, cursor, forgotten, spent, log, gap>>
        /\ \A x \in Threads : x # t => who'[x] = who[x] /\ before'[x] = before[x]
      BY <1>2 DEF Return, Frame, TypeOK
  <2>2. \A u \in Users : Charged(u)' = Charged(u)
      BY <2>1, ChargedSame
  <2>3. Settled(spent[who[t]], who[t])
      BY <1>0, <2>1 DEF Outstanding, Active
  <2>4. Serving'
    <3>1. ASSUME NEW u \in Users, lock'[u] = NoThread, phase = "serving"
          PROVE  Settled(spent[u], u)'
      <4>1. u = who[t] \/ lock[u] = NoThread
          BY <2>1, <3>1 DEF TypeOK
      <4>2. Settled(spent[u], u)
          BY <1>0, <2>3, <3>1, <4>1 DEF Serving
      <4> QED
          BY <2>1, <2>2, <4>2 DEF Settled
    <3> QED
        BY <2>1, <3>1 DEF Serving
  <2>5. ASSUME NEW x \in Threads PROVE Outstanding(x)'
    <3>1. CASE x = t
        BY <2>1, <3>1 DEF Outstanding, Active, TypeOK
    <3>2. CASE x # t
      <4>1. /\ pc'[x] = pc[x] /\ who'[x] = who[x] /\ before'[x] = before[x]
            /\ spent' = spent /\ gap' = gap /\ Charged(who[x])' = Charged(who[x])
          BY <1>b, <2>1, <2>2, <3>2 DEF TypeOK
      <4> QED
          BY <1>0, <4>1 DEF Outstanding, Settled, Active
    <3> QED
        BY <3>1, <3>2
  <2>6. Replaying' /\ FreeConfig'
    <3>1. phase = "serving"
        BY <2>1 DEF HoldsLock, Active
    <3> QED
        BY <1>0, <2>1, <3>1 DEF Replaying, FreeConfig
  <2> QED
      BY <1>a, <2>4, <2>5, <2>6
<1>3. ASSUME NEW t \in Threads, NEW u \in Users, NEW q \in Queries, Enter(t, u, q)
      PROVE  CostsAgree'
  <2>1. /\ phase = "serving" /\ lock[u] = NoThread /\ lock' = [lock EXCEPT ![u] = t]
        /\ pc' = [pc EXCEPT ![t] = "gates"]
        /\ UNCHANGED <<phase, cursor, forgotten, spent, log, gap>>
        /\ who'[t] = u /\ before'[t] = spent[u]
        /\ \A x \in Threads : x # t => who'[x] = who[x] /\ before'[x] = before[x]
      BY <1>3 DEF Enter, Frame, TypeOK
  <2>2. \A w \in Users : Charged(w)' = Charged(w)
      BY <2>1, ChargedSame
  <2>3. Settled(spent[u], u)
      BY <1>0, <2>1 DEF Serving
  <2>4. Serving'
    <3>1. ASSUME NEW w \in Users, lock'[w] = NoThread
          PROVE  Settled(spent[w], w)'
      <4>1. lock[w] = NoThread
          BY <2>1, <3>1 DEF TypeOK
      <4> QED
          BY <1>0, <2>1, <2>2, <4>1 DEF Settled, Serving
    <3> QED
        BY <3>1 DEF Serving
  <2>5. ASSUME NEW x \in Threads PROVE Outstanding(x)'
    <3>1. CASE x = t
      <4>1. pc'[t] = "gates" /\ Due(t)' = spent[u]
          BY <2>1 DEF TypeOK
      <4> QED
          BY <2>1, <2>2, <2>3, <3>1, <4>1 DEF Outstanding, Settled
    <3>2. CASE x # t
      <4>1. /\ pc'[x] = pc[x] /\ who'[x] = who[x] /\ before'[x] = before[x]
            /\ spent' = spent /\ gap' = gap /\ Charged(who[x])' = Charged(who[x])
          BY <1>b, <2>1, <2>2, <3>2 DEF TypeOK
      <4> QED
          BY <1>0, <4>1 DEF Outstanding, Settled, Active
    <3> QED
        BY <3>1, <3>2
  <2>6. Replaying' /\ FreeConfig'
      BY <1>0, <2>1 DEF Replaying, FreeConfig
  <2> QED
      BY <1>a, <2>4, <2>5, <2>6
<1>4. ASSUME NEW old \in forgotten .. Len(log), Crash(old)
      PROVE  CostsAgree'
  <2>1. /\ phase' = "replaying" /\ forgotten' = old /\ cursor' = old + 1 /\ log' = log
        /\ \A u \in Users : spent'[u] = 0 /\ gap'[u] = 0
        /\ \A x \in Threads : pc'[x] = "idle"
      BY <1>4 DEF Crash, PerUser, PerThread
  <2>2. old \in Nat /\ old <= Len(log) /\ Len(log) \in Nat /\ cursor' - 1 = old
      BY <2>1, LenProperties DEF TypeOK
  <2>3. \A u \in Users : RunningTotal(CostTo(u)', old, old) = 0
      BY <2>2, TotalOfNone
  <2>4. Replaying'
      BY <2>1, <2>2, <2>3 DEF Replaying
  <2> QED
      BY <1>0, <1>a, <2>1, <2>4 DEF Serving, FreeConfig, Outstanding, Active
<1>5. ASSUME ReplayRow
      PROVE  CostsAgree'
  <2> DEFINE row == log[cursor]
  <2>1. /\ phase = "replaying" /\ cursor \in DOMAIN log /\ cursor' = cursor + 1
        /\ UNCHANGED <<phase, forgotten, log, gap, pc, lock, who, before>>
        /\ IF row.status = "config" THEN spent' = spent
           ELSE spent' = [spent EXCEPT ![row.user] = @ + row.cost]
      BY <1>5, LenProperties DEF ReplayRow, Replay, TypeOK
  <2>2. /\ row.user \in Users /\ row.cost \in Nat /\ cursor \in Nat /\ 1 <= cursor
        /\ cursor <= Len(log) /\ Len(log) \in Nat
        /\ row.status = "config" => row.cost = 0
      BY <1>0, <2>1, RowFacts DEF FreeConfig
  <2>3. /\ forgotten < cursor /\ forgotten \in Nat
        /\ \A u \in Users :
              gap[u] = 0 /\ spent[u] = RunningTotal(CostTo(u), forgotten, cursor - 1)
      BY <1>0, <2>1 DEF Replaying, TypeOK
  <2>4. ASSUME NEW u \in Users
        PROVE  spent'[u] = RunningTotal(CostTo(u), forgotten, cursor)
    <3>1. cursor - 1 \in Nat /\ forgotten <= cursor - 1 /\ (cursor - 1) + 1 = cursor
        BY <2>2, <2>3
    <3>2. RunningTotal(CostTo(u), forgotten, cursor)
            = RunningTotal(CostTo(u), forgotten, cursor - 1) + CostTo(u)[cursor]
        BY <2>3, <3>1, TotalOfOneMore
    <3>3. CostTo(u)[cursor] = IF row.user = u THEN row.cost ELSE 0
        BY <2>1 DEF CostTo
    <3> HIDE DEF row
    <3>4. spent'[u] = spent[u] + (IF row.user = u THEN row.cost ELSE 0)
        BY <1>b, <2>1, <2>2 DEF TypeOK
    <3>5. spent[u] = RunningTotal(CostTo(u), forgotten, cursor - 1)
        BY <2>3
    <3> QED
        BY <3>2, <3>3, <3>4, <3>5
  <2>5. Replaying'
    <3>1. cursor' - 1 = cursor /\ forgotten' < cursor' /\ cursor' <= Len(log') + 1
        BY <2>1, <2>2, <2>3
    <3>2. \A u \in Users : CostTo(u)' = CostTo(u)
        BY <2>1 DEF CostTo
    <3> QED
        BY <2>1, <2>3, <2>4, <3>1, <3>2 DEF Replaying
  <2>6. \A x \in Threads : ~Active(x)'
      BY <2>1 DEF HoldsLock, Active
  <2> QED
      BY <1>0, <1>a, <2>1, <2>5, <2>6 DEF Serving, FreeConfig, Outstanding
<1>6. ASSUME StartServing
      PROVE  CostsAgree'
  <2>1. /\ phase = "replaying" /\ cursor > Len(log) /\ log' = Append(log, ConfigRow)
        /\ phase' = "serving" /\ UNCHANGED <<forgotten, spent, gap, pc, lock>>
      BY <1>6 DEF StartServing
  <2>2. ConfigRow \in Row /\ ConfigRow.cost = 0
      BY SessionAssumption DEF ConfigRow, Row
  <2>3. /\ cursor <= Len(log) + 1 /\ Len(log) \in Nat /\ cursor \in Nat
        /\ \A u \in Users :
              gap[u] = 0 /\ spent[u] = RunningTotal(CostTo(u), forgotten, cursor - 1)
      BY <1>0, <2>1, LenProperties DEF Replaying, TypeOK
  <2>4. cursor - 1 = Len(log)
      BY <2>1, <2>3
  <2>5. ASSUME NEW u \in Users PROVE Settled(spent[u], u)'
    <3>1. spent[u] = Charged(u) /\ gap[u] = 0
        BY <2>3, <2>4 DEF Charged
    <3>2. Charged(u)' = Charged(u)
      <4>1. Charged(u)' = Charged(u) + (IF ConfigRow.user = u THEN ConfigRow.cost ELSE 0)
          BY <2>1, <2>2, ChargedMore
      <4> QED
          BY <1>b, <2>2, <4>1
    <3> QED
        BY <1>b, <2>1, <3>1, <3>2 DEF Settled
  <2>6. \A x \in Threads : ~Active(x)'
      BY <2>1 DEF HoldsLock, Active
  <2>7. FreeConfig'
    <3>1. /\ DOMAIN log = 1 .. Len(log) /\ DOMAIN log' = 1 .. Len(log) + 1
          /\ \A i \in DOMAIN log : log'[i] = log[i]
          /\ log'[Len(log) + 1] = ConfigRow
        BY <2>1, LenProperties, AppendProperties DEF TypeOK
    <3> QED
        BY <1>0, <2>2, <2>3, <3>1 DEF FreeConfig
  <2> QED
      BY <1>a, <2>1, <2>5, <2>6, <2>7 DEF Replaying, Serving, Outstanding
<1>7. ASSUME UNCHANGED vars
      PROVE  CostsAgree'
    BY <1>7 DEF vars, CostsAgree, Settled, Charged, CostTo, Active
<1> QED
    BY <1>1, <1>2, <1>3, <1>4, <1>5, <1>6, <1>7 DEF Next

-----------------------------------------------------------------------------
(***************************************************************************)
(* Releases are within the budget.                                         *)
(***************************************************************************)

LEMMA AddOne ==
    ASSUME NEW S, IsFiniteSet(S), NEW x
    PROVE  /\ IsFiniteSet(S \cup {x}) /\ Cardinality(S) \in Nat
           /\ Cardinality(S \cup {x}) \in Nat
           /\ Cardinality(S \cup {x}) <= Cardinality(S) + 1
BY FS_AddElement, FS_CardinalityType

LEMMA ReleasesNext ==
    /\ TypeOK /\ HoldsLock /\ StatusSettled /\ PaidFor /\ CostsAgree /\ ReleasesPaid
    /\ [Next]_vars
    => ReleasesPaid'
<1> SUFFICES ASSUME TypeOK, HoldsLock, StatusSettled, PaidFor, CostsAgree, ReleasesPaid,
                    [Next]_vars
             PROVE  ReleasesPaid'
    OBVIOUS
<1> USE DEF session, locals, aux
<1> DEFINE Held(u) == IsFiniteSet(ReleaseRows(u)) /\ Cardinality(ReleaseRows(u)) <= spent[u]
           Costs == \A i \in DOMAIN log : log[i].status \in ReleasedStatus => log[i].cost >= 1
           Within(x) ==
               /\ pc[x] \in {"gates", "role", "decide", "append"} =>
                      Cardinality(ReleaseRows(who[x])) <= before[x]
               /\ pc[x] \in {"role", "decide"} => before[x] < Budget
               /\ pc[x] = "append" /\ out[x] \in ReleasedStatus => before[x] < Budget
               /\ pc[x] = "return" /\ out[x] \in ReleasedStatus =>
                      Cardinality(ReleaseRows(who[x])) <= Budget
<1>0. /\ \A u \in Users : Held(u) /\ Cardinality(ReleaseRows(u)) \in Nat /\ spent[u] \in Nat
      /\ Costs /\ Budget \in Nat
      /\ \A x \in Threads : /\ Within(x) /\ who[x] \in Users
                            /\ before[x] \in Nat /\ before[x] <= spent[who[x]]
  <2>1. \A u \in Users : Held(u)
      BY DEF ReleasesPaid
  <2>2. \A u \in Users : Cardinality(ReleaseRows(u)) \in Nat
      BY <2>1, FS_CardinalityType
  <2>3. Costs /\ \A x \in Threads : Within(x)
      BY DEF ReleasesPaid
  <2>4. \A x \in Threads : before[x] <= spent[who[x]]
      BY NeverRefunded
  <2> QED
      BY <2>1, <2>2, <2>3, <2>4, SessionAssumption DEF TypeOK
<1>a. (\A u \in Users : Held(u)') /\ Costs' /\ (\A x \in Threads : Within(x)') => ReleasesPaid'
    BY DEF ReleasesPaid
<1>1. ASSUME NEW t \in Threads, Step(t), ~Return(t)
      PROVE  ReleasesPaid'
  <2>1. /\ Active(t) /\ Others(t) /\ phase = "serving"
        /\ UNCHANGED <<phase, cursor, forgotten, lock, who, query, before, delivered>>
      BY <1>1, StepMoves DEF HoldsLock
  <2>2. ASSUME NEW x \in Threads, x # t, Active(x)
        PROVE  who[x] # who[t]
      BY <2>1, <2>2, OneRequestPerUser
  <2>3. ASSUME log' = log,
               spent' = spent \/ spent' = [spent EXCEPT ![who[t]] = @ + 1], Within(t)'
        PROVE  ReleasesPaid'
    <3>1. \A u : ReleaseRows(u)' = ReleaseRows(u)
        BY <2>1, <2>3 DEF ReleaseRows, Replayed
    <3>2. ASSUME NEW u \in Users PROVE Held(u)'
      <4>1. spent'[u] \in Nat /\ spent'[u] >= spent[u]
          BY <1>0, <2>3, SpendRises
      <4> QED
          BY <1>0, <3>1, <4>1
    <3>3. ASSUME NEW x \in Threads, x # t PROVE Within(x)'
      <4>1. /\ pc'[x] = pc[x] /\ out'[x] = out[x] /\ who'[x] = who[x] /\ before'[x] = before[x]
          BY <2>1, <3>3 DEF Others
      <4>2. ReleaseRows(who[x])' = ReleaseRows(who[x])
          BY <3>1, <4>1
      <4> QED
          BY <1>0, <4>1, <4>2
    <3>4. Costs'
        BY <1>0, <2>3
    <3> HIDE DEF Held, Costs, Within
    <3> QED
        BY <1>a, <2>3, <3>2, <3>3, <3>4
  <2>4. CASE MovesOn(t) \/ Observes(t) \/ Records(t) \/ Charges(t) \/ Loses(t)
    <3>1. /\ log' = log
          /\ spent' = spent \/ spent' = [spent EXCEPT ![who[t]] = @ + 1]
        BY <2>4 DEF MovesOn, Observes, Records, Charges, Loses
    <3>2. /\ ReleaseRows(who[t])' = ReleaseRows(who[t]) /\ who'[t] = who[t]
          /\ before'[t] = before[t]
        BY <2>1, <3>1 DEF ReleaseRows, Replayed
    <3>3. pc'[t] = "role" => before[t] < Budget
      <4>1. pc[t] = "gates" /\ pc'[t] = "role" => spent[who[t]] < Budget
          BY <2>4 DEF MovesOn, Observes, Records, Charges, Loses, Affordable
      <4>2. pc'[t] = "role" => pc[t] \in {"gates", "role"}
          BY <2>4 DEF MovesOn, Observes, Records, Charges, Loses
      <4> QED
          BY <1>0, <4>1, <4>2
    <3>4. pc'[t] = "decide" => pc[t] = "role"
        BY <2>4 DEF MovesOn, Observes, Records, Charges, Loses
    <3>5. pc'[t] = "append" /\ out'[t] \in ReleasedStatus => pc[t] = "decide"
        BY <2>4 DEF MovesOn, Observes, Records, Charges, Loses, StatusSettled, ReleasedStatus
    <3>6. pc'[t] = "return" => out'[t] \notin ReleasedStatus
        BY <2>4 DEF MovesOn, Observes, Records, Charges, Loses, StatusSettled, ReleasedStatus
    <3>7. pc'[t] \in {"gates", "role", "decide", "append"} =>
              pc[t] \in {"gates", "role", "decide", "append"}
        BY <2>4 DEF MovesOn, Observes, Records, Charges, Loses
    <3>8. Within(t)'
        BY <1>0, <3>2, <3>3, <3>4, <3>5, <3>6, <3>7
    <3> QED
        BY <2>3, <3>1, <3>8
  <2>5. ASSUME NEW row \in Row, NEW next, Commits(t, row, next)
        PROVE  ReleasesPaid'
    <3>1. /\ DOMAIN log = 1 .. Len(log) /\ DOMAIN log' = 1 .. Len(log) + 1
          /\ \A i \in DOMAIN log : log'[i] = log[i]
          /\ log'[Len(log) + 1] = row /\ pc'[t] = next
          /\ row.user = who[t] /\ row.cost = spent[who[t]] - before[t]
          /\ row.cost \in Nat /\ Len(log) \in Nat
          /\ row.status \in ReleasedStatus =>
                 pc[t] = "append" /\ out[t] \in ReleasedStatus /\ row.cost >= 1
        BY <2>5, RowWritten
    <3>2. spent' = spent /\ out' = out /\ next \in {"return", "error", "retry"}
        BY <2>5 DEF Commits
    <3>3. out[t] \in ReleasedStatus =>
              /\ pc[t] = "append" /\ row.status \in ReleasedStatus
              /\ before[t] < Budget
      <4>1. pc[t] \in {"errorRow", "retry"} => out[t] \notin ReleasedStatus
          BY DEF StatusSettled, ReleasedStatus
      <4>2. pc[t] = "append" => row.status = out[t]
          BY <2>5 DEF Commits, OutcomeRow
      <4>3. pc[t] \in {"append", "errorRow", "retry"}
          BY <2>5 DEF Commits
      <4> QED
          BY <1>0, <4>1, <4>2, <4>3
    <3> DEFINE new == Len(log) + 1
    <3>4. forgotten < new /\ new \notin DOMAIN log /\ DOMAIN log' = DOMAIN log \cup {new}
        BY <3>1 DEF TypeOK
    <3>5. \A u : ReleaseRows(u)' =
                   IF u = who[t] /\ row.status \in ReleasedStatus
                   THEN ReleaseRows(u) \cup {new} ELSE ReleaseRows(u)
        BY <2>1, <3>1, <3>4 DEF ReleaseRows, Replayed
    <3>6. ASSUME NEW u \in Users PROVE Held(u)'
      <4>1. CASE u = who[t] /\ row.status \in ReleasedStatus
        <5>1. /\ Cardinality(ReleaseRows(u)) <= before[t] /\ spent[u] >= before[t] + 1
              /\ before[t] \in Nat /\ spent[u] \in Nat
            BY <1>0, <3>1, <4>1
        <5>2. /\ IsFiniteSet(ReleaseRows(u) \cup {new})
              /\ Cardinality(ReleaseRows(u) \cup {new}) <= Cardinality(ReleaseRows(u)) + 1
              /\ Cardinality(ReleaseRows(u)) \in Nat
              /\ Cardinality(ReleaseRows(u) \cup {new}) \in Nat
            BY <1>0, AddOne
        <5>3. Cardinality(ReleaseRows(u) \cup {new}) <= spent[u]
            BY <5>1, <5>2
        <5>4. ReleaseRows(u)' = ReleaseRows(u) \cup {new}
            BY <3>5, <4>1
        <5> QED
            BY <3>2, <5>2, <5>3, <5>4
      <4>2. CASE ~(u = who[t] /\ row.status \in ReleasedStatus)
        <5>1. ReleaseRows(u)' = ReleaseRows(u)
            BY <3>5, <4>2
        <5> QED
            BY <1>0, <3>2, <5>1
      <4> QED
          BY <4>1, <4>2
    <3>7. Costs'
        BY <1>0, <3>1
    <3>8. ASSUME NEW x \in Threads, x # t PROVE Within(x)'
      <4>1. CASE Active(x)
        <5>1. /\ pc'[x] = pc[x] /\ out'[x] = out[x] /\ who'[x] = who[x] /\ before'[x] = before[x]
              /\ who[x] # who[t]
            BY <2>1, <2>2, <3>8, <4>1 DEF Others
        <5>2. ReleaseRows(who[x])' = ReleaseRows(who[x])
            BY <2>1, <3>5, <5>1
        <5> QED
            BY <1>0, <5>1, <5>2
      <4>2. CASE ~Active(x)
          BY <2>1, <3>8, <4>2 DEF Others, Active
      <4> QED
          BY <4>1, <4>2
    <3>9. Within(t)'
      <4>1. CASE next = "return" /\ out[t] \in ReleasedStatus
        <5>1. /\ Cardinality(ReleaseRows(who[t])) <= before[t] /\ before[t] + 1 <= Budget
              /\ before[t] \in Nat
            BY <1>0, <3>3, <4>1
        <5>2. /\ Cardinality(ReleaseRows(who[t]) \cup {new}) <= Cardinality(ReleaseRows(who[t])) + 1
              /\ Cardinality(ReleaseRows(who[t])) \in Nat
              /\ Cardinality(ReleaseRows(who[t]) \cup {new}) \in Nat
            BY <1>0, AddOne
        <5>3. Cardinality(ReleaseRows(who[t]) \cup {new}) <= Budget
            BY <1>0, <5>1, <5>2
        <5>4. ReleaseRows(who[t])' = ReleaseRows(who[t]) \cup {new}
            BY <2>1, <3>3, <3>5, <4>1
        <5> QED
            BY <3>1, <4>1, <5>3, <5>4
      <4>2. CASE ~(next = "return" /\ out[t] \in ReleasedStatus)
          BY <3>1, <3>2, <4>2
      <4> QED
          BY <4>1, <4>2
    <3> HIDE DEF Held, Costs, Within
    <3> QED
        BY <1>a, <3>6, <3>7, <3>8, <3>9
  <2> QED
      BY <1>1, <2>4, <2>5, StepMoves
<1>2. ASSUME NEW t \in Threads, Return(t) \/ \E u \in Users, q \in Queries : Enter(t, u, q)
      PROVE  ReleasesPaid'
  <2>1. UNCHANGED <<phase, cursor, forgotten, spent, log>>
      BY <1>2 DEF Return, Enter
  <2>2. \A u : ReleaseRows(u)' = ReleaseRows(u)
      BY <2>1 DEF ReleaseRows, Replayed
  <2>3. Costs' /\ \A u \in Users : Held(u)'
      BY <1>0, <2>1, <2>2
  <2>4. ASSUME NEW x \in Threads, x # t PROVE Within(x)'
    <3>1. pc'[x] = pc[x] /\ out'[x] = out[x] /\ who'[x] = who[x] /\ before'[x] = before[x]
      <4>1. CASE Return(t)
          BY <2>4, <4>1 DEF Return, Frame, TypeOK
      <4>2. CASE \E u \in Users, q \in Queries : Enter(t, u, q)
          BY <2>4, <4>2 DEF Enter, Frame, TypeOK
      <4> QED
          BY <1>2, <4>1, <4>2
    <3>2. ReleaseRows(who[x])' = ReleaseRows(who[x])
        BY <2>2, <3>1
    <3> QED
        BY <1>0, <3>1, <3>2
  <2>5. Within(t)'
    <3>1. CASE Return(t)
      <4>1. pc'[t] = "idle"
          BY <3>1 DEF Return, TypeOK
      <4> QED
          BY <4>1
    <3>2. ASSUME NEW u \in Users, NEW q \in Queries, Enter(t, u, q)
          PROVE  Within(t)'
      <4>1. pc'[t] = "gates" /\ who'[t] = u /\ before'[t] = spent[u]
          BY <3>2 DEF Enter, Frame, TypeOK
      <4>2. ReleaseRows(who[t])' = ReleaseRows(u)
          BY <2>2, <4>1
      <4> QED
          BY <1>0, <4>1, <4>2
    <3> QED
        BY <1>2, <3>1, <3>2
  <2> HIDE DEF Held, Costs, Within
  <2> QED
      BY <1>a, <2>3, <2>4, <2>5
<1>3. ASSUME NEW old \in forgotten .. Len(log), Crash(old)
      PROVE  ReleasesPaid'
  <2>1. /\ phase' = "replaying" /\ forgotten' = old /\ cursor' = old + 1 /\ log' = log
        /\ \A u \in Users : spent'[u] = 0
        /\ \A x \in Threads : pc'[x] = "idle"
      BY <1>3 DEF Crash, PerUser, PerThread
  <2>2. ASSUME NEW u \in Users PROVE Held(u)'
    <3>1. old \in Nat /\ DOMAIN log = 1 .. Len(log)
        BY LenProperties DEF TypeOK
    <3>2. ReleaseRows(u)' = {}
        BY <2>1, <3>1 DEF ReleaseRows, Replayed
    <3>3. IsFiniteSet({}) /\ Cardinality({}) = 0 /\ spent'[u] = 0
        BY <2>1, FS_EmptySet
    <3> QED
        BY <3>2, <3>3
  <2>3. Costs' /\ \A x \in Threads : Within(x)'
      BY <1>0, <2>1
  <2> HIDE DEF Held, Costs, Within
  <2> QED
      BY <1>a, <2>2, <2>3
<1>4. ASSUME ReplayRow
      PROVE  ReleasesPaid'
  <2> DEFINE row == log[cursor]
  <2>1. /\ phase = "replaying" /\ cursor \in DOMAIN log /\ cursor' = cursor + 1
        /\ UNCHANGED <<phase, forgotten, log, pc>>
        /\ IF row.status = "config" THEN spent' = spent
           ELSE spent' = [spent EXCEPT ![row.user] = @ + row.cost]
      BY <1>4, LenProperties DEF ReplayRow, Replay, TypeOK
  <2>2. /\ row.user \in Users /\ row.cost \in Nat /\ forgotten < cursor
        /\ DOMAIN log \subseteq Nat /\ cursor \in Nat
        /\ row.status \in ReleasedStatus => row.cost >= 1 /\ row.status # "config"
      BY <1>0, <2>1, RowFacts DEF CostsAgree, ReleasedStatus
  <2>3. \A u : ReleaseRows(u)' = IF row.user = u /\ row.status \in ReleasedStatus
                                 THEN ReleaseRows(u) \cup {cursor} ELSE ReleaseRows(u)
    <3>1. \A i \in DOMAIN log : i < cursor' <=> (i < cursor \/ i = cursor)
        BY <2>1, <2>2
    <3> QED
        BY <2>1, <2>2, <3>1 DEF ReleaseRows, Replayed
  <2> HIDE DEF row
  <2>4. ASSUME NEW u \in Users PROVE Held(u)'
    <3>1. /\ spent'[u] \in Nat /\ spent'[u] >= spent[u]
          /\ row.user = u /\ row.status \in ReleasedStatus => spent'[u] >= spent[u] + 1
      <4>1. CASE row.status = "config"
          BY <1>0, <2>1, <2>2, <4>1
      <4>2. CASE row.status # "config"
        <5>1. spent'[u] = IF row.user = u THEN spent[u] + row.cost ELSE spent[u]
            BY <2>1, <2>2, <4>2 DEF TypeOK
        <5>2. spent[u] \in Nat /\ row.cost \in Nat
            BY <1>0, <2>2
        <5> QED
            BY <2>2, <5>1, <5>2
      <4> QED
          BY <4>1, <4>2
    <3>2. /\ IsFiniteSet(ReleaseRows(u) \cup {cursor})
          /\ Cardinality(ReleaseRows(u) \cup {cursor}) \in Nat
          /\ Cardinality(ReleaseRows(u) \cup {cursor}) <= Cardinality(ReleaseRows(u)) + 1
        BY <1>0, AddOne
    <3>3. CASE row.user = u /\ row.status \in ReleasedStatus
      <4>1. ReleaseRows(u)' = ReleaseRows(u) \cup {cursor}
          BY <2>3, <3>3
      <4>2. Cardinality(ReleaseRows(u) \cup {cursor}) <= spent'[u]
          BY <1>0, <3>1, <3>2, <3>3
      <4> QED
          BY <3>2, <4>1, <4>2
    <3>4. CASE ~(row.user = u /\ row.status \in ReleasedStatus)
      <4>1. ReleaseRows(u)' = ReleaseRows(u)
          BY <2>3, <3>4
      <4> QED
          BY <1>0, <3>1, <4>1
    <3> QED
        BY <3>3, <3>4
  <2>5. Costs'
      BY <1>0, <2>1
  <2>6. \A x \in Threads : Within(x)'
      BY <2>1 DEF HoldsLock, Active
  <2> HIDE DEF Held, Costs, Within
  <2> QED
      BY <1>a, <2>4, <2>5, <2>6
<1>5. ASSUME StartServing
      PROVE  ReleasesPaid'
  <2>1. /\ phase = "replaying" /\ cursor > Len(log) /\ log' = Append(log, ConfigRow)
        /\ phase' = "serving" /\ UNCHANGED <<forgotten, spent, pc>>
      BY <1>5 DEF StartServing
  <2>2. /\ DOMAIN log = 1 .. Len(log) /\ DOMAIN log' = 1 .. Len(log) + 1 /\ Len(log) \in Nat
        /\ \A i \in DOMAIN log : log'[i] = log[i]
        /\ log'[Len(log) + 1] = ConfigRow /\ cursor \in Nat
      BY <2>1, LenProperties, AppendProperties DEF TypeOK
  <2>3. ConfigRow.status \notin ReleasedStatus
      BY DEF ConfigRow, ReleasedStatus
  <2>4. \A u : ReleaseRows(u)' = ReleaseRows(u)
    <3>1. \A i \in DOMAIN log : i < cursor
        BY <2>1, <2>2
    <3> QED
        BY <2>1, <2>2, <2>3, <3>1 DEF ReleaseRows, Replayed
  <2>5. \A u \in Users : Held(u)'
      BY <1>0, <2>1, <2>4
  <2>6. Costs'
      BY <1>0, <2>2, <2>3
  <2>7. \A x \in Threads : Within(x)'
      BY <2>1 DEF HoldsLock, Active
  <2> HIDE DEF Held, Costs, Within
  <2> QED
      BY <1>a, <2>5, <2>6, <2>7
<1>6. ASSUME UNCHANGED vars
      PROVE  ReleasesPaid'
    BY <1>6 DEF vars, ReleasesPaid, ReleaseRows, Replayed
<1> QED
    BY <1>1, <1>2, <1>3, <1>4, <1>5, <1>6 DEF Next

\* Only the commit of its own row brings a request to the return of a release.
LEMMA LatestNext ==
    /\ TypeOK /\ HoldsLock /\ StatusSettled /\ PaidFor /\ ReturnsLatest /\ [Next]_vars
    => ReturnsLatest'
<1> SUFFICES ASSUME TypeOK, HoldsLock, StatusSettled, PaidFor, ReturnsLatest, [Next]_vars
             PROVE  ReturnsLatest'
    OBVIOUS
<1> DEFINE Latest(x) == pc[x] = "return" /\ out[x] \in ReleasedStatus =>
                           \A i \in DOMAIN log : rowAt[x] < i => log[i].user # who[x]
<1>0. \A x \in Threads : Latest(x)
    BY DEF ReturnsLatest
<1>a. (\A x \in Threads : Latest(x)') => ReturnsLatest'
    BY DEF ReturnsLatest
<1>1. ASSUME NEW t \in Threads, Step(t), ~Return(t)
      PROVE  ReturnsLatest'
  <2>1. /\ Active(t) /\ Others(t)
        /\ UNCHANGED <<phase, cursor, forgotten, lock, who, query, before, delivered>>
      BY <1>1, StepMoves
  <2>2. CASE MovesOn(t) \/ Observes(t) \/ Records(t) \/ Charges(t) \/ Loses(t)
    <3>1. log' = log /\ rowAt' = rowAt
        BY <2>2 DEF MovesOn, Observes, Records, Charges, Loses
    <3>2. pc'[t] = "return" => out'[t] \notin ReleasedStatus
        BY <2>2 DEF MovesOn, Observes, Records, Charges, Loses, StatusSettled, ReleasedStatus
    <3> QED
        BY <1>0, <1>a, <2>1, <3>1, <3>2 DEF Others
  <2>3. ASSUME NEW row \in Row, NEW next, Commits(t, row, next)
        PROVE  ReturnsLatest'
    <3>1. /\ DOMAIN log = 1 .. Len(log) /\ DOMAIN log' = 1 .. Len(log) + 1
          /\ \A i \in DOMAIN log : log'[i] = log[i]
          /\ log'[Len(log) + 1] = row /\ row.user = who[t]
          /\ rowAt'[t] = Len(log) + 1 /\ Len(log) \in Nat
        BY <2>3, RowWritten
    <3>2. Latest(t)'
        BY <3>1
    <3>3. ASSUME NEW x \in Threads, x # t PROVE Latest(x)'
      <4>1. CASE Active(x)
        <5>1. /\ pc'[x] = pc[x] /\ out'[x] = out[x] /\ who'[x] = who[x] /\ rowAt'[x] = rowAt[x]
              /\ who[x] # who[t]
            BY <2>1, <3>3, <4>1, OneRequestPerUser DEF Others
        <5>2. ASSUME pc[x] = "return", out[x] \in ReleasedStatus, NEW i \in DOMAIN log',
                     rowAt[x] < i
              PROVE  log'[i].user # who[x]
          <6>1. CASE i \in DOMAIN log
              BY <1>0, <3>1, <5>2, <6>1
          <6>2. CASE i = Len(log) + 1
              BY <3>1, <5>1, <6>2
          <6> QED
              BY <3>1, <6>1, <6>2
        <5> QED
            BY <5>1, <5>2
      <4>2. CASE ~Active(x)
          BY <2>1, <3>3, <4>2 DEF Others, Active
      <4> QED
          BY <4>1, <4>2
    <3> QED
        BY <1>a, <3>2, <3>3
  <2> QED
      BY <1>1, <2>2, <2>3, StepMoves
<1>2. ASSUME NEW t \in Threads, Return(t) \/ \E u \in Users, q \in Queries : Enter(t, u, q)
      PROVE  ReturnsLatest'
  <2>1. /\ log' = log /\ pc'[t] \in {"idle", "gates"}
        /\ \A x \in Threads : x # t =>
              /\ pc'[x] = pc[x] /\ out'[x] = out[x] /\ who'[x] = who[x] /\ rowAt'[x] = rowAt[x]
    <3>1. CASE Return(t)
        BY <3>1 DEF Return, Frame, TypeOK
    <3>2. CASE \E u \in Users, q \in Queries : Enter(t, u, q)
        BY <3>2 DEF Enter, Frame, TypeOK
    <3> QED
        BY <1>2, <3>1, <3>2
  <2> QED
      BY <1>0, <1>a, <2>1
<1>3. ASSUME NEW old \in forgotten .. Len(log), Crash(old)
      PROVE  ReturnsLatest'
    BY <1>3, <1>a DEF Crash, PerThread
<1>4. ASSUME ReplayRow \/ StartServing
      PROVE  ReturnsLatest'
    BY <1>4, <1>a DEF ReplayRow, StartServing, HoldsLock, Active
<1>5. ASSUME UNCHANGED vars
      PROVE  ReturnsLatest'
    BY <1>0, <1>5, <1>a DEF vars, locals, aux
<1> QED
    BY <1>1, <1>2, <1>3, <1>4, <1>5 DEF Next

-----------------------------------------------------------------------------
(***************************************************************************)
(* The theorems.                                                           *)
(***************************************************************************)

LEMMA LedgerInit == Init => LedgerInv
<1> SUFFICES ASSUME Init PROVE LedgerInv
    OBVIOUS
<1>1. /\ \A t \in Threads : pc[t] = "idle"
      /\ \A u \in Users : spent[u] = 0 /\ cohorts[u] = {} /\ gap[u] = 0
      /\ log = <<>> /\ phase = "replaying" /\ cursor = 1 /\ forgotten = 0
    BY DEF Init, PerUser, PerThread
<1>2. Len(log) = 0 /\ DOMAIN log = {} /\ IsFiniteSet({}) /\ Cardinality({}) = 0
    BY <1>1, EmptySeq, FS_EmptySet
<1>3. RowsWritten /\ RolesReserved /\ ReturnsLatest
    BY <1>1 DEF RowsWritten, RolesReserved, ReturnsLatest
<1>4. LineagePaid
  <2>1. ASSUME NEW u \in Users PROVE IsFiniteSet(cohorts[u]) /\ Cardinality(cohorts[u]) <= spent[u]
    <3>1. cohorts[u] = {} /\ spent[u] = 0
        BY <1>1
    <3> QED
        BY <1>2, <3>1
  <2> QED
      BY <1>1, <1>2, <2>1 DEF LineagePaid
<1>5. CostsAgree
  <2>1. cursor - 1 = 0 /\ \A u \in Users : RunningTotal(CostTo(u), 0, 0) = 0
      BY <1>1, TotalOfNone
  <2> QED
      BY <1>1, <1>2, <2>1 DEF CostsAgree, Active
<1>6. ReleasesPaid
  <2>1. ASSUME NEW u \in Users
        PROVE  IsFiniteSet(ReleaseRows(u)) /\ Cardinality(ReleaseRows(u)) <= spent[u]
    <3>1. ReleaseRows(u) = {} /\ spent[u] = 0
        BY <1>1, <1>2 DEF ReleaseRows, Replayed
    <3> QED
        BY <1>2, <3>1
  <2> QED
      BY <1>1, <1>2, <2>1 DEF ReleasesPaid
<1> QED
    BY <1>3, <1>4, <1>5, <1>6 DEF LedgerInv

\* What every request, session and row has paid, LedgerInv, is inductive
\* relative to what the auditors and the log agree on.
THEOREM LedgerCorrect == Spec => [](TypeOK /\ SessionInv /\ ReleaseIsLogged /\ LedgerInv)
<1>1. Init => LedgerInv
    BY LedgerInit
<1>2. TypeOK /\ SessionInv /\ LedgerInv /\ [Next]_vars => LedgerInv'
    BY WrittenNext, LineageNext, RolesNext, CostsNext, ReleasesNext, LatestNext
       DEF SessionInv, LedgerInv
<1> QED
    BY <1>1, <1>2, SessionCorrect, PTL DEF Spec

\* Types, remembered releases and payments together, at every step and across
\* every restart.
THEOREM SessionConsistent == Spec => []Consistent
<1>1. TypeOK /\ SessionInv /\ ReleaseIsLogged /\ LedgerInv => Consistent
    BY DEF Consistent
<1> QED
    BY <1>1, LedgerCorrect, PTL

\* A request is answered with exactly one row of its own, whatever was raised;
\* with none only when the log could not store it, with two only when append
\* raised after its INSERT.
THEOREM OneRowAnswers == Spec => []OneRowPerRequest
<1>1. LedgerInv => OneRowPerRequest
    BY DEF LedgerInv, RowsWritten, OneRowPerRequest
<1> QED
    BY <1>1, LedgerCorrect, PTL

\* Every remembered cohort was paid for, and no aggregate is computed for a
\* session whose budget is spent, the later roles of a model included.
THEOREM EverythingPaid == Spec => []PaidBeforehand
<1>1. ASSUME TypeOK, LedgerInv PROVE PaidBeforehand
  <2>1. CohortsPaidFor
      BY <1>1 DEF LedgerInv, LineagePaid, CohortsPaidFor
  <2>2. ASSUME NEW t \in Threads, pc[t] = "role" PROVE spent[who[t]] < Budget
    <3>1. spent[who[t]] + Len(query[t].aggs) - role[t] + 1 <= Budget
        BY <1>1, <2>2 DEF LedgerInv, RolesReserved
    <3>2. /\ query[t] \in Queries /\ role[t] \in DOMAIN query[t].aggs
          /\ spent[who[t]] \in Nat
        BY <1>1 DEF TypeOK
    <3>3. role[t] \in Nat /\ role[t] <= Len(query[t].aggs) /\ Len(query[t].aggs) \in Nat
        BY <3>2, QueryFacts
    <3>4. Budget \in Nat
        BY SessionAssumption
    <3> QED
        BY <3>1, <3>2, <3>3, <3>4
  <2> QED
      BY <2>1, <2>2 DEF PaidBeforehand, NoWorkOverBudget
<1> QED
    BY <1>1, LedgerCorrect, PTL

\* A session's live spend is what a restart would rebuild from the log, but
\* for the rows the log could not store, if no append raises after its INSERT.
THEOREM ReplayCorrect ==
    ASSUME "torn" \notin Faults
    PROVE  Spec => []ReplayAgrees
<1>1. TypeOK /\ LedgerInv => ReplayAgrees
  <2>1. ASSUME TypeOK, LedgerInv, phase = "serving", NEW u \in Users, lock[u] = NoThread
        PROVE  spent[u] = Charged(u) + gap[u]
    <3>1. Settled(spent[u], u)
        BY <2>1 DEF LedgerInv, CostsAgree
    <3>2. spent[u] \in Nat /\ Charged(u) \in Nat /\ gap[u] \in Nat
        BY <2>1, CostsTyped DEF TypeOK
    <3> QED
        BY <3>1, <3>2 DEF Settled
  <2> QED
      BY <2>1 DEF ReplayAgrees
<1> QED
    BY <1>1, LedgerCorrect, PTL

\* Whatever append does, a restart never refunds what was charged.
THEOREM NoRefunds == Spec => []ReplayNeverRefunds
<1>1. LedgerInv => ReplayNeverRefunds
    BY DEF LedgerInv, CostsAgree, Settled, ReplayNeverRefunds
<1> QED
    BY <1>1, LedgerCorrect, PTL

-----------------------------------------------------------------------------
(***************************************************************************)
(* The session implements the ledger of releases.                          *)
(***************************************************************************)

\* What an analyst has been told and is remembered for, as Ledger sees it.
Told(u) ==
    {[row |-> d.row, cohorts |-> d.cohorts] :
        d \in {e \in delivered : e.user = u /\ forgotten < e.row}}

\* What was told is on record, and every record says only one thing.
LEMMA ToldIsLogged ==
    ASSUME TypeOK, ReleaseIsLogged, NEW u \in Users, NEW e \in Told(u)
    PROVE  /\ e = [row |-> e.row, cohorts |-> log[e.row].cohorts]
           /\ e.row \in DOMAIN log /\ forgotten < e.row
           /\ log[e.row].user = u /\ log[e.row].status \in ReleasedStatus
<1>1. PICK d \in delivered : /\ d.user = u /\ forgotten < d.row
                             /\ e = [row |-> d.row, cohorts |-> d.cohorts]
    BY DEF Told
<1> QED
    BY <1>1 DEF ReleaseIsLogged

\* One entry for each release on record at most.
LEMMA ToldWithinRows ==
    ASSUME TypeOK, ReleaseIsLogged, phase = "serving", NEW u \in Users,
           IsFiniteSet(ReleaseRows(u)), NEW T, \A e \in T :
               /\ e = [row |-> e.row, cohorts |-> log[e.row].cohorts]
               /\ e.row \in ReleaseRows(u)
    PROVE  IsFiniteSet(T) /\ Cardinality(T) <= Cardinality(ReleaseRows(u))
<1> DEFINE f == [e \in T |-> e.row]
<1>1. f \in [T -> ReleaseRows(u)]
    OBVIOUS
<1>2. ASSUME NEW d \in T, NEW e \in T, f[d] = f[e] PROVE d = e
    BY <1>2
<1>3. f \in Injection(T, ReleaseRows(u))
    BY <1>1, <1>2 DEF Injection, IsInjective
<1> QED
    BY <1>3, FS_Injection

\* The release that Return hands over joins the ledger, or is in it, or has
\* left the window already.
LEMMA ReturnJoins ==
    ASSUME TypeOK, SessionInv, ReleaseIsLogged, LedgerInv, NEW t \in Threads, Return(t),
           NEW me \in Users, me = who[t]
    PROVE  \/ \A u \in Users : Told(u)' = Told(u)
           \/ \E r : /\ r \notin Told(me) /\ Told(me)' = Told(me) \cup {r}
                     /\ \A u \in Users : u # me => Told(u)' = Told(u)
                     /\ \A e \in Told(me) :
                            \A p \in e.cohorts, c \in r.cohorts : ~TooClose(p, c)
                     /\ Cardinality(Told(me)') <= Budget
<1> DEFINE r == [row |-> rowAt[t], cohorts |-> kept[t]]
           d == [user |-> who[t], cohorts |-> kept[t], totals |-> seen[t], row |-> rowAt[t]]
<1>1. /\ pc[t] = "return" /\ UNCHANGED <<phase, forgotten, log>>
      /\ delivered' = IF out[t] \in ReleasedStatus THEN delivered \cup {d} ELSE delivered
      /\ phase = "serving"
    BY DEF Return, TypeOK, SessionInv, HoldsLock, Active
<1>2. CASE out[t] \notin ReleasedStatus
    BY <1>1, <1>2 DEF Told
<1>3. CASE out[t] \in ReleasedStatus /\ ~(forgotten < rowAt[t])
  <2>1. \A u \in Users : Told(u)' = Told(u)
      BY <1>1, <1>3 DEF Told
  <2> QED
      BY <2>1
<1>4. CASE out[t] \in ReleasedStatus /\ forgotten < rowAt[t]
  <2>1. Told(me)' = Told(me) \cup {r}
    <3>1. /\ {e \in delivered' : e.user = me /\ forgotten' < e.row}
               = {e \in delivered : e.user = me /\ forgotten < e.row} \cup {d}
          /\ r = [row |-> d.row, cohorts |-> d.cohorts]
        BY <1>1, <1>4
    <3> HIDE DEF d, r
    <3> QED
        BY <3>1 DEF Told
  <2>2. \A u \in Users : u # me => Told(u)' = Told(u)
      BY <1>1, <1>4 DEF Told
  <2>3. CASE r \in Told(me)
    <3>1. Told(me)' = Told(me)
        BY <2>1, <2>3
    <3> QED
        BY <2>2, <3>1
  <2>4. CASE r \notin Told(me)
    <3>1. /\ rowAt[t] \in DOMAIN log /\ log[rowAt[t]].user = me
          /\ log[rowAt[t]].status \in ReleasedStatus /\ log[rowAt[t]].cohorts = kept[t]
        BY <1>1, <1>4 DEF SessionInv, ReturnsItsRow
    <3>2. ASSUME NEW e \in Told(me)
          PROVE  \A p \in e.cohorts, c \in r.cohorts : ~TooClose(p, c)
      <4>1. /\ e = [row |-> e.row, cohorts |-> log[e.row].cohorts]
            /\ e.row \in DOMAIN log /\ forgotten < e.row /\ log[e.row].user = me
          BY <1>1, <3>2, ToldIsLogged
      <4>2. e.row # rowAt[t]
          BY <2>4, <3>1, <3>2, <4>1
      <4>3. ~(rowAt[t] < e.row)
          BY <1>1, <1>4, <4>1 DEF LedgerInv, ReturnsLatest
      <4>4. e.row < rowAt[t]
          BY <3>1, <4>1, <4>2, <4>3, RowFacts
      <4>5. Apart(log[e.row], log[rowAt[t]])
          BY <3>1, <4>1, <4>4 DEF SessionInv, RowsApart
      <4> QED
          BY <3>1, <4>1, <4>5 DEF Apart
    <3>3. Cardinality(Told(me)') <= Budget
      <4>1. /\ IsFiniteSet(ReleaseRows(me)) /\ Cardinality(ReleaseRows(me)) <= Budget
            /\ Cardinality(ReleaseRows(me)) \in Nat
          BY <1>1, <1>4, FS_CardinalityType DEF LedgerInv, ReleasesPaid
      <4>2. rowAt[t] \in ReleaseRows(me)
          BY <1>1, <1>4, <3>1 DEF ReleaseRows, Replayed
      <4>3. ASSUME NEW e \in Told(me) \cup {r}
            PROVE  /\ e = [row |-> e.row, cohorts |-> log[e.row].cohorts]
                   /\ e.row \in ReleaseRows(me)
        <5>1. CASE e = r
            BY <3>1, <4>2, <5>1
        <5>2. CASE e \in Told(me)
            BY <1>1, <5>2, ToldIsLogged DEF ReleaseRows, Replayed
        <5> QED
            BY <5>1, <5>2
      <4>4. /\ IsFiniteSet(Told(me) \cup {r})
            /\ Cardinality(Told(me) \cup {r}) <= Cardinality(ReleaseRows(me))
        <5> DEFINE T == Told(me) \cup {r}
        <5>1. \A e \in T : /\ e = [row |-> e.row, cohorts |-> log[e.row].cohorts]
                           /\ e.row \in ReleaseRows(me)
            BY <4>3
        <5> HIDE DEF T
        <5>2. IsFiniteSet(T) /\ Cardinality(T) <= Cardinality(ReleaseRows(me))
            BY <1>1, <4>1, <5>1, ToldWithinRows
        <5> QED
            BY <5>2 DEF T
      <4>5. Cardinality(Told(me) \cup {r}) \in Nat
          BY <4>4, FS_CardinalityType
      <4>6. Budget \in Nat
          BY SessionAssumption
      <4> QED
          BY <2>1, <4>1, <4>4, <4>5, <4>6
    <3> QED
        BY <2>1, <2>2, <2>4, <3>2, <3>3
  <2> QED
      BY <2>3, <2>4
<1> QED
    BY <1>2, <1>3, <1>4

\* Every other step leaves the ledger, or lets entries age out of it.
LEMMA OthersForget ==
    ASSUME TypeOK, PaidFor, [Next]_vars, \A t \in Threads : ~Return(t)
    PROVE  \A u \in Users : Told(u)' \subseteq Told(u)
<1>1. delivered' = delivered /\ (forgotten' = forgotten \/ \E old \in forgotten .. Len(log) : Crash(old))
  <2>1. ASSUME NEW t \in Threads, Step(t) PROVE delivered' = delivered /\ forgotten' = forgotten
      BY <2>1, StepMoves
  <2> QED
      BY <2>1 DEF Next, Enter, Crash, ReplayRow, StartServing, vars
<1>2. forgotten' \in Nat /\ forgotten \in Nat /\ forgotten <= forgotten'
  <2>1. ASSUME NEW old \in forgotten .. Len(log), Crash(old)
        PROVE  forgotten' \in Nat /\ forgotten <= forgotten'
      BY <2>1, LenProperties DEF Crash, TypeOK
  <2> QED
      BY <1>1, <2>1 DEF TypeOK
<1>3. \A e \in delivered : e.row \in Nat
    BY DEF TypeOK
<1> QED
    BY <1>1, <1>2, <1>3 DEF Told

\* Ledger's own copy of the library counts as the library does.
LEMMA SameCount == ASSUME NEW S PROVE Ledger!Cardinality(S) = Cardinality(S)
BY DEF Ledger!Cardinality, Cardinality

\* The session implements the ledger of releases: each step of it adds one
\* release that conflicts with nothing remembered and stays within the budget,
\* lets releases leave the window, or changes nothing an analyst was told.
THEOREM LedgerImplemented == Spec => ImplementsLedger
<1> DEFINE ledger == [u \in Users |-> Told(u)]
<1>1. Init => Ledger!Init
    BY DEF Init, Ledger!Init
<1>2. ASSUME TypeOK, SessionInv, ReleaseIsLogged, LedgerInv, [Next]_vars
      PROVE  [Ledger!Next]_ledger
  <2>1. ASSUME \A u \in Users : Told(u)' \subseteq Told(u)
        PROVE  Ledger!Forget
      BY <2>1 DEF Ledger!Forget, Told
  <2>2. ASSUME NEW t \in Threads, Return(t)
        PROVE  [Ledger!Next]_ledger
    <3>1. PICK me \in Users : me = who[t]
        BY <1>2 DEF TypeOK
    <3>2. CASE \A u \in Users : Told(u)' = Told(u)
        BY <3>2
    <3>3. ASSUME NEW r, r \notin Told(me), Told(me)' = Told(me) \cup {r},
                 \A u \in Users : u # me => Told(u)' = Told(u),
                 \A e \in Told(me) : \A p \in e.cohorts, c \in r.cohorts : ~TooClose(p, c),
                 Cardinality(Told(me)') <= Budget
          PROVE  Ledger!Release(me)
      <4>1. ledger' = [ledger EXCEPT ![me] = @ \cup {r}]
          BY <3>3
      <4>2. Ledger!Compatible(Told(me), r)
          BY <3>3 DEF Ledger!Compatible
      <4>3. Ledger!Cardinality(ledger'[me]) <= Budget
          BY <3>3, SameCount
      <4>4. ledger[me] = Told(me) /\ ledger'[me] = Told(me)' /\ r \in ledger'[me] \ ledger[me]
          BY <3>3
      <4> QED
          BY <4>1, <4>2, <4>3, <4>4 DEF Ledger!Release, Told
    <3> QED
        BY <1>2, <2>2, <3>1, <3>2, <3>3, ReturnJoins DEF Ledger!Next
  <2>3. CASE \A t \in Threads : ~Return(t)
      BY <1>2, <2>1, <2>3, OthersForget DEF Ledger!Next, SessionInv
  <2> QED
      BY <2>2, <2>3
<1> QED
    BY <1>1, <1>2, LedgerCorrect, PTL DEF Spec, ImplementsLedger, Ledger!Spec, Told

=============================================================================
