-------------------------- MODULE LockedPlanProofs --------------------------
(***************************************************************************)
(* Proofs about LockedPlan, for every set of plans, every budget, any      *)
(* number of runs, of rows of other requests and of restarts.              *)
(***************************************************************************)
EXTENDS LockedPlan, SequenceTheorems, RunningTotalsProofs

-----------------------------------------------------------------------------
(***************************************************************************)
(* Sums of bits.                                                           *)
(***************************************************************************)
LEMMA SumOfNone == SumBits(<<>>) = 0
<1>1. Len(<<>>) = 0
    BY EmptySeq
<1> QED BY <1>1, TotalOfNone DEF SumBits

LEMMA SumOfOneMore ==
    ASSUME NEW S, NEW s \in Seq(S), NEW x \in S
    PROVE  SumBits(Append(s, x)) = SumBits(s) + x.bits
<1> DEFINE longer == Append(s, x)
           n == Len(s)
<1>1. /\ Len(longer) = n + 1 /\ \A i \in 1 .. n : longer[i] = s[i]
      /\ longer[n + 1] = x /\ longer \in Seq(S)
    BY AppendProperties
<1>2. n \in Nat /\ DOMAIN s = 1 .. n /\ DOMAIN longer = 1 .. n + 1
    BY <1>1, LenProperties
<1> HIDE DEF longer, n
<1>3. /\ \A i \in 1 .. n : Bits(longer)[i] = Bits(s)[i]
      /\ Bits(longer)[n + 1] = x.bits
    BY <1>1, <1>2 DEF Bits
<1>4. RunningTotal(Bits(longer), 0, n + 1) = RunningTotal(Bits(longer), 0, n) + x.bits
    BY <1>2, <1>3, TotalOfOneMore
<1>5. RunningTotal(Bits(longer), 0, n) = RunningTotal(Bits(s), 0, n)
    <2> DEFINE c == Bits(longer)
               d == Bits(s)
    <2>1. \A i \in (0 + 1) .. n : c[i] = d[i]
        BY <1>3
    <2> HIDE DEF c, d
    <2>2. RunningTotal(c, 0, n) = RunningTotal(d, 0, n)
        BY <1>2, <2>1, TotalOfSame
    <2> QED BY <2>2 DEF c, d
<1> QED BY <1>1, <1>4, <1>5 DEF SumBits, longer, n

LEMMA SumIsNat ==
    ASSUME NEW S, NEW s \in Seq(S), \A x \in S : x.bits \in Nat
    PROVE  SumBits(s) \in Nat
<1>1. Len(s) \in Nat /\ DOMAIN s = 1 .. Len(s) /\ \A i \in DOMAIN s : s[i] \in S
    BY LenProperties, ElementOfSeq
<1>2. \A i \in (0 + 1) .. Len(s) : Bits(s)[i] \in Nat
    BY <1>1 DEF Bits
<1> QED BY <1>1, <1>2, TotalIsNat DEF SumBits

LEMMA BitsTyped ==
    /\ \A x \in AuditRow : x.bits \in Nat
    /\ \A x \in StageResult : x.bits \in Nat
    BY PlanAssumption DEF AuditRow, StageResult

-----------------------------------------------------------------------------
(***************************************************************************)
(* Types.                                                                  *)
(***************************************************************************)

\* What a plan that was let through is.
LEMMA PlanFacts ==
    ASSUME TypeOK
    PROVE  /\ Len(plan) \in 1 .. 32 /\ DOMAIN plan = 1 .. Len(plan)
           /\ \A k \in DOMAIN plan :
                  /\ plan[k].question \in Questions /\ sparse[k] \in 0 .. MaxSparse
                  /\ plan[k].guard \in 0 .. (k - 1)
<1>1. WellFormed(plan) /\ plan \in Plans
    BY PlanAssumption DEF TypeOK
<1>2. ASSUME NEW k \in DOMAIN plan PROVE plan[k].question \in Questions
    <2>1. plan[k].question \in {plan[j].question : j \in DOMAIN plan}
        OBVIOUS
    <2> QED BY <1>1, <2>1 DEF Questions
<1> QED BY <1>1, <1>2 DEF WellFormed, TypeOK

\* What a stage's result changes.
LEMMA AnswerFacts ==
    ASSUME TypeOK, phase \in {"stage", "charged"}, NEW result \in StageResult,
           Answer(result)
    PROVE  /\ results' \in Seq(StageResult) /\ charged' = 0
           /\ at \in 1 .. Len(plan) /\ Len(results) = at - 1 /\ Len(results') = at
           /\ DOMAIN results = 1 .. (at - 1) /\ DOMAIN results' = 1 .. at
           /\ results'[at] = result /\ \A k \in 1 .. (at - 1) : results'[k] = results[k]
           /\ \/ phase' = "stage" /\ at' = at + 1 /\ at' \in DOMAIN plan
              \/ phase' = "done" /\ at = Len(plan)
           /\ disclosed' \in Nat /\ Pending \in Nat /\ Pending' \in Nat
           /\ disclosed' + Pending' = disclosed + Pending + result.bits
<1>1. /\ at \in 1 .. Len(plan) /\ Len(plan) \in Nat /\ Len(results) = at - 1
      /\ results \in Seq(StageResult) /\ disclosed \in Nat /\ DOMAIN plan = 1 .. Len(plan)
    <2>1. at \in DOMAIN plan /\ Len(results) = at - 1
        BY DEF TypeOK
    <2>2. results \in Seq(StageResult) /\ disclosed \in Nat
        BY DEF TypeOK
    <2>3. Len(plan) \in 1 .. 32 /\ DOMAIN plan = 1 .. Len(plan)
        BY PlanFacts
    <2>4. Len(plan) \in Nat
        <3>1. \A k \in 1 .. 32 : k \in Nat
            OBVIOUS
        <3> QED BY <2>3, <3>1
    <2>5. at \in 1 .. Len(plan)
        BY <2>1, <2>3
    <2> QED BY <2>1, <2>2, <2>3, <2>4, <2>5
<1>2. results' = Append(results, result) /\ charged' = 0
    BY DEF Answer
<1>3. /\ results' \in Seq(StageResult) /\ Len(results') = at
      /\ results'[at] = result /\ \A k \in 1 .. (at - 1) : results'[k] = results[k]
    BY <1>1, <1>2, AppendProperties
<1>4. DOMAIN results = 1 .. (at - 1) /\ DOMAIN results' = 1 .. at
    BY <1>1, <1>3, LenProperties
<1>5. /\ SumBits(results) \in Nat /\ SumBits(results') \in Nat /\ result.bits \in Nat
      /\ SumBits(results') = SumBits(results) + result.bits
    BY <1>1, <1>2, <1>3, SumIsNat, SumOfOneMore, BitsTyped
<1>6. Pending = SumBits(results)
    BY DEF Pending
<1>7. CASE at = Len(plan)
    <2>1. phase' = "done" /\ disclosed' = disclosed + SumBits(results') /\ Pending' = 0
        BY <1>7 DEF Answer, Pending
    <2>2. disclosed' + Pending' = disclosed + Pending + result.bits
        BY <1>1, <1>5, <1>6, <2>1
    <2>3. disclosed' \in Nat
        BY <1>1, <1>5, <2>1
    <2> QED BY <1>1, <1>2, <1>3, <1>4, <1>5, <1>6, <1>7, <2>1, <2>2, <2>3
<1>8. CASE at # Len(plan)
    <2>1. /\ phase' = "stage" /\ at' = at + 1 /\ disclosed' = disclosed
          /\ Pending' = SumBits(results')
        BY <1>8 DEF Answer, Pending
    <2>2. disclosed' + Pending' = disclosed + Pending + result.bits
        BY <1>1, <1>5, <1>6, <2>1
    <2>3. at + 1 \in DOMAIN plan
        <3>1. PICK n \in Nat : n = Len(plan) /\ DOMAIN plan = 1 .. n
            BY <1>1
        <3>2. at \in 1 .. n /\ at # n
            BY <1>1, <1>8, <3>1
        <3>3. at + 1 \in 1 .. n
            BY <3>2
        <3> QED BY <3>1, <3>3
    <2> QED BY <1>1, <1>2, <1>3, <1>4, <1>5, <1>6, <2>1, <2>2, <2>3
<1> QED BY <1>7, <1>8

\* The rows and results the actions write.
LEMMA Written ==
    ASSUME TypeOK
    PROVE  /\ \A h \in {Hash, OtherHash} : CommitRow(h) \in AuditRow
           /\ \A q \in Questions, s \in {"released", "denied"} :
                  Row(s, q, 0, Foreign) \in AuditRow
           /\ phase \in {"stage", "charged"} =>
                  /\ \A s \in Outcomes :
                         /\ Row(s, Stage.question, charged, <<runs, at>>) \in AuditRow
                         /\ Result(s, charged, Released(s)) \in StageResult
                  /\ Row("error", Stage.question, 0, <<runs, at>>) \in AuditRow
                  /\ Result("denied", charged, FALSE) \in StageResult
                  /\ Result("denied", 0, FALSE) \in StageResult
                  /\ Result("skipped", 0, FALSE) \in StageResult
<1>1. MaxSparse \in Nat /\ MaxRuns \in Nat /\ Outcomes \subseteq Statuses
      /\ charged \in 0 .. MaxSparse /\ runs \in 0 .. MaxRuns
    BY PlanAssumption DEF TypeOK
<1>2. <<0, 0>> \in (0 .. MaxRuns) \X (0 .. 32) /\ 0 \in 0 .. MaxSparse
    BY <1>1
<1>3. \A h \in {Hash, OtherHash} : CommitRow(h) \in AuditRow
    BY <1>1, <1>2 DEF CommitRow, AuditRow
<1>4. \A q \in Questions, s \in {"released", "denied"} : Row(s, q, 0, Foreign) \in AuditRow
    BY <1>1, <1>2 DEF Row, Foreign, AuditRow, Statuses
<1>5. ASSUME phase \in {"stage", "charged"}
      PROVE  /\ \A s \in Outcomes :
                    /\ Row(s, Stage.question, charged, <<runs, at>>) \in AuditRow
                    /\ Result(s, charged, Released(s)) \in StageResult
             /\ Row("error", Stage.question, 0, <<runs, at>>) \in AuditRow
             /\ Result("denied", charged, FALSE) \in StageResult
             /\ Result("denied", 0, FALSE) \in StageResult
             /\ Result("skipped", 0, FALSE) \in StageResult
    <2>1. at \in DOMAIN plan /\ at \in 0 .. 32
        <3>1. Len(plan) \in 1 .. 32 /\ DOMAIN plan = 1 .. Len(plan)
            BY PlanFacts
        <3>2. at \in DOMAIN plan
            BY <1>5 DEF TypeOK
        <3>3. PICK n \in 1 .. 32 : DOMAIN plan = 1 .. n
            BY <3>1
        <3>4. at \in 1 .. n
            BY <3>2, <3>3
        <3>5. at \in 0 .. 32
            BY <3>4
        <3> QED BY <3>2, <3>5
    <2>2. Stage.question \in Questions
        BY <2>1, PlanFacts DEF Stage
    <2>3. <<runs, at>> \in (0 .. MaxRuns) \X (0 .. 32)
        BY <1>1, <2>1
    <2>4. ASSUME NEW s \in Statuses \cup {"error"}, NEW b \in 0 .. MaxSparse
          PROVE  Row(s, Stage.question, b, <<runs, at>>) \in AuditRow
        BY <2>2, <2>3 DEF Row, AuditRow
    <2>5. ASSUME NEW s \in Statuses \cup {"skipped"}, NEW b \in 0 .. MaxSparse,
                 NEW o \in BOOLEAN
          PROVE  Result(s, b, o) \in StageResult
        BY DEF Result, StageResult
    <2>6. Released("denied") \in BOOLEAN /\ \A s \in Outcomes : Released(s) \in BOOLEAN
        BY DEF Released
    <2>7. \A s \in Outcomes : s \in Statuses \cup {"error"} /\ s \in Statuses \cup {"skipped"}
        BY <1>1
    <2>8. "denied" \in Statuses \cup {"skipped"}
        BY DEF Statuses
    <2> QED BY <1>1, <1>2, <2>4, <2>5, <2>6, <2>7, <2>8
<1> QED BY <1>3, <1>4, <1>5

\* What each action writes to the log.
LEMMA LogGrows ==
    ASSUME TypeOK, NEW row \in AuditRow, rows' = Append(rows, row)
    PROVE  /\ rows' \in Seq(AuditRow) /\ Len(rows) \in Nat /\ Len(rows') = Len(rows) + 1
           /\ DOMAIN rows = 1 .. Len(rows) /\ DOMAIN rows' = 1 .. Len(rows) + 1
           /\ rows'[Len(rows) + 1] = row /\ \A i \in DOMAIN rows : rows'[i] = rows[i]
           /\ SumBits(rows') = SumBits(rows) + row.bits
<1>1. rows \in Seq(AuditRow)
    BY DEF TypeOK
<1>2. /\ rows' \in Seq(AuditRow) /\ Len(rows') = Len(rows) + 1
      /\ rows'[Len(rows) + 1] = row /\ \A i \in 1 .. Len(rows) : rows'[i] = rows[i]
    BY <1>1, AppendProperties
<1>3. /\ Len(rows) \in Nat /\ DOMAIN rows = 1 .. Len(rows)
      /\ DOMAIN rows' = 1 .. Len(rows) + 1
    BY <1>1, <1>2, LenProperties
<1>4. SumBits(rows') = SumBits(rows) + row.bits
    BY <1>1, SumOfOneMore
<1> QED BY <1>2, <1>3, <1>4

LEMMA StartRows ==
    ASSUME TypeOK, Commit \/ RunUncommitted
    PROVE  /\ rows' = rows \/ rows' = Append(rows, CommitRow(Hash))
           /\ phase = "idle" /\ runs < MaxRuns /\ runs' = runs + 1
           /\ phase' = "stage" /\ at' = 1 /\ results' = <<>>
           /\ UNCHANGED <<fixed, verified, spent, charged, foreign, crashes, disclosed, lost,
                          refunded>>
<1>1. rows \in Seq(AuditRow) /\ CommitRow(Hash) \in AuditRow
    BY Written DEF TypeOK
<1>2. rows \o <<CommitRow(Hash)>> = Append(rows, CommitRow(Hash)) /\ rows \o <<>> = rows
    BY <1>1, AppendIsConcat, ConcatEmptySeq
<1> QED BY <1>2 DEF Commit, RunUncommitted, StartRun

\* Every action writes at most one row.
LEMMA RowsGrow ==
    ASSUME TypeOK, [Next]_vars
    PROVE  rows' = rows \/ \E row \in AuditRow : rows' = Append(rows, row)
<1>1. CASE Commit \/ RunUncommitted
    BY <1>1, StartRows, Written
<1>2. CASE Skip \/ Refuse \/ Charge \/ Close \/ ChainBroken \/ Crash \/ UNCHANGED vars
    BY <1>2 DEF Skip, Refuse, Charge, Close, ChainBroken, Crash, vars
<1>3. CASE ForeignRow
    BY <1>3, Written DEF ForeignRow
<1>4. CASE \E s \in Outcomes : Handle(s)
    BY <1>4, Written DEF Handle
<1>5. CASE \E w \in BOOLEAN : Fail(w)
    BY <1>5, Written DEF Fail
<1> QED BY <1>1, <1>2, <1>3, <1>4, <1>5 DEF Next, Step

LEMMA TypeInit == Init => TypeOK
<1> SUFFICES ASSUME Init PROVE TypeOK
    OBVIOUS
<1>1. <<>> \in Seq(AuditRow) /\ <<>> \in Seq(StageResult)
    BY EmptySeq
<1>2. MaxSparse \in Nat /\ MaxRuns \in Nat /\ MaxForeign \in Nat /\ MaxCrashes \in Nat
    BY PlanAssumption
<1>3. <<>> \in Seq(StageResult) /\ Len(<<>>) = 0
    BY EmptySeq
<1> QED BY <1>1, <1>2, <1>3 DEF Init, TypeOK

\* Every action that answers a stage, and the answer it gives.
LEMMA Answers ==
    ASSUME TypeOK, Step, ~Charge
    PROVE  /\ phase \in {"stage", "charged"} /\ plan' = plan /\ sparse' = sparse
           /\ UNCHANGED <<verified, spent, counters>>
           /\ \E result \in StageResult :
                  /\ Answer(result)
                  /\ \/ /\ rows' = rows /\ lost' = lost /\ phase = "stage" /\ result.bits = 0
                     \/ /\ phase = "charged" /\ result.bits = charged
                        /\ \/ rows' = rows /\ lost' = lost
                           \/ /\ rows' = Append(rows, Row("error", Stage.question, 0,
                                                          <<runs, at>>))
                              /\ lost' = lost
                           \/ /\ rows' = Append(rows, Row(result.status, Stage.question,
                                                          charged, <<runs, at>>))
                              /\ result.status \in Outcomes /\ lost' = lost - charged
<1>1. CASE Skip
    <2>1. Result("skipped", 0, FALSE) \in StageResult /\ Result("skipped", 0, FALSE).bits = 0
        BY <1>1, Written DEF Skip, Result
    <2> QED BY <1>1, <2>1 DEF Skip, fixed
<1>2. CASE Refuse
    <2>1. Result("denied", 0, FALSE) \in StageResult /\ Result("denied", 0, FALSE).bits = 0
        BY <1>2, Written DEF Refuse, Result
    <2> QED BY <1>2, <2>1 DEF Refuse, fixed
<1>3. ASSUME NEW s \in Outcomes, Handle(s)
      PROVE  \E result \in StageResult :
                 /\ Answer(result) /\ result.bits = charged /\ result.status \in Outcomes
                 /\ rows' = Append(rows, Row(result.status, Stage.question, charged,
                                            <<runs, at>>))
                 /\ lost' = lost - charged
    <2> DEFINE result == Result(s, charged, Released(s))
    <2>1. result \in StageResult /\ result.bits = charged /\ result.status = s
        BY <1>3, Written DEF Handle, Result
    <2>2. Answer(result) /\ lost' = lost - charged
          /\ rows' = Append(rows, Row(s, Stage.question, charged, <<runs, at>>))
        BY <1>3 DEF Handle
    <2> HIDE DEF result
    <2> QED BY <2>1, <2>2
<1>4. ASSUME NEW w \in BOOLEAN, Fail(w)
      PROVE  \E result \in StageResult :
                 /\ Answer(result) /\ result.bits = charged /\ lost' = lost
                 /\ \/ rows' = rows
                    \/ rows' = Append(rows, Row("error", Stage.question, 0, <<runs, at>>))
    <2> DEFINE result == Result("denied", charged, FALSE)
    <2>1. result \in StageResult /\ result.bits = charged
        BY <1>4, Written DEF Fail, Result
    <2>2. /\ Answer(result) /\ lost' = lost
          /\ \/ rows' = rows
             \/ rows' = Append(rows, Row("error", Stage.question, 0, <<runs, at>>))
        BY <1>4 DEF Fail
    <2> HIDE DEF result
    <2> QED BY <2>1, <2>2
<1>5. CASE \E s \in Outcomes : Handle(s)
    <2>1. /\ phase = "charged" /\ plan' = plan /\ sparse' = sparse
          /\ UNCHANGED <<verified, spent, counters>>
        BY <1>5 DEF Handle, fixed
    <2> QED BY <1>3, <1>5, <2>1
<1>6. CASE \E w \in BOOLEAN : Fail(w)
    <2>1. /\ phase = "charged" /\ plan' = plan /\ sparse' = sparse
          /\ UNCHANGED <<verified, spent, counters>>
        BY <1>6 DEF Fail, fixed
    <2> QED BY <1>4, <1>6, <2>1
<1> QED BY <1>1, <1>2, <1>5, <1>6 DEF Step

LEMMA TypeNext == TypeOK /\ LedgerBalances /\ Accounted /\ [Next]_vars => TypeOK'
<1> SUFFICES ASSUME TypeOK, LedgerBalances, Accounted, [Next]_vars PROVE TypeOK'
    OBVIOUS
<1>0. /\ MaxSparse \in Nat /\ MaxRuns \in Nat /\ MaxForeign \in Nat /\ MaxCrashes \in Nat
      /\ spent \in Nat /\ lost \in Nat /\ disclosed \in Nat /\ refunded \in Nat
      /\ charged \in 0 .. MaxSparse /\ charged <= lost
    BY PlanAssumption DEF TypeOK, Accounted
<1>1. rows' \in Seq(AuditRow)
    BY RowsGrow, LogGrows DEF TypeOK
<1>2. <<>> \in Seq(StageResult) /\ Len(<<>>) = 0 /\ 1 \in DOMAIN plan
    <2>1. 1 \in 1 .. Len(plan) /\ DOMAIN plan = 1 .. Len(plan)
        BY PlanFacts
    <2> QED BY <2>1, EmptySeq
<1>3. CASE Commit \/ RunUncommitted
    <2>1. /\ runs < MaxRuns /\ runs' = runs + 1
          /\ phase' = "stage" /\ at' = 1 /\ results' = <<>>
          /\ UNCHANGED <<fixed, verified, spent, charged, foreign, crashes, disclosed, lost,
                         refunded>>
        BY <1>3, StartRows
    <2>2. runs' \in 0 .. MaxRuns
        BY <1>0, <2>1 DEF TypeOK
    <2>3. Len(results') = at' - 1
        BY <1>2, <2>1
    <2> QED BY <1>1, <1>2, <2>1, <2>2, <2>3 DEF TypeOK, fixed
<1>4. CASE Step /\ ~Charge
    <2>1. /\ phase \in {"stage", "charged"} /\ plan' = plan /\ sparse' = sparse
          /\ UNCHANGED <<verified, spent, counters>> /\ lost' \in {lost, lost - charged}
        BY <1>4, Answers
    <2>2. PICK result \in StageResult : Answer(result)
        BY <1>4, Answers
    <2>3. /\ results' \in Seq(StageResult) /\ charged' = 0 /\ disclosed' \in Nat
          /\ Len(results') = at
          /\ \/ phase' = "stage" /\ at' = at + 1 /\ at' \in DOMAIN plan
             \/ phase' = "done" /\ at = Len(plan)
        BY <2>1, <2>2, AnswerFacts
    <2>4. lost' \in Nat
        BY <1>0, <2>1
    <2>5. \/ phase' \in {"stage", "charged"} /\ at' \in DOMAIN plan' /\ Len(results') = at' - 1
          \/ phase' = "done" /\ Len(results') = Len(plan')
        <3>1. at \in Nat
            BY <2>1, <2>2, AnswerFacts
        <3>2. at + 1 - 1 = at
            BY <3>1
        <3> QED BY <2>1, <2>3, <3>2
    <2> QED BY <1>0, <1>1, <2>1, <2>3, <2>4, <2>5 DEF TypeOK, counters
<1>5. CASE Charge
    <2>1. /\ phase = "stage" /\ phase' = "charged"
          /\ UNCHANGED <<fixed, rows, verified, at, results, counters, disclosed>>
        BY <1>5 DEF Charge
    <2>2. sparse[at] \in 0 .. MaxSparse
        BY <2>1, PlanFacts DEF TypeOK
    <2>3. charged' \in 0 .. MaxSparse /\ spent' \in Nat /\ lost' \in Nat
        BY <1>0, <1>5, <2>2 DEF Charge
    <2> QED BY <1>1, <2>1, <2>3 DEF TypeOK, fixed, counters
<1>6. CASE Close
    BY <1>2, <1>6 DEF Close, TypeOK, fixed, counters
<1>7. CASE ForeignRow
    <2>1. foreign' \in 0 .. MaxForeign
        BY <1>0, <1>7 DEF ForeignRow, TypeOK
    <2> QED BY <1>1, <1>7, <2>1 DEF ForeignRow, TypeOK, fixed
<1>8. CASE ChainBroken
    BY <1>8 DEF ChainBroken, TypeOK, fixed, counters
<1>9. CASE Crash
    <2>1. crashes' \in 0 .. MaxCrashes
        BY <1>0, <1>9 DEF Crash, TypeOK
    <2>2. spent' \in Nat
        BY <1>9, SumIsNat, BitsTyped DEF Crash, Restored, TypeOK
    <2>3. lost' \in Nat /\ refunded' \in Nat /\ charged' \in 0 .. MaxSparse
        BY <1>0, <1>9 DEF Crash
    <2> QED BY <1>1, <1>2, <1>9, <2>1, <2>2, <2>3 DEF Crash, TypeOK, fixed
<1>10. CASE UNCHANGED vars
    BY <1>10 DEF vars, TypeOK
<1> QED BY <1>3, <1>4, <1>5, <1>6, <1>7, <1>8, <1>9, <1>10 DEF Next, Step

-----------------------------------------------------------------------------
(***************************************************************************)
(* The selection ledger.                                                   *)
(***************************************************************************)
LEMMA LedgerInit == Init => LedgerBalances /\ Accounted
<1>1. SelectionBudget \in Nat
    BY PlanAssumption
<1> QED BY <1>1, SumOfNone DEF Init, LedgerBalances, Accounted, Pending

\* What an answer moves: from the ledger to what the caller knows.
LEMMA AnswerBalances ==
    ASSUME NEW s \in Nat, NEW l \in Nat, NEW r \in Nat, NEW r2 \in Nat, NEW l2,
           NEW c \in Nat, NEW b \in Nat, NEW d \in Nat, NEW p \in Nat, NEW d2 \in Nat,
           NEW p2 \in Nat, NEW g \in Nat,
           s = r + l, c <= l, b <= c, d + p + c <= s + g, d2 + p2 = d + p + b,
           \/ r2 = r /\ l2 = l
           \/ r2 = r + c /\ l2 = l - c
    PROVE  s = r2 + l2 /\ 0 <= l2 /\ d2 + p2 + 0 <= s + g
    OBVIOUS

LEMMA LedgerNext ==
    TypeOK /\ LedgerBalances /\ Accounted /\ [Next]_vars => LedgerBalances' /\ Accounted'
<1> SUFFICES ASSUME TypeOK, LedgerBalances, Accounted, [Next]_vars
             PROVE  LedgerBalances' /\ Accounted'
    OBVIOUS
<1>0. /\ SelectionBudget \in Nat /\ spent \in Nat /\ lost \in Nat /\ disclosed \in Nat
      /\ refunded \in Nat /\ charged \in Nat /\ charged <= lost
      /\ SumBits(rows) \in Nat /\ SumBits(results) \in Nat /\ Pending \in Nat
      /\ spent = SumBits(rows) + lost /\ spent <= SelectionBudget
      /\ disclosed + Pending + charged <= spent + refunded
    <2>1. /\ SelectionBudget \in Nat /\ MaxSparse \in Nat
          /\ spent \in Nat /\ lost \in Nat /\ disclosed \in Nat /\ refunded \in Nat
        BY PlanAssumption DEF TypeOK
    <2>2. charged \in Nat
        BY <2>1 DEF TypeOK
    <2>3. rows \in Seq(AuditRow) /\ results \in Seq(StageResult)
        BY DEF TypeOK
    <2>4. SumBits(rows) \in Nat /\ SumBits(results) \in Nat
        BY <2>3, SumIsNat, BitsTyped
    <2>5. Pending \in Nat
        BY <2>4 DEF Pending
    <2> QED BY <2>1, <2>2, <2>4, <2>5 DEF LedgerBalances, Accounted
<1>1. CASE Commit \/ RunUncommitted
    <2>1. /\ rows' = rows \/ rows' = Append(rows, CommitRow(Hash))
          /\ phase = "idle" /\ phase' = "stage" /\ results' = <<>>
          /\ UNCHANGED <<spent, charged, disclosed, lost, refunded>>
        BY <1>1, StartRows
    <2>2. SumBits(rows') = SumBits(rows)
        <3>1. CommitRow(Hash) \in AuditRow /\ CommitRow(Hash).bits = 0
            BY Written DEF CommitRow
        <3>2. ASSUME rows' = Append(rows, CommitRow(Hash))
              PROVE  SumBits(rows') = SumBits(rows) + CommitRow(Hash).bits
            BY <3>1, <3>2, LogGrows
        <3>3. SumBits(rows) + 0 = SumBits(rows)
            BY <1>0
        <3> QED BY <2>1, <3>1, <3>2, <3>3
    <2>3. Pending' = Pending
        BY <2>1 DEF Pending, TypeOK
    <2>4. charged = 0
        BY <2>1 DEF Accounted
    <2> QED BY <1>0, <2>1, <2>2, <2>3, <2>4 DEF LedgerBalances, Accounted
<1>2. CASE Step /\ ~Charge
    <2>1. /\ phase \in {"stage", "charged"} /\ spent' = spent /\ refunded' = refunded
        BY <1>2, Answers DEF counters
    <2>2. PICK result \in StageResult :
              /\ Answer(result)
              /\ \/ /\ rows' = rows /\ lost' = lost /\ phase = "stage" /\ result.bits = 0
                 \/ /\ phase = "charged" /\ result.bits = charged
                    /\ \/ rows' = rows /\ lost' = lost
                       \/ /\ rows' = Append(rows, Row("error", Stage.question, 0, <<runs, at>>))
                          /\ lost' = lost
                       \/ /\ rows' = Append(rows, Row(result.status, Stage.question, charged,
                                                      <<runs, at>>))
                          /\ result.status \in Outcomes /\ lost' = lost - charged
        BY <1>2, Answers
    <2>3. /\ charged' = 0 /\ disclosed' \in Nat /\ Pending' \in Nat
          /\ disclosed' + Pending' = disclosed + Pending + result.bits
        BY <2>1, <2>2, AnswerFacts
    <2>4. result.bits \in Nat /\ result.bits <= charged
        <3>1. result.bits = 0 \/ result.bits = charged
            BY <2>2
        <3>2. PICK c \in Nat : c = charged
            BY <1>0
        <3> QED BY <3>1, <3>2
    <2>5. \/ SumBits(rows') = SumBits(rows) /\ lost' = lost
          \/ SumBits(rows') = SumBits(rows) + charged /\ lost' = lost - charged
        <3>1. CASE rows' = rows /\ lost' = lost
            BY <3>1
        <3>2. CASE rows' = Append(rows, Row("error", Stage.question, 0, <<runs, at>>))
                   /\ lost' = lost
            <4>1. /\ Row("error", Stage.question, 0, <<runs, at>>) \in AuditRow
                  /\ Row("error", Stage.question, 0, <<runs, at>>).bits = 0
                BY <2>1, Written DEF Row
            <4>2. SumBits(rows') = SumBits(rows) + 0
                BY <3>2, <4>1, LogGrows
            <4> QED BY <1>0, <3>2, <4>2
        <3>3. CASE /\ rows' = Append(rows, Row(result.status, Stage.question, charged,
                                               <<runs, at>>))
                   /\ result.status \in Outcomes /\ lost' = lost - charged
            <4>1. /\ Row(result.status, Stage.question, charged, <<runs, at>>) \in AuditRow
                  /\ Row(result.status, Stage.question, charged, <<runs, at>>).bits = charged
                BY <2>1, <3>3, Written DEF Row
            <4>2. SumBits(rows') = SumBits(rows) + charged
                BY <3>3, <4>1, LogGrows
            <4> QED BY <3>3, <4>2
        <3> QED BY <2>2, <3>1, <3>2, <3>3
    <2>6. SumBits(rows') \in Nat
        BY <1>0, <2>5
    <2>7. spent = SumBits(rows') + lost' /\ 0 <= lost'
          /\ disclosed' + Pending' + 0 <= spent + refunded
        BY <1>0, <2>3, <2>4, <2>5, <2>6, AnswerBalances
    <2> QED BY <1>0, <2>1, <2>3, <2>7 DEF LedgerBalances, Accounted
<1>3. CASE Charge
    <2>1. /\ phase = "stage" /\ phase' = "charged" /\ at \in DOMAIN plan
          /\ rows' = rows /\ results' = results /\ disclosed' = disclosed
          /\ refunded' = refunded
        BY <1>3 DEF Charge, counters, TypeOK
    <2>2. charged = 0
        BY <2>1 DEF Accounted
    <2>3. PICK bits \in Nat : /\ charged' = bits /\ spent' = spent + bits
                              /\ lost' = lost + bits /\ spent' <= SelectionBudget
        <3>1. sparse[at] \in Nat
            BY <2>1, PlanFacts, PlanAssumption
        <3>2. CASE Stage.dimension = "none"
            <4>1. charged' = 0 /\ spent' = spent + 0 /\ lost' = lost + 0
                BY <1>0, <1>3, <3>2 DEF Charge
            <4> QED BY <1>0, <4>1
        <3>3. CASE Stage.dimension # "none"
            <4>1. /\ sparse[at] = 0 \/ spent + sparse[at] <= SelectionBudget
                  /\ charged' = sparse[at] /\ spent' = spent + sparse[at]
                  /\ lost' = lost + sparse[at]
                BY <1>3, <3>3 DEF Charge, Affordable
            <4>2. spent' <= SelectionBudget
                BY <1>0, <3>1, <4>1
            <4> QED BY <3>1, <4>1, <4>2
        <3> QED BY <3>2, <3>3
    <2>4. Pending' = Pending
        BY <2>1 DEF Pending
    <2>5. /\ spent' = SumBits(rows') + lost' /\ charged' <= lost'
          /\ disclosed' + Pending' + charged' <= spent' + refunded'
        BY <1>0, <2>1, <2>2, <2>3, <2>4
    <2> QED BY <2>1, <2>3, <2>5 DEF LedgerBalances, Accounted
<1>4. CASE Close
    <2>1. /\ phase = "done" /\ phase' = "idle" /\ results' = <<>>
          /\ UNCHANGED <<rows, spent, charged, disclosed, lost, refunded>>
        BY <1>4 DEF Close, counters
    <2>2. Pending' = 0 /\ Pending = 0
        BY <2>1, SumOfNone DEF Pending
    <2>3. charged = 0
        BY <2>1 DEF Accounted
    <2> QED BY <1>0, <2>1, <2>2, <2>3 DEF LedgerBalances, Accounted
<1>5. CASE ForeignRow
    <2>1. UNCHANGED <<phase, spent, charged, results, disclosed, lost, refunded>>
        BY <1>5 DEF ForeignRow
    <2>2. PICK row \in AuditRow : rows' = Append(rows, row) /\ row.bits = 0
        <3>1. /\ \A q \in Questions, s \in {"released", "denied"} :
                     Row(s, q, 0, Foreign) \in AuditRow /\ Row(s, q, 0, Foreign).bits = 0
              /\ \A h \in {Hash, OtherHash} :
                     CommitRow(h) \in AuditRow /\ CommitRow(h).bits = 0
            BY Written DEF Row, CommitRow
        <3> QED BY <1>5, <3>1 DEF ForeignRow
    <2>3. SumBits(rows') = SumBits(rows) + 0
        BY <2>2, LogGrows
    <2>4. Pending' = Pending
        BY <2>1 DEF Pending
    <2> QED BY <1>0, <2>1, <2>3, <2>4 DEF LedgerBalances, Accounted
<1>6. CASE ChainBroken \/ UNCHANGED vars
    BY <1>6 DEF ChainBroken, vars, counters, LedgerBalances, Accounted, Pending
<1>7. CASE Crash
    <2>1. /\ rows' = rows /\ spent' = SumBits(rows) /\ lost' = 0 /\ charged' = 0
          /\ refunded' = refunded + lost - charged /\ disclosed' = disclosed
          /\ phase' = "idle" /\ results' = <<>>
        BY <1>7 DEF Crash, Restored
    <2>2. Pending' = 0
        BY <2>1, SumOfNone DEF Pending
    <2>3. disclosed <= SumBits(rows) + (refunded + lost - charged)
        BY <1>0
    <2>4. /\ spent' = SumBits(rows') + lost' /\ spent' <= SelectionBudget
          /\ charged' <= lost'
          /\ disclosed' + Pending' + charged' <= spent' + refunded'
        BY <1>0, <2>1, <2>2, <2>3
    <2> QED BY <2>1, <2>4 DEF LedgerBalances, Accounted
<1> QED BY <1>1, <1>2, <1>3, <1>4, <1>5, <1>6, <1>7 DEF Next, Step

-----------------------------------------------------------------------------
(***************************************************************************)
(* The rows of the run in hand.                                            *)
(***************************************************************************)
LEMMA RowsOfRunInit == Init => RowsOfRun
<1>1. DOMAIN <<>> = {}
    BY EmptySeq
<1> QED BY <1>1 DEF Init, RowsOfRun

\* One more row, by another request or by the stage that has just been answered.
LEMMA RowsOfRunGrow ==
    ASSUME TypeOK, RowsOfRun, NEW row \in AuditRow, rows' = Append(rows, row),
           plan' = plan, runs' = runs, phase' # "idle" => phase # "idle",
           phase # "idle" => \A k \in DOMAIN results :
               k \in DOMAIN results' /\ results'[k] = results[k],
           row.by[1] <= runs,
           phase' # "idle" /\ row.by[1] = runs =>
               /\ row.by[2] \in DOMAIN results'
               /\ row.by[2] \in Nat /\ \A k \in DOMAIN results : k < row.by[2]
               /\ row.request = plan[row.by[2]].question
               /\ row.status \in {"error", results'[row.by[2]].status}
               /\ row.status # "plan"
    PROVE  RowsOfRun'
<1>1. /\ Len(rows) \in Nat
      /\ DOMAIN rows = 1 .. Len(rows) /\ DOMAIN rows' = 1 .. Len(rows) + 1
      /\ rows'[Len(rows) + 1] = row /\ \A i \in DOMAIN rows : rows'[i] = rows[i]
    BY LogGrows
<1> DEFINE n == Len(rows) + 1
<1>2. /\ n \notin DOMAIN rows /\ DOMAIN rows' = DOMAIN rows \cup {n} /\ rows'[n] = row
      /\ \A i \in DOMAIN rows : ~(n < i) /\ i \in Nat
      /\ ~(n < n)
    BY <1>1
<1>3. \A i \in DOMAIN rows : rows'[i] = rows[i]
    BY <1>1
<1> HIDE DEF n
<1>4. \A i \in DOMAIN rows' : rows'[i].by[1] <= runs
    BY <1>2, <1>3 DEF RowsOfRun
<1>5. ASSUME phase' # "idle"
      PROVE  /\ runs' > 0
             /\ \A i \in DOMAIN rows' : rows'[i].by[1] = runs =>
                    /\ rows'[i].by[2] \in DOMAIN results'
                    /\ rows'[i].request = plan[rows'[i].by[2]].question
                    /\ rows'[i].status \in {"error", results'[rows'[i].by[2]].status}
                    /\ rows'[i].status # "plan"
             /\ \A i, j \in DOMAIN rows' :
                    i < j /\ rows'[i].by[1] = runs /\ rows'[j].by[1] = runs =>
                        rows'[i].by[2] < rows'[j].by[2]
    <2>1. /\ phase # "idle" /\ runs > 0
          /\ \A i \in DOMAIN rows : rows[i].by[1] = runs =>
                 /\ rows[i].by[2] \in DOMAIN results
                 /\ rows[i].request = plan[rows[i].by[2]].question
                 /\ rows[i].status \in {"error", results[rows[i].by[2]].status}
                 /\ rows[i].status # "plan"
          /\ \A i, j \in DOMAIN rows :
                 i < j /\ rows[i].by[1] = runs /\ rows[j].by[1] = runs =>
                     rows[i].by[2] < rows[j].by[2]
        BY <1>5 DEF RowsOfRun
    <2>2. ASSUME NEW i \in DOMAIN rows', rows'[i].by[1] = runs
          PROVE  /\ rows'[i].by[2] \in DOMAIN results'
                 /\ rows'[i].request = plan[rows'[i].by[2]].question
                 /\ rows'[i].status \in {"error", results'[rows'[i].by[2]].status}
                 /\ rows'[i].status # "plan"
        <3>1. CASE i = n
            BY <1>2, <1>5, <2>2, <3>1
        <3>2. CASE i \in DOMAIN rows
            BY <1>3, <2>1, <2>2, <3>2
        <3> QED BY <1>2, <3>1, <3>2
    <2>3. ASSUME NEW i \in DOMAIN rows', NEW j \in DOMAIN rows', i < j,
                 rows'[i].by[1] = runs, rows'[j].by[1] = runs
          PROVE  rows'[i].by[2] < rows'[j].by[2]
        <3>1. i \in DOMAIN rows
            BY <1>2, <2>3
        <3>2. CASE j = n
            BY <1>2, <1>3, <1>5, <2>1, <2>3, <3>1, <3>2
        <3>3. CASE j \in DOMAIN rows
            BY <1>3, <2>1, <2>3, <3>1, <3>3
        <3> QED BY <1>2, <3>2, <3>3
    <2> QED BY <2>1, <2>2, <2>3
<1> QED BY <1>4, <1>5 DEF RowsOfRun

LEMMA RowsOfRunNext == TypeOK /\ RowsOfRun /\ [Next]_vars => RowsOfRun'
<1> SUFFICES ASSUME TypeOK, RowsOfRun, [Next]_vars PROVE RowsOfRun'
    OBVIOUS
<1>0. runs \in Nat /\ \A i \in DOMAIN rows : rows[i].by[1] <= runs /\ rows[i].by[1] \in Nat
    <2>1. \A i \in DOMAIN rows : rows[i] \in AuditRow
        BY ElementOfSeq, LenProperties DEF TypeOK
    <2>2. \A row \in AuditRow : row.by[1] \in 0 .. MaxRuns
        BY DEF AuditRow
    <2>3. runs \in 0 .. MaxRuns /\ MaxRuns \in Nat
        BY PlanAssumption DEF TypeOK
    <2>4. \A i \in DOMAIN rows : rows[i].by[1] \in 0 .. MaxRuns
        BY <2>1, <2>2
    <2>5. \A k \in 0 .. MaxRuns : k \in Nat
        BY <2>3
    <2> QED BY <2>3, <2>4, <2>5 DEF RowsOfRun
\* A new run has no row yet.
<1>1. CASE Commit \/ RunUncommitted
    <2>1. /\ rows' = rows \/ rows' = Append(rows, CommitRow(Hash))
          /\ runs' = runs + 1
        BY <1>1, StartRows
    <2>2. \A i \in DOMAIN rows' : rows'[i].by[1] < runs'
        <3>1. CASE rows' = rows
            BY <1>0, <2>1, <3>1
        <3>2. CASE rows' = Append(rows, CommitRow(Hash))
            <4>1. CommitRow(Hash) \in AuditRow /\ CommitRow(Hash).by[1] = 0
                BY Written DEF CommitRow
            <4>2. /\ DOMAIN rows = 1 .. Len(rows) /\ DOMAIN rows' = 1 .. Len(rows) + 1
                  /\ Len(rows) \in Nat /\ rows'[Len(rows) + 1] = CommitRow(Hash)
                  /\ \A i \in DOMAIN rows : rows'[i] = rows[i]
                BY <3>2, <4>1, LogGrows
            <4>3. \A i \in DOMAIN rows' : i \in DOMAIN rows \/ i = Len(rows) + 1
                BY <4>2
            <4>4. 0 < runs + 1 /\ \A i \in DOMAIN rows : rows[i].by[1] < runs + 1
                BY <1>0
            <4> QED BY <2>1, <4>1, <4>2, <4>3, <4>4
        <3> QED BY <2>1, <3>1, <3>2
    <2>3. \A i \in DOMAIN rows' : rows'[i].by[1] <= runs' /\ rows'[i].by[1] # runs'
        <3>1. ASSUME NEW i \in DOMAIN rows' PROVE rows'[i].by[1] \in Nat
            <4>1. rows' \in Seq(AuditRow)
                BY RowsGrow, LogGrows DEF TypeOK
            <4>2. rows'[i] \in AuditRow
                BY <4>1, ElementOfSeq, LenProperties
            <4> QED BY <4>2, PlanAssumption DEF AuditRow
        <3>2. runs' \in Nat
            BY <1>0, <2>1
        <3> QED BY <2>2, <3>1, <3>2
    <2>4. runs' > 0
        BY <1>0, <2>1
    <2> QED BY <2>3, <2>4 DEF RowsOfRun
<1>2. CASE Step /\ ~Charge
    <2>1. /\ phase \in {"stage", "charged"} /\ plan' = plan /\ runs' = runs
        BY <1>2, Answers DEF counters
    <2>2. PICK result \in StageResult :
              /\ Answer(result)
              /\ \/ rows' = rows
                 \/ rows' = Append(rows, Row("error", Stage.question, 0, <<runs, at>>))
                 \/ rows' = Append(rows, Row(result.status, Stage.question, charged,
                                             <<runs, at>>)) /\ result.status \in Outcomes
        BY <1>2, Answers
    <2>3. /\ at \in 1 .. Len(plan) /\ DOMAIN results = 1 .. (at - 1)
          /\ DOMAIN results' = 1 .. at /\ results'[at] = result
          /\ \A k \in 1 .. (at - 1) : results'[k] = results[k]
        BY <2>1, <2>2, AnswerFacts
    <2>4. /\ at \in DOMAIN results' /\ at \in Nat
          /\ \A k \in DOMAIN results : k < at /\ k \in DOMAIN results' /\ results'[k] = results[k]
        BY <2>3
    <2>5. CASE rows' = rows
        BY <2>1, <2>4, <2>5 DEF RowsOfRun
    <2>6. ASSUME NEW s \in {"error", result.status}, s # "plan", NEW b,
                 Row(s, Stage.question, b, <<runs, at>>) \in AuditRow,
                 rows' = Append(rows, Row(s, Stage.question, b, <<runs, at>>))
          PROVE  RowsOfRun'
        <3> DEFINE row == Row(s, Stage.question, b, <<runs, at>>)
        <3>1. /\ row \in AuditRow /\ row.by[1] = runs /\ row.by[2] = at
              /\ row.status = s /\ row.request = plan[at].question /\ rows' = Append(rows, row)
            BY <2>6 DEF Row, Stage
        <3> HIDE DEF row
        <3>2. row.by[1] <= runs
            BY <1>0, <3>1
        <3> QED BY <2>1, <2>3, <2>4, <2>6, <3>1, <3>2, RowsOfRunGrow
    <2>7. CASE rows' = Append(rows, Row("error", Stage.question, 0, <<runs, at>>))
        BY <2>1, <2>6, <2>7, Written
    <2>8. CASE rows' = Append(rows, Row(result.status, Stage.question, charged, <<runs, at>>))
               /\ result.status \in Outcomes
        <3>1. result.status # "plan"
            BY <2>8, PlanAssumption DEF Statuses
        <3> QED BY <2>1, <2>6, <2>8, <3>1, Written
    <2> QED BY <2>2, <2>5, <2>7, <2>8
<1>3. CASE ForeignRow
    <2>1. UNCHANGED <<plan, phase, results, runs>>
        BY <1>3 DEF ForeignRow, fixed
    <2>2. PICK row \in AuditRow : rows' = Append(rows, row) /\ row.by = <<0, 0>>
        <3>1. /\ \A q \in Questions, s \in {"released", "denied"} :
                     Row(s, q, 0, Foreign) \in AuditRow /\ Row(s, q, 0, Foreign).by = <<0, 0>>
              /\ \A h \in {Hash, OtherHash} :
                     CommitRow(h) \in AuditRow /\ CommitRow(h).by = <<0, 0>>
            BY Written DEF Row, CommitRow, Foreign
        <3> QED BY <1>3, <3>1 DEF ForeignRow
    <2>3. row.by[1] = 0 /\ (phase # "idle" => row.by[1] # runs)
        BY <1>0, <2>2 DEF RowsOfRun
    <2>4. row.by[1] <= runs
        BY <1>0, <2>3
    <2> QED BY <2>1, <2>2, <2>3, <2>4, RowsOfRunGrow
<1>4. CASE Charge \/ ChainBroken
    <2>1. /\ UNCHANGED <<plan, rows, results, runs>> /\ phase # "idle"
        BY <1>4 DEF Charge, ChainBroken, fixed, counters
    <2> QED BY <2>1 DEF RowsOfRun
<1>5. CASE Close \/ Crash
    <2>1. /\ UNCHANGED <<rows, runs>> /\ phase' = "idle"
        BY <1>5 DEF Close, Crash, counters
    <2> QED BY <2>1 DEF RowsOfRun
<1>6. CASE UNCHANGED vars
    BY <1>6 DEF vars, RowsOfRun
<1> QED BY <1>1, <1>2, <1>3, <1>4, <1>5, <1>6 DEF Next, Step

-----------------------------------------------------------------------------
(***************************************************************************)
(* The search for a stage's row.                                           *)
(***************************************************************************)

\* The row cited is the first match after the cursor, if there is one.
LEMMA CitedFacts ==
    ASSUME NEW log \in Seq(AuditRow), NEW cursor \in Nat, NEW question, NEW status
    PROVE  LET found == Cited(log, cursor, question, status) IN
           /\ found \in Nat
           /\ found # NoRow =>
                  /\ found \in DOMAIN log /\ found > cursor
                  /\ Matches(log[found], question, status)
           /\ \A i \in DOMAIN log :
                  i > cursor /\ Matches(log[i], question, status) =>
                      found # NoRow /\ found <= i
<1> DEFINE hits == {i \in DOMAIN log : i > cursor /\ Matches(log[i], question, status)}
           found == Cited(log, cursor, question, status)
<1>1. hits \in SUBSET Nat /\ \A i \in hits : i # NoRow
    BY LenProperties DEF NoRow
<1>2. CASE hits = {}
    <2>1. found = NoRow
        BY <1>2 DEF Cited
    <2> QED BY <1>2, <2>1 DEF NoRow
<1>3. CASE hits # {}
    <2>1. found = Min(hits)
        BY <1>3 DEF Cited
    <2>2. found \in hits /\ \A i \in hits : found <= i
        <3> HIDE DEF hits, found
        <3>1. \E m \in hits : \A i \in hits : m <= i
            BY <1>1, <1>3, LeastNumber
        <3> QED BY <2>1, <3>1 DEF Min
    <2>3. found \in Nat /\ found # NoRow
        BY <1>1, <2>2
    <2> HIDE DEF found
    <2>4. /\ found \in DOMAIN log /\ found > cursor
          /\ Matches(log[found], question, status)
          /\ \A i \in DOMAIN log :
                 i > cursor /\ Matches(log[i], question, status) => found <= i
        BY <2>2
    <2> QED BY <2>3, <2>4 DEF found
<1> QED BY <1>2, <1>3

\* What the cursor makes of a stage.
Moved(log, cursor, question, status) ==
    LET found == Cited(log, cursor, question, status)
    IN  IF found = NoRow THEN cursor ELSE found

CursorTo(f, n, log, stages, outs) ==
    f = [k \in 0 .. n |->
            IF k = 0 THEN NoRow
            ELSE Moved(log, f[k - 1], stages[k].question, outs[k].status)]

LEMMA CursorsExist ==
    ASSUME NEW log, NEW stages, NEW outs, NEW n \in Nat
    PROVE  \E f : CursorTo(f, n, log, stages, outs)
<1> DEFINE T == {k \in Nat : ~\E f : CursorTo(f, k, log, stages, outs)}
<1>1. SUFFICES ASSUME T # {} PROVE FALSE
    OBVIOUS
<1>2. PICK k \in T : \A j \in T : k <= j
    BY <1>1, LeastNumber
<1>3. CASE k = 0
    <2>1. CursorTo([j \in 0 .. 0 |-> NoRow], 0, log, stages, outs)
        BY DEF CursorTo
    <2> QED BY <1>3, <2>1
<1>4. CASE k # 0
    <2>1. k - 1 \in Nat /\ k - 1 \notin T
        BY <1>2, <1>4
    <2>2. PICK f : CursorTo(f, k - 1, log, stages, outs)
        BY <2>1
    <2> DEFINE g == [j \in 0 .. k |->
                        IF j = 0 THEN NoRow
                        ELSE Moved(log, f[j - 1], stages[j].question, outs[j].status)]
    <2>3. \A j \in 0 .. (k - 1) : g[j] = f[j]
        BY <2>2 DEF CursorTo
    <2>4. ASSUME NEW j \in 0 .. k, j # 0
          PROVE  g[j - 1] = f[j - 1]
        <3> HIDE DEF g
        <3>1. j - 1 \in 0 .. (k - 1)
            BY <2>4
        <3> QED BY <2>3, <3>1
    <2>5. CursorTo(g, k, log, stages, outs)
        BY <2>4 DEF CursorTo
    <2> QED BY <2>5
<1> QED BY <1>3, <1>4

\* The cursor starts before the log and moves to the row a stage cites.
LEMMA CursorSteps ==
    ASSUME NEW log, NEW stages, NEW outs, Len(stages) \in Nat
    PROVE  LET cursor == Cursors(log, stages, outs) IN
           /\ cursor[0] = NoRow
           /\ \A k \in 1 .. Len(stages) :
                  cursor[k] = Moved(log, cursor[k - 1], stages[k].question, outs[k].status)
<1> DEFINE n == Len(stages)
           f == CHOOSE h : CursorTo(h, n, log, stages, outs)
<1>1. CursorTo(f, n, log, stages, outs)
    BY CursorsExist
<1>2. Cursors(log, stages, outs) = f
    BY DEF Cursors, CursorTo, Moved
<1> HIDE DEF f
<1>3. f[0] = NoRow
    BY <1>1 DEF CursorTo
<1>4. \A k \in 1 .. n : f[k] = Moved(log, f[k - 1], stages[k].question, outs[k].status)
    BY <1>1 DEF CursorTo
<1> QED BY <1>2, <1>3, <1>4

\* The cursor is a place in the log and never goes back.
LEMMA CursorPlaces ==
    ASSUME NEW log \in Seq(AuditRow), NEW stages, NEW outs, Len(stages) \in Nat
    PROVE  \A k \in 0 .. Len(stages) : Cursors(log, stages, outs)[k] \in Nat
<1> DEFINE n == Len(stages)
           f == Cursors(log, stages, outs)
           T == {k \in 0 .. n : f[k] \notin Nat}
<1>0. /\ f[0] = NoRow
      /\ \A k \in 1 .. n : f[k] = Moved(log, f[k - 1], stages[k].question, outs[k].status)
    BY CursorSteps
<1> HIDE DEF f
<1>1. SUFFICES ASSUME T # {} PROVE FALSE
    BY DEF f
<1>2. PICK k \in T : \A j \in T : k <= j
    <2>1. T \in SUBSET Nat
        OBVIOUS
    <2> HIDE DEF T
    <2> QED BY <1>1, <2>1, LeastNumber
<1>3. k # 0
    BY <1>0 DEF NoRow
<1>4. k \in 1 .. n /\ k - 1 \in 0 .. n /\ k - 1 \notin T
    BY <1>2, <1>3
<1>5. f[k - 1] \in Nat
    BY <1>4
<1>6. Cited(log, f[k - 1], stages[k].question, outs[k].status) \in Nat
    BY <1>5, CitedFacts
<1> QED BY <1>0, <1>4, <1>5, <1>6 DEF Moved

LEMMA CursorRises ==
    ASSUME NEW log \in Seq(AuditRow), NEW stages, NEW outs, Len(stages) \in Nat,
           NEW j \in 0 .. Len(stages)
    PROVE  \A k \in j .. Len(stages) :
               Cursors(log, stages, outs)[j] <= Cursors(log, stages, outs)[k]
<1> DEFINE n == Len(stages)
           f == Cursors(log, stages, outs)
           T == {k \in j .. n : ~(f[j] <= f[k])}
<1>0. /\ \A k \in 1 .. n : f[k] = Moved(log, f[k - 1], stages[k].question, outs[k].status)
      /\ \A k \in 0 .. n : f[k] \in Nat
    BY CursorSteps, CursorPlaces
<1> HIDE DEF f
<1>1. SUFFICES ASSUME T # {} PROVE FALSE
    BY DEF f
<1>2. PICK k \in T : \A i \in T : k <= i
    <2>1. T \in SUBSET Nat
        OBVIOUS
    <2> HIDE DEF T
    <2> QED BY <1>1, <2>1, LeastNumber
<1>3. k # j
    BY <1>0, <1>2
<1>4. k \in 1 .. n /\ k - 1 \in j .. n /\ k - 1 \in 0 .. n /\ k - 1 \notin T
    BY <1>2, <1>3
<1>5. f[j] <= f[k - 1] /\ f[j] \in Nat /\ f[k - 1] \in Nat /\ f[k] \in Nat
    BY <1>0, <1>4
<1>6. f[k - 1] <= f[k]
    <2> DEFINE found == Cited(log, f[k - 1], stages[k].question, outs[k].status)
    <2>1. found \in Nat /\ (found # NoRow => found > f[k - 1])
        BY <1>5, CitedFacts
    <2>2. f[k] = IF found = NoRow THEN f[k - 1] ELSE found
        BY <1>0, <1>4 DEF Moved
    <2> HIDE DEF found
    <2> QED BY <1>5, <2>1, <2>2
<1>7. f[j] <= f[k]
    BY <1>5, <1>6
<1> QED BY <1>2, <1>7

-----------------------------------------------------------------------------
(***************************************************************************)
(* A run that is done, set against the log.                                *)
(***************************************************************************)
Cursor == Cursors(rows, plan, results)

CitedAt(k) == Cited(rows, Cursor[k - 1], plan[k].question, results[k].status)

LEMMA DoneFacts ==
    ASSUME TypeOK, phase = "done"
    PROVE  /\ rows \in Seq(AuditRow) /\ \A i \in DOMAIN rows : rows[i] \in AuditRow /\ i \in Nat /\ i > 0
           /\ Len(plan) \in Nat /\ DOMAIN plan = 1 .. Len(plan)
           /\ DOMAIN results = 1 .. Len(plan)
           /\ \A k \in DOMAIN results : results[k] \in StageResult
<1>1. Len(plan) \in 1 .. 32 /\ DOMAIN plan = 1 .. Len(plan)
    BY PlanFacts
<1>2. rows \in Seq(AuditRow) /\ results \in Seq(StageResult) /\ Len(results) = Len(plan)
    BY DEF TypeOK
<1>3. \A i \in DOMAIN rows : rows[i] \in AuditRow /\ i \in Nat /\ i > 0
    BY <1>2, LenProperties, ElementOfSeq
<1>4. DOMAIN results = 1 .. Len(plan) /\ \A k \in DOMAIN results : results[k] \in StageResult
    BY <1>2, LenProperties, ElementOfSeq
<1> QED BY <1>1, <1>2, <1>3, <1>4

\* What the cursor does at a stage.
LEMMA DoneCursor ==
    ASSUME TypeOK, phase = "done"
    PROVE  /\ Cursor[0] = 0 /\ \A k \in 0 .. Len(plan) : Cursor[k] \in Nat
           /\ \A k \in 1 .. Len(plan) :
                  /\ k - 1 \in 0 .. Len(plan)
                  /\ Cursor[k] = IF CitedAt(k) = NoRow THEN Cursor[k - 1] ELSE CitedAt(k)
                  /\ CitedAt(k) \in Nat
                  /\ CitedAt(k) # NoRow =>
                         /\ CitedAt(k) \in DOMAIN rows /\ CitedAt(k) > Cursor[k - 1]
                         /\ Matches(rows[CitedAt(k)], plan[k].question, results[k].status)
                  /\ \A i \in DOMAIN rows :
                         i > Cursor[k - 1]
                         /\ Matches(rows[i], plan[k].question, results[k].status) =>
                             CitedAt(k) # NoRow /\ CitedAt(k) <= i
<1>0. Len(plan) \in Nat /\ rows \in Seq(AuditRow)
    BY DoneFacts
<1>1. /\ Cursor[0] = NoRow
      /\ \A k \in 1 .. Len(plan) :
             Cursor[k] = Moved(rows, Cursor[k - 1], plan[k].question, results[k].status)
    BY <1>0, CursorSteps DEF Cursor
<1>2. \A k \in 0 .. Len(plan) : Cursor[k] \in Nat
    BY <1>0, CursorPlaces DEF Cursor
<1>3. ASSUME NEW k \in 1 .. Len(plan)
      PROVE  /\ k - 1 \in 0 .. Len(plan)
             /\ Cursor[k] = IF CitedAt(k) = NoRow THEN Cursor[k - 1] ELSE CitedAt(k)
             /\ CitedAt(k) \in Nat
             /\ CitedAt(k) # NoRow =>
                    /\ CitedAt(k) \in DOMAIN rows /\ CitedAt(k) > Cursor[k - 1]
                    /\ Matches(rows[CitedAt(k)], plan[k].question, results[k].status)
             /\ \A i \in DOMAIN rows :
                    i > Cursor[k - 1]
                    /\ Matches(rows[i], plan[k].question, results[k].status) =>
                        CitedAt(k) # NoRow /\ CitedAt(k) <= i
    <2>1. k - 1 \in 0 .. Len(plan)
        BY <1>0
    <2>2. Cursor[k - 1] \in Nat
        BY <1>2, <2>1
    <2>3. Cursor[k] = IF CitedAt(k) = NoRow THEN Cursor[k - 1] ELSE CitedAt(k)
        BY <1>1 DEF Moved, CitedAt
    <2> QED BY <1>0, <2>1, <2>2, <2>3, CitedFacts DEF CitedAt
<1> QED BY <1>1, <1>2, <1>3 DEF NoRow

LEMMA OwnFacts ==
    ASSUME TypeOK, RowsOfRun, phase = "done", NEW k \in DOMAIN plan, NEW own \in OwnRows(k)
    PROVE  /\ own \in DOMAIN rows /\ own \in Nat /\ own > 0
           /\ rows[own].by[1] = runs /\ rows[own].by[2] = k
           /\ Matches(rows[own], plan[k].question, results[k].status)
<1>1. /\ own \in DOMAIN rows /\ rows[own].by = <<runs, k>>
      /\ rows[own].status = results[k].status
    BY DEF OwnRows
<1>2. own \in Nat /\ own > 0
    BY <1>1, DoneFacts
<1>3. rows[own].by[1] = runs /\ rows[own].by[2] = k
    BY <1>1
<1>4. rows[own].request = plan[k].question /\ rows[own].status # "plan"
    BY <1>1, <1>3 DEF RowsOfRun
<1> QED BY <1>1, <1>2, <1>3, <1>4 DEF Matches

\* The rows of the stages stand in the order of the stages, one for each.
LEMMA OwnOrder ==
    ASSUME TypeOK, RowsOfRun, phase = "done", NEW j \in DOMAIN plan, NEW k \in DOMAIN plan,
           j <= k, NEW a \in OwnRows(j), NEW b \in OwnRows(k)
    PROVE  IF j = k THEN a = b ELSE a < b
<1>1. /\ a \in DOMAIN rows /\ a \in Nat /\ rows[a].by[1] = runs /\ rows[a].by[2] = j
      /\ b \in DOMAIN rows /\ b \in Nat /\ rows[b].by[1] = runs /\ rows[b].by[2] = k
      /\ j \in Nat /\ k \in Nat
    BY OwnFacts, DoneFacts
<1>2. b < a => k < j
    BY <1>1 DEF RowsOfRun
<1>3. a < b => j < k
    BY <1>1 DEF RowsOfRun
<1>4. a = b => j = k
    BY <1>1
<1> QED BY <1>1, <1>2, <1>3, <1>4

\* No row is a skipped stage's.
LEMMA SkippedCites ==
    ASSUME TypeOK, phase = "done", NEW k \in 1 .. Len(plan), results[k].status = "skipped"
    PROVE  CitedAt(k) = NoRow /\ OwnRows(k) = {}
<1>1. \A i \in DOMAIN rows : rows[i].status # "skipped"
    BY DoneFacts DEF AuditRow, Statuses
<1>2. CitedAt(k) # NoRow => CitedAt(k) \in DOMAIN rows /\ rows[CitedAt(k)].status = "skipped"
    BY DoneCursor DEF Matches
<1> QED BY <1>1, <1>2 DEF OwnRows

\* The cursor has not passed the row of a stage it has not come to.
LEMMA NotPast ==
    ASSUME TypeOK, RowsOfRun, phase = "done", NEW k \in 1 .. Len(plan), WitnessedTo(k)
    PROVE  \A j \in 0 .. (k - 1) : \A own \in OwnRows(k) : Cursor[j] < own
<1> DEFINE Behind(j) == \A m \in (j + 1) .. Len(plan) : \A own \in OwnRows(m) : Cursor[j] < own
           T == {j \in 0 .. (k - 1) : ~Behind(j)}
<1>0. Len(plan) \in Nat /\ DOMAIN plan = 1 .. Len(plan)
    BY DoneFacts
<1>1. T = {}
    <2> SUFFICES ASSUME T # {} PROVE FALSE
        OBVIOUS
    <2>1. PICK j \in T : \A i \in T : j <= i
        <3>1. T \in SUBSET Nat
            OBVIOUS
        <3> HIDE DEF T
        <3> QED BY <3>1, LeastNumber
    <2>a. PICK m \in (j + 1) .. Len(plan) : \E own \in OwnRows(m) : ~(Cursor[j] < own)
        BY <2>1
    <2>2. PICK own \in OwnRows(m) : ~(Cursor[j] < own)
        BY <2>a
    <2>3. m \in DOMAIN plan /\ j \in Nat /\ j < m /\ j <= k - 1
        BY <1>0, <2>1, <2>2
    <2>4. own \in Nat /\ own > 0
        BY <2>2, <2>3, OwnFacts
    <2>5. CASE j = 0
        BY <2>2, <2>4, <2>5, DoneCursor
    <2>6. CASE j # 0
        <3>1. /\ j \in 1 .. Len(plan) /\ j - 1 \in 0 .. (k - 1) /\ j \in 1 .. k /\ j \in DOMAIN plan
              /\ m \in ((j - 1) + 1) .. Len(plan) /\ j \in ((j - 1) + 1) .. Len(plan)
            BY <1>0, <2>1, <2>3, <2>6
        <3>2. Behind(j - 1)
            <4>1. j - 1 \notin T
                BY <2>1, <2>3, <3>1
            <4> QED BY <3>1, <4>1
        <3>3. Cursor[j - 1] < own
            BY <2>2, <3>1, <3>2
        <3>4. CASE results[j].status = "skipped"
            BY <2>2, <3>1, <3>3, <3>4, SkippedCites, DoneCursor
        <3>5. CASE results[j].status # "skipped"
            <4>1. PICK mine \in OwnRows(j) : TRUE
                BY <3>1, <3>5 DEF WitnessedTo
            <4>2. Cursor[j - 1] < mine
                BY <3>1, <3>2, <4>1
            <4>3. mine \in DOMAIN rows /\ mine \in Nat
                  /\ Matches(rows[mine], plan[j].question, results[j].status)
                BY <3>1, <4>1, OwnFacts
            <4>4. mine > Cursor[j - 1]
                BY <3>1, <4>2, <4>3, DoneCursor
            <4>5. CitedAt(j) # NoRow /\ CitedAt(j) <= mine /\ CitedAt(j) \in Nat
                  /\ Cursor[j] = CitedAt(j)
                BY <3>1, <4>3, <4>4, DoneCursor
            <4>6. mine < own
                BY <2>2, <2>3, <3>1, <4>1, OwnOrder
            <4> QED BY <2>2, <2>4, <4>3, <4>5, <4>6
        <3> QED BY <3>4, <3>5
    <2> QED BY <2>5, <2>6
<1> SUFFICES ASSUME NEW j \in 0 .. (k - 1) PROVE \A own \in OwnRows(k) : Cursor[j] < own
    OBVIOUS
<1>2. Behind(j)
    BY <1>1
<1>3. k \in (j + 1) .. Len(plan)
    BY <1>0
<1> QED BY <1>2, <1>3

\* So a witnessed stage cites its own row, or one before it.
LEMMA CitesUpToOwn ==
    ASSUME TypeOK, RowsOfRun, phase = "done", NEW k \in 1 .. Len(plan), WitnessedTo(k),
           NEW own \in OwnRows(k)
    PROVE  CitedAt(k) # NoRow /\ CitedAt(k) <= own
<1>1. Len(plan) \in Nat /\ DOMAIN plan = 1 .. Len(plan)
    BY DoneFacts
<1>2. k - 1 \in 0 .. (k - 1) /\ k - 1 \in 0 .. Len(plan)
    BY <1>1
<1>3. Cursor[k - 1] < own
    BY <1>2, NotPast
<1>4. own \in DOMAIN rows /\ own \in Nat
      /\ Matches(rows[own], plan[k].question, results[k].status)
    BY <1>1, OwnFacts
<1>5. Cursor[k - 1] \in Nat
    BY <1>2, DoneCursor
<1>6. own > Cursor[k - 1]
    BY <1>3, <1>4, <1>5
<1> QED BY <1>4, <1>6, DoneCursor

\* What a trace says of stage k.
LEMMA TraceFacts ==
    ASSUME TypeOK, phase = "done", NEW k \in DOMAIN plan
    PROVE  /\ DOMAIN RunTrace.stages = DOMAIN plan
           /\ verified =>
                  /\ RunTrace.stages[k].audit = CitedAt(k)
                  /\ RunTrace.stages[k].label =
                         Precommitted(CommitPosition(rows, Hash), CitedAt(k))
                  /\ RunTrace.plan = (CommitPosition(rows, Hash) # NoRow)
                  /\ RunTrace.verified
           /\ ~verified =>
                  /\ RunTrace.stages[k].audit = NoRow /\ ~RunTrace.stages[k].label
           /\ RunTrace.stages[k].input \in {0, k - 1} /\ (k = 1 => RunTrace.stages[k].input = 0)
<1>0. DOMAIN plan = 1 .. Len(plan) /\ Len(plan) \in Nat
    BY DoneFacts
<1>1. CASE verified
    <2> DEFINE commit == CommitPosition(rows, Hash)
               found == StageRows(rows, plan, results)
    <2>1. RunTrace = [plan |-> commit # NoRow, verified |-> TRUE,
                      stages |-> [j \in DOMAIN plan |->
                          StageRecord(plan, results, j, found[j], Precommitted(commit, found[j]))]]
        BY <1>1 DEF RunTrace, Trace
    <2>2. found[k] = CitedAt(k)
        BY DEF StageRows, CitedAt, Cursor
    <2> HIDE DEF commit, found
    <2>3. /\ DOMAIN RunTrace.stages = DOMAIN plan
          /\ RunTrace.stages[k] =
                 StageRecord(plan, results, k, found[k], Precommitted(commit, found[k]))
          /\ RunTrace.plan = (commit # NoRow) /\ RunTrace.verified
        BY <2>1
    <2>4. /\ RunTrace.stages[k].audit = found[k]
          /\ RunTrace.stages[k].label = Precommitted(commit, found[k])
          /\ RunTrace.stages[k].input = IF k > 1 /\ plan[k].guard # 0 THEN k - 1 ELSE 0
        BY <2>3 DEF StageRecord
    <2> QED BY <1>0, <1>1, <2>2, <2>3, <2>4 DEF commit
<1>2. CASE ~verified
    <2>1. RunTrace = Unwitnessed(plan, results)
        BY <1>2 DEF RunTrace, Trace
    <2>2. /\ DOMAIN RunTrace.stages = DOMAIN plan
          /\ RunTrace.stages[k] =
                 [StageRecord(plan, results, k, NoRow, FALSE) EXCEPT !.input = 0]
        BY <2>1 DEF Unwitnessed
    <2>3. /\ RunTrace.stages[k].audit = NoRow /\ RunTrace.stages[k].label = FALSE
          /\ RunTrace.stages[k].input = 0
        BY <2>2 DEF StageRecord
    <2> QED BY <1>2, <2>2, <2>3
<1> QED BY <1>1, <1>2 DEF TypeOK

LEMMA CommitFound ==
    ASSUME TypeOK, phase = "done", CommitPosition(rows, Hash) # NoRow
    PROVE  /\ CommitPosition(rows, Hash) \in DOMAIN rows
           /\ rows[CommitPosition(rows, Hash)].hash = Hash
<1> DEFINE all == {i \in DOMAIN rows : rows[i].status = "plan" /\ rows[i].hash = Hash}
<1>1. all \in SUBSET Nat
    BY DoneFacts
<1>2. all # {} /\ CommitPosition(rows, Hash) = Min(all)
    BY DEF CommitPosition
<1>3. Min(all) \in all
    <2> HIDE DEF all
    <2>1. \E m \in all : \A i \in all : m <= i
        BY <1>1, <1>2, LeastNumber
    <2> QED BY <2>1 DEF Min
<1> QED BY <1>2, <1>3

LEMMA LabelsAreEarned == TypeOK /\ RowsOfRun => LabelsEarned
<1> SUFFICES ASSUME TypeOK, RowsOfRun, phase = "done", NEW k \in DOMAIN plan,
                    WitnessedTo(k), RunTrace.stages[k].label, NEW own \in OwnRows(k)
             PROVE  \E i \in 1 .. own - 1 : rows[i].hash = Hash
    BY DEF LabelsEarned
<1> DEFINE commit == CommitPosition(rows, Hash)
<1>1. k \in 1 .. Len(plan)
    BY DoneFacts
<1>2. Precommitted(commit, CitedAt(k))
    BY TraceFacts
<1>3. commit # NoRow /\ CitedAt(k) > commit
    BY <1>2 DEF Precommitted
<1>4. commit \in DOMAIN rows /\ rows[commit].hash = Hash
    BY <1>3, CommitFound
<1>5. CitedAt(k) \in Nat /\ CitedAt(k) <= own
    BY <1>1, CitesUpToOwn, DoneCursor
<1>6. own \in Nat /\ commit \in Nat /\ commit > 0
    BY <1>4, OwnFacts, DoneFacts
<1> HIDE DEF commit
<1>7. commit \in 1 .. own - 1
    BY <1>3, <1>5, <1>6
<1> QED BY <1>4, <1>7

LEMMA TracesAreBuilt == TypeOK => TraceBuilt
<1> SUFFICES ASSUME TypeOK, phase = "done" PROVE LineageValid(RunTrace)
    BY DEF TraceBuilt
<1>1. DOMAIN plan = 1 .. Len(plan) /\ Len(plan) \in Nat
    BY DoneFacts
<1>2. 1 \in DOMAIN plan
    <2>1. Len(plan) \in 1 .. 32
        BY PlanFacts
    <2> QED BY <1>1, <2>1
<1>3. DOMAIN RunTrace.stages = DOMAIN plan
    BY <1>2, TraceFacts
<1>4. ASSUME NEW k \in DOMAIN plan PROVE RunTrace.stages[k].input < k
    <2>1. k \in Nat /\ k >= 1
        BY <1>1
    <2> QED BY <2>1, TraceFacts
<1>5. ASSUME NEW k \in DOMAIN plan, RunTrace.stages[k].label
      PROVE  RunTrace.plan /\ RunTrace.verified
    <2>1. verified
        BY <1>5, TraceFacts
    <2> QED BY <1>5, <2>1, TraceFacts DEF Precommitted
<1> QED BY <1>3, <1>4, <1>5 DEF LineageValid

\* Nobody else's row can be taken for one of the stages up to k.
Unmistaken(k) ==
    \A j \in 1 .. k, i \in DOMAIN rows :
        Matches(rows[i], plan[j].question, results[j].status) => rows[i].by[1] = runs

\* A stage cites its own row if the cursor has passed the rows before it.
LEMMA CitesOwnNext ==
    ASSUME TypeOK, RowsOfRun, phase = "done", NEW k \in 1 .. Len(plan),
           WitnessedTo(k), Unmistaken(k), k \in 1 .. k,
           \A m \in 1 .. (k - 1) : \A own \in OwnRows(m) : own <= Cursor[k - 1],
           NEW own \in OwnRows(k)
    PROVE  CitedAt(k) = own
<1> DEFINE c == CitedAt(k)
<1>0. Len(plan) \in Nat /\ DOMAIN plan = 1 .. Len(plan) /\ DOMAIN results = 1 .. Len(plan)
    BY DoneFacts
<1>1. c # NoRow /\ c <= own
    BY CitesUpToOwn
<1>2. /\ c \in DOMAIN rows /\ c > Cursor[k - 1] /\ c \in Nat /\ Cursor[k - 1] \in Nat
      /\ Matches(rows[c], plan[k].question, results[k].status)
    BY <1>1, DoneCursor
<1>3. own \in Nat
    BY <1>0, OwnFacts
<1>4. rows[c].by[1] = runs
    BY <1>2 DEF Unmistaken
<1> DEFINE m == rows[c].by[2]
<1>5. m \in DOMAIN results /\ rows[c].status \in {"error", results[m].status}
    BY <1>2, <1>4 DEF RowsOfRun
<1>6. c \in OwnRows(m)
    <2>1. results[k].status # "error"
        BY <1>0, DoneFacts DEF StageResult, Statuses
    <2>2. rows[c].status = results[m].status
        BY <1>2, <1>5, <2>1 DEF Matches
    <2>3. rows[c].by = <<runs, m>>
        <3>1. rows[c] \in AuditRow
            BY <1>2, DoneFacts
        <3>2. rows[c].by \in (0 .. MaxRuns) \X (0 .. 32)
            BY <3>1 DEF AuditRow
        <3> QED BY <1>4, <3>2
    <2> QED BY <1>2, <2>2, <2>3 DEF OwnRows
<1>7. m \in DOMAIN plan /\ m \in Nat
    BY <1>0, <1>5
<1> HIDE DEF c, m
<1>8. CASE m < k
    <2>1. m \in 1 .. (k - 1)
        BY <1>0, <1>7, <1>8
    <2>2. c <= Cursor[k - 1]
        BY <1>6, <2>1
    <2> QED BY <1>2, <2>2
<1>9. CASE m = k
    BY <1>0, <1>6, <1>9, OwnOrder DEF c
<1>10. CASE k < m
    <2>1. own < c
        BY <1>0, <1>6, <1>7, <1>10, OwnOrder
    <2> QED BY <1>1, <1>2, <1>3, <2>1
<1> QED BY <1>7, <1>8, <1>9, <1>10

LEMMA CitesItsOwn ==
    ASSUME TypeOK, RowsOfRun, phase = "done", NEW k \in 1 .. Len(plan),
           WitnessedTo(k), Unmistaken(k), NEW own \in OwnRows(k)
    PROVE  CitedAt(k) = own
<1> DEFINE Passed(j) == \A m \in 1 .. j : \A mine \in OwnRows(m) : mine <= Cursor[j]
           T == {j \in 0 .. (k - 1) : ~Passed(j)}
<1>0. Len(plan) \in Nat /\ DOMAIN plan = 1 .. Len(plan)
    BY DoneFacts
<1>1. T = {}
    <2> SUFFICES ASSUME T # {} PROVE FALSE
        OBVIOUS
    <2>1. PICK j \in T : \A i \in T : j <= i
        <3>1. T \in SUBSET Nat
            OBVIOUS
        <3> HIDE DEF T
        <3> QED BY <3>1, LeastNumber
    <2>2. j # 0
        BY <2>1
    <2>3. /\ j \in 1 .. Len(plan) /\ j - 1 \in 0 .. (k - 1) /\ j \in 1 .. k
          /\ \A m \in 1 .. j : m \in 1 .. (j - 1) \/ m = j
        BY <1>0, <2>1, <2>2
    <2>4. Passed(j - 1)
        <3>1. j - 1 \notin T
            BY <2>1, <2>3
        <3> QED BY <2>3, <3>1
    <2>5. WitnessedTo(j) /\ Unmistaken(j) /\ j \in 1 .. j
        <3>1. 1 .. j \subseteq 1 .. k /\ j \in 1 .. j
            BY <2>3
        <3> QED BY <3>1 DEF WitnessedTo, Unmistaken
    <2>6. \A mine \in OwnRows(j) : CitedAt(j) = mine
        BY <2>3, <2>4, <2>5, CitesOwnNext
    <2>7. /\ Cursor[j] \in Nat /\ Cursor[j - 1] \in Nat /\ Cursor[j - 1] <= Cursor[j]
          /\ \A mine \in OwnRows(j) : mine = Cursor[j]
        <3>1. /\ Cursor[j - 1] \in Nat /\ CitedAt(j) \in Nat
              /\ Cursor[j] = IF CitedAt(j) = NoRow THEN Cursor[j - 1] ELSE CitedAt(j)
              /\ CitedAt(j) # NoRow => CitedAt(j) > Cursor[j - 1]
            BY <2>3, DoneCursor
        <3>2. \A mine \in OwnRows(j) : mine # NoRow
            BY <1>0, <2>3, OwnFacts DEF NoRow
        <3> QED BY <2>6, <3>1, <3>2
    <2>8. Passed(j)
        <3> SUFFICES ASSUME NEW m \in 1 .. j, NEW mine \in OwnRows(m)
                     PROVE  mine <= Cursor[j]
            OBVIOUS
        <3>1. CASE m = j
            BY <2>7, <3>1
        <3>2. CASE m \in 1 .. (j - 1)
            <4>1. mine <= Cursor[j - 1]
                BY <2>4, <3>2
            <4>2. mine \in Nat
                BY <1>0, <2>3, <3>2, OwnFacts
            <4> QED BY <2>7, <4>1, <4>2
        <3> QED BY <2>3, <3>1, <3>2
    <2> QED BY <2>1, <2>8
<1>2. k - 1 \in 0 .. (k - 1) /\ k \in 1 .. k
    BY <1>0
<1>3. Passed(k - 1)
    BY <1>1, <1>2
<1> QED BY <1>2, <1>3, CitesOwnNext

LEMMA OwnIsCited == TypeOK /\ RowsOfRun => CitesOwn
<1> SUFFICES ASSUME TypeOK, RowsOfRun, phase = "done", verified, NEW k \in DOMAIN plan,
                    WitnessedTo(k), Unmistaken(k), NEW own \in OwnRows(k)
             PROVE  RunTrace.stages[k].audit = own
    BY DEF CitesOwn, Unmistaken, Matches
<1>1. k \in 1 .. Len(plan)
    BY DoneFacts
<1> QED BY <1>1, CitesItsOwn, TraceFacts

LEMMA CitedInOrder == TypeOK => OneRowOneStage
<1> SUFFICES ASSUME TypeOK, phase = "done", NEW j \in DOMAIN plan, NEW k \in DOMAIN plan,
                    j < k, RunTrace.stages[k].audit # NoRow
             PROVE  RunTrace.stages[j].audit < RunTrace.stages[k].audit
    BY DEF OneRowOneStage
<1>0. verified
    BY TraceFacts
<1>1. RunTrace.stages[j].audit = CitedAt(j) /\ RunTrace.stages[k].audit = CitedAt(k)
    BY <1>0, TraceFacts
<1>2. Len(plan) \in Nat /\ DOMAIN plan = 1 .. Len(plan) /\ rows \in Seq(AuditRow)
    BY DoneFacts
<1>3. j \in 1 .. Len(plan) /\ k \in 1 .. Len(plan) /\ j \in 0 .. Len(plan)
      /\ k - 1 \in j .. Len(plan)
    BY <1>2
<1>4. Cursor[j] <= Cursor[k - 1]
    BY <1>2, <1>3, CursorRises DEF Cursor
<1>5. /\ CitedAt(j) \in Nat /\ Cursor[j] \in Nat
      /\ Cursor[j] = IF CitedAt(j) = NoRow THEN Cursor[j - 1] ELSE CitedAt(j)
    BY <1>3, DoneCursor
<1>6. CitedAt(j) <= Cursor[j]
    BY <1>5 DEF NoRow
<1>7. CitedAt(k) \in Nat /\ CitedAt(k) > Cursor[k - 1] /\ Cursor[k - 1] \in Nat
    <2>1. k - 1 \in 0 .. Len(plan)
        BY <1>2, <1>3
    <2> QED BY <1>1, <1>3, <2>1, DoneCursor
<1>8. CitedAt(j) < CitedAt(k)
    BY <1>4, <1>5, <1>6, <1>7
<1> QED BY <1>1, <1>8

-----------------------------------------------------------------------------
(***************************************************************************)
(* The theorems.                                                           *)
(***************************************************************************)

\* The ledger, and the rows of the run in hand, at every step of PlanExecutor.run,
\* of the requests between its steps and of a restart.
THEOREM PlanCorrect == Spec => [](TypeOK /\ LedgerBalances /\ Accounted /\ RowsOfRun)
<1> DEFINE Inv == TypeOK /\ LedgerBalances /\ Accounted /\ RowsOfRun
<1>1. Init => Inv
    BY TypeInit, LedgerInit, RowsOfRunInit
<1>2. Inv /\ [Next]_vars => Inv'
    BY TypeNext, LedgerNext, RowsOfRunNext
<1> QED BY <1>1, <1>2, PTL DEF Spec

\* The selection ledger is what the rows and no row hold, never over the budget, and
\* bounds what callers of plans learn (charge_selection, restore_selection).
THEOREM LedgerIsSound == Spec => []LedgerSound
<1>1. TypeOK /\ LedgerBalances /\ Accounted /\ RowsOfRun => LedgerSound
    <2> SUFFICES ASSUME TypeOK, LedgerBalances, Accounted PROVE DisclosedBound
        BY DEF LedgerSound
    <2>1. /\ SelectionBudget \in Nat /\ spent \in Nat /\ disclosed \in Nat /\ refunded \in Nat
          /\ charged \in Nat /\ Pending \in Nat
        BY PlanAssumption, SumIsNat, BitsTyped DEF TypeOK, Pending
    <2> QED BY <2>1 DEF LedgerBalances, Accounted, DisclosedBound
<1> QED BY <1>1, PlanCorrect, PTL

\* A stage labelled precommitted wrote its row after the plan was committed, and no
\* run's trace is refused (trace_from_plan_run, validate_lineage).
THEOREM PrecommittedIsSound == Spec => []PrecommittedSound
<1>1. TypeOK /\ LedgerBalances /\ Accounted /\ RowsOfRun => PrecommittedSound
    BY LabelsAreEarned, TracesAreBuilt DEF PrecommittedSound
<1> QED BY <1>1, PlanCorrect, PTL

\* A stage cites its own row unless another request's can be taken for it, and no row
\* is cited twice (_stage_rows).
THEOREM EvidenceIsSound == Spec => []EvidenceSound
<1>1. TypeOK /\ LedgerBalances /\ Accounted /\ RowsOfRun => EvidenceSound
    BY OwnIsCited, CitedInOrder DEF EvidenceSound
<1> QED BY <1>1, PlanCorrect, PTL

=============================================================================
