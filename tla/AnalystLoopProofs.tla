------------------------- MODULE AnalystLoopProofs -------------------------
(***************************************************************************)
(* For any limits, budgets and conclusions: what a dossier asserts was     *)
(* found by a step that released, whatever the model says and however it   *)
(* fails; every step, charge and request to the model is accounted for.    *)
(***************************************************************************)
EXTENDS AnalystLoop, RunningTotalsProofs, SequenceTheorems, TLAPS

StepRecord == [status : {"released", "denied"}, cost : 0 .. MaxCost]
Claim == [verdict : Verdicts, evidence : SUBSET Int]

(***************************************************************************)
(* What the loop never leaves: types, a dossier that is grounded once it   *)
(* is there, and a conclusion without steps only when the retries are used *)
(* up.                                                                     *)
(***************************************************************************)
LoopInv ==
    /\ steps \in Seq(StepRecord)
    /\ unusable \in 0 .. Retries
    /\ claims \in SUBSET Claim
    /\ verdict \in Verdicts
    /\ DossierGrounded
    /\ NoVerdictUnasked

\* A claim left standing by _ground_claims has a step that released.
LEMMA GroundedClaims ==
    ASSUME NEW cs \in SUBSET Claim
    PROVE  /\ GroundClaims(cs) \in SUBSET Claim
           /\ \A g \in GroundClaims(cs) : g.verdict \in Substantive => Grounded(g)
<1>1. SUFFICES ASSUME NEW c \in cs,
                      NEW g, g = IF c.verdict = "not_answerable" \/ Grounded(c) THEN c
                                 ELSE [c EXCEPT !.verdict = "not_answerable"]
               PROVE  g \in Claim /\ (g.verdict \in Substantive => Grounded(g))
    BY DEF GroundClaims
<1>2. c \in Claim
    OBVIOUS
<1>3. CASE c.verdict = "not_answerable" \/ Grounded(c)
    BY <1>1, <1>2, <1>3 DEF Substantive
<1>4. CASE ~(c.verdict = "not_answerable" \/ Grounded(c))
    BY <1>1, <1>2, <1>4 DEF Substantive, Claim, Verdicts
<1> QED BY <1>3, <1>4

\* A dossier that says nothing was answered is grounded.
LEMMA NothingAsserted ==
    /\ NotAnswered \in Claim
    /\ NotAnswered.verdict \notin Substantive /\ "not_answerable" \notin Substantive
    /\ "not_answerable" \in Verdicts
    BY DEF NotAnswered, Claim, Verdicts, Substantive

\* The loop ends with claims that stand.
LEMMA EndGrounded ==
    ASSUME LoopInv, phase' = "done",
           claims' \in SUBSET Claim, claims' # {}, verdict' \in Verdicts,
           \A g \in claims' : g.verdict \in Substantive => Grounded(g),
           verdict' \in Substantive => \E g \in claims' : g.verdict = verdict',
           UNCHANGED <<steps, unusable>>,
           stopped' = "concluded" /\ steps = <<>> =>
               claims' = {NotAnswered} /\ unusable = Retries
    PROVE  LoopInv'
<1>1. DossierGrounded'
    BY DEF DossierGrounded, Grounded, StepReleased
<1>2. NoVerdictUnasked'
    BY DEF NoVerdictUnasked
<1> QED BY <1>1, <1>2 DEF LoopInv

\* It ends with the only claim that nothing was answered.
LEMMA GivenUp ==
    ASSUME LoopInv, phase' = "done", claims' = {NotAnswered}, verdict' = "not_answerable",
           UNCHANGED <<steps, unusable>>,
           stopped' = "concluded" => unusable = Retries
    PROVE  LoopInv'
    BY EndGrounded, NothingAsserted

\* A step that leaves the dossier alone and does not end the loop.
LEMMA StillOpen ==
    ASSUME LoopInv, phase' # "done", phase' = "answered" => phase = "done",
           steps' \in Seq(StepRecord), phase' = "answered" => steps' = steps,
           unusable' \in 0 .. Retries, UNCHANGED <<claims, verdict>>
    PROVE  LoopInv'
    BY DEF LoopInv, DossierGrounded, NoVerdictUnasked, StepReleased

\* The invariant is inductive.
LEMMA LoopInductive == LoopInv /\ [Next]_vars => LoopInv'
<1> SUFFICES ASSUME LoopInv, [Next]_vars PROVE LoopInv'
    OBVIOUS
<1> USE DEF session, turn, given, dossier
<1>1. unusable \in 0 .. Retries /\ Retries \in Nat /\ steps \in Seq(StepRecord)
    BY LoopAssumption DEF LoopInv
<1>2. CASE OutOfSteps \/ OutOfBudget
    <2>1. /\ phase' = "done" /\ claims' = {NotAnswered} /\ verdict' = "not_answerable"
          /\ stopped' # "concluded" /\ UNCHANGED <<steps, unusable>>
        BY <1>2 DEF OutOfSteps, OutOfBudget, Stop, Finish
    <2> QED BY <2>1, GivenUp
<1>3. CASE UseExample \/ Ask
    <2>1. phase' \in {"announced", "call"} /\ unusable' \in 0 .. Retries
        BY <1>1, <1>3 DEF UseExample, Ask, Asking
    <2>2. UNCHANGED <<steps, claims, verdict>>
        BY <1>3 DEF UseExample, Ask
    <2> QED BY <1>1, <2>1, <2>2, StillOpen
<1>4. ASSUME NEW f \in Failures, CallFails(f) PROVE LoopInv'
    <2>1. CASE f = "retryable" /\ attempt < HttpRetries
        <3>1. phase' = "call" /\ UNCHANGED <<steps, claims, verdict, unusable>>
            BY <1>4, <2>1 DEF CallFails
        <3> QED BY <1>1, <3>1, StillOpen
    <2>2. CASE ~(f = "retryable" /\ attempt < HttpRetries)
        BY <1>4, <2>2, GivenUp DEF CallFails
    <2> QED BY <2>1, <2>2
<1>5. CASE CallRaises \/ Proposes
    <2>1. phase' \in {"raised", "announced"} /\ UNCHANGED <<steps, claims, verdict, unusable>>
        BY <1>5 DEF CallRaises, Proposes
    <2> QED BY <1>1, <2>1, StillOpen
<1>6. CASE Unusable
    <2>1. CASE unusable < Retries
        <3>1. phase' = "call" /\ unusable' = unusable + 1 /\ UNCHANGED <<steps, claims, verdict>>
            BY <1>6, <2>1 DEF Unusable, Asking
        <3> QED BY <1>1, <2>1, <3>1, StillOpen
    <2>2. CASE ~(unusable < Retries)
        <3>1. unusable = Retries
            BY <1>1, <2>2
        <3> QED BY <1>6, <2>2, <3>1, GivenUp DEF Unusable
    <2> QED BY <2>1, <2>2
<1>7. ASSUME NEW c \in Conclusions, Concludes(c) PROVE LoopInv'
    <2>1. CASE steps # <<>>
        <3> DEFINE gs == GroundClaims(c.claims)
        <3>1. c \in [verdict : STRING, claims : SUBSET Claim]
            BY ConclusionsAssumption DEF Claim
        <3>2. PICK v \in Said(c) : Finish("concluded", gs, Carried(v, gs))
            <4>1. PICK v \in Said(c) : Conclude([c EXCEPT !.verdict = v])
                BY <1>7, <2>1 DEF Concludes
            <4> QED BY <3>1, <4>1 DEF Conclude
        <3>3. /\ gs \in SUBSET Claim
              /\ \A g \in gs : g.verdict \in Substantive => Grounded(g)
            BY <3>1, GroundedClaims
        <3>4. /\ Carried(v, gs) \in Verdicts
              /\ Carried(v, gs) \in Substantive => \E g \in gs : g.verdict = Carried(v, gs)
            BY NothingAsserted DEF Carried
        <3> HIDE DEF gs
        <3>5. phase' = "done" /\ UNCHANGED <<steps, unusable>>
            BY <3>2 DEF Finish
        <3>6. CASE gs = {}
            <4>1. claims' = {NotAnswered} /\ verdict' = "not_answerable"
                BY <3>2, <3>6 DEF Finish
            <4> QED BY <2>1, <3>5, <4>1, EndGrounded, NothingAsserted
        <3>7. CASE gs # {}
            <4>1. claims' = gs /\ verdict' = Carried(v, gs)
                BY <3>2, <3>7 DEF Finish
            <4> QED BY <2>1, <3>3, <3>4, <3>5, <3>7, <4>1, EndGrounded
        <3> QED BY <3>6, <3>7
    <2>2. CASE steps = <<>>
        <3>1. phase' = "call" /\ UNCHANGED <<steps, claims, verdict, unusable>>
            BY <1>7, <2>2 DEF Concludes, Asking
        <3> QED BY <1>1, <3>1, StillOpen
    <2> QED BY <2>1, <2>2
<1>8. ASSUME NEW s \in {"released", "denied"}, NEW n \in 0 .. MaxCost, Settle(s, n)
      PROVE  LoopInv'
    <2>1. phase' = "settled" /\ UNCHANGED <<claims, verdict, unusable>>
        BY <1>8 DEF Settle
    <2>2. steps' \in Seq(StepRecord)
        BY <1>1, <1>8, AppendProperties DEF Settle, StepRecord
    <2> QED BY <1>1, <2>1, <2>2, StillOpen
<1>9. CASE NextTurn \/ Leave \/ Narrate
    <2>1. /\ phase' \in {"turn", "left", "answered"}
          /\ phase' = "answered" => phase = "done"
          /\ UNCHANGED <<steps, claims, verdict, unusable>>
        BY <1>9 DEF NextTurn, Leave, Narrate
    <2> QED BY <1>1, <2>1, StillOpen
<1>10. CASE UNCHANGED vars
    BY <1>10 DEF vars, LoopInv, DossierGrounded, NoVerdictUnasked, StepReleased
<1> QED BY <1>2, <1>3, <1>4, <1>5, <1>6, <1>7, <1>8, <1>9, <1>10 DEF Next, Loop

\* What a dossier asserts was found by a step that released, and something was
\* looked for before it concluded, whatever the model replies and however it
\* fails (inside_analyst.py 276-294, 346-396, 564-570).
THEOREM DossierStands == Spec => []DossierSound
<1>1. Init => LoopInv
    <2> SUFFICES ASSUME Init PROVE LoopInv
        OBVIOUS
    <2>1. <<>> \in Seq(StepRecord) /\ Retries \in Nat
        BY LoopAssumption
    <2>2. steps = <<>> /\ unusable = 0
        BY DEF Init
    <2>3. steps \in Seq(StepRecord) /\ unusable \in 0 .. Retries
        BY <2>1, <2>2
    <2> QED BY <2>3 DEF Init, LoopInv, DossierGrounded, NoVerdictUnasked, Verdicts
<1>2. LoopInv => DossierSound
    BY DEF LoopInv, DossierSound
<1> QED BY <1>1, <1>2, LoopInductive, PTL DEF Spec

(***************************************************************************)
(* Requests to the model: a reply costs at most Tries of them from the     *)
(* analyst and as many from the planner, and no reply is asked for more    *)
(* than Retries + 1 times.                                                 *)
(***************************************************************************)
Tries == HttpRetries + 1
Replies(n) == n * (2 * Tries)

CallsInv ==
    /\ calls \in Nat /\ unusable \in 0 .. Retries /\ attempt \in 0 .. HttpRetries
    /\ IF phase = "call"
       THEN calls <= Replies(unusable) + (IF caller = "planner" THEN Tries ELSE 0) + attempt
       ELSE calls <= MaxCalls

\* One reply more costs what one reply costs, and the last leaves the bound.
LEMMA RepliesGrow ==
    /\ Tries \in Nat /\ Tries = HttpRetries + 1 /\ HttpRetries \in Nat /\ MaxCalls \in Nat
    /\ Replies(0) = 0
    /\ \A n \in 0 .. Retries :
          /\ Replies(n) \in Nat
          /\ Replies(n + 1) = Replies(n) + 2 * Tries
          /\ Replies(n + 1) <= MaxCalls
<1>1. Retries \in Nat /\ HttpRetries \in Nat
    BY LoopAssumption
<1>2. Tries \in Nat /\ MaxCalls = (Retries + 1) * (2 * Tries) /\ MaxCalls \in Nat
    BY <1>1 DEF Tries, MaxCalls
<1>3. ASSUME NEW n \in 0 .. Retries
      PROVE  /\ Replies(n) \in Nat
             /\ Replies(n + 1) = Replies(n) + 2 * Tries
             /\ Replies(n + 1) <= MaxCalls
    <2> DEFINE k == 2 * Tries
    <2>1. k \in Nat
        BY <1>2
    <2> HIDE DEF k
    <2>2. n * k \in Nat /\ (n + 1) * k = n * k + k /\ (n + 1) * k <= (Retries + 1) * k
        BY <1>1, <2>1
    <2> QED BY <1>2, <2>2 DEF Replies, k
<1> QED BY <1>1, <1>2, <1>3 DEF Tries, Replies

\* A request more, before the bound is reached.
LEMMA OneCallMore ==
    ASSUME CallsInv, phase = "call", Called
    PROVE  /\ calls' \in Nat
           /\ calls' <= Replies(unusable) + (IF caller = "planner" THEN Tries ELSE 0)
                                          + (attempt + 1)
           /\ calls' <= Replies(unusable + 1) /\ calls' <= MaxCalls
    BY RepliesGrow DEF CallsInv, Called

LEMMA CallsInductive == CallsInv /\ [Next]_vars => CallsInv'
<1> SUFFICES ASSUME CallsInv, [Next]_vars PROVE CallsInv'
    OBVIOUS
<1> USE DEF session, turn, given, dossier
<1>1. CASE OutOfSteps \/ OutOfBudget
    BY <1>1 DEF OutOfSteps, OutOfBudget, Stop, Finish, CallsInv
<1>2. CASE UseExample
    BY <1>2 DEF UseExample, MayAct, CallsInv
<1>3. CASE Ask
    BY <1>3, LoopAssumption, RepliesGrow DEF Ask, Asking, CallsInv
<1>4. ASSUME NEW f \in Failures, CallFails(f) PROVE CallsInv'
    <2>1. CASE f = "retryable" /\ attempt < HttpRetries
        BY <1>4, <2>1, OneCallMore, RepliesGrow DEF CallFails, CallsInv
    <2>2. CASE ~(f = "retryable" /\ attempt < HttpRetries)
        BY <1>4, <2>2, OneCallMore, RepliesGrow DEF CallFails, CallsInv
    <2> QED BY <2>1, <2>2
<1>5. CASE CallRaises \/ Proposes
    BY <1>5, OneCallMore DEF CallRaises, Proposes, Answered, CallsInv
<1>6. CASE Unusable
    <2>1. CASE unusable < Retries
        <3>1. /\ phase' = "call" /\ caller' = "analyst" /\ attempt' = 0
              /\ unusable' = unusable + 1
            BY <1>6, <2>1 DEF Unusable, Asking
        <3>2. calls' \in Nat /\ calls' <= Replies(unusable + 1)
            BY <1>6, OneCallMore DEF Unusable, Answered
        <3>3. unusable + 1 \in 0 .. Retries /\ Replies(unusable + 1) \in Nat
            BY <2>1, LoopAssumption, RepliesGrow DEF CallsInv
        <3> QED BY <3>1, <3>2, <3>3, RepliesGrow DEF CallsInv
    <2>2. CASE ~(unusable < Retries)
        BY <1>6, <2>2, OneCallMore DEF Unusable, Answered, CallsInv
    <2> QED BY <2>1, <2>2
<1>7. ASSUME NEW c \in Conclusions, Concludes(c) PROVE CallsInv'
    <2>1. CASE steps # <<>>
        <3>1. phase = "call" /\ phase' = "done" /\ UNCHANGED turn
            BY <1>7, <2>1 DEF Concludes, Conclude, Finish
        <3>2. calls <= MaxCalls
            BY <3>1, RepliesGrow DEF CallsInv
        <3> QED BY <3>1, <3>2 DEF CallsInv
    <2>2. CASE steps = <<>>
        <3>1. /\ phase = "call" /\ caller = "analyst" /\ Called
              /\ phase' = "call" /\ caller' = "planner" /\ attempt' = 0 /\ unusable' = unusable
            BY <1>7, <2>2 DEF Concludes, Asking
        <3>2. calls' \in Nat /\ calls' <= Replies(unusable) + (attempt + 1)
            BY <3>1, OneCallMore, RepliesGrow DEF CallsInv
        <3>3. attempt + 1 <= Tries /\ unusable \in 0 .. Retries
            BY RepliesGrow DEF CallsInv
        <3> QED BY <3>1, <3>2, <3>3, RepliesGrow DEF CallsInv
    <2> QED BY <2>1, <2>2
<1>8. ASSUME NEW s \in {"released", "denied"}, NEW n \in 0 .. MaxCost, Settle(s, n)
      PROVE  CallsInv'
    BY <1>8 DEF Settle, CallsInv
<1>9. CASE NextTurn \/ Leave \/ Narrate
    BY <1>9 DEF NextTurn, Leave, Narrate, CallsInv
<1>10. CASE UNCHANGED vars
    BY <1>10 DEF vars, CallsInv
<1> QED BY <1>1, <1>2, <1>3, <1>4, <1>5, <1>6, <1>7, <1>8, <1>9, <1>10 DEF Next, Loop

\* A turn makes no more requests to the model than replies may be asked for
\* again, from analyst and planner, and each request be retried
\* (inside_analyst.py 557-577, llm.py 214-230).
THEOREM CallsStayBounded == Spec => []CallsBounded
<1>1. Init => CallsInv
    <2>1. Retries \in Nat /\ HttpRetries \in Nat
        BY LoopAssumption
    <2>2. ASSUME Init
          PROVE  phase = "turn" /\ calls = 0 /\ unusable = 0 /\ attempt = 0
        BY <2>2 DEF Init
    <2> QED BY <2>1, <2>2, RepliesGrow DEF CallsInv
<1>2. CallsInv => CallsBounded
    <2> SUFFICES ASSUME CallsInv PROVE CallsBounded
        OBVIOUS
    <2>1. calls \in Nat /\ unusable \in 0 .. Retries /\ attempt \in 0 .. HttpRetries
        BY DEF CallsInv
    <2> QED BY <2>1, RepliesGrow DEF CallsInv, CallsBounded
<1> QED BY <1>1, <1>2, CallsInductive, PTL DEF Spec

(***************************************************************************)
(* The account of the steps.  A step is settled only in a turn that found  *)
(* room for one, which is why the dossier never has too many.              *)
(***************************************************************************)
Costs(s) == [k \in DOMAIN s |-> s[k].cost]

WorkInv ==
    /\ phase \in {"turn", "call", "announced", "settled", "done", "answered", "raised",
                  "left"}
    /\ example \in BOOLEAN /\ caller \in {"analyst", "planner"}
    /\ {start, spent} \subseteq 0 .. Budget
    /\ settled \in Nat /\ settled = Len(steps) /\ settled <= MaxSteps
    /\ phase \in {"call", "announced"} => settled < MaxSteps
    /\ spent = start + RunningTotal(Costs(steps), 0, Len(steps))

\* A step more adds what it cost.
LEMMA CostOfOneMore ==
    ASSUME NEW s \in Seq(StepRecord), NEW x \in StepRecord
    PROVE  RunningTotal(Costs(Append(s, x)), 0, Len(Append(s, x)))
               = RunningTotal(Costs(s), 0, Len(s)) + x.cost
<1> DEFINE longer == Append(s, x)
           n == Len(s)
           c == Costs(longer)
           d == Costs(s)
<1>1. /\ Len(longer) = n + 1 /\ \A i \in 1 .. n : longer[i] = s[i]
      /\ longer[n + 1] = x /\ longer \in Seq(StepRecord)
    BY AppendProperties
<1>2. n \in Nat /\ DOMAIN s = 1 .. n /\ DOMAIN longer = 1 .. n + 1
    BY <1>1, LenProperties
<1> HIDE DEF longer, n
<1>3. (\A i \in (0 + 1) .. n : c[i] = d[i]) /\ c[n + 1] = x.cost
    BY <1>1, <1>2 DEF Costs
<1> HIDE DEF c, d
<1>4. RunningTotal(c, 0, n + 1) = RunningTotal(c, 0, n) + x.cost
    BY <1>2, <1>3, TotalOfOneMore
<1>5. RunningTotal(c, 0, n) = RunningTotal(d, 0, n)
    BY <1>2, <1>3, TotalOfSame
<1> QED BY <1>1, <1>4, <1>5 DEF c, d, longer, n

\* Costs are naturals, and so is their sum.
LEMMA CostsSum ==
    ASSUME NEW s \in Seq(StepRecord)
    PROVE  RunningTotal(Costs(s), 0, Len(s)) \in Nat
<1>1. PICK n \in Nat : n = Len(s) /\ DOMAIN s = 1 .. n
    BY LenProperties
<1>2. \A i \in (0 + 1) .. n : i \in DOMAIN s
    BY <1>1
<1>3. ASSUME NEW i \in DOMAIN s PROVE Costs(s)[i] \in Nat
    <2>1. s[i] \in StepRecord
        BY ElementOfSeq, <1>1
    <2>2. s[i].cost \in 0 .. MaxCost
        BY <2>1 DEF StepRecord
    <2>3. s[i].cost \in Nat
        BY <2>2, LoopAssumption
    <2>4. Costs(s)[i] = s[i].cost
        BY DEF Costs
    <2> QED BY <2>3, <2>4
<1>4. \A i \in (0 + 1) .. n : Costs(s)[i] \in Nat
    BY <1>2, <1>3
<1> DEFINE c == Costs(s)
<1>5. \A i \in (0 + 1) .. n : c[i] \in Nat
    BY <1>4
<1>6. 0 \in Nat /\ 0 <= n
    BY SMT
<1> HIDE DEF c
<1>7. RunningTotal(c, 0, n) \in Nat
    BY <1>5, <1>6, TotalIsNat
<1> QED BY <1>1, <1>7 DEF c

\* A step that settles nothing.
LEMMA WorkKept ==
    ASSUME WorkInv, UNCHANGED <<steps, spent, settled, example, start>>,
           caller' \in {"analyst", "planner"},
           \/ phase' \in {"turn", "settled", "done", "answered", "raised", "left"}
           \/ phase' \in {"call", "announced"} /\ settled < MaxSteps
    PROVE  WorkInv'
    BY DEF WorkInv

\* A turn that may act has room for a step.
LEMMA RoomToAct == WorkInv /\ MayAct => settled < MaxSteps
    BY DEF WorkInv, MayAct

LEMMA WorkInductive == LoopInv /\ WorkInv /\ [Next]_vars => WorkInv'
<1> SUFFICES ASSUME LoopInv, WorkInv, [Next]_vars PROVE WorkInv'
    OBVIOUS
<1> USE DEF turn, dossier, session, given
<1>1. /\ caller \in {"analyst", "planner"}
      /\ phase \in {"call", "announced"} => settled < MaxSteps
      /\ phase \in {"turn", "call", "announced", "settled", "done", "answered", "raised", "left"}
    BY DEF WorkInv
<1>2. CASE OutOfSteps \/ OutOfBudget
    <2>1. /\ phase' = "done" /\ caller' = caller
          /\ UNCHANGED <<steps, spent, settled, example, start>>
        BY <1>2 DEF OutOfSteps, OutOfBudget, Stop, Finish
    <2>2. caller' \in {"analyst", "planner"}
        BY <1>1, <2>1
    <2>3. phase' \in {"turn", "settled", "done", "answered", "raised", "left"}
        BY <2>1
    <2> QED BY <2>1, <2>2, <2>3, WorkKept
<1>3. CASE UseExample \/ Ask
    <2>1. /\ MayAct /\ phase' \in {"call", "announced"}
          /\ UNCHANGED <<steps, spent, settled, example, start>>
        BY <1>3 DEF UseExample, Ask, Asking
    <2>2. caller' \in {"analyst", "planner"}
        BY <1>1, <1>3 DEF UseExample, Ask, Asking
    <2> QED BY <2>1, <2>2, RoomToAct, WorkKept
<1>4. ASSUME NEW f \in Failures, CallFails(f) PROVE WorkInv'
    BY <1>1, <1>4, WorkKept DEF CallFails
<1>5. CASE CallRaises \/ Proposes
    BY <1>1, <1>5, WorkKept DEF CallRaises, Proposes, Answered
<1>6. CASE Unusable
    BY <1>1, <1>6, WorkKept DEF Unusable, Answered, Asking
<1>7. ASSUME NEW c \in Conclusions, Concludes(c) PROVE WorkInv'
    <2>1. CASE steps # <<>>
        BY <1>1, <1>7, <2>1, WorkKept DEF Concludes, Conclude, Finish
    <2>2. CASE steps = <<>>
        BY <1>1, <1>7, <2>2, WorkKept DEF Concludes, Asking
    <2> QED BY <2>1, <2>2
<1>8. ASSUME NEW s \in {"released", "denied"}, NEW n \in 0 .. MaxCost, Settle(s, n)
      PROVE  WorkInv'
    <2> DEFINE x == [status |-> s, cost |-> n]
    <2>1. x \in StepRecord /\ x.cost = n /\ steps \in Seq(StepRecord)
        BY DEF StepRecord, LoopInv
    <2>2. /\ phase = "announced" /\ phase' = "settled" /\ steps' = Append(steps, x)
          /\ spent' = spent + n /\ spent + n <= Budget /\ settled' = settled + 1
          /\ UNCHANGED <<caller, example, start>>
        BY <1>8 DEF Settle, given
    <2>3. Len(steps') = Len(steps) + 1
        BY <2>1, <2>2, AppendProperties
    <2>4. RunningTotal(Costs(steps'), 0, Len(steps'))
              = RunningTotal(Costs(steps), 0, Len(steps)) + n
        BY <2>1, <2>2, CostOfOneMore
    <2>5. n \in Nat /\ Budget \in Nat /\ MaxSteps \in Nat
        BY LoopAssumption
    <2>6. spent' \in 0 .. Budget
        BY <2>2, <2>5 DEF WorkInv
    <2>7. spent' = start' + RunningTotal(Costs(steps'), 0, Len(steps'))
        <3>1. PICK t \in Nat : t = RunningTotal(Costs(steps), 0, Len(steps))
            BY <2>1, CostsSum
        <3>2. spent = start + t /\ start \in Nat
            BY <3>1, <2>5 DEF WorkInv
        <3> QED BY <2>2, <2>4, <2>5, <3>1, <3>2
    <2>8. settled' \in Nat /\ settled' = Len(steps') /\ settled' <= MaxSteps
        BY <1>1, <2>2, <2>3, <2>5 DEF WorkInv
    <2> QED BY <1>1, <2>2, <2>6, <2>7, <2>8 DEF WorkInv
<1>9. CASE NextTurn \/ Leave \/ Narrate
    <2>1. /\ phase' \in {"turn", "left", "answered"}
          /\ UNCHANGED <<steps, spent, settled, example, start>> /\ caller' = caller
        BY <1>9 DEF NextTurn, Leave, Narrate
    <2>2. caller' \in {"analyst", "planner"}
        BY <1>1, <2>1
    <2>3. phase' \in {"turn", "settled", "done", "answered", "raised", "left"}
        BY <2>1
    <2> QED BY <2>1, <2>2, <2>3, WorkKept
<1>10. CASE UNCHANGED vars
    BY <1>10 DEF vars, WorkInv
<1> QED BY <1>2, <1>3, <1>4, <1>5, <1>6, <1>7, <1>8, <1>9, <1>10 DEF Next, Loop

\* The dossier has every step the gateway answered, no more than it may have, and
\* the session was charged for those and no others; a turn costs a bounded number
\* of requests to the model (inside_analyst.py 346-396, 557-577).
THEOREM WorkIsAccounted == Spec => []WorkAccounted
<1>1. Init => LoopInv /\ CallsInv /\ WorkInv
    <2> SUFFICES ASSUME Init PROVE LoopInv /\ CallsInv /\ WorkInv
        OBVIOUS
    <2>1. {MaxSteps, Budget, Retries, HttpRetries} \subseteq Nat
        BY LoopAssumption
    <2>2. /\ phase = "turn" /\ steps = <<>> /\ start \in 0 .. Budget /\ spent = start
          /\ example \in BOOLEAN /\ unusable = 0 /\ attempt = 0 /\ caller = "analyst"
          /\ calls = 0 /\ claims = {} /\ verdict = "not_answerable" /\ settled = 0
        BY DEF Init
    <2>3. LoopInv
        BY <2>1, <2>2 DEF LoopInv, DossierGrounded, NoVerdictUnasked, Verdicts
    <2>4. CallsInv
        BY <2>1, <2>2, RepliesGrow DEF CallsInv
    <2>5. Len(steps) = 0 /\ RunningTotal(Costs(steps), 0, 0) = 0
        BY <2>2, TotalOfNone
    <2>6. WorkInv
        BY <2>1, <2>2, <2>5 DEF WorkInv
    <2> QED BY <2>3, <2>4, <2>6
<1>2. LoopInv /\ CallsInv /\ WorkInv => WorkAccounted
    <2> SUFFICES ASSUME LoopInv, CallsInv, WorkInv PROVE WorkAccounted
        OBVIOUS
    <2>1. steps \in Seq([status : {"released", "redacted", "denied", "review"},
                         cost : 0 .. MaxCost])
        <3> DEFINE Answers == [status : {"released", "redacted", "denied", "review"},
                               cost : 0 .. MaxCost]
        <3>1. StepRecord \subseteq Answers
            BY DEF StepRecord
        <3>2. steps \in Seq(StepRecord)
            BY DEF LoopInv
        <3> HIDE DEF Answers
        <3>3. steps \in Seq(Answers)
            BY <3>1, <3>2, SeqDef
        <3> QED BY <3>3 DEF Answers
    <2>2. \A c \in claims : c.verdict \in Verdicts
        BY DEF LoopInv, Claim
    <2>3. unusable \in 0 .. Retries /\ verdict \in Verdicts
        BY DEF LoopInv
    <2>4. calls \in Nat /\ attempt \in 0 .. HttpRetries
        BY DEF CallsInv
    <2>5. TypeOK
        BY <2>1, <2>2, <2>3, <2>4 DEF WorkInv, TypeOK
    <2>6. StepsAccounted
        BY DEF WorkInv, StepsAccounted, Costs
    <2>7. CallsBounded
        <3>1. attempt <= HttpRetries /\ unusable \in 0 .. Retries /\ attempt \in Nat
            BY LoopAssumption DEF CallsInv
        <3> QED BY <3>1, RepliesGrow DEF CallsInv, CallsBounded
    <2> QED BY <2>5, <2>6, <2>7 DEF WorkAccounted
<1> QED BY <1>1, <1>2, LoopInductive, CallsInductive, WorkInductive, PTL DEF Spec

=============================================================================
