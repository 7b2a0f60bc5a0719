---------------------------- MODULE AnalystLoop ----------------------------
(***************************************************************************)
(* The inside analyst: a loop that asks a model for its next action, puts  *)
(* each query to the gateway under one session, and ends with a dossier of *)
(* steps, claims and a verdict.  Everything the model says is untrusted,   *)
(* and it may say anything or fail in any way; the caller of a stream may  *)
(* leave at any event.                                                     *)
(*                                                                         *)
(* What a reply says is chosen here; what a step releases is whether it    *)
(* released.  `calls`, `settled` and `start` are history.                  *)
(***************************************************************************)
EXTENDS Integers, Sequences, RunningTotals

CONSTANTS
    MaxSteps,           \* max_steps
    Budget,             \* the session's budget of released aggregates
    MaxCost,            \* bound: units a step may cost
    Retries,            \* LLMAnalystPolicy.retries
    HttpRetries,        \* LLMConfig.retries
    Conclusions         \* the conclusions tried: [verdict, claims]

ASSUME LoopAssumption ==
    /\ {MaxSteps, Budget, Retries, HttpRetries} \subseteq Nat
    /\ MaxCost \in Nat \ {0}

Substantive == {"supported", "not_supported", "null"}
Verdicts == Substantive \cup {"not_answerable"}
Failures == {"retryable", "http", "transport", "garbled", "schema"}

\* parse_action lets through no claim without a verdict and a list of step numbers.
ASSUME ConclusionsAssumption ==
    Conclusions \subseteq
        [verdict : STRING, claims : SUBSET [verdict : Verdicts, evidence : SUBSET Int]]

VARIABLES
    phase,      \* "turn", "call", "announced", "settled", "done" or an end
    steps,      \* the steps settled: [status, cost]
    spent,      \* auditor.spent
    example,    \* whether the question is an operator's example
    unusable,   \* replies of this turn that could not be used
    attempt,    \* HTTP attempts of the call in hand
    caller,     \* who asked the model: "analyst" or "planner"
    claims, verdict, stopped,   \* of the dossier
    calls,      \* requests to the model in this turn
    settled,    \* steps the gateway answered
    start       \* what the session had spent before

vars == <<phase, steps, spent, example, unusable, attempt, caller, claims, verdict,
          stopped, calls, settled, start>>
dossier == <<claims, verdict, stopped>>
turn == <<unusable, attempt, caller, calls>>
session == <<steps, spent, settled>>
given == <<example, start>>

NotAnswered == [verdict |-> "not_answerable", evidence |-> {}]

Init ==
    /\ phase = "turn" /\ steps = <<>>
    /\ start \in 0 .. Budget /\ spent = start
    /\ example \in BOOLEAN
    /\ unusable = 0 /\ attempt = 0 /\ caller = "analyst" /\ calls = 0
    /\ claims = {} /\ verdict = "not_answerable" /\ stopped = "" /\ settled = 0

-----------------------------------------------------------------------------
(***************************************************************************)
(* The end of the loop.                                                    *)
(***************************************************************************)
StepReleased(k) == steps[k].status \in {"released", "redacted"}

\* Mutant: a claim stands when it cites a step, whatever became of it.
GroundedAny(claim) == claim.evidence \cap DOMAIN steps # {}

\* A claim stands when it cites a step that released.
Grounded(claim) == \E k \in claim.evidence \cap DOMAIN steps : StepReleased(k)

\* _ground_claims.
GroundClaims(cs) ==
    {IF c.verdict = "not_answerable" \/ Grounded(c) THEN c
     ELSE [c EXCEPT !.verdict = "not_answerable"] : c \in cs}

\* The overall verdict, which a claim that stands must carry.
Carried(v, cs) ==
    IF v \in Verdicts /\ \E c \in cs : c.verdict = v THEN v ELSE "not_answerable"

\* A loop that ends without claims says that it has not concluded.
Finish(reason, cs, v) ==
    /\ phase' = "done" /\ stopped' = reason
    /\ claims' = IF cs = {} THEN {NotAnswered} ELSE cs
    /\ verdict' = IF cs = {} THEN "not_answerable" ELSE v
    /\ UNCHANGED <<session, turn, given>>

Conclude(c) ==
    LET grounded == GroundClaims(c.claims)
    IN  Finish("concluded", grounded, Carried(c.verdict, grounded))

Stop(reason) == Finish(reason, {}, "not_answerable")

-----------------------------------------------------------------------------
(***************************************************************************)
(* A turn: LLMAnalystPolicy.next.                                          *)
(***************************************************************************)
OutOfSteps == phase = "turn" /\ Len(steps) >= MaxSteps /\ Stop("max_steps")

OutOfBudget ==
    /\ phase = "turn" /\ Len(steps) < MaxSteps
    /\ spent >= Budget /\ Stop("budget_exhausted")

MayAct == phase = "turn" /\ Len(steps) < MaxSteps /\ spent < Budget

UseExample ==
    /\ MayAct /\ steps = <<>> /\ example
    /\ phase' = "announced"
    /\ UNCHANGED <<session, dossier, turn, given>>

\* One more request to the model, counted as far as the bound on them.
MaxCalls == 2 * (Retries + 1) * (HttpRetries + 1)
Called == calls' = IF calls > MaxCalls THEN calls ELSE calls + 1

\* Ask the model, from the first attempt.
Asking(who) == phase' = "call" /\ caller' = who /\ attempt' = 0

Ask ==
    /\ MayAct /\ ~(steps = <<>> /\ example)
    /\ Asking("analyst")
    /\ unusable' = 0 /\ calls' = 0
    /\ UNCHANGED <<session, dossier, given>>

\* Mutant: a model that fails takes the steps with it.
CallFailsEmpty(failure) ==
    /\ phase = "call"
    /\ phase' = "done" /\ stopped' = "model_unavailable"
    /\ steps' = <<>> /\ claims' = {NotAnswered} /\ verdict' = "not_answerable"
    /\ Called
    /\ UNCHANGED <<spent, settled, unusable, attempt, caller, given>>

\* LLMClient.complete: a failure, tried again when it is one that may pass.
CallFails(failure) ==
    /\ phase = "call"
    /\ Called
    /\ IF failure = "retryable" /\ attempt < HttpRetries
       THEN /\ attempt' = attempt + 1
            /\ UNCHANGED <<phase, session, dossier, unusable, caller, given>>
       ELSE /\ phase' = "done" /\ stopped' = "model_unavailable"
            /\ claims' = {NotAnswered} /\ verdict' = "not_answerable"
            /\ UNCHANGED <<session, unusable, attempt, caller, given>>

\* An exception that is no LLMError: a body that is cut short, or whose content is no
\* string, in the middle of `complete`.  Nothing up to the endpoint catches it.
CallRaises ==
    /\ phase = "call"
    /\ phase' = "raised" /\ Called
    /\ UNCHANGED <<session, dossier, unusable, attempt, caller, given>>

Answered == phase = "call" /\ Called

\* Mutant: the retries start again when it is the planner whose reply is no use.
UnusableForgotten ==
    /\ Answered
    /\ IF unusable < Retries \/ caller = "planner"
       THEN /\ unusable' = (IF caller = "planner" THEN 0 ELSE unusable + 1)
            /\ Asking("analyst")
            /\ UNCHANGED <<session, dossier, given>>
       ELSE /\ phase' = "done" /\ stopped' = "concluded"
            /\ claims' = {NotAnswered} /\ verdict' = "not_answerable"
            /\ UNCHANGED <<session, unusable, attempt, caller, given>>

\* A reply from which no action can be read: asked again, or given up as a conclusion
\* that says so.
Unusable ==
    /\ Answered
    /\ IF unusable < Retries
       THEN /\ unusable' = unusable + 1 /\ Asking("analyst")
            /\ UNCHANGED <<session, dossier, given>>
       ELSE /\ phase' = "done" /\ stopped' = "concluded"
            /\ claims' = {NotAnswered} /\ verdict' = "not_answerable"
            /\ UNCHANGED <<session, unusable, attempt, caller, given>>

\* A query, from either of them; the stream sends `step_start`.
Proposes ==
    /\ Answered /\ phase' = "announced"
    /\ UNCHANGED <<session, dossier, unusable, attempt, caller, given>>

\* parse_action: the verdicts a conclusion is read as.  One that is left out is the
\* first substantive claim's (any of them: the claims are a set here), and a word
\* that is none makes the reply unusable.
Said(c) ==
    LET substantive == {claim.verdict : claim \in c.claims} \cap Substantive
    IN  IF c.verdict # "absent" THEN {c.verdict} \cap Verdicts
        ELSE IF substantive # {} THEN substantive ELSE {"not_answerable"}

\* A conclusion; before any step, the planner is asked for a query instead.
Concludes(c) ==
    /\ phase = "call" /\ caller = "analyst"
    /\ Said(c) # {}
    /\ IF steps # <<>> THEN \E v \in Said(c) : Conclude([c EXCEPT !.verdict = v])
       ELSE /\ Called /\ Asking("planner")
            /\ UNCHANGED <<session, dossier, unusable, given>>

-----------------------------------------------------------------------------
(***************************************************************************)
(* A step, and the events around it.                                       *)
(***************************************************************************)
\* _step: the gateway charges at most what is left, and a refusal may be free.
Settle(status, cost) ==
    /\ phase = "announced" /\ phase' = "settled"
    /\ status \in {"released", "redacted"} => cost > 0
    /\ spent + cost <= Budget
    /\ steps' = Append(steps, [status |-> status, cost |-> cost])
    /\ spent' = spent + cost
    /\ settled' = settled + 1
    /\ UNCHANGED <<dossier, turn, given>>

\* The stream has sent `step`; the next turn.
NextTurn ==
    /\ phase = "settled" /\ phase' = "turn"
    /\ UNCHANGED <<session, dossier, turn, given>>

\* Whoever reads the stream leaves at an event: the generator is closed there.
Leave ==
    /\ phase \in {"announced", "settled"}
    /\ phase' = "left"
    /\ UNCHANGED <<session, dossier, turn, given>>

\* LLMNarrator, whose failure of any kind leaves the dossier as it is.
Narrate ==
    /\ phase = "done" /\ phase' = "answered"
    /\ UNCHANGED <<session, dossier, turn, given>>

Loop ==
    \/ OutOfSteps \/ OutOfBudget \/ UseExample \/ Ask
    \/ \E f \in Failures : CallFails(f)
    \/ CallRaises \/ Unusable \/ Proposes
    \/ \E c \in Conclusions : Concludes(c)
    \/ \E s \in {"released", "denied"}, n \in 0 .. MaxCost : Settle(s, n)
    \/ NextTurn \/ Narrate

Next == Loop \/ Leave

\* Every call to the model has a timeout, and the gateway answers every request.
Spec == Init /\ [][Next]_vars /\ WF_vars(Loop)

-----------------------------------------------------------------------------
(***************************************************************************)
(* Properties.                                                             *)
(***************************************************************************)
\* Types; and a session the loop runs under never spends past its budget.
TypeOK ==
    /\ phase \in {"turn", "call", "announced", "settled", "done", "answered", "raised",
                  "left"}
    /\ steps \in Seq([status : {"released", "redacted", "denied", "review"},
                      cost : 0 .. MaxCost])
    /\ {start, spent} \subseteq 0 .. Budget
    /\ example \in BOOLEAN /\ caller \in {"analyst", "planner"}
    /\ unusable \in 0 .. Retries /\ attempt \in 0 .. HttpRetries
    /\ \A c \in claims : c.verdict \in Verdicts
    /\ verdict \in Verdicts
    /\ {calls, settled} \subseteq Nat
    /\ Len(steps) <= MaxSteps

\* However the loop ends, its dossier asserts nothing of the data without a step that
\* released, and its verdict is one a claim that stands carries (inside_analyst.py
\* 276-294, 368-378).
DossierGrounded ==
    phase \in {"done", "answered"} =>
        /\ claims # {}
        /\ \A c \in claims : c.verdict \in Substantive =>
              \E k \in c.evidence \cap DOMAIN steps : StepReleased(k)
        /\ verdict \in Substantive => \E c \in claims : c.verdict = verdict

\* Whatever the model replies, and in whatever order, a conclusion that asserts
\* anything has evidence to rest on: without a step there is no verdict, and the
\* first thing done is a query (inside_analyst.py 564-570).
NoVerdictUnasked ==
    phase = "done" /\ stopped = "concluded" /\ steps = <<>> =>
        claims = {NotAnswered} /\ unusable = Retries

\* The dossier has every step the gateway answered, and the session was charged for
\* those and no others, also when the model fails or the reader leaves
\* (inside_analyst.py 357-367, 384-394).
StepsAccounted ==
    /\ Len(steps) = settled
    /\ spent = start + RunningTotal([k \in DOMAIN steps |-> steps[k].cost], 0, Len(steps))

\* A turn costs a bounded number of requests to the model: each reply may be asked
\* for again, and each request retried (inside_analyst.py 557-577, llm.py 214-230).
CallsBounded == calls <= MaxCalls

\* A loop always ends, whatever the model does (inside_analyst.py 346-383).
LoopEnds == <>(phase \in {"answered", "raised", "left"})

\* However the model behaves, what the dossier asserts was found, and something
\* was looked for.
DossierSound == DossierGrounded /\ NoVerdictUnasked

\* Every step, charge and request to the model is accounted for.
WorkAccounted == TypeOK /\ StepsAccounted /\ CallsBounded

=============================================================================
