----------------------------- MODULE LockedPlan -----------------------------
(***************************************************************************)
(* A locked plan run by PlanExecutor under one session, the selection      *)
(* ledger of that session (P24), the audit rows the run writes, and the    *)
(* record made of it afterwards.  Other requests, which may bear any text, *)
(* write rows between its steps; the process may end between any two, and  *)
(* a restart rebuilds the ledger from the rows.                            *)
(*                                                                         *)
(* `disclosed`, `lost`, `refunded` and the field `by` of a row are         *)
(* history: no guard reads them.                                           *)
(***************************************************************************)
EXTENDS TraceRecorder, RunningTotals

CONSTANTS
    Plans,              \* the plans tried: sequences of stages
    Outcomes,           \* bound: what the gateway may decide
    SelectionBudget,    \* selection_budget_bits
    MaxSparse,          \* bound: levels a probe finds
    MaxRuns,            \* bound: runs of the plan
    MaxForeign,         \* bound: rows of other requests
    MaxCrashes          \* bound: restarts

Statuses == {"released", "redacted", "denied", "review"}
Dimensions == {"none", "known", "unknown"}
NoGuard == 0

\* What the validators of Stage, Guard and Plan let through: ids are positions here,
\* and a guard names an earlier one.
WellFormed(stages) ==
    /\ Len(stages) \in 1 .. 32 /\ DOMAIN stages = 1 .. Len(stages)
    /\ \A k \in DOMAIN stages :
          /\ stages[k].guard \in 0 .. (k - 1)
          /\ stages[k].statuses \subseteq Statuses
          /\ stages[k].guard # NoGuard => stages[k].statuses # {}
          /\ stages[k].dimension \in Dimensions

ASSUME PlanAssumption ==
    /\ {SelectionBudget, MaxSparse, MaxRuns, MaxForeign, MaxCrashes} \subseteq Nat
    /\ Outcomes \subseteq Statuses
    /\ \A stages \in Plans : WellFormed(stages)

VARIABLES
    plan,               \* the plan, fixed
    sparse,             \* levels below the threshold in each stage's cohort, fixed
    rows,               \* the audit chain
    verified,           \* whether it verifies
    spent,              \* auditor._selection_spent
    phase,              \* "idle", "stage", "charged" or "done"
    at,                 \* the stage it is at
    charged,            \* bits charged for the stage in hand
    results,            \* run.stages
    runs, foreign, crashes,
    disclosed,          \* bits answered to the caller of a run, ever
    lost,               \* bits charged since the start that no row holds
    refunded            \* such bits that restarts gave back after they were answered

vars == <<plan, sparse, rows, verified, spent, phase, at, charged, results, runs,
          foreign, crashes, disclosed, lost, refunded>>
counters == <<runs, foreign, crashes, refunded>>
fixed == <<plan, sparse>>

Hash == "locked"
OtherHash == "other"
NoHash == "none"
Questions == UNION {{stages[k].question : k \in DOMAIN stages} : stages \in Plans}

Row(status, request, bits, by) ==
    [status |-> status, request |-> request, hash |-> NoHash, bits |-> bits, by |-> by]
CommitRow(hash) ==
    [status |-> "plan", request |-> "[plan]", hash |-> hash, bits |-> 0, by |-> <<0, 0>>]
Foreign == <<0, 0>>

Result(status, bits, output) == [status |-> status, bits |-> bits, output |-> output]

Bits(s) == [i \in DOMAIN s |-> s[i].bits]
SumBits(s) == RunningTotal(Bits(s), 0, Len(s))
Stage == plan[at]

Init ==
    /\ plan \in Plans
    /\ sparse \in [DOMAIN plan -> 0 .. MaxSparse]
    /\ rows = <<>> /\ verified = TRUE
    /\ spent = 0 /\ phase = "idle" /\ at = 0 /\ charged = 0 /\ results = <<>>
    /\ runs = 0 /\ foreign = 0 /\ crashes = 0
    /\ disclosed = 0 /\ lost = 0 /\ refunded = 0

-----------------------------------------------------------------------------
(***************************************************************************)
(* The ledger: SessionAuditor.charge_selection and restore_selection.      *)
(***************************************************************************)
\* Mutant: a charge that just exceeds the budget is taken.
AffordableByOne(bits) == spent <= SelectionBudget

Affordable(bits) == spent + bits <= SelectionBudget

\* What rehydrate restores: the bits of every row of the session's user.
Restored == SumBits(rows)

-----------------------------------------------------------------------------
(***************************************************************************)
(* PlanExecutor.                                                           *)
(***************************************************************************)
StartRun(written) ==
    /\ phase = "idle" /\ runs < MaxRuns
    /\ runs' = runs + 1
    /\ phase' = "stage" /\ at' = 1 /\ results' = <<>>
    /\ rows' = rows \o written
    /\ UNCHANGED <<fixed, verified, spent, charged, foreign, crashes, disclosed, lost,
                   refunded>>

\* run: commit the plan, then start.  When the commitment cannot be written the
\* exception leaves and nothing has happened.
Commit == StartRun(<<CommitRow(Hash)>>)

\* The same with a log that drops the commitment, as run_vrr_demo wraps it.
RunUncommitted == StartRun(<<>>)

\* The result of a stage, and on to the next one or out of the loop.
Answer(result) ==
    /\ results' = Append(results, result)
    /\ charged' = 0
    /\ IF at = Len(plan) THEN /\ phase' = "done" /\ UNCHANGED at
                              /\ disclosed' = disclosed + SumBits(results')
       ELSE phase' = "stage" /\ at' = at + 1 /\ UNCHANGED disclosed

GuardMet == Stage.guard # NoGuard => results[Stage.guard].status \in Stage.statuses

\* A guard that is not met, or a contingency on something that is no dimension, or
\* that the ledger cannot afford: the stage has a result and no row.
Skip ==
    /\ phase = "stage" /\ ~GuardMet
    /\ Answer(Result("skipped", 0, FALSE))
    /\ UNCHANGED <<fixed, rows, verified, spent, counters, lost>>

Refuse ==
    /\ phase = "stage" /\ GuardMet
    /\ \/ Stage.dimension = "unknown"
       \/ /\ Stage.dimension = "known" /\ sparse[at] > 0 /\ ~Affordable(sparse[at])
    /\ Answer(Result("denied", 0, FALSE))
    /\ UNCHANGED <<fixed, rows, verified, spent, counters, lost>>

\* The probe, and the charge; the stage then goes to the gateway.
Charge ==
    /\ phase = "stage" /\ GuardMet /\ Stage.dimension # "unknown"
    /\ IF Stage.dimension = "none" THEN charged' = 0 /\ UNCHANGED <<spent, lost>>
       ELSE LET bits == sparse[at]      \* one per level
            IN  /\ bits = 0 \/ Affordable(bits)
                /\ charged' = bits /\ spent' = spent + bits /\ lost' = lost + bits
    /\ phase' = "charged"
    /\ UNCHANGED <<fixed, rows, verified, at, results, counters, disclosed>>

\* service.handle decides, and `record` writes a row with the stage's bits, whatever
\* was decided.
Handle(status) ==
    /\ phase = "charged"
    /\ rows' = Append(rows, Row(status, Stage.question, charged, <<runs, at>>))
    /\ lost' = lost - charged
    /\ Answer(Result(status, charged, Released(status)))
    /\ UNCHANGED <<fixed, verified, spent, counters>>

\* handle catches an exception: the error row carries no bits, and when it cannot be
\* written either there is none.  The caller gets the refusal, and its bits.
Fail(written) ==
    /\ phase = "charged"
    /\ rows' = IF written THEN Append(rows, Row("error", Stage.question, 0, <<runs, at>>))
                          ELSE rows
    /\ Answer(Result("denied", charged, FALSE))
    /\ UNCHANGED <<fixed, verified, spent, counters, lost>>

\* The caller has made its record of the run, and may run the plan again.
Close ==
    /\ phase = "done"
    /\ phase' = "idle" /\ at' = 0 /\ results' = <<>>
    /\ UNCHANGED <<fixed, rows, verified, spent, charged, counters, disclosed, lost>>

-----------------------------------------------------------------------------
(***************************************************************************)
(* Everyone else.                                                          *)
(***************************************************************************)
\* Another request, with any text; or another plan, or this one, committed.
ForeignRow ==
    /\ foreign < MaxForeign /\ foreign' = foreign + 1
    /\ \/ \E q \in Questions, s \in {"released", "denied"} :
             rows' = Append(rows, Row(s, q, 0, Foreign))
       \/ \E h \in {Hash, OtherHash} : rows' = Append(rows, CommitRow(h))
    /\ UNCHANGED <<fixed, verified, spent, phase, at, charged, results, runs, crashes,
                   disclosed, lost, refunded>>

\* The rows are edited, or lost: AuditLog says how this is found out.
ChainBroken ==
    /\ verified /\ verified' = FALSE /\ phase = "done"
    /\ UNCHANGED <<fixed, rows, spent, phase, at, charged, results, counters, disclosed, lost>>

\* The process ends and comes back; rehydrate refuses a chain that does not verify.
Crash ==
    /\ crashes < MaxCrashes /\ verified
    /\ crashes' = crashes + 1
    /\ spent' = Restored
    /\ lost' = 0 /\ refunded' = refunded + lost - charged
    /\ phase' = "idle" /\ at' = 0 /\ charged' = 0 /\ results' = <<>>
    /\ UNCHANGED <<fixed, rows, verified, runs, foreign, disclosed>>

Step ==
    \/ Skip \/ Refuse \/ Charge
    \/ \E s \in Outcomes : Handle(s)
    \/ \E w \in BOOLEAN : Fail(w)

Next == Commit \/ RunUncommitted \/ Step \/ Close \/ ForeignRow \/ ChainBroken \/ Crash

Spec == Init /\ [][Next]_vars

-----------------------------------------------------------------------------
(***************************************************************************)
(* Properties.                                                             *)
(***************************************************************************)
AuditRow == [status: Statuses \cup {"plan", "error"}, request: Questions \cup {"[plan]"},
             hash: {Hash, OtherHash, NoHash}, bits: 0 .. MaxSparse,
             by: (0 .. MaxRuns) \X (0 .. 32)]
StageResult == [status: Statuses \cup {"skipped"}, bits: 0 .. MaxSparse, output: BOOLEAN]

\* Types; and every stage passed has its result, which guards and the record rely on
\* (plan.py 206-210, recorder.py's zip of stages and results).
TypeOK ==
    /\ plan \in Plans /\ sparse \in [DOMAIN plan -> 0 .. MaxSparse]
    /\ rows \in Seq(AuditRow) /\ results \in Seq(StageResult)
    /\ verified \in BOOLEAN
    /\ {spent, disclosed, lost, refunded} \subseteq Nat
    /\ charged \in 0 .. MaxSparse
    /\ runs \in 0 .. MaxRuns /\ foreign \in 0 .. MaxForeign /\ crashes \in 0 .. MaxCrashes
    /\ \/ phase = "idle" /\ at = 0 /\ results = <<>>
       \/ phase \in {"stage", "charged"} /\ at \in DOMAIN plan /\ Len(results) = at - 1
       \/ phase = "done" /\ Len(results) = Len(plan)

\* The ledger is what the rows hold plus what no row holds, before a restart and after
\* it, and never over the budget: a restart can neither forget a charge that was
\* written nor push the ledger past what the session could pay (session.py 262-265,
\* disclosure.py 919-934).
LedgerBalances == spent = SumBits(rows) + lost /\ spent <= SelectionBudget

\* What the caller of the run in hand has been told and `disclosed` does not hold yet.
Pending == IF phase = "done" THEN 0 ELSE SumBits(results)

\* However a plan is shaped, run again or cut short, its callers learn no more bits of
\* withheld structure than the budget, but for those a restart gave back because an
\* error row does not hold them (plan.py 265-282, service.py 300-325).
DisclosedBound == disclosed + Pending <= SelectionBudget + refunded

RunTrace == Trace(rows, verified, Hash, plan, results)

\* The rows stage k of the run in hand wrote with the outcome it reports.
OwnRows(k) == {i \in DOMAIN rows : /\ rows[i].by = <<runs, k>>
                                   /\ rows[i].status = results[k].status}
\* Every stage up to k was skipped by its guard, or has its row.
WitnessedTo(k) == \A j \in 1 .. k : results[j].status = "skipped" \/ OwnRows(j) # {}

\* A stage the record calls precommitted wrote its row after the plan was committed,
\* whatever rows other requests with its question wrote and when, provided the stages
\* before it have rows (recorder.py 188-217, 310-325).
LabelsEarned ==
    phase = "done" =>
        \A k \in DOMAIN plan :
            WitnessedTo(k) /\ RunTrace.stages[k].label =>
                \A own \in OwnRows(k) : \E i \in 1 .. own - 1 : rows[i].hash = Hash

\* When nobody else wrote a row with the question and outcome of one of its stages, a
\* record cites for each stage the row that stage wrote (recorder.py 188-217).
CitesOwn ==
    phase = "done" /\ verified =>
        \A k \in DOMAIN plan :
            (/\ WitnessedTo(k)
             /\ \A j \in 1 .. k, i \in DOMAIN rows :
                   /\ rows[i].status # "plan" /\ rows[i].request = plan[j].question
                   /\ rows[i].status = results[j].status
                   => rows[i].by[1] = runs)
            => \A own \in OwnRows(k) : RunTrace.stages[k].audit = own

\* No row of the chain is the evidence of two stages, and rows are cited in the order
\* of the stages (recorder.py 197-203).
OneRowOneStage ==
    phase = "done" =>
        \A j, k \in DOMAIN plan :
            j < k /\ RunTrace.stages[k].audit # NoRow =>
                RunTrace.stages[j].audit < RunTrace.stages[k].audit

\* Every run can be recorded: no trace is refused for its lineage, on a chain that
\* verifies or not (research_record.py 704-731).
TraceBuilt == phase = "done" => LineageValid(RunTrace)

\* Why: the charge in hand is one no row holds yet, and what callers know, the charge
\* in hand included, has been charged or was given back.
Accounted ==
    /\ charged <= lost /\ (phase # "charged" => charged = 0)
    /\ disclosed + Pending + charged <= spent + refunded

\* The rows of the run in hand are its stages' rows, in their order, each with its
\* stage's question and its outcome or "error"; no row is a later run's.
RowsOfRun ==
    /\ \A i \in DOMAIN rows : rows[i].by[1] <= runs
    /\ phase # "idle" =>
          /\ runs > 0
          /\ \A i \in DOMAIN rows : rows[i].by[1] = runs =>
                 /\ rows[i].by[2] \in DOMAIN results
                 /\ rows[i].request = plan[rows[i].by[2]].question
                 /\ rows[i].status \in {"error", results[rows[i].by[2]].status}
                 /\ rows[i].status # "plan"
          /\ \A i, j \in DOMAIN rows :
                 i < j /\ rows[i].by[1] = runs /\ rows[j].by[1] = runs =>
                     rows[i].by[2] < rows[j].by[2]

\* The ledger is what the rows and the callers account for.
LedgerSound == TypeOK /\ LedgerBalances /\ DisclosedBound /\ Accounted

\* A label is earned, and the lineage it stands in is never refused.
PrecommittedSound == LabelsEarned /\ TraceBuilt

\* The evidence a record cites for each stage is that stage's own.
EvidenceSound == CitesOwn /\ OneRowOneStage /\ RowsOfRun

=============================================================================
