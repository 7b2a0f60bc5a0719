--------------------------- MODULE TraceRecorder ---------------------------
(***************************************************************************)
(* How a plan run is set against the audit chain: where the plan was       *)
(* committed, which row each of its stages wrote, and what the record may  *)
(* therefore say of them.  Nothing identifies a stage's row: it is looked  *)
(* for by the question and the outcome, which other requests may share.    *)
(***************************************************************************)
EXTENDS Integers, Sequences, FiniteSetsExt

\* A row is [status, request, hash, bits, by]; `by` is history, and no code reads it.
NoRow == 0

\* _commit_position: the first commitment of a plan.
CommitPosition(rows, hash) ==
    LET at == {i \in DOMAIN rows : rows[i].status = "plan" /\ rows[i].hash = hash}
    IN  IF at = {} THEN NoRow ELSE Min(at)

\* Mutant: the outcome need not agree.
MatchesQuestion(row, question, status) == row.status # "plan" /\ row.request = question

Matches(row, question, status) ==
    row.status # "plan" /\ row.request = question /\ row.status = status

\* The first row after the cursor that a stage may cite.
Cited(rows, cursor, question, status) ==
    LET found == {i \in DOMAIN rows : i > cursor /\ Matches(rows[i], question, status)}
    IN  IF found = {} THEN NoRow ELSE Min(found)

\* The cursor after each stage: at the row it cites, or where it was if it cites none.
Cursors(rows, stages, results) ==
    LET cursor[k \in 0 .. Len(stages)] ==
            IF k = 0 THEN NoRow
            ELSE LET found == Cited(rows, cursor[k - 1], stages[k].question,
                                    results[k].status)
                 IN  IF found = NoRow THEN cursor[k - 1] ELSE found
    IN  cursor

\* _stage_rows, over the stages of a plan and their results.
StageRows(rows, stages, results) ==
    LET cursor == Cursors(rows, stages, results)
    IN  [k \in DOMAIN stages |->
            Cited(rows, cursor[k - 1], stages[k].question, results[k].status)]

\* Mutant: any commitment will do, before or after.
PrecommittedEver(commit, at) == commit # NoRow /\ at # NoRow

Precommitted(commit, at) == commit # NoRow /\ at # NoRow /\ at > commit

Released(status) == status \in {"released", "redacted"}

\* What a stage left behind that the record commits to.  The probe alone is private.
Artifacts(result) ==
    (IF result.output THEN {"output"} ELSE {}) \cup (IF result.bits > 0 THEN {"probe"} ELSE {})

\* One stage of the trace.  The dependency written down is the stage before, whatever
\* stage the guard names.
StageRecord(stages, results, k, at, label) ==
    [input |-> IF k > 1 /\ stages[k].guard # 0 THEN k - 1 ELSE 0,
     outputs |-> Artifacts(results[k]),
     replay |-> Released(results[k].status), label |-> label, audit |-> at,
     status |-> results[k].status, bits |-> results[k].bits]

\* _unwitnessed_trace: of a chain that does not verify, nothing that rests on order.
Unwitnessed(stages, results) ==
    [plan |-> FALSE, verified |-> FALSE,
     stages |-> [k \in DOMAIN stages |->
        [StageRecord(stages, results, k, NoRow, FALSE) EXCEPT !.input = 0]]]

\* trace_from_plan_run.
Trace(rows, verified, hash, stages, results) ==
    IF ~verified THEN Unwitnessed(stages, results)
    ELSE LET commit == CommitPosition(rows, hash)
             at == StageRows(rows, stages, results)
         IN  [plan |-> commit # NoRow, verified |-> TRUE,
              stages |-> [k \in DOMAIN stages |->
                 StageRecord(stages, results, k, at[k], Precommitted(commit, at[k]))]]

\* PrivateExecutionTrace.validate_lineage: else the trace is an exception.
LineageValid(trace) ==
    /\ \A k \in DOMAIN trace.stages : trace.stages[k].input < k
    /\ \A k \in DOMAIN trace.stages :
          trace.stages[k].label => trace.plan /\ trace.verified

=============================================================================
