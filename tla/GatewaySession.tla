--------------------------- MODULE GatewaySession ---------------------------
(***************************************************************************)
(* One analyst's session with the disclosure gateway, across requests,     *)
(* failures and restarts of the web process.                               *)
(*                                                                         *)
(* Requests run in the threads of a pool.  A request holds its user's      *)
(* Session.lock while QueryService.handle runs: the gates decided from the *)
(* request, then for every planned aggregate the engine, the two layers of *)
(* the SessionAuditor and the disclosure policy, then the release          *)
(* decision, the lineage record and the audit row.  Any exception is       *)
(* caught at the boundary, charged and recorded.  The process may die      *)
(* between any two of these steps; a restart rebuilds every auditor from   *)
(* the rows of the audit log that are still inside the session window.     *)
(*                                                                         *)
(* The engine, the vetters, the fitter and the human checker are outside:  *)
(* each appears as the set of answers it can give.  What a pair of cohorts *)
(* differs by (service.py, _difference_bound) is the constant Bound.       *)
(***************************************************************************)
EXTENDS Integers, Sequences, FiniteSets, RunningTotals

CONSTANTS
    Users,          \* identities, one Session each
    SystemUser,     \* the login the startup record is written under
    Threads,        \* pool threads; each runs one request at a time
    NoThread,       \* the holder of a free lock
    Datasets, Filters, Quantities, Measures,
    NoQuantity,     \* the quantity of an undeclared measure (None)
    Queries,        \* the admissible requests, see Query
    Bound,          \* donors two cohorts differ over, as the auditor is told
    Threshold,      \* SessionAuditor.threshold (differencing_delta)
    Budget,         \* SessionAuditor.budget (query_budget)
    MaxHistory,     \* maxlen of the total-delta history
    Faults,         \* which failures happen: a subset of FaultKinds
    MaxRows,        \* bound: no request starts once the log and the gaps are this long
    MaxCrashes      \* bound: how often the process dies

FaultKinds ==
    { "raise",      \* an exception before the row is committed
      "torn",       \* append raises after its INSERT was committed
      "lost" }      \* an error row that could not be stored

Cohort ==
    [dataset: Datasets, filters: Filters, quantity: Quantities \cup {NoQuantity}]

\* A released DISTINCT-DONOR total under the auditor's key for the measure.
Observation == [measure: Measures, total: Nat]

Aggregate == [cohort: Cohort, observed: Observation]

\* A plain query plans one aggregate; a model one per role, some optional.
Query == [kind: {"plain", "model"}, aggs: Seq(Aggregate), optional: SUBSET Nat]

ASSUME SessionAssumption ==
    /\ SystemUser \in Users
    /\ NoThread \notin Threads
    /\ NoQuantity \notin Quantities
    /\ Queries # {} /\ Queries \subseteq Query
    /\ \A q \in Queries : Len(q.aggs) >= 1
    /\ \A q \in Queries : q.kind = "plain" => Len(q.aggs) = 1 /\ q.optional = {}
    /\ Bound \in [Cohort \X Cohort -> Nat]
    /\ Threshold \in Nat \ {0}
    /\ Budget \in Nat \ {0}
    /\ MaxHistory \in Nat
    /\ Budget <= MaxHistory      \* config.py caps query_budget at MAX_HISTORY
    /\ Faults \subseteq FaultKinds
    /\ MaxRows \in Nat
    /\ MaxCrashes \in Nat

VARIABLES
    phase,      \* "replaying" the log at startup, then "serving"
    cursor,     \* the row rehydrate reads next
    forgotten,  \* rows that had aged out of the window at the last restart
    crashes,    \* how often the process has died
    spent,      \* user -> SessionAuditor._spent
    cohorts,    \* user -> SessionAuditor._cohorts
    history,    \* user -> SessionAuditor._history
    lock,       \* user -> the thread holding Session.lock
    log         \* the audit log's rows, oldest first

VARIABLES       \* the locals of the request each thread runs
    pc,         \* where handle has got to
    who,        \* whose request it is
    query,      \* the request
    role,       \* the aggregate to run next
    before,     \* spent_before
    kept,       \* the cohorts a release would record
    seen,       \* the totals observed for it
    out         \* the status decided so far

VARIABLES       \* history variables: nothing in the program reads them
    delivered,  \* what callers were given, with the row that records it
    written,    \* thread -> rows written for its request
    rowAt,      \* thread -> the row it wrote last
    gap         \* user -> cost carried by error rows that were lost

session == <<spent, cohorts, history, lock>>
locals == <<who, query, role, before, kept, seen, out>>
aux == <<written, rowAt, gap>>
vars == <<phase, cursor, forgotten, crashes, session, log, pc, locals,
          delivered, aux>>

-----------------------------------------------------------------------------
(***************************************************************************)
(* The SessionAuditor's two layers.                                        *)
(***************************************************************************)

\* observe: totals of one measure that differ by fewer than Threshold donors.
Near(a, b) ==
    LET delta == IF a.total > b.total THEN a.total - b.total ELSE b.total - a.total
    IN  a.measure = b.measure /\ 0 < delta /\ delta < Threshold

\* observe_cohort: p was released, c is asked for.  Equal predicates are
\* skipped; across two views only a declared quantity is comparable.
TooClose(p, c) ==
    /\ p.filters # c.filters
    /\ \/ p.dataset = c.dataset
       \/ c.quantity # NoQuantity /\ p.quantity = c.quantity
    /\ Bound[p, c] < Threshold

\* A deque with maxlen: the oldest entries make room.
Remember(past, totals) ==
    LET all == past \o totals
        excess == IF Len(all) > MaxHistory THEN Len(all) - MaxHistory ELSE 0
    IN  SubSeq(all, excess + 1, Len(all))

Flagged(u, agg) ==
    \/ spent[u] + 1 > Budget
    \/ \E i \in DOMAIN history[u] : Near(history[u][i], agg.observed)
    \/ \E p \in cohorts[u] : TooClose(p, agg.cohort)

\* Mutant: a model is admitted like a plain query.
AffordableFirstRoleOnly(u, q) == spent[u] < Budget

\* over_budget for a plain query; _handle_model's precheck for all its roles.
Affordable(u, q) ==
    /\ spent[u] < Budget
    /\ q.kind = "model" => spent[u] + Len(q.aggs) <= Budget

-----------------------------------------------------------------------------
(***************************************************************************)
(* The rows of the audit log, reduced to what a restart replays.           *)
(***************************************************************************)
ReleasedStatus == {"released", "redacted"}
Status == ReleasedStatus \cup {"denied", "review", "error"}

Row == [user: Users, status: Status \cup {"config"}, cost: Nat,
        cohorts: SUBSET Cohort, totals: Seq(Observation)]

\* Mutants: a redaction counts as no release; a request counts as one unit.
OutcomeRowDropsRedacted(t) ==
    LET isRelease == out[t] = "released"
    IN  [user |-> who[t], status |-> out[t], cost |-> spent[who[t]] - before[t],
         cohorts |-> IF isRelease THEN kept[t] ELSE {},
         totals |-> IF isRelease THEN seen[t] ELSE <<>>]

OutcomeRowUnitCost(t) ==
    LET isRelease == out[t] \in ReleasedStatus
    IN  [user |-> who[t], status |-> out[t], cost |-> 1,
         cohorts |-> IF isRelease THEN kept[t] ELSE {},
         totals |-> IF isRelease THEN seen[t] ELSE <<>>]

\* record(): the cost is measured, not classified, and only a release
\* carries cohorts and totals.
OutcomeRow(t) ==
    LET isRelease == out[t] \in ReleasedStatus
    IN  [user |-> who[t], status |-> out[t], cost |-> spent[who[t]] - before[t],
         cohorts |-> IF isRelease THEN kept[t] ELSE {},
         totals |-> IF isRelease THEN seen[t] ELSE <<>>]

ErrorRow(t) ==
    [user |-> who[t], status |-> "error", cost |-> spent[who[t]] - before[t],
     cohorts |-> {}, totals |-> <<>>]

ConfigRow ==
    [user |-> SystemUser, status |-> "config", cost |-> 0, cohorts |-> {}, totals |-> <<>>]

\* Commit a row for t's request and move it to pc = next.
Commit(t, row, next) ==
    /\ log' = Append(log, row)
    /\ rowAt' = [rowAt EXCEPT ![t] = Len(log) + 1]
    /\ written' = [written EXCEPT ![t] = @ + 1]
    /\ pc' = [pc EXCEPT ![t] = next]

-----------------------------------------------------------------------------
AnyQuery == CHOOSE q \in Queries : TRUE

\* A value for every user, for every thread.
PerUser(v) == [u \in Users |-> v]
PerThread(v) == [t \in Threads |-> v]

Init ==
    /\ phase = "replaying"
    /\ cursor = 1
    /\ forgotten = 0
    /\ crashes = 0
    /\ log = <<>>
    /\ delivered = {}
    /\ spent = PerUser(0) /\ cohorts = PerUser({}) /\ history = PerUser(<<>>)
    /\ lock = PerUser(NoThread)
    /\ gap = PerUser(0)
    /\ pc = PerThread("idle")
    /\ who = PerThread(SystemUser) /\ query = PerThread(AnyQuery)
    /\ role = PerThread(1) /\ before = PerThread(0)
    /\ kept = PerThread({}) /\ seen = PerThread(<<>>)
    /\ out = PerThread("denied")
    /\ written = PerThread(0) /\ rowAt = PerThread(0)

-----------------------------------------------------------------------------
(***************************************************************************)
(* A request.                                                              *)
(***************************************************************************)

\* The frame of a call of handle for user u's request q.
Frame(t, u, q, now) ==
    /\ who' = [who EXCEPT ![t] = u]
    /\ query' = [query EXCEPT ![t] = q]
    /\ role' = [role EXCEPT ![t] = 1]
    /\ before' = [before EXCEPT ![t] = now]
    /\ kept' = [kept EXCEPT ![t] = {}]
    /\ seen' = [seen EXCEPT ![t] = <<>>]
    /\ out' = [out EXCEPT ![t] = "denied"]
    /\ written' = [written EXCEPT ![t] = 0]
    /\ rowAt' = [rowAt EXCEPT ![t] = 0]

\* Mutant: requests of one identity are not serialised.
EnterUnlocked(t, u, q) ==
    /\ phase = "serving"
    /\ pc[t] = "idle"
    /\ Len(log) + gap[u] < MaxRows
    /\ lock' = [lock EXCEPT ![u] = t]
    /\ pc' = [pc EXCEPT ![t] = "gates"]
    /\ Frame(t, u, q, spent[u])
    /\ UNCHANGED <<phase, cursor, forgotten, crashes, spent, cohorts, history,
                   log, delivered, gap>>

\* The route's `with sess.lock:` and the first lines of handle.
Enter(t, u, q) ==
    /\ phase = "serving"
    /\ pc[t] = "idle"
    /\ lock[u] = NoThread
    /\ Len(log) + gap[u] < MaxRows
    /\ lock' = [lock EXCEPT ![u] = t]
    /\ pc' = [pc EXCEPT ![t] = "gates"]
    /\ Frame(t, u, q, spent[u])
    /\ UNCHANGED <<phase, cursor, forgotten, crashes, spent, cohorts, history,
                   log, delivered, gap>>

\* A refusal decided from the request alone: malformed literal spec, intent,
\* validation, unknown tool, fidelity.  It costs nothing and is recorded.
Refuse(t) ==
    /\ pc[t] = "gates"
    /\ pc' = [pc EXCEPT ![t] = "append"]
    /\ UNCHANGED <<phase, cursor, forgotten, crashes, session, log, locals,
                   delivered, aux>>

\* The budget short-circuit, before any engine work.
OverBudget(t) ==
    /\ pc[t] = "gates"
    /\ ~Affordable(who[t], query[t])
    /\ pc' = [pc EXCEPT ![t] = "append"]
    /\ UNCHANGED <<phase, cursor, forgotten, crashes, session, log, locals,
                   delivered, aux>>

PassGates(t) ==
    /\ pc[t] = "gates"
    /\ Affordable(who[t], query[t])
    /\ pc' = [pc EXCEPT ![t] = "role"]
    /\ UNCHANGED <<phase, cursor, forgotten, crashes, session, log, locals,
                   delivered, aux>>

\* engine.run, observe, observe_cohort and policy.apply for one aggregate.
\* Observing charges the session whatever is decided next.
Observe(t, verdict) ==
    LET u == who[t]
        q == query[t]
        agg == q.aggs[role[t]]
        last == role[t] = Len(q.aggs)
        accepted == IF q.kind = "plain" THEN {"release", "redacted"} ELSE {"release"}
        clear == ~Flagged(u, agg)
        keep == clear /\ verdict \in accepted
        skip == clear /\ verdict \notin accepted /\ role[t] \in q.optional
    IN
    /\ pc[t] = "role"
    /\ spent' = [spent EXCEPT ![u] = @ + 1]
    /\ history' = [history EXCEPT ![u] = Remember(@, <<agg.observed>>)]
    /\ seen' = [seen EXCEPT ![t] = Append(@, agg.observed)]
    /\ IF keep \/ skip
       THEN /\ kept' = IF keep THEN [kept EXCEPT ![t] = @ \cup {agg.cohort}] ELSE kept
            /\ role' = IF last THEN role ELSE [role EXCEPT ![t] = @ + 1]
            /\ pc' = [pc EXCEPT ![t] = IF last THEN "decide" ELSE "role"]
            /\ out' = IF ~last THEN out
                      ELSE [out EXCEPT ![t] = IF verdict = "redacted" /\ q.kind = "plain"
                                              THEN "redacted" ELSE "released"]
       ELSE /\ pc' = [pc EXCEPT ![t] = "append"]
            /\ UNCHANGED <<kept, role, out>>
    /\ UNCHANGED <<phase, cursor, forgotten, crashes, cohorts, lock, log, who,
                   query, before, delivered, aux>>

Verdicts == {"release", "redacted", "deny"}

\* policy.apply raises: the aggregate was observed, and paid for, already.
ObserveThenRaise(t) ==
    LET u == who[t]
        agg == query[t].aggs[role[t]]
    IN
    /\ "raise" \in Faults
    /\ pc[t] = "role"
    /\ spent' = [spent EXCEPT ![u] = @ + 1]
    /\ history' = [history EXCEPT ![u] = Remember(@, <<agg.observed>>)]
    /\ pc' = [pc EXCEPT ![t] = "error"]
    /\ UNCHANGED <<phase, cursor, forgotten, crashes, cohorts, lock, log,
                   locals, delivered, aux>>

\* Human-in-the-loop, a model's preconditions, its output contract.
Withhold(t, status) ==
    /\ pc[t] = "decide"
    /\ out' = [out EXCEPT ![t] = status]
    /\ pc' = [pc EXCEPT ![t] = "append"]
    /\ UNCHANGED <<phase, cursor, forgotten, crashes, session, log, who, query,
                   role, before, kept, seen, delivered, aux>>

\* Mutant: the lineage is left to the audit row alone.
RecordNothing(t) ==
    /\ pc[t] = "decide"
    /\ pc' = [pc EXCEPT ![t] = "append"]
    /\ UNCHANGED <<phase, cursor, forgotten, crashes, session, log, locals,
                   delivered, aux>>

\* record_cohort for everything about to be released; the row comes after.
RecordCohorts(t) ==
    /\ pc[t] = "decide"
    /\ cohorts' = [cohorts EXCEPT ![who[t]] = @ \cup kept[t]]
    /\ pc' = [pc EXCEPT ![t] = "append"]
    /\ UNCHANGED <<phase, cursor, forgotten, crashes, spent, history, lock, log,
                   locals, delivered, aux>>

AppendRow(t) ==
    /\ pc[t] = "append"
    /\ Commit(t, OutcomeRow(t), "return")
    /\ UNCHANGED <<phase, cursor, forgotten, crashes, session, locals,
                   delivered, gap>>

\* The INSERT is committed, then the checkpoint or the mark raises.
AppendTorn(t) ==
    /\ "torn" \in Faults
    /\ pc[t] = "append"
    /\ Commit(t, OutcomeRow(t), "error")
    /\ UNCHANGED <<phase, cursor, forgotten, crashes, session, locals,
                   delivered, gap>>

-----------------------------------------------------------------------------
(***************************************************************************)
(* The boundary of handle: charge, record, answer the canonical refusal.   *)
(***************************************************************************)
Raise(t) ==
    /\ "raise" \in Faults
    /\ \/ pc[t] = "gates" /\ spent[who[t]] < Budget   \* planner, plan_aggregates
       \/ pc[t] \in {"role", "decide", "append"}       \* engine, fit, shaping, insert
    /\ pc' = [pc EXCEPT ![t] = "error"]
    /\ UNCHANGED <<phase, cursor, forgotten, crashes, session, log, locals,
                   delivered, aux>>

\* Mutant: the error is charged and answered without a row.
ChargeErrorSilently(t) ==
    /\ pc[t] = "error"
    /\ spent' = IF spent[who[t]] = before[t]
                THEN [spent EXCEPT ![who[t]] = @ + 1] ELSE spent
    /\ out' = [out EXCEPT ![t] = "error"]
    /\ pc' = [pc EXCEPT ![t] = "return"]
    /\ UNCHANGED <<phase, cursor, forgotten, crashes, cohorts, history, lock,
                   log, who, query, role, before, kept, seen, delivered, aux>>

\* An error is never free.
ChargeError(t) ==
    /\ pc[t] = "error"
    /\ spent' = IF spent[who[t]] = before[t]
                THEN [spent EXCEPT ![who[t]] = @ + 1] ELSE spent
    /\ out' = [out EXCEPT ![t] = "error"]
    /\ pc' = [pc EXCEPT ![t] = "errorRow"]
    /\ UNCHANGED <<phase, cursor, forgotten, crashes, cohorts, history, lock,
                   log, who, query, role, before, kept, seen, delivered, aux>>

AppendError(t) ==
    /\ pc[t] \in {"errorRow", "retry"}
    /\ Commit(t, ErrorRow(t), "return")
    /\ UNCHANGED <<phase, cursor, forgotten, crashes, session, locals,
                   delivered, gap>>

\* The first attempt fails, with or without its row; the request is elided.
AppendErrorFails(t) ==
    /\ pc[t] = "errorRow"
    /\ \/ /\ "lost" \in Faults
          /\ pc' = [pc EXCEPT ![t] = "retry"]
          /\ UNCHANGED <<log, written, rowAt>>
       \/ /\ "torn" \in Faults
          /\ Commit(t, ErrorRow(t), "retry")
    /\ UNCHANGED <<phase, cursor, forgotten, crashes, session, locals,
                   delivered, gap>>

\* The second attempt fails as well: logged, and still answered.
AuditGap(t) ==
    /\ "lost" \in Faults
    /\ pc[t] = "retry"
    /\ pc' = [pc EXCEPT ![t] = "return"]
    /\ gap' = [gap EXCEPT ![who[t]] = @ + ErrorRow(t).cost]
    /\ UNCHANGED <<phase, cursor, forgotten, crashes, session, log, locals,
                   delivered, written, rowAt>>

\* Mutant: the lock is released on the ordinary path only.
ReturnLockedOnError(t) ==
    /\ pc[t] = "return"
    /\ lock' = IF out[t] = "error" THEN lock
               ELSE [lock EXCEPT ![who[t]] = NoThread]
    /\ pc' = [pc EXCEPT ![t] = "idle"]
    /\ Frame(t, SystemUser, AnyQuery, 0)
    /\ UNCHANGED <<phase, cursor, forgotten, crashes, spent, cohorts, history,
                   log, delivered, gap>>

\* handle returns, the lock is released, and a release reaches the caller.
Return(t) ==
    /\ pc[t] = "return"
    /\ lock' = [lock EXCEPT ![who[t]] = NoThread]
    /\ pc' = [pc EXCEPT ![t] = "idle"]
    /\ delivered' =
         IF out[t] \in ReleasedStatus
         THEN delivered \cup {[user |-> who[t], cohorts |-> kept[t],
                               totals |-> seen[t], row |-> rowAt[t]]}
         ELSE delivered
    /\ Frame(t, SystemUser, AnyQuery, 0)
    /\ UNCHANGED <<phase, cursor, forgotten, crashes, spent, cohorts, history,
                   log, gap>>

-----------------------------------------------------------------------------
(***************************************************************************)
(* The process dies; a new one rebuilds the sessions from the log.         *)
(***************************************************************************)

\* Every request in flight ends unanswered and the sessions' memory is gone.
\* since(cutoff) will skip the rows that have aged out by now.
Crash(old) ==
    /\ crashes < MaxCrashes
    /\ crashes' = crashes + 1
    /\ phase' = "replaying"
    /\ forgotten' = old
    /\ cursor' = old + 1
    /\ spent' = PerUser(0) /\ cohorts' = PerUser({}) /\ history' = PerUser(<<>>)
    /\ lock' = PerUser(NoThread)
    /\ gap' = PerUser(0)
    /\ pc' = PerThread("idle")
    /\ who' = PerThread(SystemUser) /\ query' = PerThread(AnyQuery)
    /\ role' = PerThread(1) /\ before' = PerThread(0)
    /\ kept' = PerThread({}) /\ seen' = PerThread(<<>>)
    /\ out' = PerThread("denied")
    /\ written' = PerThread(0) /\ rowAt' = PerThread(0)
    /\ UNCHANGED <<log, delivered>>

\* Mutants: the totals, or the spend, do not survive a restart.
ReplayWithoutTotals(row) ==
    /\ spent' = [spent EXCEPT ![row.user] = @ + row.cost]
    /\ cohorts' = [cohorts EXCEPT ![row.user] = @ \cup row.cohorts]
    /\ UNCHANGED history

\* charge, record_cohort and restore_observation.
Replay(row) ==
    /\ spent' = [spent EXCEPT ![row.user] = @ + row.cost]
    /\ cohorts' = [cohorts EXCEPT ![row.user] = @ \cup row.cohorts]
    /\ history' = [history EXCEPT ![row.user] = Remember(@, row.totals)]

\* Mutant: the process's own records are skipped by their user.
ReplayRowSkipsByUser ==
    /\ phase = "replaying"
    /\ cursor <= Len(log)
    /\ IF log[cursor].user = SystemUser
       THEN UNCHANGED <<spent, cohorts, history>>
       ELSE Replay(log[cursor])
    /\ cursor' = cursor + 1
    /\ UNCHANGED <<phase, forgotten, crashes, lock, log, pc, locals, delivered,
                   aux>>

\* One turn of rehydrate's loop: the process's own records are skipped by
\* their status.
ReplayRow ==
    /\ phase = "replaying"
    /\ cursor <= Len(log)
    /\ IF log[cursor].status = "config"
       THEN UNCHANGED <<spent, cohorts, history>>
       ELSE Replay(log[cursor])
    /\ cursor' = cursor + 1
    /\ UNCHANGED <<phase, forgotten, crashes, lock, log, pc, locals, delivered,
                   aux>>

\* The policy in force is put in the chain, then requests are served.
StartServing ==
    /\ phase = "replaying"
    /\ cursor > Len(log)
    /\ log' = Append(log, ConfigRow)
    /\ phase' = "serving"
    /\ UNCHANGED <<cursor, forgotten, crashes, session, pc, locals, delivered,
                   aux>>

-----------------------------------------------------------------------------
Step(t) ==
    \/ Refuse(t)
    \/ OverBudget(t)
    \/ PassGates(t)
    \/ \E v \in Verdicts : Observe(t, v)
    \/ ObserveThenRaise(t)
    \/ \E s \in {"denied", "review"} : Withhold(t, s)
    \/ RecordCohorts(t)
    \/ AppendRow(t)
    \/ AppendTorn(t)
    \/ Raise(t)
    \/ ChargeError(t)
    \/ AppendError(t)
    \/ AppendErrorFails(t)
    \/ AuditGap(t)
    \/ Return(t)

Next ==
    \/ \E t \in Threads, u \in Users, q \in Queries : Enter(t, u, q)
    \/ \E t \in Threads : Step(t)
    \/ \E old \in forgotten..Len(log) : Crash(old)
    \/ ReplayRow
    \/ StartServing

Spec == Init /\ [][Next]_vars

\* A handler that has started keeps running, and so does the startup.  No
\* fairness is assumed of the arrival of requests or of the lock.
FairSpec ==
    /\ Spec
    /\ \A t \in Threads : WF_vars(Step(t))
    /\ WF_vars(ReplayRow)
    /\ WF_vars(StartServing)

-----------------------------------------------------------------------------
(***************************************************************************)
(* Properties.                                                             *)
(***************************************************************************)

\* Every variable keeps its type: the auditors' ledgers, the rows and the
\* locals of each request (SessionAuditor's fields, service.py's locals).
TypeOK ==
    /\ phase \in {"replaying", "serving"}
    /\ cursor \in Nat \ {0}
    /\ forgotten \in Nat /\ forgotten <= Len(log)
    /\ crashes \in Nat
    /\ spent \in [Users -> Nat]
    /\ cohorts \in [Users -> SUBSET Cohort]
    /\ history \in [Users -> Seq(Observation)]
    /\ lock \in [Users -> Threads \cup {NoThread}]
    /\ log \in Seq(Row)
    /\ pc \in [Threads -> {"idle", "gates", "role", "decide", "append",
                           "error", "errorRow", "retry", "return"}]
    /\ who \in [Threads -> Users]
    /\ query \in [Threads -> Queries]
    /\ role \in [Threads -> Nat]
    /\ \A t \in Threads : role[t] \in DOMAIN query[t].aggs
    /\ before \in [Threads -> Nat]
    /\ kept \in [Threads -> SUBSET Cohort]
    /\ seen \in [Threads -> Seq(Observation)]
    /\ out \in [Threads -> Status]
    /\ delivered \subseteq [user: Users, cohorts: SUBSET Cohort,
                            totals: Seq(Observation), row: Nat]
    /\ written \in [Threads -> Nat]
    /\ rowAt \in [Threads -> Nat]
    /\ gap \in [Users -> Nat]

\* Of two releases one analyst was given inside the window, however many
\* threads, failures and restarts lie between them, the later is never within
\* the differencing threshold of the earlier (P11, P16, R6: observe_cohort,
\* record_cohort, the session lock and rehydrate together).
LineageSafe ==
    \A d, e \in delivered :
        d.user = e.user /\ forgotten < d.row /\ d.row < e.row =>
            \A p \in d.cohorts, c \in e.cohorts : ~TooClose(p, c)

\* Nor do two of them carry donor totals of one measure that differ by fewer
\* than the threshold: the total-delta layer survives a restart as well, and
\* its bounded history never forgets what the budget still allows to be
\* compared (observe, restore_observation, MAX_HISTORY).
TotalsSafe ==
    \A d, e \in delivered :
        d.user = e.user /\ forgotten < d.row /\ d.row < e.row =>
            \A i \in DOMAIN d.totals, j \in DOMAIN e.totals :
                ~Near(d.totals[i], e.totals[j])

\* Whatever a caller was given is in the log under that caller, with the
\* cohorts and totals a restart needs, and was paid for there with at least a
\* unit for each cohort (record, _accounting).
ReleaseIsLogged ==
    \A d \in delivered :
        /\ d.row \in DOMAIN log
        /\ LET row == log[d.row] IN
           /\ row.status \in ReleasedStatus
           /\ row.user = d.user /\ row.cohorts = d.cohorts /\ row.totals = d.totals
           /\ row.cost >= 1 /\ row.cost >= Cardinality(d.cohorts)

\* A request that is about to be answered has exactly one row.  It has none only
\* as an error whose row could not be stored, and then its cost is among the
\* gaps; it has two only as an error after an append that raised after its
\* INSERT (R8, _append_or_die).
OneRowPerRequest ==
    \A t \in Threads : pc[t] = "return" =>
        /\ written[t] = 0 => /\ "lost" \in Faults /\ out[t] = "error"
                             /\ spent[who[t]] - before[t] <= gap[who[t]]
        /\ written[t] > 1 => "torn" \in Faults /\ out[t] = "error"

\* What row i charges user u, and what the rows inside the window say u paid.
CostTo(u) == [i \in DOMAIN log |-> IF log[i].user = u THEN log[i].cost ELSE 0]
Charged(u) == RunningTotal(CostTo(u), forgotten, Len(log))

\* Between requests the live spend of every session is what a restart would
\* rebuild from the log, but for the rows the log could not store: there is
\* one cost model (_accounting, rehydrate).
ReplayAgrees ==
    phase = "serving" =>
        \A u \in Users : lock[u] = NoThread => spent[u] = Charged(u) + gap[u]

\* With rows that were committed although append raised, a restart may charge
\* a request twice but never refunds one.
ReplayNeverRefunds ==
    phase = "serving" =>
        \A u \in Users : lock[u] = NoThread => spent[u] <= Charged(u) + gap[u]

\* The lineage is bounded by the spend: every remembered cohort was paid for
\* (disclosure.py: len(_cohorts) <= _spent).
CohortsPaidFor == \A u \in Users : Cardinality(cohorts[u]) <= spent[u]

\* No aggregate is computed for a session whose budget is spent (P17), the
\* second and later roles of a model included.
NoWorkOverBudget ==
    \A t \in Threads : pc[t] = "role" => spent[who[t]] < Budget

\* Both halves of charging before the work (P17, disclosure.py 887-896).
PaidBeforehand == CohortsPaidFor /\ NoWorkOverBudget

\* The session lock is always released again, exceptions and failing appends
\* included, so one analyst's request never blocks the next for good.
LockReleased == \A u \in Users : lock[u] # NoThread ~> lock[u] = NoThread

\* What an analyst has been told, as the abstract ledger of releases.
Ledger == INSTANCE ReleaseLedger WITH
    Conflicts <- {pair \in Cohort \X Cohort : TooClose(pair[1], pair[2])},
    ledger <- [u \in Users |->
                 {[row |-> d.row, cohorts |-> d.cohorts] :
                    d \in {e \in delivered : e.user = u /\ forgotten < e.row}}]

\* The session implements the ledger: releases are added one at a time, never
\* in conflict with one that is remembered, never more than the budget, and
\* are only forgotten when they leave the window.
ImplementsLedger == Ledger!Spec

-----------------------------------------------------------------------------
(***************************************************************************)
(* Why LineageSafe and TotalsSafe hold: the conjuncts of an inductive      *)
(* invariant (GatewaySessionProofs has the proof).                         *)
(***************************************************************************)
Active(t) == pc[t] # "idle"

\* t may still release what it holds.
Pending(t) ==
    \/ pc[t] \in {"gates", "role", "decide"}
    \/ pc[t] = "append" /\ out[t] \in ReleasedStatus

\* The rows the auditors in memory answer for.
Replayed == {i \in DOMAIN log : forgotten < i /\ (phase = "serving" \/ i < cursor)}

HoldsLock == \A t \in Threads : Active(t) => phase = "serving" /\ lock[who[t]] = t

\* Where a request's status has got to.
StatusSettled ==
    \A t \in Threads :
        /\ pc[t] \in {"gates", "role"} => out[t] = "denied"
        /\ pc[t] = "decide" => out[t] \in ReleasedStatus
        /\ pc[t] \in {"errorRow", "retry"} => out[t] = "error"

\* What a request holds was paid for by this request.
PaidFor ==
    \A t \in Threads :
        /\ before[t] + Len(seen[t]) <= spent[who[t]]
        /\ IsFiniteSet(kept[t]) /\ Cardinality(kept[t]) <= Len(seen[t])
        /\ pc[t] = "decide" => Len(seen[t]) >= 1
        /\ pc[t] = "append" /\ out[t] \in ReleasedStatus => Len(seen[t]) >= 1

\* Every row carries no more totals than it cost, and the process's own none.
RowsPaid ==
    \A i \in DOMAIN log :
        /\ Len(log[i].totals) <= log[i].cost
        /\ log[i].status = "config" => log[i].cohorts = {} /\ log[i].totals = <<>>

Holds(past, totals) ==
    \A k \in DOMAIN totals : \E m \in DOMAIN past : past[m] = totals[k]

\* The history is shorter than the spend, so what it has forgotten was
\* forgotten after the budget.
HistoryWithinSpend == \A u \in Users : Len(history[u]) <= spent[u]

\* The lineage and, while the budget may allow a comparison, the history hold
\* what the rows inside the window released.
RowsRemembered ==
    \A i \in Replayed :
        /\ log[i].cohorts \subseteq cohorts[log[i].user]
        /\ spent[log[i].user] <= MaxHistory =>
               Holds(history[log[i].user], log[i].totals)

\* They hold what a request has observed and what it is about to put on record.
RequestsRemembered ==
    \A t \in Threads :
        /\ pc[t] = "append" /\ out[t] \in ReleasedStatus => kept[t] \subseteq cohorts[who[t]]
        /\ Active(t) /\ spent[who[t]] <= MaxHistory => Holds(history[who[t]], seen[t])

\* Neither layer objects to e after d.
Apart(d, e) ==
    /\ \A p \in d.cohorts, c \in e.cohorts : ~TooClose(p, c)
    /\ \A i \in DOMAIN d.totals, j \in DOMAIN e.totals :
           ~Near(d.totals[i], e.totals[j])

\* A request that may still release is apart from every row in the window.
PendingApart ==
    \A t \in Threads : Pending(t) =>
        \A i \in DOMAIN log :
            forgotten < i /\ log[i].user = who[t] =>
                Apart(log[i], [cohorts |-> kept[t], totals |-> seen[t]])

RowsApart ==
    \A i, j \in DOMAIN log :
        forgotten < i /\ i < j /\ log[i].user = log[j].user => Apart(log[i], log[j])

\* A release that is about to be returned is the row its thread wrote last.
ReturnsItsRow ==
    \A t \in Threads :
        pc[t] = "return" /\ out[t] \in ReleasedStatus =>
            /\ rowAt[t] \in DOMAIN log
            /\ LET row == log[rowAt[t]] IN
               /\ row.status \in ReleasedStatus /\ row.user = who[t]
               /\ row.cohorts = kept[t] /\ row.totals = seen[t]
               /\ row.cost >= 1 /\ row.cost >= Cardinality(kept[t])

\* What the auditors, the requests in flight and the log must agree on, at
\* every step and across every restart, for two releases never to conflict:
\* rows stay apart because memory holds all that the log released.
SessionInv ==
    /\ HoldsLock /\ StatusSettled /\ PaidFor /\ RowsPaid /\ HistoryWithinSpend
    /\ RowsRemembered /\ RequestsRemembered /\ PendingApart /\ RowsApart /\ ReturnsItsRow

-----------------------------------------------------------------------------
(***************************************************************************)
(* Why the ledger's budget, the cost model and the one row per request     *)
(* hold: the conjuncts of a second invariant, which starts from the first  *)
(* (LedgerCorrect in GatewaySessionProofs).                                 *)
(***************************************************************************)

\* How many rows a request can have at each point of handle.
RowsWritten ==
    \A t \in Threads :
        /\ pc[t] \in {"gates", "role", "decide", "append"} => written[t] = 0
        /\ pc[t] \in {"error", "errorRow", "retry"} => written[t] = 0 \/ "torn" \in Faults
        /\ pc[t] = "return" =>
               /\ written[t] = 0 => /\ "lost" \in Faults /\ out[t] = "error"
                                    /\ spent[who[t]] - before[t] <= gap[who[t]]
               /\ written[t] > 1 => "torn" \in Faults /\ out[t] = "error"

\* The lineage is finite and paid for, by what was spent before this request
\* until the request adds to it; rows on record are paid for too.
LineagePaid ==
    /\ \A u \in Users : IsFiniteSet(cohorts[u]) /\ Cardinality(cohorts[u]) <= spent[u]
    /\ \A t \in Threads :
           pc[t] \in {"gates", "role", "decide"} => Cardinality(cohorts[who[t]]) <= before[t]
    /\ \A i \in DOMAIN log :
           IsFiniteSet(log[i].cohorts) /\ Cardinality(log[i].cohorts) <= log[i].cost

\* What is left of a model's roles was reserved when it passed the gates.
RolesReserved ==
    \A t \in Threads :
        /\ pc[t] = "gates" => role[t] = 1
        /\ pc[t] = "role" =>
               spent[who[t]] + Len(query[t].aggs) - role[t] + 1 <= Budget

\* n is what the log and the gaps say u has paid; less, if a row was committed
\* and append raised all the same.
Settled(n, u) ==
    /\ n <= Charged(u) + gap[u]
    /\ n < Charged(u) + gap[u] => "torn" \in Faults

\* A restart has rebuilt what the rows it has read charge; after that a session
\* agrees with the log between requests, and a request's cost is outstanding
\* from when it enters until its row is written.
CostsAgree ==
    /\ phase = "replaying" =>
           /\ forgotten < cursor /\ cursor <= Len(log) + 1
           /\ \A u \in Users :
                  gap[u] = 0 /\ spent[u] = RunningTotal(CostTo(u), forgotten, cursor - 1)
    /\ phase = "serving" => \A u \in Users : lock[u] = NoThread => Settled(spent[u], u)
    /\ \A t \in Threads : Active(t) =>
           Settled(IF pc[t] = "return" THEN spent[who[t]] ELSE before[t], who[t])
    /\ \A i \in DOMAIN log : log[i].status = "config" => log[i].cost = 0

\* The releases on record that the memory of u's session answers for.
ReleaseRows(u) == {i \in Replayed : log[i].user = u /\ log[i].status \in ReleasedStatus}

\* They are within the budget: a release costs a unit and starts below it.
ReleasesPaid ==
    /\ \A u \in Users :
           IsFiniteSet(ReleaseRows(u)) /\ Cardinality(ReleaseRows(u)) <= spent[u]
    /\ \A i \in DOMAIN log : log[i].status \in ReleasedStatus => log[i].cost >= 1
    /\ \A t \in Threads :
           /\ pc[t] \in {"gates", "role", "decide", "append"} =>
                  Cardinality(ReleaseRows(who[t])) <= before[t]
           /\ pc[t] \in {"role", "decide"} => before[t] < Budget
           /\ pc[t] = "append" /\ out[t] \in ReleasedStatus => before[t] < Budget
           /\ pc[t] = "return" /\ out[t] \in ReleasedStatus =>
                  Cardinality(ReleaseRows(who[t])) <= Budget

\* A release that is about to be returned is its user's latest row.
ReturnsLatest ==
    \A t \in Threads : pc[t] = "return" /\ out[t] \in ReleasedStatus =>
        \A i \in DOMAIN log : rowAt[t] < i => log[i].user # who[t]

\* What every request, session and row has paid, at every step and across
\* every restart.
LedgerInv ==
    /\ RowsWritten /\ LineagePaid /\ RolesReserved
    /\ CostsAgree /\ ReleasesPaid /\ ReturnsLatest

\* What the auditors, the log and the requests in flight agree on at every step
\* and across every restart: it is inductive, and the proofs start from it.
Consistent == TypeOK /\ SessionInv /\ LedgerInv

=============================================================================
