# Verification of safe-tre-agent

TLA+ models of the disclosure gateway of `safetre/` and `safetre_web/` and of
what surrounds it, the TLC runs that check them on small instances, and the
proofs that TLAPS checks for every instance. Line numbers below are of this
commit; `PROJECT.json` maps every definition that models code to the lines it
stands for.

Contents: [the system](#the-system) · [inventory](#inventory) ·
[modules](#modules) · [runs](#runs) · [proofs](#proofs) ·
[findings](#findings) · [observations](#observations) ·
[not modelled](#not-modelled) · [plan](#plan).

## The system

A trusted research environment answers questions about a protected study. An
analyst sends a request in words (or a typed literal one); an untrusted planner
proposes a `QuerySpec` or a model spec; the gateway validates the proposal,
computes it, and decides from the result and from what this analyst has already
been told whether to release, redact or refuse. Everything that safety depends
on is small and stateful:

* the **session auditor** of each identity (`disclosure.py`): units spent, a
  bounded history of donor totals, the cohorts released so far (the lineage),
  and a separate ledger of selection bits for locked plans;
* the **audit log** (`audit.py`): a keyed chain of rows in SQLite, a high-water
  mark beside it, an optional anchor kept elsewhere. It is the only durable
  state: at start-up every session is rebuilt from the rows inside a window;
* the **web process** (`safetre_web/`): one process, a thread pool, a store of
  sessions with a lock each, rate limits, a response-time boundary.

A request travels `app.query` → `SessionStore.get` → `Session.lock` →
`QueryService.handle` → planner, validation, fidelity gates → engine →
`SessionAuditor.observe` / `observe_cohort` → `DisclosurePolicy.apply` →
human-in-the-loop → `record_cohort` → `AuditLog.append` → the caller. Any
exception is caught once, in `handle`, charged and recorded. Two other actors
use the same gateway: a locked plan, whose stages are fixed before the data is
seen and whose run becomes a research record, and the inside analyst, a loop
around a language model.

## Inventory

| component | state | operations | what makes it correct | modelled in |
|---|---|---|---|---|
| Gateway, `service.py` | the locals of a request | `handle`, `_handle_inner`, `_handle_model`, `_append_or_die` | exactly one row per request; nothing computed for a spent budget; a release is recorded before it is returned | `GatewaySession` |
| Session auditor, `disclosure.py` | `_spent`, `_history`, `_cohorts`, selection bits | `observe`, `observe_cohort`, `record_cohort`, `charge`, `restore_observation`, `charge_selection` | two releases of one analyst never differ by a few donors, through any interleaving, failure or restart | `GatewaySession`, `LockedPlan` |
| Policy, `disclosure.py` | none | `apply`, suppression, rounding | a released cell satisfies threshold and dominance; suppression does not reveal what it hides | `Suppression` |
| Audit log, `audit.py` | rows, WAL, mark, claim, lock | `claim_exclusive`, `append`, `verify`, `head`, `since` | an honest log always verifies, a shortened one never does; an acknowledged row is not lost | `AuditLog` |
| Session store, `session.py` | LRU map of sessions | `get`, `rehydrate` | one identity has one auditor; memory equals what the log says | `WebProcess`, `GatewaySession` |
| Web app, `app.py` | pool threads, session locks | `query`, `chimp`, `chimp_stream`, `audit_verify` | requests of one identity are serialised; nobody blocks everybody | `WebProcess`, `FrontDoor` |
| Response boundary, `timing.py` | abandoned tasks, per caller and in all | `__call__` | orphaned work is bounded and charged to who left it | `WebProcess`, `FrontDoor` |
| Rate limiter, `rate.py` | token buckets | `allow`, sweep | a rate per key, a bound on keys | `RateLimiter` |
| Identity, channel, body: `identity.py`, `channel.py`, `body.py`, `headers.py` | none | `current_user`, `rate_limit_key`, the middlewares | an unverifiable header never names a session; a refusal costs nothing | `FrontDoor` |
| Locked plans, `plan.py` | stage results, selection bits | `run`, `_commit`, `_stage`, `_apply_contingency` | the plan is in the chain before its stages; data-dependent choices are paid for | `LockedPlan` |
| Recorder, `recorder.py` | none | `trace_from_plan_run`, `_stage_rows` | a record cites the row that witnessed the stage, or none | `TraceRecorder` |
| Inside analyst, `inside_analyst.py`, `llm.py` | steps, calls of a run | `AnalystLoop.iter_run`, `LLMAnalystPolicy`, `LLMClient.complete` | every sub-request goes through the gateway, the loop ends, claims are grounded; a call reaches only the host that was named | `AnalystLoop`, `Narratives`, `Settings` |
| External checker, `external_checker.py` | one subprocess, its version and starts | `vet`, `_ask`, `close` | a verdict is about the table that was sent; a failure denies | `ExternalChecker` |
| Engine, `engine.py` | the read-only database | `run`, `row_symdiff_donors`, `sparse_levels` | the differencing bound never understates a close pair; a cell's witnesses are about its own rows | `Cohorts`, `QueryEngine` |
| Specifications, `query.py`, `schema.py`, `dataset.py` | none | validation, load | only what a study lists is expressible | `QuerySpecs` |
| Models, `glm.py`, `anova.py`, `normality.py`, `series.py` | none | plan, `fit` | a fit is a function of released cells | `ModelPlans` |
| Planner, intent gates, `planner.py`, `analyst.py` | none | `plan`, `vet_request`, coherence | what runs answers what was asked | `RequestGates`, `OfflinePlanner` |
| Research records, `research_record.py`, `evidence.py`, `provenance.py`, `replay.py`, `attestation.py`, `vrr_bundle.py` | files | build, compile, replay, sign, export, verify | the public half depends on what was released only; a bundle that reads well is what was signed | `ResearchRecords` |
| Configuration, `config.py` | read once | load, casts, checks, floors | what was written is what is enforced | `Settings` |
| Shadow data, `shadow.py` | none | plan, draw, verify | looks like the study, contains nobody | `Shadow` |
| Dossier prose, corrections, `inside_analyst.py`, `stats.py` | none | `check_narrative`, `benjamini_hochberg` | a figure is one that was released | `Narratives` |
| `manifest.py`, `synth.py`, `cli.py`; scripts, studies, evals, red team; Alloy and Lean models | | | around the program | |

Where the behaviour is hard, and a test hardly reaches it: two requests of one
identity at once; an exception or a crash between "the lineage is recorded" and
"the row is committed"; a row that is committed although the call raised; a
restart that must rebuild exactly what memory held; a mark that trails the rows
it vouches for; verification while the log grows; a store that evicts a session
in use; a lock held across a stream; a clock read before a lock; a stage whose
row can only be found by its text; a model that says anything at all; a NULL in
a filter; a small group that two releases leave between them. `hazards` in
`PROJECT.json` lists each with its line and the properties that cover it.

## Modules

| module | models | extends / instances |
|---|---|---|
| `GatewaySession` | a user's session through requests, failures and restarts | instances `ReleaseLedger` |
| `ReleaseLedger` | what the gateway promises about releases, abstractly | |
| `AuditLog` | the chain, the mark, the claim, verification, copies | |
| `ExternalChecker` | the subprocess that vets cells, shared by all requests | |
| `WebProcess` | boundary, pool, session store and session locks together | |
| `FrontDoor` | the stack of middleware, identity, and the two limiters in time | instances `RateLimiter` twice |
| `RateLimiter` | a token bucket per key, and the bound on keys | |
| `LockedPlan` | plans, their commitment and the selection ledger | extends `TraceRecorder` |
| `TraceRecorder` | the record of a plan run set against the chain | |
| `AnalystLoop` | the loop, its model and its gateway | |
| `Cohorts` | predicates, row and donor differences, sparse levels | |
| `Suppression` | what is withheld of a table, and the decision | extends `Cohorts` |
| `Differences` | questions to `Cohorts`: what two releases tell by their difference | extends `Cohorts` |
| `Releases` | questions to `Suppression`: what leaves, of any table | extends `Suppression`, `Differences` |
| `Answers` | questions to `QueryEngine`: what an answer says of its rows | extends `QueryEngine`, `Releases` |
| `Policies` | questions to `Settings`: what of any configuration is enforced | extends `Settings`, `Differences` |
| `Shadows` | questions to `Shadow`: what a shadow of any study has | extends `Shadow`, `Differences` |
| `Proposals` | questions to `QuerySpecs` and `RequestGates`: what acceptance means for any definition | extends `RequestGates`, `Differences` |
| `QueryEngine` | the answer to one aggregate with its witnesses | extends `Suppression` |
| `QuerySpecs` | definitions of studies, acceptance of queries and models | |
| `ModelPlans` | the four models around their numerics | extends `QueryEngine`, `QuerySpecs` |
| `ResearchRecords` | trace, evidence, provenance, replay, bundle | extends `TraceRecorder` |
| `Settings`, `RequestGates`, `OfflinePlanner`, `Shadow`, `Narratives` | policy; gates before planning; the planner without a model; synthetic tables; figures in prose | |
| `RunningTotals` | the sum of a stretch of numbers, as a recursive function | |
| `…Proofs` | theorems about `GatewaySession`, `AuditLog`, `AnalystLoop`, `WebProcess`, `FrontDoor`, `LockedPlan`; lemmas about `RunningTotals` | extend their module |
| `VettingProofs` | theorems about `Differences`, `Releases`, `Answers`, `Policies`, `Shadows`, `Proposals` and `ExternalChecker` | extends the seven |
| `MC…` | the small instances; `MCBoundary` and `MCAlgorithms` hold the questions asked of the other pure modules | |

### GatewaySession

`spent`, `cohorts`, `history` are the fields of each `SessionAuditor`, `lock` is
`Session.lock`, `log` the audit rows reduced to what `rehydrate` reads back
(user, status, cost, cohorts, totals). The locals of `handle` are functions of
the thread: `before` is `spent_before`, `kept` the cohorts a release would
record, `seen` the totals observed for it, `out` the status decided so far.

A request is the path `Enter` → `Refuse`/`OverBudget`/`PassGates` → `Observe`
once per planned aggregate → `Withhold` or `RecordCohorts` → `AppendRow` →
`Return`. `Observe` is one loop turn of `_handle_model` (and the whole of the
plain path): the engine, both layers of the auditor and the policy's verdict;
it charges whatever is decided. Failures: `Raise` at every place the code can
raise, `ObserveThenRaise` after the auditor was charged, `AppendTorn` after the
INSERT was committed, then `ChargeError`, `AppendError`, `AppendErrorFails`,
`AuditGap`, the boundary of `handle` with its second attempt. `Crash` ends the
process anywhere and chooses how many rows have left the session window;
`ReplayRow` is one turn of `rehydrate`; `StartServing` writes the policy row.

Abstracted: a request is the set of aggregates it plans; the engine's answer
is the constant donor total of the aggregate and `Bound`, the number of donors
two cohorts differ over (how the engine finds it is `Cohorts`); the policy's
verdict (`Suppression`), the planner, the fitter and the human are
nondeterministic choices. `Cohort` keeps dataset, filters and quantity because
`observe_cohort` compares exactly these.

### AuditLog

`rows` are the committed rows, `inFile` how many of them a checkpoint has moved
out of the WAL, `unsaved` the open transaction of each process's connection,
`mark` and `synced` the high-water file as read and as a power cut would leave
it. `append` is `Begin`, `Insert`, `Commit`, `Checkpoint`, `WriteMark`,
`Finish`, under `lock`; `Fail` is an exception in any of them. `verify` is
`VerifyRead` (rows and mark under one acquisition) and `Recompute`;
`PublishHead` is the head the endpoint returns, which an operator may pin.
`Claim`, `Start`, `Retry` are the start-up of a process. `Crash`, `CopyFile`,
`CopyMark` and `Restore` are the environment: a process dies or the power fails,
and an operator copies files and puts them back while no server runs.

A MAC is the number of the insertion that computed it: the model assumes that
nobody without the key can produce one, and that two rows never share one.

### ExternalChecker

`process`, `starts`, `version` are the fields of `ExternalCheckerVetter`, `lock`
is its `_lock`; `id`, `proc`, `line` are the locals of `_ask`, and `victim` the
local of `close`. `questions` and `answers` are the two directions of the pipe of
each process ever started. A table travels `Vet` → `Acquire`/`GiveUp` →
`Reuse`/`Start` → `Take` → `Write` (→ `Fill`) → `Select`/`Timeout` →
`ReadLine`/`ReadEnd` → `Compare` → `Store` → `Judge` → `Describe`; anything that
fails under the lock goes through `Close`, `Shut` and `Reap`, and a change of
version goes through the same three without the lock. `Take` is a step of its own
because `_start` reads `self._process` again to return it. Any question may be
larger than what the pipe has room for: `Fill` then waits for the checker to take
the rest, and a `Shut` of the same process waits behind it. The checker is the
environment: `Answer`, `Chatter` (a line nobody asked for, any id, any version),
`Hang` (half a line), `Deafen` (it takes nothing more from its input, say because
its errors, which nobody reads, have filled their own pipe), `Die`. Abstracted:
the question is its id, the answer its id and version; what the verdicts say is a
choice (`Judge`).

### WebProcess

`store` is the `OrderedDict` of `SessionStore`, oldest first; `session[u]` the
number of the session object it holds for a user and `spent` what was charged to
each object, which outlives its place in the store; `lock` is `Session.lock` of
each object; `abandoned` the pools of `timing.py`. A request is `queued` (let in
by the boundary, waiting for a thread), at `get`, at `lock`, at `work`, `paused`
(a stream between two items: no thread, but the lock) or `done`. `Arrive` is the
boundary's admission against both caps; `Start` and `Pull` take a thread of the
pool, for an endpoint and for the next item of a stream; `Get` is
`SessionStore.get` with its eviction of the oldest session without state first;
`Acquire` takes the session lock; `Yield` is one item of a stream; `Overrun` is
the ceiling passing while the task runs on; `Disconnect` a browser that leaves
between two items; `Finish` leaves the lock and takes the task out of the pool
of the abandoned. `Init` is the store as `rehydrate` fills it at start-up.
The session is fetched before its lock is taken, so an eviction between the two
leaves a request on an object that is no longer stored: `forgotten` remembers
that this happened to a user, and the properties say what holds when it did not.

### FrontDoor and RateLimiter

A *posture* is what the environment sets (secret, allowlist, networks, channel
switches, production); a *caller* is a peer with headers, a proof and an
address. The operators bear the code's names: `channel_allowed`,
`current_user`, `rate_limit_key`, `_caller`, `configuration_report`. `Charged`,
`Handled` and `Padded` follow the order in which `app.py` stacks its layers.
`Opening` states ask every posture every question. In the documented postures
requests then go through the limiters on a moving clock: the general one in a
single step on the event loop; audit verification in pool threads, where the
clock is read before the limiter's lock, so a bucket can be refilled backwards.
`granted` and `forgiven` are history: who was allowed when, and whose bucket a
sweep dropped before it was full at every time that somebody still waits with.

### LockedPlan and TraceRecorder

`Commit` writes the plan row and starts a run (`RunUncommitted` with a log that
drops it); a stage is `Skip` when its guard is not met, `Refuse` when its
contingency names no dimension or more bits than are left, or `Charge`, the probe
and its bits before the stage runs, followed by `Handle`, one pass through the
gateway with its row, or `Fail`, the exception that leaves an error row without
bits, or no row. `Close` ends a run, `ForeignRow` is another request's row with
any text, `ChainBroken` rows that were edited, `Crash` a restart that rebuilds
the ledger from the rows. `StageRows` is the recorder's cursor over the chain;
`Trace` is `trace_from_plan_run` with labels, artifacts and lineage.

### AnalystLoop

One action per event of `iter_run`: the loop asks (`Ask`), and the model's call
fails, raises or is answered (`CallFails`, `CallRaises`, `Answered`) with the
client's and the policy's retries; an answer is unusable, proposes a sub-request
or concludes (`Unusable`, `Proposes`, `Concludes`); the sub-request is settled by
the gateway at some cost (`Settle`); the run stops for want of steps or budget
(`OutOfSteps`, `OutOfBudget`), or its reader leaves (`Leave`). `GroundClaims` is
the grounding of a conclusion's claims against the steps that released.

### The pure modules

`Cohorts`, `Suppression`, `QueryEngine`, `QuerySpecs`, `ModelPlans`,
`ResearchRecords`, `Settings`, `RequestGates`, `OfflinePlanner`, `Shadow` and
`Narratives` have no variables: they are operators translated from functions
without state. Predicates have SQL's three truth values, tables are functions
from row ids to rows, a digest or a signature is the value it is taken over.
Each module's opening comment says what it abstracts. Conversions that a
property is about are kept: `Settings` has what a file may write (a typed number,
with or without a fraction, a truth, a text that denotes a whole number or one
with a point, another text, nothing) and what `int()`, `float()` and `str()` make
of each; `Shadow` counts in thousandths, cuts the bounds of whole numbers and
rounds real draws to a cent. They are asked questions:
a state is one question with its inputs, and an invariant compares the answer
with a definition that is written differently from the code (the difference of
two sets of people against the SQL legs; a step-up test against adjusted
p-values; what an attentive reader could compute against what is withheld).
`Differences`, `Releases`, `Answers`, `Policies`, `Shadows` and `Proposals` take
what they ask about (tables, cohorts, events, cells, questions, bounds, files,
environments, hosts, definitions, requests, bands) as constants, so that a
theorem can be about all of them; `MCAlgorithms` gives small ones, and with
`MCBoundary` asks the other modules.

## Runs

| run | question | instance |
|---|---|---|
| `session` | do two releases ever conflict, has every request its rows, is work paid for before it is done, does a restart ever refund, does the session implement the abstract ledger, is the lock always given back | 1 analyst, 2 threads, 3 queries (a plain one, a model that is its pair across views and has an optional role, a pair of totals), budget 3, every fault, log of 4 rows, 1 crash, fair handlers |
| `session_users` | is what was released in the log, does a restart rebuild the live spend | 2 analysts, one with the startup record's login, 2 threads, budget 2, unstorable error rows, 1 crash |
| `audit_log` | verification, acknowledged rows, anchors, copies | 2 servers, every step of append failing, 3 rows, 4 insertions, 1 crash, 1 restore |
| `audit_threads` | no false alarm, the lock is given back | 1 server, 2 threads, also a reader of the WAL, 1 crash |
| `checker` | verdicts of another table, late answers, processes left behind, versions; does the pipe come free | 2 requests at once, 2 versions, 2 starts, 2 tables of any size, 1 line out of turn, 1 half line or 1 question not taken, any deaths, fair requests |
| `web` | sessions shared and kept, locks and abandoned tasks given back, who is refused and for whose waste, what can stop the pool | 3 users, 3 requests of every kind, a store for 2, 2 threads, caps 1 and 2, 1 restored user |
| `web_stall` | does one user's stream let other users' queries through | violated; 2 users, 1 thread, fair requests |
| `front_door` | who is let in, charged and refused in every posture; what the limiters allow over time | 3 logins, allowlists `{}` and `{a, b}`, capacities 2 and 1, 3 requests, 2 ticks |
| `plan` | does the selection ledger balance and bound what callers learn; is a record's account of the order true | 2 plans, 1 bit, 2 runs, 1 foreign row, 1 restart |
| `analyst` | does the loop end, is every unit and call accounted for, does a dossier assert only what was found | 3 steps, budget 3, costs up to 2, 1 retry of each sort |
| `zero_total` | does an answer withhold every cell whose total is zero | violated; the instance of `algorithms` |
| `algorithms` | the pure modules against reference definitions | 10 subjects; cohorts over 3 rows with NULLs, tables of up to 6 cells, every dial at each side of its bounds, small studies and records |

A property such as `NothingLost` is a conjunction of named parts; each part is
stated with a comment in its module. `Consistent` of the first three components
is the inductive invariant of the proofs, checked by TLC as well.

**Bounds.** A conflict needs two releases; a wrong restart needs rows before
it, and a request after it: `MaxRows = 4` holds the policy row of the first
process, a release, the policy row of the second and the conflicting request.
`Budget = 3` is the smallest at which a two-role model fits and does not fit.
The history is as long as the budget, the tightest the configuration allows.
In `AuditLog`, three rows are a marked row, an unmarked one and one that
chains to it; a second insertion number per row leaves room for a retry.
In `ExternalChecker`, two tables on two threads give every race of one exchange
with another's `close`; longer sequences are the proofs' part. In `WebProcess`,
three users and a store for two are the least that evict; three requests are a
holder, a waiter and an arrival that evicts one of them; two threads leave one
for a probe, and both can be taken. In `FrontDoor`, a bucket of two and a clock
of two ticks are the least in which a backward refill can be told from a missing
one; it takes a fourth request to fall into a bucket that was swept too early
for somebody who waits, and that case is the proof's. In `LockedPlan`, one
foreign row with a stage's own text is enough to steal its witness, and two runs to cite the first's. In `Algorithms`, three rows hold
two cohorts that share a donor, differ by one and lack a value; six cells are
the least grid with two margins. `Symmetry` is used for threads, users or logins
where no run's property is a liveness one.
`CHECK_DEADLOCK FALSE`: bounded systems stop when their log, requests or steps
are used up, and a question of `Algorithms` is asked once.

**Fairness.** `FairSpec` of `GatewaySession` and `AuditLog` assumes of each
thread that a handler that has begun takes its next step (weak fairness of
`Step(t)`): the code has no wait inside a handler but on the locks, and the
operating system schedules threads. Nothing is assumed of requests arriving, of
a lock being free or of crashes. In `ExternalChecker`, too, only the steps of a
request in flight are fair: a wait for the lock and a wait for the first byte of
an answer have time limits (`GiveUp`, `Timeout`); a wait for the rest of a line
has none (`ReadEnd` is enabled only when the process is gone), nor has a wait for
the rest of a question to be taken (`Fill`). These two are the exceptions that
`PipeComesFree` names. Of the checker nothing is assumed but what it means that
one is not deaf: it takes what is written to it. In `WebProcess`, `FairSpec` assumes the same of each
request (`Step(r)`): a thread of the pool that is free takes some queued task,
and a task on a thread goes on. In `AnalystLoop`, the loop is fair because each
of its turns is a call with a timeout (`LLMConfig.timeout`), a call of the
gateway, or straight-line code; what the reply says is never assumed, and a
reader may leave at any event.

## Proofs

Each theorem holds for any value of the constants that satisfies the module's
named assumptions; TLC evaluates those assumptions in the runs. Every safety
property and every action property of the stateful modules but
`OnlyStreamsStall` is stated by a theorem, the refinement of `ReleaseLedger`
among them; and so are the two properties of `algorithms` that everything the
sessions abstract rests on, `DifferencingSound` and `ReleaseSafe`.

**GatewaySessionProofs**, for any users, threads, queries, bounds on donors,
threshold, budget, faults and any number of crashes. `LineageCorrect` and
`TotalsCorrect`: two releases inside the window conflict in neither layer.
`LineageSafe` is not inductive: nothing in it says that memory remembers the
first release when the second is decided. `SessionInv` adds that the active
request holds the lock, that what it holds it has paid for, that the rows inside
the window are pairwise apart, that the replayed part of the log is contained in
the auditor's memory, and that a request that may still release is apart from
every row. The history is bounded, so it forgets; the argument is that it can
only forget once the spend has passed `MaxHistory`, and then
`Budget <= MaxHistory` (`config.py:414`, an assumption of the module) leaves
nothing to compare. `ReleasesLogged`: a release is in the log with all a restart
needs. `SessionConsistent`: both invariants, at every step.

The second half is about what is paid and given, and its invariant is
`LedgerInv`. `OneRowAnswers` needs the rows written at each point of `handle`;
`EverythingPaid` that a model's remaining roles were reserved when it passed the
gates (`RolesReserved`) and that the lineage is no larger than what was spent
before the request (`LineagePaid`). `ReplayCorrect` (on the assumption that no
append raises after its INSERT was committed) and `NoRefunds` (with every fault)
compare a session in memory with the sum over the log that a restart computes:
`CostsAgree` follows that sum turn by turn through a replay, and through a
request it compares the log with the spend *before* the request, which is what
the log still says. `LedgerImplemented`: every step is one of `ReleaseLedger`, or
none. What the ledger calls a release is the answer to the caller, so the proof
needs that nothing was written for that analyst since the row (`ReturnsLatest`),
and the ledger's budget needs `ReleasesPaid`: no more releases on record than
units spent.

**AuditLogProofs**, for any processes, threads, faults and any number of crashes
and restores: `LogVerifies`, `NoFalseAlarms`, `AcknowledgedSurvive`,
`AnchorKept`, `FileIsCopy`, `AuditConsistent`. `VerifiesOnceMarked` is not
inductive: a commit is safe only because the head that append read under its
lock is still the head, and because no other process serves the database.
`AuditInv` says so (`OneServer`, `Serialised`, `InFlight`), that chains grow in
the order of insertion (`ChainsSound`), and where the mark can be relative to
the rows (`Marked`, `Acknowledged`). An anchor vouches for the rows before it
because any two chains that ever exist (the rows, the copy, what each process
sees, what was published) agree up to a MAC they share: that is `Anchored`.
`CopiedOut` adds to `CopyComplete` the row that an append in flight has
checkpointed; the theorem assumes that no reader holds the WAL open, which the
run of `CopyComplete` leaves out too and `audit_threads` does not.

**VettingProofs**, of `Differences`: `DifferencesSound`, for any views, cohorts,
events, filters, thresholds and marginals of finitely many rows, values missing
or not. The cheap leg sums, column by column, how many people have each value
that one cohort selects and the other does not: whoever is apart is apart in
some column, so the people apart are a union of sets that the sum counts
(`CheapBound`, by `SumCoversUnion`). The exact leg counts a part of the people
apart (`ExactLegBounded`), and all of them if no value is missing
(`ExactLegOfWhole`), so whichever leg decides, what is close is denied
(`CloseDenied`). Of nested cohorts the totals differ level by level by at least
the people who are new there (`TotalsOfNested`). Across views, whoever is not in
exactly one of the two cohorts contributes the same to both totals
(`ViewsDenied`).

Of `Releases`: `ReleasesSafe`, for any tables with finitely many cells, any
bounds, and another vetter that withholds or denies as it likes. Cells are
strictly ordered by released count and public key (`CellsOrdered`), so the cell
given up and the order of the rows are determined (`SacrificeIsFirst`,
`FinalizedRows`). A pass that leaves a lone withheld cell somewhere gives up
another cell, so as many passes as there are cells reach a set that one more
does not change (`PassesSettle`), and such a set leaves no total with a lone
cell (`PassProtects`). Two tables that rounding makes alike have the same orders
(`OrdersAlike`), and each step of a release looks at nothing but these
(`ApplyAlike`). The assumption on the other vetter is that a medium finding of
it is suppressable, as the only one is (`external_checker.py:419`).

Of `Answers`: `AnswersAreSound`, for any table of finitely many rows, any
question of the declared form and any bounds with a threshold of one at least
(`_validate` starts no process with less). A total is taken over rows, a
checker is given one number per donor: that both are of the same people and add
up to the same is `SumByOwner` (a sum over a set is the sum over its owners of
their parts) at the engine's fold (`ContributionsAdd`, `RowsAreOne`). The
engine's witnesses are shares rounded up (`PercentBounds`), so a cell that
passed the rules has no contributor above the bound (`DominanceBounds`,
`TotalIsNobodys`). A total of zero has no share, so there the bound is of the
magnitudes, and the witness is missing, hence the cell withheld, only if they add
up to nothing (`NothingAddsUp`). A correlation that is left when one person is
taken away is one the engine could compute (`CorrelationIsNobodys`).
`RunIsFrame` shows that what the engine answers with is a frame that
`ReleasesSafe` is about, so the two theorems compose.

Of `Policies`: `PoliciesSound`, for any configuration file and environment, the
file writing anything to any dial and the environment any text, and for any
endpoint, allowlist, number of retries and replies. The value of a dial is the
first that is given (`ResolvedDial`), cast to the dial's type; what was cast is
what was written (`WrittenIsCast`), but for the fraction of a typed number on a
dial of whole numbers, which `int()` cuts off: the property says that this is the
one exception and how far it goes (`Enforces`, and the observation below). A dial
of numbers has a number after a start (`DialsAreNumbers`). The floors then bound what the rules let pass
(`FloorsReach`). For the response buckets, works that are answered at one time
are those with one quotient by the quantum, which is an interval of a quantum's
length (`BucketOf`); the ceiling is a whole number of quanta, so none is cut
short by it (`AnswersTellBuckets`). A call of the model reaches the host that was
named first and no other, because every attempt goes to the URL that was checked
and a redirect is an error (`FirstNamed`, `CallInside`).

Of `Shadows`: `ShadowsSound`, for any definition of finitely many columns and
whatever is wanted of its shadow. A table has no fewer rows than a column has
levels (`RowsForLevels`), a key one owner (`OneOwner`), and each way a column is
drawn is one the verification permits (`DrawnIsPermitted`). Of a number this
needs more than its bounds: what is drawn is cut or rounded, and compared with
the bounds as they were written, so `SelfConsistent` asks for bounds no finer than
the draws (`Grain`), and between such bounds nothing is drawn outside
(`DrawnOfWhole`). Stating it for every definition showed what the small studies
had taken for granted: bands leave nothing to chance only if their edges are the
least and the greatest of the rule's edges of any kind, if every derivation is
so, and if they follow each other in steps of what is drawn (`Tile`,
`BandsCover`: a real draw between 19 and 20 is in no band); and a key that is a
measure fails its verification as one of an integer kind does (`SelfConsistent`).

Of `Proposals`: `ProposalsSound`, for any definition with finitely many measures
that loads and any query, model, list of shared quantities, request in phrases
and bands of ages. What `SpecsSound` says of an accepted query rests on the
checks a view passes when it loads (`ViewOfLoaded`); a filter on an internal
column is an edge its rule declares (`FiltersUseEdges`), so values between the
same edges go through alike (`BandsStayWhole`). A model's terms, filters and
response pass the checks of a query one by one (`OverAccepted`, `SuccessFits`).
What is named between the first keyword and a filter is in the clause the gate
reads (`InClause`). An age has exactly one band (`OneBand`), and the filters for
a bound keep the union of the bands beyond it (`FromKeeps`, `UpToKeeps`).
Stating it for every definition showed three things the small studies had taken
for granted: values are told apart only by the edges a rule declares, which need
not be those of its public bands; a model's response may have been named among
the breakdowns, and is then a response and no term; and the success query of a
binomial model is accepted only if no view has the response as an internal
column with a rule (`Responsible`, and the observation below).

**VettingProofs**, of `ExternalChecker`, for any requests, versions, starts,
tables and lines out of turn: `CheckerConsistent`, `OwnVerdicts`, `QuietExchanges`,
`NoOrphanProcess`, `VersionStands`. `QuietPipe` is not inductive: a question
finds an empty pipe because the process in service was quiet when the exchange
began, and it was so because the previous exchange either read the one answer to
its one question or closed. `PipeOwned` counts questions and answers along an
exchange; `Exchange` says that whoever is between the lock and the answer holds
the lock, and that a `close` from outside can only take its process out of
service, never exchange it for another.

**LockedPlanProofs**, for any plans, thresholds, budget and any number of runs:
`LedgerIsSound`, `PrecommittedIsSound`, `EvidenceIsSound`. The bound on what
callers learn holds because of an account that closes only between a charge and
its row (`Accounted`: the charge of the stage in hand is what a raise would
lose). A label and a citation are about a row the recorder finds by its text.
`RowsOfRun` says which rows a run wrote: one per stage at most, in the order of
the stages, with the question of the stage and its outcome, or an error. The
proof then follows the recorder's cursor: while every stage before was skipped
or has its row, the cursor has not passed the stage's own row.

**AnalystLoopProofs**, for any number of steps, budget, costs, retries and any
replies: `DossierStands` (what a dossier asserts was found, and something was
looked for), `WorkIsAccounted` and its part `CallsStayBounded`. `LoopInv` adds
what each phase knows of the steps and of the action in hand; `CallsInv` counts
a turn's attempts separately from those of the turns before it; `WorkInv` says
that a step in preparation has room, so that what is settled stays within the
limits.

**WebProcessProofs**, for any users, requests, store, pool and caps:
`NothingIsLost` and `ArrivalsAreFair`. That two requests of one user share a
session needs two facts `NothingLost` does not state: a session number belongs
to one user, and a request that goes on has the session the store has unless
that was dropped in use (`Shared`). Both rest on a number being fresh when it is
given, so `Numbered` bounds the sessions made by the users restored and the
requests served. `AbandonedRunning` makes the pools what a refusal at the door
is about. Who makes room is a question about the order of the store: `StoreInv`
says that it holds each user once, no more users than its cap, and exactly those
who have a session.

**FrontDoorProofs**, for any logins, allowlists, keys, capacities, requests and
ticks. `LimitersAreSound` rests on an account per key and stretch of time
(`Books`): what was granted in the stretch, with what the bucket still holds, is
at most a bucket and what came back. It survives a clock that goes backwards,
because a refill then takes back what an earlier one gave. When a bucket is
dropped the account must hold for a fresh one at every time a caller may still
come with: now and later for the general limiter, and also each time a waiting
verification has read (`VerifyTimes`). `IdentityIsSound` and `RefusalsAreCheap`
are decided by the posture alone.

The attempt found `RateBound` false as it had been stated, which the run's three
requests could not show: `forgiven` held the keys whose bucket was not full when
the sweep dropped it, but a bucket that is full for the sweep need not have been
full at the earlier time that another verification of the same user still waits
with, and it will find a fresh one. The property now excuses those keys as well,
and the observation below says what the code does.

**RunningTotalsProofs** has what sums need. The prover has no induction over
data; that a recursive function is defined, and what it computes, is proved from
a least counterexample instead: every set of natural numbers has a least member
(`LeastNumber`, from the well-foundedness of finite sets), so the first place
where a claim fails is one after a place where it holds. `SmallestSet` in
`VettingProofs` does the same for claims about finite sets, which covers the
sums of the pure modules (a fold is defined, is unique and adds: `SumsExist`,
`SumsUnique`, `SumOfSome`), and `IteratesExist` the passes of suppression.

**Only model-checked.** Liveness (`LockReleased`, `AppendEnds`, `PipeComesFree`,
`LoopEnds`) rests on fairness, and `OnlyStreamsStall` and `CrossUserParallel`
speak of what is ENABLED or of what eventually happens: neither is in the
prover's reach. Two properties of `algorithms` are checked on bounded inputs:
`ModelsSound` and `RecordsSound` compare operators with reference definitions
over the designs, studies, words and records that `MCAlgorithms` and `MCBoundary`
enumerate. They are statements about those (which numbers a model's cells give
back, what a proposal in a handful of words becomes, what a bundle verifies), or
about folds over cells and rows whose induction the prover does not have.

## Findings

`web_stall`: the comment at `app.py:513-514` says that requests of different
users run in parallel. The stream holds its session's lock between items
(`app.py:604`) while each item needs a pool thread of its own; as many further
requests of the same user as there are threads take every thread to wait for
that lock, and then neither the stream nor anybody else goes on. The run shows
it with one thread; the pool is as large as the web server makes it, and as many
requests are enough. `OnlyStreamsStall` in the run `web` shows that this is the
only way the process stops.

`zero_total`: the comment at `engine.py:200-202` says of a cell's dominance that
"a zero cell total makes the second term NULL -> +inf -> suppress". The second
term is NULL then, but `GREATEST` skips a NULL, so the first term decides alone,
and +inf is only filled in where both are NULL, nobody having given anything.
Amounts that cancel (+2 and -2 at the default bound of one half, or ten people of
whom each gives a tenth of the magnitudes) leave with a total of zero.
`NobodysNumber` therefore says what does hold of such a cell: somebody gave
something, and nobody's part is more of the magnitudes than the bound. Where the
total is not zero, nobody's part is more of the total.

## Observations

Met while modelling; no run is about them, or the model follows the code.

*Session and log.* The spend passes the budget when the refusal of a spent
budget cannot be recorded (`disclosure.py:891` says otherwise); a spent budget
only refuses. `append` commits before it checkpoints and marks, so a raise after
the commit gives two rows for one request (`docs/specification.md:139`); a
restart then charges twice and never refunds (`ReplayNeverRefunds`). A crash between
the first commit and the first mark leaves a log no later start accepts
(`audit.py:519`). A reader makes the checkpoint of `append` partial, and the
file lacks the row until the next one (`audit.py:348`). `_read_line` limits
`select` but not the `readline` after it (`external_checker.py:293`), and
`_ask` limits neither `write` nor `flush` (`external_checker.py:341-342`): a
checker that stops in a line, or that stops reading before a question larger than
the pipe is through, keeps the lock for ever, and every other table is denied
after `lock_wait`. Its errors go to a pipe that is read only after it is dead
(`external_checker.py:278`, `:298`), so a checker that reports enough of them stops by itself. The
reported version is compared and stored after the lock is given back, so a
release may name the version of another exchange (`external_checker.py:353`).
`verify_limiter` is keyed on the header's login (`app.py:687`). "A dropped bucket
resets to full, which is the correct state for an idle key anyway"
(`rate.py:25-26`) is so at the time of the sweep, and not for a thread that read
the clock earlier and still waits for the lock: it may find a fresh bucket where
the old one was not yet full (`VerifyTimes` in `FrontDoorProofs`).

*Plans and records.* An error row carries no selection bits, so a restart
refunds what the caller learnt; `refunded` counts it and `DisclosedBound` allows
for it. A stage refused without a row may take a later denied row of the same
question; labels and citations are therefore stated for stages whose
predecessors have rows. A second run of one plan cites the first's rows. A
literal sub-question bypasses the declared spec while `StageResult.spec` reports
the declared one. `verify_bundle_dir` does not compare the signed digests of the
certificate and the manifests with the files (`attestation.py:26-34`,
`vrr_bundle.py:566-568` say they are covered); `HonestBundleVerifies` and
`ReadIsSigned` state what is compared. A label added after a replay makes the
certificate stale.

*Analyst and prose.* Exceptions that are no `LLMError` escape `iter_run`
(`inside_analyst.py:543-544`). A figure's trailing zeros after the point are not
taken as digits, so "48.0" passes for 48.3.

*Web.* The cap at start-up drops the quietest session even if sessions without
state stay (`session.py:288-294`). The session of a first request in flight can
be evicted. Refusals of the analyst's own routes are not padded
(`app.py:720-739`, `timing.py:250`).

*Settings, planner, specifications.* A typed number in `config.yaml` for a dial of
whole numbers is cut by `int()` without a word: `min_cell_size: 5.9` starts and
enforces 5, `round_base: 9.9` enforces 9, and `true` is 1. As a text in the
environment 5.9 is refused, although the casts are shared "so the two routes
cannot disagree" (`config.py:302-303`, `:324`). A YAML key without a value for
`checker_cmd` becomes the text "None". An age window beyond the outermost edges
gives no filter (`planner.py:184-188`). A query without a breakdown clause is
not checked against dimensions it merely mentions. `RangeRule` admits `==`.
`_check_view` admits a response that does not suit its family, on which
`plan_aggregates` raises; so it does on a binomial response that another view
has as an internal column with a rule, because `check_filters` looks a rule up by
the column's name whatever the view (`query.py:117`). `PlansAccepted` is stated
for definitions whose responses are neither (`Responsible`).

*Engine and suppression.* The exact leg counts no donor whose row lacks a value
in a filtered column; a close pair is never released because of it
(`SmallDifferenceDenied`). The margin of a missing key level is not protected,
and with two dimensions the grand total is not a margin. Composing another
vetter can release a cell that complementary suppression withheld without it.

*Shadow data.* Draws are cut (`shadow.py:463`) or rounded (`shadow.py:465`), and
`verify_shadow` compares them with the bounds as they were written
(`shadow.py:397`): a caller's range (0.001, 0.004) draws 0.0, whole numbers
between 5.5 and 8.5 draw 5, and both builds are refused. Domains, int or bool
kinds on a key column fail only at verification; a direct identifier shown under
another name is not detected.

## Not modelled

Reasons are in `PROJECT.json` under each component. In short: the numerics of
the models, tests and distributions (`stats.py`, the fits inside `glm.py` and
its like) are floating point, and so is a share of the configuration that is no finite
number, which only the waiver could start with; SQL text, cursors and templates are wording;
digests, MACs and signatures are the values they stand for; padding to a quantum
is a fact about wall-clock time; `manifest.py` writes down the resolved policy it
is passed, and `synth.py`, `cli.py`, scripts, studies,
evaluations, red team, decks and the Alloy and Lean models are around the
program. Rows that predate the accounting column (`_rehydrate_legacy`) and the
report's checks of the anchor are left out. `AuditLog.Start` leaves out the
operator's waiver `SAFETRE_ALLOW_UNVERIFIED_REHYDRATE` (`session.py:208-219`): what is
shown of a start-up is shown of one that was not waived. `LockedPlan.Charge`
leaves out a probe that raises (`plan.py:269`): nothing is charged then and the
plan run ends.

## Plan

1. `GatewaySession`, `ReleaseLedger`, `AuditLog`, `ExternalChecker` and their
   proofs (done).
2. `WebProcess` with its proofs, `FrontDoor`, `RateLimiter`, `LockedPlan`, `TraceRecorder`,
   `AnalystLoop` with its proofs (done).
3. The pure modules (done).
4. Proofs of every safety and action property of the stateful modules, of the
   refinement of `ReleaseLedger` and of sums (done).
5. Proofs about the operators of `Cohorts` and `Suppression`, for tables of any
   size (done).
6. Questions to `QueryEngine`, `Settings` and `Shadow` as modules of their own,
   and their theorems (done).
7. Questions to `QuerySpecs` and `RequestGates` as a module of their own, and
   their theorem (done).
8. Proofs left: `ResearchRecords` and the fits of `ModelPlans`, whose properties
   are about the records and designs of `MCAlgorithms` until their questions are
   modules too.
