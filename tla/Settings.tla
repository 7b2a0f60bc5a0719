------------------------------- MODULE Settings -------------------------------
(***************************************************************************)
(* What the process is set to, before the first request: the policy from    *)
(* its defaults, the configuration file and the environment; what each part *)
(* of the gateway is given of it; and where the language model is called.   *)
(*                                                                         *)
(* What is written for a dial is a pair of its sort and its value: the file *)
(* has typed numbers, truths and texts, the environment only texts, and a   *)
(* text may denote a whole number, a number with a point, or neither.       *)
(* Numbers that may have a fraction are in hundredths, shares are therefore *)
(* percentages in the policy, and a dial that may be unset is then Missing. *)
(***************************************************************************)
EXTENDS Suppression

Number(hundredths) == <<"number", hundredths>>
YesNo(b) == <<"truth", b>>
WholeText(n) == <<"whole", n>>
PointText(hundredths) == <<"point", hundredths>>
Text(s) == <<"text", s>>
Blank == <<"blank">>

\* What a file may say to a dial; a text that denotes a number is not a Text.
Writings ==
    {Blank} \cup ({"number", "whole", "point"} \X Int) \cup ({"truth"} \X BOOLEAN) \cup ({"text"} \X STRING)

\* The number, in hundredths, that was written.
Hundredths(g) ==
    CASE g[1] \in {"number", "point"} -> g[2]
      [] g[1] = "whole" -> 100 * g[2]
      [] OTHER -> IF g[2] THEN 100 ELSE 0

-----------------------------------------------------------------------------
(* The policy                                                               *)

Defaults ==
    [min_cell_size |-> 10, max_output_rows |-> 100, query_budget |-> 20, differencing_delta |-> 10,
     selection_budget_bits |-> 4, session_window_hours |-> 24, dom_threshold |-> 50,
     influence_threshold |-> 50, round_base |-> 5, moment2_dom_threshold |-> Missing,
     response_quantum_ms |-> 50, response_ceiling_ms |-> 5000, vetter |-> "standin", checker_cmd |-> ""]
TextDials == {"vetter", "checker_cmd"}
ShareDials == {"dom_threshold", "influence_threshold", "moment2_dom_threshold"}
Vetters == {"standin", "standin+external"}

\* str() reads everything, float() every number, and int() no text with a point.
Casts(dial, g) ==
    \/ dial \in TextDials
    \/ g[1] \in {"number", "truth", "whole"}
    \/ dial \in ShareDials /\ g[1] = "point"

\* int() of a typed number cuts its fraction off.
Truncated(hundredths) == IF hundredths >= 0 THEN hundredths \div 100 ELSE -((-hundredths) \div 100)

\* A key of the file without a value is the text "None", a number some text.
Cast(dial, g) ==
    CASE dial \in TextDials /\ g[1] = "text" -> g[2]
      [] dial \in TextDials /\ g[1] # "text" -> IF g = Blank THEN "None" ELSE "other"
      [] dial \in ShareDials -> Hundredths(g)
      [] OTHER -> Truncated(Hundredths(g))

\* _yaml_values.
FileValues(file) == [dial \in DOMAIN file |-> Cast(dial, file[dial])]

\* The environment wins, where it says anything.
EnvGiven(env) == {dial \in DOMAIN env : env[dial] \notin {Blank, Text("")}}

\* What one says, laid over what another does (TLC's @@, which the provers do
\* not read).
LaidOver(one, other) ==
    [dial \in DOMAIN one \cup DOMAIN other |-> IF dial \in DOMAIN one THEN one[dial] ELSE other[dial]]

EnvValues(env) == [dial \in EnvGiven(env) |-> Cast(dial, env[dial])]

\* Mutant: the file wins over the environment.
ValuesFileFirst(file, env) == LaidOver(FileValues(file), EnvValues(env))

ReadValues(file, env) == LaidOver(EnvValues(env), FileValues(file))

HasCommand(p) == p.checker_cmd \notin {"", " "}

\* A checker that has a command is used unless a vetter was named.
ImpliedVetter(values) ==
    IF "vetter" \notin DOMAIN values /\ "checker_cmd" \in DOMAIN values /\ HasCommand(values)
    THEN [dial \in {"vetter"} |-> "standin+external"] ELSE << >>

Resolved(file, env) == LaidOver(LaidOver(ReadValues(file, env), ImpliedVetter(ReadValues(file, env))), Defaults)

\* _validate: what no waiver lifts.
Coherent(p) ==
    /\ p.min_cell_size >= 1 /\ p.query_budget >= 1 /\ p.round_base >= 1
    /\ p.dom_threshold \in 1..100 /\ p.influence_threshold > 0
    /\ p.moment2_dom_threshold = Missing \/ p.moment2_dom_threshold \in 1..100
    /\ p.response_quantum_ms >= 0 /\ p.response_ceiling_ms > 0
    /\ p.response_quantum_ms > 0 => p.response_ceiling_ms % p.response_quantum_ms = 0
    /\ p.vetter \in Vetters
    /\ p.vetter = "standin+external" => HasCommand(p)

\* _FLOORS: the lineage takes 1.2 ms for each unit of the budget.
MeetsFloors(p) ==
    /\ p.min_cell_size >= 5 /\ p.round_base >= 5 /\ p.differencing_delta >= 5
    /\ p.dom_threshold \in 1..50 /\ p.influence_threshold \in 1..50
    /\ p.moment2_dom_threshold = Missing \/ p.moment2_dom_threshold \in 1..80
    /\ p.selection_budget_bits \in 0..16 /\ p.query_budget \in 1..1000
    /\ p.session_window_hours \in 1..2160 /\ p.max_output_rows \in 1..10000
    /\ p.response_quantum_ms >= 10
    /\ p.query_budget * 12 <= p.response_ceiling_ms * 10

\* load_policy_config: every text of the file is read, even one that the
\* environment overrides, and the waiver is no key of the file.
Starts(file, env, waived) ==
    /\ \A dial \in DOMAIN file : Casts(dial, file[dial])
    /\ \A dial \in EnvGiven(env) : Casts(dial, env[dial])
    /\ Coherent(Resolved(file, env))
    /\ MeetsFloors(Resolved(file, env)) \/ waived

-----------------------------------------------------------------------------
(* What it is used for                                                      *)

\* What the disclosure policy is given.
VettingParameters(p) ==
    [threshold |-> p.min_cell_size, rows |-> p.max_output_rows, dominance |-> p.dom_threshold,
     influence |-> p.influence_threshold, base |-> p.round_base, moment2 |-> p.moment2_dom_threshold]

\* sleep_to_boundary: the next boundary, also from a boundary.
SleepToBoundary(elapsed, quantum) ==
    IF quantum <= 0 THEN 0 ELSE (elapsed \div quantum + 1) * quantum - elapsed

\* ResponseTimeBoundary: when a request that would take so long is answered.
\* Work past the ceiling is refused at the ceiling, and both answers are held.
AnsweredAt(p, takes) ==
    LET elapsed == IF takes < p.response_ceiling_ms THEN takes ELSE p.response_ceiling_ms
    IN  elapsed + SleepToBoundary(elapsed, p.response_quantum_ms)

-----------------------------------------------------------------------------
(* The language model                                                       *)

Unnamed == ""
DefaultHost == "127.0.0.1"

\* A setting of the endpoint, from the argument, its variable, the variable of
\* other clients and the default, the first that is there.
FirstGiven(choices) == choices[Min({i \in DOMAIN choices : choices[i] # Unnamed})]

\* LLMConfig.validate.  A URL is its scheme and its host.
Connects(url, allowed, remote) ==
    /\ url.scheme \in {"http", "https"} /\ url.host # Unnamed
    /\ remote \/ url.host \in allowed

\* A reply is a pair: "answer" (with a completion), "malformed" (no JSON, or not
\* of the schema), "busy" (a status that is retried), "failed" (any other, or no
\* reply in time), or "redirect" with the host it points at.
Replies(hosts) == ({"answer", "malformed", "busy", "failed"} \X {Unnamed}) \cup ({"redirect"} \X hosts)

\* The requests of one attempt: a redirect is an error, not another request.
Opened(host, reply) == <<host>>

\* LLMClient.complete: the attempts that are made, the i-th replied to by
\* replies[i], the hosts they reach, and whether the caller gets an answer.
Tries(retries) == (IF retries < 0 THEN 0 ELSE retries) + 1
Attempts(retries, replies) == {i \in 1..Tries(retries) : \A k \in 1..(i - 1) : replies[k][1] = "busy"}
Reached(host, retries, replies) == UNION {Range(Opened(host, replies[i])) : i \in Attempts(retries, replies)}
Completes(retries, replies) == \E i \in Attempts(retries, replies) : replies[i][1] = "answer"

=============================================================================
