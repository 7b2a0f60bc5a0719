------------------------------ MODULE Policies ------------------------------
(***************************************************************************)
(* What the process enforces, for every configuration file, environment and *)
(* endpoint: a state is one start with what it was given, or one client of  *)
(* the language model; a property says what must come of it.                *)
(***************************************************************************)
EXTENDS Settings, Differences

CONSTANTS
    Given,              \* what a file or an environment may say
    Slowest,            \* the highest ceiling whose answers are compared
    Hosts, AllowLists,  \* hosts, and lists of those that may be called
    Retries             \* how often a call may be repeated

\* A file gives anything to any dial, an environment texts.
IsGiven(g) == DOMAIN g \subseteq DOMAIN Defaults /\ \A dial \in DOMAIN g : g[dial] \in Writings
OnlyTexts(g) == \A dial \in DOMAIN g : g[dial][1] \in {"whole", "point", "text", "blank"}

ASSUME PoliciesAssumption ==
    /\ Missing \notin Int
    /\ \A g \in Given : IsGiven(g)
    /\ Slowest \in Nat
    /\ Retries \subseteq Int

-----------------------------------------------------------------------------

AskSettings ==
    \E file \in Given, env \in {g \in Given : OnlyTexts(g)}, waived \in BOOLEAN :
        LET accepted == Starts(file, env, waived) IN
        asked' = [about |-> "settings", file |-> file, env |-> env, waived |-> waived, starts |-> accepted,
                  policy |-> IF accepted THEN Resolved(file, env) ELSE Defaults]

\* p is what was written for a dial.  The one exception: of a number that the
\* file gives to a dial of whole numbers, the fraction is cut off.
Enforces(dial, p, g) ==
    IF dial \in TextDials THEN g[1] = "text" => p = g[2]
    ELSE LET enforced == IF dial \in ShareDials THEN p ELSE 100 * p  meant == Hundredths(g) IN
         /\ g[1] \in {"number", "truth", "whole", "point"}
         /\ \/ enforced = meant
            \/ /\ dial \notin ShareDials /\ g[1] = "number"
               /\ IF meant >= 0 THEN enforced \in 0..meant /\ meant < enforced + 100
                  ELSE -enforced \in 0..(-meant) /\ enforced < meant + 100

\* A process that starts enforces what was written: in the environment, else in
\* the file, else the default, and nothing that was written and cannot be read
\* is passed over; but a fraction that the file gives to a dial of whole numbers
\* is lost (load_policy_config).
SetIsEnforced ==
    Is("settings") /\ asked.starts =>
        \A dial \in DOMAIN Defaults :
            LET p == asked.policy[dial]  told == dial \in EnvGiven(asked.env) IN
            /\ told => Enforces(dial, p, asked.env[dial])
            /\ told /\ dial \notin TextDials => asked.env[dial][1] \in {"whole", "point"}
            /\ ~told /\ dial \in DOMAIN asked.file => Enforces(dial, p, asked.file[dial])
            /\ ~told /\ dial \notin DOMAIN asked.file => p = Defaults[dial] \/ dial = "vetter"

\* A checker that was given is consulted, unless a vetter was named.
CheckerUsed ==
    Is("settings") /\ asked.starts =>
        \/ ~HasCommand(asked.policy) \/ asked.policy.vetter = "standin+external"
        \/ "vetter" \in DOMAIN asked.file \cup EnvGiven(asked.env)

\* Whatever the settings, a process that starts without the waiver withholds
\* every cell of fewer than five people, and every cell of which one person is
\* more than half, squares more than four fifths (the floors and the fixed
\* default reach the rules that withhold cells).
FloorsReachCells ==
    Is("settings") /\ asked.starts /\ ~asked.waived =>
        \A n \in {2, 4, 5}, share \in {50, 51, 80, 81}, class \in {"magnitude", "moment2"} :
            LET cell == [n |-> n, donors |-> n, share |-> share, influence |-> 0, finite |-> TRUE]
                frame == [cells |-> [k \in {<<1>>} |-> cell], columns |-> {"n", "n_donors", "value", "dominance"},
                          domains |-> <<Missing>>, known |-> TRUE, class |-> class]
            IN  StandinVetter(frame, VettingParameters(asked.policy)).suppress = {} =>
                    n >= 5 /\ share <= IF class = "moment2" THEN 80 ELSE 50

\* Whatever the settings, an answer tells of the work behind it only its bucket:
\* each time of answering is shared by a whole quantum of works, and by all
\* works that the ceiling cuts off (sleep_to_boundary, ResponseTimeBoundary).
BucketsEven ==
    Is("settings") /\ asked.starts /\ asked.policy.response_quantum_ms > 0
        /\ asked.policy.response_ceiling_ms <= Slowest =>
        LET p == asked.policy  works == 0..(p.response_ceiling_ms + 2 * p.response_quantum_ms)
            answered(w) == AnsweredAt(p, w)
        IN  \A w \in works :
              /\ answered(w) > w \/ w >= p.response_ceiling_ms
              /\ w < p.response_ceiling_ms =>
                    Cardinality({x \in works : answered(x) = answered(w)}) = p.response_quantum_ms
              /\ w >= p.response_ceiling_ms => answered(w) = answered(p.response_ceiling_ms)

\* A client of an endpoint that was named in some of the four ways, and one call.
Namings == {<<explicit, own, other, DefaultHost>> : explicit, own, other \in {Unnamed} \cup Hosts}
Call(ways, scheme, allowed, remote, retries, replies) ==
    LET url == [scheme |-> scheme, host |-> FirstGiven(ways)]  connects == Connects(url, allowed, remote) IN
    [about |-> "client", ways |-> ways, allowed |-> allowed, remote |-> remote, replies |-> replies,
     reached |-> IF connects THEN Reached(url.host, retries, replies) ELSE {},
     completes |-> connects /\ Completes(retries, replies)]

AskClient ==
    \E ways \in Namings, scheme \in {"http", "file"}, allowed \in AllowLists, remote \in BOOLEAN, retries \in Retries :
        \E replies \in [1..Tries(retries) -> Replies(Hosts)] :
            asked' = Call(ways, scheme, allowed, remote, retries, replies)

\* A call, with its prompt and its key, reaches the host that was named and no
\* other, whatever it replies and however often it is asked; one that may not be
\* called is not replaced by the next choice; and a completion is an answer that
\* only refusals to be asked again came before (LLMConfig, LLMClient.complete).
CallStaysInside ==
    Is("client") =>
        /\ asked.remote \/ asked.reached \subseteq asked.allowed
        /\ \A host \in asked.reached : \E i \in 1..4 :
              host = asked.ways[i] /\ host # Unnamed /\ \A k \in 1..(i - 1) : asked.ways[k] = Unnamed
        /\ asked.completes => \E i \in DOMAIN asked.replies :
              asked.replies[i][1] = "answer" /\ \A k \in 1..(i - 1) : asked.replies[k][1] = "busy"

\* The process is what it was set to be.
PolicySound == SetIsEnforced /\ CheckerUsed /\ FloorsReachCells /\ BucketsEven /\ CallStaysInside

AskPolicy == AskSettings \/ AskClient
Policies == Unasked /\ [][AskPolicy]_asked

=============================================================================
