----------------------------- MODULE FrontDoor -----------------------------
(***************************************************************************)
(* The door of the web application: the stack of middleware a request      *)
(* meets from the outside in, who it is taken for on the way, and the two  *)
(* rate limiters it is charged to.                                         *)
(*                                                                         *)
(* A posture is what the environment sets, and does not change.  The       *)
(* general limiter runs on the event loop, in one step.  That of audit     *)
(* verification runs in pool threads: each reads the clock, and then waits *)
(* for the limiter's lock.                                                 *)
(***************************************************************************)
EXTENDS Integers, Sequences, FiniteSets, RunningTotals

CONSTANTS
    Logins,             \* identities a header may name
    Allowlists,         \* the allowlists tried: sets of logins
    Capacity, VerifyCapacity, Window, MaxKeys,
    MaxRequests,        \* bound: requests that reach a limiter in a deployment
    FewRequests,        \* bound: and in any other posture
    MaxTime             \* bound: ticks of the clock

ASSUME LimiterAssumption ==
    /\ {Capacity, VerifyCapacity, Window, MaxKeys, MaxTime} \subseteq Nat \ {0}
    /\ MaxRequests \in Nat /\ FewRequests \in 0..MaxRequests

Limiter == INSTANCE RateLimiter
Verifier == INSTANCE RateLimiter WITH Capacity <- VerifyCapacity

-----------------------------------------------------------------------------
(***************************************************************************)
(* Postures and requests.                                                  *)
(***************************************************************************)
Malformed == {"malformed"}  \* networks that do not parse
Off == {"off"}              \* SAFETRE_RESTRICTED_CHANNEL is false
NoPeer == "none"            \* ASGI reports no address
Peers == {"loopback", "outside", "testclient", NoPeer}

Postures ==
    [nets : (SUBSET {"loopback", "outside"}) \cup {Malformed, Off},
     testclient : BOOLEAN, require : BOOLEAN, secret : BOOLEAN, forward : BOOLEAN,
     allowlist : Allowlists]

\* The two postures the documentation sets up: the demonstration, and production
\* behind a local proxy.
Deployments ==
    {p \in Postures : /\ p.nets = {"loopback"} /\ ~p.testclient /\ ~p.forward
                      /\ p.secret = p.require /\ p.require = (p.allowlist # {})}

\* A login header is repeated, blank, or names two identities, or is as it should.
Blank == "blank"
Comma == "comma"

\* What a header may name is none of these, nor what says that it names nobody.
ASSUME LoginAssumption ==
    /\ Logins \cap {Blank, Comma, "none", "ambiguous"} = {}
    /\ Allowlists \subseteq SUBSET Logins
Headers ==
    {<<>>, <<Blank>>, <<Comma>>} \cup {<<l>> : l \in Logins} \cup (Logins \X Logins)
        \cup ({Blank} \X Logins)

\* Two halves of a request: who it comes from, and what it asks.  Its proof is
\* whether it carries the proxy's secret; its body is small, too large and says so,
\* or too large and does not.
Callers == [peer : Peers, headers : Headers, proof : BOOLEAN]
Asks == [path : {"static", "page", "read", "verify", "query", "analysis"},
         foreign : BOOLEAN, body : {"small", "declared", "undeclared"}]

-----------------------------------------------------------------------------
(***************************************************************************)
(* channel.py.                                                             *)
(***************************************************************************)
channel_is_loopback_only(p) == p.nets = {"loopback"}

channel_allowed(p, c) ==
    \/ p.nets = Off
    \/ c.peer = "testclient" /\ p.testclient
    \/ p.nets # Malformed /\ c.peer \in p.nets

(***************************************************************************)
(* identity.py.                                                            *)
(***************************************************************************)
Anyone == "unverified"
Nobody == "anonymous"
Local == "local@dev"

_allowed(p, login) == IF p.allowlist = {} THEN ~p.require ELSE login \in p.allowlist

_secret_ok(p, c) == IF p.secret THEN c.proof ELSE ~p.require

_header_trustworthy(p, c) ==
    _secret_ok(p, c) /\ (channel_is_loopback_only(p) \/ p.forward)

\* The one login a request presents, none, or something ambiguous.
_presented_login(c) ==
    IF c.headers = <<>> THEN "none"
    ELSE IF Len(c.headers) = 1 /\ c.headers[1] \in Logins THEN c.headers[1]
    ELSE "ambiguous"

\* Mutant: the login is the key as soon as the header may be acted on.
KeyTrusting(p, c) ==
    IF _presented_login(c) \in Logins /\ _header_trustworthy(p, c)
        /\ _allowed(p, _presented_login(c))
    THEN <<"login", _presented_login(c)>> ELSE <<"peer", c.peer>>

rate_limit_key(p, c) ==
    IF /\ _presented_login(c) \in Logins
       /\ p.secret                              \* identity_is_verifiable
       /\ _header_trustworthy(p, c)
       /\ _allowed(p, _presented_login(c))
    THEN <<"login", _presented_login(c)>> ELSE <<"peer", c.peer>>

current_user(p, c) ==
    LET login == _presented_login(c)
    IN  IF login \in Logins
        THEN IF _header_trustworthy(p, c) THEN [user |-> login, allowed |-> _allowed(p, login)]
                                          ELSE [user |-> Anyone, allowed |-> FALSE]
        ELSE IF login = "ambiguous" THEN [user |-> Anyone, allowed |-> FALSE]
        ELSE IF p.require THEN [user |-> Nobody, allowed |-> FALSE]
        ELSE [user |-> Local, allowed |-> _allowed(p, Local)]

\* What the report calls blocking, and the waivers among what a posture sets.
configuration_report(p) ==
    [blocking |-> {x \in {"secret", "allowlist"} :
                      p.require /\ (IF x = "secret" THEN ~p.secret ELSE p.allowlist = {})},
     waived |-> {x \in {"testclient", "forward"} : p[x]}]

(***************************************************************************)
(* timing.py, which reads the headers itself and skips the blank ones.     *)
(***************************************************************************)

_caller(p, c) ==
    LET sole == {i \in DOMAIN c.headers :
                    \A j \in DOMAIN c.headers : c.headers[j] # Blank <=> j = i}
        named == {c.headers[i] : i \in sole} \cap Logins
    IN  IF p.secret /\ c.proof /\ \E login \in named : _allowed(p, login)
        THEN <<"login", CHOOSE login \in named : TRUE>> ELSE <<"peer", c.peer>>

-----------------------------------------------------------------------------
(***************************************************************************)
(* The stack.                                                              *)
(***************************************************************************)

\* Mutant: the bucket is asked before the channel and the site.
OrderBucketFirst ==
    <<"RequestSizeLimit", "ResponseTimeBoundary", "security_headers",
      "rate_limit", "restricted_channel", "same_site_only">>

MIDDLEWARE_ORDER ==
    <<"RequestSizeLimit", "ResponseTimeBoundary", "security_headers",
      "restricted_channel", "same_site_only", "rate_limit">>

Place(layer) == CHOOSE i \in DOMAIN MIDDLEWARE_ORDER : MIDDLEWARE_ORDER[i] = layer

\* Everything but a plain read, and the scan of the audit chain.
StateChanging(a) == a.path \in {"verify", "query", "analysis"}

\* Layers that turn a request away whatever the limiters hold.
Refuses(layer, p, c, a) ==
    \/ layer = "RequestSizeLimit" /\ a.body = "declared"
    \/ layer = "restricted_channel" /\ ~channel_allowed(p, c)
    \/ layer = "same_site_only" /\ StateChanging(a) /\ a.foreign

Refusing(p, c, a) ==
    {i \in DOMAIN MIDDLEWARE_ORDER : Refuses(MIDDLEWARE_ORDER[i], p, c, a)}

Reaches(layer, p, c, a) == \A i \in Refusing(p, c, a) : Place(layer) < i

Metered(a) == a.path # "static"
Guarded(a) == a.path \notin {"static", "page"}
Charged(p, c, a) == Metered(a) /\ Reaches("rate_limit", p, c, a)

\* The handler runs, the limiters allowing.  A body too large that does not say so
\* is found out while it runs: the answer is then 413 whatever it did.
Handled(p, c, a) ==
    /\ Refusing(p, c, a) = {}
    /\ Guarded(a) => current_user(p, c).allowed

\* _deadline_exempt: the analyst's routes skip the padding.
Padded(p, c, a) == a.path # "analysis" /\ Reaches("ResponseTimeBoundary", p, c, a)

-----------------------------------------------------------------------------
(***************************************************************************)
(* The limiters.                                                           *)
(***************************************************************************)
VARIABLES
    posture,
    now,            \* time.monotonic()
    buckets,        \* limiter._buckets
    verifies,       \* verify_limiter._buckets
    pending,        \* verifications that have not taken the lock: their number,
                    \* user, and the time read, or Unread
    asked,          \* the requests that reached a limiter so far
    granted,        \* history: limiter -> key -> time -> how often it was allowed
    forgiven        \* history: keys whose bucket a sweep dropped before it was full
                    \* at every time somebody still waits with

vars == <<posture, now, buckets, verifies, pending, asked, granted, forgiven>>

Unread == -1

\* What can arrive at the limiter: the key and user of a request that the layers
\* outside let through, and whether it asks for a verification.
Arrival(p, c, v) ==
    [key |-> rate_limit_key(p, c), verify |-> v,
     user |-> IF v THEN current_user(p, c) ELSE [user |-> Nobody, allowed |-> FALSE]]

Arrivals ==
    [p \in Postures |->
        UNION {{Arrival(p, c, v) :
                   c \in {c \in Callers :
                             Charged(p, c, [path |-> IF v THEN "verify" ELSE "query",
                                            foreign |-> FALSE, body |-> "small"])}} :
               v \in BOOLEAN}]

Keys == ({"login"} \X Logins) \cup ({"peer"} \X Peers)
Users == Logins \cup {Local}
Charging == [general |-> Keys, verify |-> Users]
Times == 1..MaxTime

Init ==
    /\ posture \in Postures
    /\ now = 1
    /\ buckets = Limiter!NoBuckets
    /\ verifies = Limiter!NoBuckets
    /\ pending = {}
    /\ asked = 0
    /\ granted = [l \in {"general", "verify"} |-> [k \in Charging[l] |-> [t \in Times |-> 0]]]
    /\ forgiven = [l \in {"general", "verify"} |-> {}]

Tick ==
    /\ now < MaxTime
    /\ now' = now + 1
    /\ UNCHANGED <<posture, buckets, verifies, pending, asked, granted, forgiven>>

Grant(l, key, time, allowed) ==
    granted' = IF allowed THEN [granted EXCEPT ![l][key][time] = @ + 1] ELSE granted

Forgive(l, dropped, full) == forgiven' = [forgiven EXCEPT ![l] = @ \cup (dropped \ full)]

\* The times that verifications of a user have read and wait with.
Waits(u) == {v.time : v \in {v \in pending : v.user = u /\ v.time # Unread}}

FreeId == CHOOSE i \in 1..MaxRequests : i \notin {v.id : v \in pending}

\* rate_limit: the general limiter, on the event loop.  A verification it allows
\* goes on to its handler.
RateLimit(a) ==
    /\ asked < IF posture \in Deployments THEN MaxRequests ELSE FewRequests
    /\ asked' = asked + 1
    /\ \E keys \in Limiter!Kept(buckets, now) :
        LET allowed == Limiter!Allowed(buckets, keys, a.key, now)
        IN  /\ buckets' = Limiter!Spend(buckets, keys, a.key, now)
            /\ Grant("general", a.key, now, allowed)
            /\ Forgive("general", DOMAIN buckets \ keys,
                       {k \in DOMAIN buckets :
                           Limiter!Refilled(buckets[k], now) = Limiter!FullBucket})
            /\ pending' = IF allowed /\ a.verify /\ a.user.allowed
                          THEN pending \cup {[id |-> FreeId, user |-> a.user.user, time |-> Unread]}
                          ELSE pending
    /\ UNCHANGED <<posture, now, verifies>>

\* verify_limiter.allow(user): the clock, and then the lock.
ReadClock(v) ==
    /\ v.time = Unread
    /\ pending' = (pending \ {v}) \cup {[v EXCEPT !.time = now]}
    /\ UNCHANGED <<posture, now, buckets, verifies, asked, granted, forgiven>>

Verify(v) ==
    /\ v.time # Unread
    /\ pending' = pending \ {v}
    /\ \E keys \in Verifier!Kept(verifies, v.time) :
        /\ verifies' = Verifier!Spend(verifies, keys, v.user, v.time)
        /\ Grant("verify", v.user, v.time, Verifier!Allowed(verifies, keys, v.user, v.time))
        /\ Forgive("verify", DOMAIN verifies \ keys,
                   {k \in DOMAIN verifies : \A time \in Waits(k) \cup {v.time} :
                       Verifier!Refilled(verifies[k], time) = Verifier!FullBucket})
    /\ UNCHANGED <<posture, now, buckets, asked>>

Next ==
    \/ Tick
    \/ \E a \in Arrivals[posture] : RateLimit(a)
    \/ \E v \in pending : ReadClock(v) \/ Verify(v)

Spec == Init /\ [][Next]_vars

-----------------------------------------------------------------------------
(***************************************************************************)
(* Properties.                                                             *)
(***************************************************************************)
TypeOK ==
    /\ posture \in Postures /\ now \in Times /\ asked \in 0..MaxRequests
    /\ DOMAIN buckets \subseteq Keys /\ Cardinality(DOMAIN buckets) <= MaxKeys + 1
    /\ DOMAIN verifies \subseteq Users /\ Cardinality(DOMAIN verifies) <= MaxKeys + 1
    /\ \A k \in DOMAIN buckets : buckets[k].tokens \in 0..Limiter!FullBucket
    /\ \A v \in pending : v.user \in Users /\ v.time \in {Unread} \cup 1..now

\* A decision depends on the posture alone, so one look at each is enough.
Opening == asked = 0 /\ now = 1

\* No key the caller chooses: whoever is charged or counted under a login has
\* shown the proxy's secret, presents that login, and is on the list.
KeysEarned ==
    Opening => \A c \in Callers : \A key \in {rate_limit_key(posture, c), _caller(posture, c)} :
        key[1] = "login" =>
            /\ posture.secret /\ c.proof
            /\ \E i \in DOMAIN c.headers : c.headers[i] = key[2]
            /\ \A i \in DOMAIN c.headers : c.headers[i] \in {key[2], Blank}
            /\ posture.allowlist = {} \/ key[2] \in posture.allowlist

\* In production nobody gets in but a listed login proved by the secret, over
\* loopback alone or through a proxy the operator vouched for.
ProductionProved ==
    Opening => \A c \in Callers : posture.require /\ current_user(posture, c).allowed =>
        /\ posture.secret /\ c.proof
        /\ c.headers = <<current_user(posture, c).user>>
        /\ current_user(posture, c).user \in posture.allowlist
        /\ posture.nets = {"loopback"} \/ posture.forward

\* Where there is a secret, a user who gets in under a login is charged under it:
\* nobody spends from a second bucket.
OneBucketPerUser ==
    Opening => \A c \in Callers :
        posture.secret /\ current_user(posture, c).allowed /\ _presented_login(c) \in Logins
            => rate_limit_key(posture, c) = <<"login", current_user(posture, c).user>>

\* The report is honest about production: a blocking line means that nobody gets
\* in, and someone who gets in from beyond loopback does so by a waiver it lists.
ReportHonest ==
    Opening /\ posture.require =>
        LET admitted == {c \in Callers : channel_allowed(posture, c)
                                         /\ current_user(posture, c).allowed}
        IN  /\ configuration_report(posture).blocking # {} => admitted = {}
            /\ \A c \in admitted :
                c.peer # "loopback" => configuration_report(posture).waived # {}

\* No request that the channel or the browser's account of its origin turns away,
\* or whose size is too large as declared, spends a bucket or runs a handler.
RefusedSpendsNothing ==
    Opening => \A c \in Callers, a \in Asks :
        Charged(posture, c, a) \/ Handled(posture, c, a) =>
            /\ channel_allowed(posture, c)
            /\ a.body # "declared"
            /\ a.foreign => a.path \in {"static", "page", "read"}

\* Every refusal of the layers is padded like an answer, but for the declared size
\* and the analyst's own routes.
RefusalsPadded ==
    Opening => \A c \in Callers, a \in Asks :
        a.path # "analysis" /\ a.body # "declared" => Padded(posture, c, a)

\* Over any stretch of time a key is allowed its bucket and what came back in that
\* stretch, whatever the order of clock and lock, unless a sweep forgave it.
RateBound ==
    \A l \in {"general", "verify"} :
        LET capacity == IF l = "general" THEN Capacity ELSE VerifyCapacity
        IN  \A k \in Charging[l] \ forgiven[l] : \A s \in Times : \A t \in s..MaxTime :
                RunningTotal(granted[l][k], s - 1, t) * Window <= capacity * (Window + t - s)

\* On the event loop a sweep forgives only when idleness is not enough: an idle
\* bucket would be full, so dropping it changes nothing.
IdleIsFull ==
    \A k \in Limiter!Idle(buckets, now) :
        Limiter!Refilled(buckets[k], now) = Limiter!FullBucket

\* Whoever gets in, is charged or is counted under a login has earned it in
\* every posture, and what the report says of a posture is so.
IdentitySound == KeysEarned /\ ProductionProved /\ OneBucketPerUser /\ ReportHonest

\* The order of the layers: a refusal costs its caller nothing, and reads like any
\* other answer.
RefusalsCheap == RefusedSpendsNothing /\ RefusalsPadded

\* What the limiters allow over time, and what they may forget.
LimitersSound == TypeOK /\ RateBound /\ IdleIsFull

=============================================================================
