----------------------------- MODULE WebProcess -----------------------------
(***************************************************************************)
(* The web process: the response-time boundary at the door, a bounded pool *)
(* of threads, a store with room for so many sessions, and a lock per      *)
(* session held from a request's first charge to its last.  A query and an *)
(* analysis keep their thread throughout.  A stream gives its thread back  *)
(* after every item and keeps the lock.  A probe needs a thread and        *)
(* nothing else.                                                           *)
(*                                                                         *)
(* A session is a number; what it holds is the number of its charges.  The *)
(* ceiling may pass at any moment while a request waits or works.          *)
(***************************************************************************)
EXTENDS Naturals, Sequences, FiniteSets, SequencesExt

CONSTANTS
    Users,
    NoUser,             \* whose a request is before it arrives
    MaxRequests,        \* bound: requests, numbered as they arrive
    Kinds,              \* what arrives: "query", "analysis", "stream", "probe"
    MaxSessions,        \* MAX_SESSIONS
    Threads,            \* the threads of the pool
    MaxAbandoned,       \* MAX_ABANDONED_PER_CALLER
    MaxAbandonedTotal,  \* MAX_ABANDONED_TOTAL
    Steps,              \* bound: items of one stream, max_steps
    MaxRestored         \* bound: users restored at start-up

ASSUME WebAssumption ==
    /\ IsFiniteSet(Users) /\ NoUser \notin Users
    /\ MaxRequests \in Nat /\ MaxRestored \in Nat
    /\ Kinds \subseteq {"query", "analysis", "stream", "probe"}
    /\ {MaxSessions, Threads, MaxAbandoned, MaxAbandonedTotal} \subseteq Nat \ {0}
    /\ Steps \in Nat

Requests == 1..MaxRequests
NoRequest == 0          \* the holder of a free session lock

NoSession == 0
Sessions == 1..(Cardinality(Users) + MaxRequests)

VARIABLES
    store,          \* the users of _sessions, the least recently used first
    session,        \* user -> its session in the store
    made,           \* the sessions made so far
    spent,          \* session -> auditor.spent
    lock,           \* session -> the request holding Session.lock
    abandoned       \* caller -> _abandoned_by, whose union is _abandoned

VARIABLES
    pc,             \* request -> its next step
    user,           \* request -> its identity, also the boundary's caller
    kind,           \* request -> its kind
    sess,           \* request -> the session get() returned to it
    left,           \* request -> the items it may still yield
    reply           \* request -> what went out on the wire

VARIABLES           \* history variables
    charged,        \* user -> all that was charged to it
    forgotten       \* users whose session was dropped while it held anything
                    \* or a request held it

sessions == <<store, session, made, forgotten>>
request == <<user, kind>>
vars == <<sessions, spent, lock, abandoned, pc, request, sess, left, reply, charged>>

-----------------------------------------------------------------------------
(***************************************************************************)
(* The store.                                                              *)
(***************************************************************************)
\* The places of those that hold nothing.
Evictable(users, newcomer) ==
    {i \in DOMAIN users : users[i] # newcomer /\ spent[session[users[i]]] = 0}

\* Mutant: plain LRU.
VictimOldest(users, newcomer) == Head(users)

\* Who makes room for a newcomer: the least recently used of those that hold
\* nothing, or else of all.
Victim(users, newcomer) ==
    LET quiet == Evictable(users, newcomer)
    IN  users[IF quiet # {} THEN Min(quiet) ELSE 1]

\* The requests that will still use a session.
UsersOf(s) == {r \in Requests : sess[r] = s /\ pc[r] \notin {"idle", "done"}}

\* rehydrate: the log restores some users, the last active last, and the cap is
\* applied once, to the quietest.
Restored(users, units) ==
    LET kept == SubSeq(users, Len(users) - Len(store) + 1, Len(users))
        number(u) == CHOOSE i \in DOMAIN users : users[i] = u
    IN  /\ Len(store) = IF Len(users) > MaxSessions THEN MaxSessions ELSE Len(users)
        /\ store = kept
        /\ session = [u \in Users |-> IF u \in Range(kept) THEN number(u) ELSE NoSession]
        /\ made = Len(users)
        /\ spent = [s \in Sessions |-> IF s \in DOMAIN users THEN units[users[s]] ELSE 0]
        /\ charged = [u \in Users |-> IF u \in Range(users) THEN units[u] ELSE 0]
        /\ forgotten = Range(users) \ Range(kept)

Init ==
    /\ \E users \in UNION {[1..n -> Users] : n \in 0..MaxRestored} :
        /\ IsInjective(users)
        /\ store \in {SubSeq(users, i, Len(users)) : i \in 1..(Len(users) + 1)}
        /\ \E units \in [Users -> {0, 1}] : Restored(users, units)
    /\ lock = [s \in Sessions |-> NoRequest]
    /\ abandoned = [u \in Users |-> {}]
    /\ pc = [r \in Requests |-> "idle"]
    /\ user = [r \in Requests |-> NoUser]
    /\ kind = [r \in Requests |-> "probe"]
    /\ sess = [r \in Requests |-> NoSession]
    /\ left = [r \in Requests |-> Steps]
    /\ reply = [r \in Requests |-> "none"]

-----------------------------------------------------------------------------
(***************************************************************************)
(* The boundary and the pool.                                              *)
(***************************************************************************)
Goto(r, step) == pc' = [pc EXCEPT ![r] = step]

\* The requests that have a thread, and those that wait for one.
Threaded == {r \in Requests : pc[r] \in {"get", "lock", "work"}}
Waiting == {r \in Requests : pc[r] \in {"queued", "paused"}}
FreeThread == Cardinality(Threaded) < Threads

Full(u) ==
    \/ Cardinality(abandoned[u]) >= MaxAbandoned
    \/ Cardinality(UNION Range(abandoned)) >= MaxAbandonedTotal

\* DEADLINE_EXEMPT: the inside analyst's routes are exempt from the boundary; a
\* probe is never turned away at it.
Exempt == {"analysis", "stream"}

Arrive(r, u, k) ==
    /\ pc[r] = "idle"
    /\ \A q \in 1..(r - 1) : pc[q] # "idle"
    /\ user' = [user EXCEPT ![r] = u]
    /\ kind' = [kind EXCEPT ![r] = k]
    /\ IF k = "query" /\ Full(u)
       THEN /\ reply' = [reply EXCEPT ![r] = "refused"]
            /\ Goto(r, "done")
       ELSE /\ Goto(r, "queued")
            /\ UNCHANGED reply
    /\ UNCHANGED <<sessions, spent, lock, abandoned, sess, left, charged>>

\* The ceiling passes while the request is somewhere inside: it is refused, and
\* goes on.
Overrun(r) ==
    /\ kind[r] \notin Exempt
    /\ pc[r] \in {"queued", "lock", "work"}
    /\ reply[r] = "none"
    /\ reply' = [reply EXCEPT ![r] = "late"]
    /\ abandoned' = [abandoned EXCEPT ![user[r]] = @ \cup {r}]
    /\ UNCHANGED <<sessions, spent, lock, pc, request, sess, left, charged>>

\* The task ends: its answer goes out unless it was refused, and its callbacks
\* take it out of both pools.
End(r) ==
    /\ Goto(r, "done")
    /\ reply' = [reply EXCEPT ![r] = IF @ = "none" THEN "ok" ELSE @]
    /\ abandoned' = [abandoned EXCEPT ![user[r]] = @ \ {r}]

\* A thread of the pool takes up the endpoint.
Start(r) ==
    /\ pc[r] = "queued"
    /\ FreeThread
    /\ Goto(r, "get")
    /\ UNCHANGED <<sessions, spent, lock, abandoned, request, sess, left, reply, charged>>

Probe(r) ==
    /\ pc[r] = "get"
    /\ kind[r] = "probe"
    /\ End(r)
    /\ UNCHANGED <<sessions, spent, lock, request, sess, left, charged>>

-----------------------------------------------------------------------------
(***************************************************************************)
(* The endpoints.                                                          *)
(***************************************************************************)

GetFound(r) ==
    /\ session[user[r]] # NoSession
    /\ store' = Append(RemoveFirst(store, user[r]), user[r])
    /\ sess' = [sess EXCEPT ![r] = session[user[r]]]
    /\ UNCHANGED <<session, made, forgotten>>

GetNew(r) ==
    LET u == user[r]
        grown == Append(store, u)
        victim == Victim(grown, u)
        evicts == Len(grown) > MaxSessions
        added == [session EXCEPT ![u] = made + 1]
    IN  /\ session[u] = NoSession
        /\ made' = made + 1
        /\ store' = IF evicts THEN RemoveFirst(grown, victim) ELSE grown
        /\ session' = IF evicts THEN [added EXCEPT ![victim] = NoSession] ELSE added
        /\ sess' = [sess EXCEPT ![r] = made + 1]
        /\ forgotten' = IF evicts /\ (UsersOf(session[victim]) # {} \/ spent[session[victim]] > 0)
                        THEN forgotten \cup {victim} ELSE forgotten

\* sessions.get(user), under the store's lock.  A query goes on to the session
\* lock; the endpoint of a stream returns its generator.
Get(r) ==
    /\ pc[r] = "get"
    /\ kind[r] # "probe"
    /\ GetFound(r) \/ GetNew(r)
    /\ Goto(r, IF kind[r] = "stream" THEN "paused" ELSE "lock")
    /\ UNCHANGED <<spent, lock, abandoned, request, left, reply, charged>>

\* A thread of the pool runs the generator to its next item.
Pull(r) ==
    /\ pc[r] = "paused"
    /\ FreeThread
    /\ Goto(r, IF lock[sess[r]] = r THEN "work" ELSE "lock")
    /\ UNCHANGED <<sessions, spent, lock, abandoned, request, sess, left, reply, charged>>

Acquire(r) ==
    /\ pc[r] = "lock"
    /\ lock[sess[r]] = NoRequest
    /\ lock' = [lock EXCEPT ![sess[r]] = r]
    /\ Goto(r, "work")
    /\ UNCHANGED <<sessions, spent, abandoned, request, sess, left, reply, charged>>

Charge(r, units) ==
    /\ spent' = [spent EXCEPT ![sess[r]] = @ + units]
    /\ charged' = [charged EXCEPT ![user[r]] = @ + units]

\* One item of a stream: a sub-question was asked, and the generator yields.
Yield(r) ==
    /\ pc[r] = "work"
    /\ kind[r] = "stream"
    /\ left[r] > 0
    /\ left' = [left EXCEPT ![r] = @ - 1]
    /\ \E units \in {0, 1} : Charge(r, units)
    /\ Goto(r, "paused")
    /\ UNCHANGED <<sessions, lock, abandoned, request, sess, reply>>

\* Mutant: a stream that was left does not give the lock back when it ends.
FreeLockQuery(r) ==
    lock' = [lock EXCEPT ![sess[r]] = IF @ = r /\ kind[r] # "stream" THEN NoRequest ELSE @]

FreeLock(r) == lock' = [lock EXCEPT ![sess[r]] = IF @ = r THEN NoRequest ELSE @]

\* The handler returns or raises, and `with sess.lock` is left; of a stream only
\* the narration was left to do.
Finish(r) ==
    /\ pc[r] = "work"
    /\ \E units \in {0, 1} : (kind[r] = "stream" => units = 0) /\ Charge(r, units)
    /\ FreeLock(r)
    /\ End(r)
    /\ UNCHANGED <<sessions, request, sess, left>>

\* Mutant: only a finished stream leaves the lock.
DisconnectLocked(r) ==
    /\ pc[r] = "paused"
    /\ End(r)
    /\ UNCHANGED <<sessions, spent, lock, request, sess, left, charged>>

\* The browser leaves between two items: the generator is closed.
Disconnect(r) ==
    /\ pc[r] = "paused"
    /\ FreeLock(r)
    /\ End(r)
    /\ UNCHANGED <<sessions, spent, request, sess, left, charged>>

Step(r) ==
    \/ Start(r) \/ Probe(r) \/ Get(r) \/ Pull(r)
    \/ Acquire(r) \/ Yield(r) \/ Finish(r)

Next == \E r \in Requests :
    \/ \E u \in Users, k \in Kinds : Arrive(r, u, k)
    \/ Overrun(r) \/ Step(r) \/ Disconnect(r)

Spec == Init /\ [][Next]_vars

\* A pool gives a free thread to whoever waits, and a handler does not stop.
FairSpec == Spec /\ \A r \in Requests : WF_vars(Step(r))

-----------------------------------------------------------------------------
(***************************************************************************)
(* Properties.                                                             *)
(***************************************************************************)
TypeOK ==
    /\ store \in Seq(Users) /\ IsInjective(store) /\ Len(store) <= MaxSessions
    /\ session \in [Users -> Sessions \cup {NoSession}]
    /\ \A u \in Users : session[u] # NoSession <=> u \in Range(store)
    /\ made \in Nat
    /\ spent \in [Sessions -> Nat]
    /\ lock \in [Sessions -> Requests \cup {NoRequest}]
    /\ abandoned \in [Users -> SUBSET Requests]
    /\ pc \in [Requests -> {"idle", "queued", "get", "lock", "work", "paused", "done"}]
    /\ user \in [Requests -> Users \cup {NoUser}] /\ kind \in [Requests -> Kinds \cup {"probe"}]
    /\ sess \in [Requests -> Sessions \cup {NoSession}]
    /\ left \in [Requests -> 0..Steps]
    /\ reply \in [Requests -> {"none", "ok", "late", "refused"}]
    /\ charged \in [Users -> Nat] /\ forgotten \subseteq Users

\* Unless its session was dropped in use, a user's stored session accounts for
\* everything ever charged to that user, whichever request charged it and
\* wherever the store evicted others meanwhile.
NothingForgotten ==
    \A u \in Users \ forgotten :
        charged[u] = IF session[u] = NoSession THEN 0 ELSE spent[session[u]]

\* Unless its session was dropped in use, the requests of one identity
\* share one session, and so serialise on one lock.
OneSession ==
    \A q, r \in Requests :
        /\ user[q] = user[r] /\ user[r] \notin forgotten
        /\ sess[q] # NoSession /\ sess[r] # NoSession
        /\ pc[q] # "done" /\ pc[r] # "done"
        => sess[q] = sess[r]

\* A lock is held exactly by the request inside its critical section, threads
\* given back between two items included.
LockHeldWithin ==
    \A s \in Sessions :
        lock[s] # NoRequest =>
            /\ sess[lock[s]] = s
            /\ \/ pc[lock[s]] = "work"
               \/ pc[lock[s]] = "paused" /\ kind[lock[s]] = "stream"

\* The abandoned pools hold exactly the requests that overran and still run: one
\* left behind would shut its caller out for good, one lost would go uncounted.
AbandonedRunning ==
    \A u \in Users : abandoned[u] = {r \in Requests : user[r] = u /\ reply[r] = "late"
                                                      /\ pc[r] # "done"}

\* What a caller has overrun decides alone, below the backstop, whether its next
\* query is let in.
Overrunning(u) == {r \in Requests : user[r] = u /\ reply[r] = "late" /\ pc[r] # "done"}

OwnWasteOnly ==
    \A r \in Requests :
        pc[r] = "idle" /\ pc'[r] # "idle" /\ kind'[r] = "query" =>
            (reply'[r] = "refused" <=>
                \/ Cardinality(Overrunning(user'[r])) >= MaxAbandoned
                \/ Cardinality(UNION {Overrunning(u) : u \in Users}) >= MaxAbandonedTotal)

\* A session that holds anything is dropped only when every other one does.
KeepsState ==
    \A v \in Users :
        /\ session[v] # NoSession /\ spent[session[v]] > 0
        /\ session'[v] = NoSession
        => \A u \in Range(store) : spent[session[u]] > 0

\* A newcomer is never its own victim: whoever gets a session finds it again.
GetKeeps ==
    \A r \in Requests :
        sess[r] = NoSession /\ sess'[r] # NoSession => session'[user[r]] = sess'[r]

\* What a caller is given at its arrival depends on nobody else's, below the
\* store's and the backstop's limits.
ArrivalsFair == [][OwnWasteOnly /\ KeepsState /\ GetKeeps]_vars

\* Types and the store's cap; and what the store, the locks and the abandoned pools
\* hold is what the requests did, whatever was evicted, overran or left.
NothingLost ==
    TypeOK /\ NothingForgotten /\ OneSession /\ LockHeldWithin /\ AbandonedRunning

\* Every thread waits for a lock whose holder, a stream, waits for a thread.
Stalled ==
    /\ ~FreeThread
    /\ \A r \in Threaded : pc[r] = "lock" /\ lock[sess[r]] # NoRequest
    /\ \E r \in Threaded : pc[lock[sess[r]]] = "paused"

\* Nothing but such a stream stops the pool: while any request is inside, one can
\* go on.
OnlyStreamsStall ==
    (\E r \in Requests : pc[r] \notin {"idle", "done"}) =>
        (\E r \in Requests : ENABLED Step(r)) \/ Stalled

\* app.py:513-514: requests of other users go on whatever one user's requests
\* do.
CrossUserParallel ==
    \A r \in Requests :
        (pc[r] = "queued" /\ [](\A q \in Requests \ {r} : user[q] # user[r]))
            ~> (pc[r] = "done")
=============================================================================
