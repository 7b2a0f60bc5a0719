-------------------------- MODULE WebProcessProofs --------------------------
(***************************************************************************)
(* For any users, requests, store, pool, caps and streams: whatever is     *)
(* evicted, overruns or leaves, a session accounts for everything charged  *)
(* to its user unless it was dropped in use, the requests of one user then *)
(* share one session, a lock is held by who is inside, and the pools of    *)
(* abandoned tasks hold exactly those that still run.                      *)
(***************************************************************************)
EXTENDS WebProcess, RunningTotalsProofs, FiniteSetTheorems, SequenceTheorems, TLAPS

Types ==
    /\ session \in [Users -> Nat] /\ made \in Nat
    /\ spent \in [Sessions -> Nat] /\ charged \in [Users -> Nat]
    /\ lock \in [Sessions -> Requests \cup {NoRequest}]
    /\ abandoned \in [Users -> SUBSET Requests]
    /\ pc \in [Requests -> {"idle", "queued", "get", "lock", "work", "paused", "done"}]
    /\ user \in [Requests -> Users \cup {NoUser}]
    /\ kind \in [Requests -> Kinds \cup {"probe"}]
    /\ sess \in [Requests -> Nat]
    /\ reply \in [Requests -> {"none", "ok", "late", "refused"}]

\* The requests that were given a session.
Given == {r \in Requests : sess[r] # NoSession}

\* There is a number for every session that can be made, and a session that was
\* not made yet has no charges.
Numbered ==
    /\ made <= Cardinality(Users) + Cardinality(Given)
    /\ \A u \in Users : session[u] <= made
    /\ \A r \in Requests : sess[r] <= made
    /\ \A s \in Sessions : s > made => spent[s] = 0

\* What a request has at each step.
Phases ==
    \A r \in Requests :
        /\ pc[r] \in {"idle", "queued", "get"} => sess[r] = NoSession
        /\ pc[r] = "idle" => reply[r] = "none"
        /\ pc[r] # "idle" => user[r] \in Users
        /\ pc[r] \in {"lock", "work", "paused"} => sess[r] # NoSession
        /\ pc[r] = "paused" => kind[r] = "stream"

\* A session is one user's; and a request has the session the store has, unless
\* that was dropped in use.
Shared ==
    /\ \A u, v \in Users : session[u] # NoSession /\ session[u] = session[v] => u = v
    /\ \A r \in Requests, v \in Users : sess[r] # NoSession /\ sess[r] = session[v] => user[r] = v
    /\ \A r \in Requests :
          sess[r] # NoSession /\ pc[r] # "done" /\ user[r] \notin forgotten
          => session[user[r]] = sess[r]

WebInv ==
    /\ Types /\ Numbered /\ Phases /\ Shared
    /\ NothingForgotten /\ LockHeldWithin /\ AbandonedRunning

-----------------------------------------------------------------------------
(* Numbers of sessions                                                      *)

\* Requests are finitely many, and so are those with a session.
LEMMA GivenFinite ==
    ASSUME NEW S \in SUBSET Requests
    PROVE  /\ IsFiniteSet(S) /\ Cardinality(S) \in Nat /\ Cardinality(S) <= MaxRequests
           /\ Cardinality(Users) \in Nat
<1>1. IsFiniteSet(Requests) /\ Cardinality(Requests) = MaxRequests
  <2>0. 1 \in Int /\ MaxRequests \in Int
      BY WebAssumption
  <2>1. IsFiniteSet(1..MaxRequests) /\ Cardinality(1..MaxRequests) = IF 1 > MaxRequests THEN 0 ELSE MaxRequests - 1 + 1
      BY <2>0, FS_Interval, Zenon
  <2> QED
      BY <2>1, WebAssumption DEF Requests
<1>2. IsFiniteSet(S) /\ Cardinality(S) <= Cardinality(Requests)
    BY <1>1, FS_Subset
<1> QED
    BY <1>1, <1>2, FS_CardinalityType, WebAssumption

\* Whatever was made has a number among the sessions.
LEMMA MadeIsSession ==
    ASSUME Types, Numbered, NEW s \in Nat, s # NoSession, s <= made
    PROVE  s \in Sessions
<1>1. Given \in SUBSET Requests
    BY DEF Given
<1>2. made <= Cardinality(Users) + MaxRequests
    BY <1>1, GivenFinite, WebAssumption DEF Numbered, Types
<1>3. Cardinality(Users) \in Nat
    BY <1>1, GivenFinite
<1> QED
    BY <1>2, <1>3, WebAssumption DEF Types, Sessions, NoSession

-----------------------------------------------------------------------------
(* Initial states                                                           *)

LEMMA InitWeb == Init => WebInv
<1> SUFFICES ASSUME Init PROVE WebInv
    OBVIOUS
<1>1. PICK n \in 0..MaxRestored : \E users \in [1..n -> Users] :
          /\ IsInjective(users)
          /\ store \in {SubSeq(users, i, Len(users)) : i \in 1..(Len(users) + 1)}
          /\ \E units \in [Users -> {0, 1}] : Restored(users, units)
    BY DEF Init
<1>2. PICK users \in [1..n -> Users] :
          /\ IsInjective(users)
          /\ store \in {SubSeq(users, i, Len(users)) : i \in 1..(Len(users) + 1)}
          /\ \E units \in [Users -> {0, 1}] : Restored(users, units)
    BY <1>1
<1>3. PICK units \in [Users -> {0, 1}] : Restored(users, units)
    BY <1>2
<1>4. n \in Nat /\ Len(users) = n /\ DOMAIN users = 1..n /\ users \in Seq(Users)
    BY WebAssumption
<1>5. n <= Cardinality(Users)
  <2>1. users \in Injection(1..n, Users)
      BY <1>2 DEF Injection
  <2>2. Cardinality(1..n) <= Cardinality(Users)
      BY <2>1, FS_Injection, WebAssumption
  <2> QED
      BY <1>4, <2>2, FS_Interval
<1>6. PICK i \in 1..(n + 1) : store = SubSeq(users, i, n)
    BY <1>2, <1>4
<1>7. Range(store) \subseteq Range(users)
    BY <1>4, <1>6 DEF Range
<1> DEFINE number(u) == CHOOSE k \in DOMAIN users : users[k] = u
<1>8. \A u \in Range(users) : number(u) \in 1..n /\ users[number(u)] = u
    BY <1>4 DEF Range
<1>9. /\ store = SubSeq(users, Len(users) - Len(store) + 1, Len(users))
      /\ session = [u \in Users |-> IF u \in Range(store) THEN number(u) ELSE NoSession]
      /\ made = n
      /\ spent = [s \in Sessions |-> IF s \in DOMAIN users THEN units[users[s]] ELSE 0]
      /\ charged = [u \in Users |-> IF u \in Range(users) THEN units[u] ELSE 0]
      /\ forgotten = Range(users) \ Range(store)
  <2>1. /\ store = SubSeq(users, Len(users) - Len(store) + 1, Len(users))
        /\ session = [u \in Users |-> IF u \in Range(SubSeq(users, Len(users) - Len(store) + 1, Len(users)))
                                      THEN CHOOSE k \in DOMAIN users : users[k] = u ELSE NoSession]
        /\ forgotten = Range(users) \ Range(SubSeq(users, Len(users) - Len(store) + 1, Len(users)))
      BY <1>3, Zenon DEF Restored
  <2>2. /\ made = Len(users)
        /\ spent = [s \in Sessions |-> IF s \in DOMAIN users THEN units[users[s]] ELSE 0]
        /\ charged = [u \in Users |-> IF u \in Range(users) THEN units[u] ELSE 0]
      BY <1>3, Zenon DEF Restored
  <2>3. Range(SubSeq(users, Len(users) - Len(store) + 1, Len(users))) = Range(store)
      BY <2>1
  <2> DEFINE kept == Range(SubSeq(users, Len(users) - Len(store) + 1, Len(users)))
  <2>4. session = [u \in Users |-> IF u \in kept THEN number(u) ELSE NoSession]
        /\ forgotten = Range(users) \ kept
      BY <2>1, Zenon
  <2>5. kept = Range(store)
      BY <2>3
  <2> HIDE DEF kept, number
  <2>6. session = [u \in Users |-> IF u \in Range(store) THEN number(u) ELSE NoSession]
        /\ forgotten = Range(users) \ Range(store)
      BY <2>4, <2>5
  <2> QED
      BY <1>4, <2>1, <2>2, <2>6
<1>10. Types
  <2>1. \A s \in DOMAIN users : units[users[s]] \in Nat
      BY <1>2, <1>3, <1>4
  <2> QED
      BY <1>4, <1>7, <1>8, <1>9, <2>1, WebAssumption DEF Init, Types, NoSession, NoRequest
<1>11. Given = {} /\ Cardinality(Given) = 0
    BY FS_EmptySet DEF Init, Given
<1>12. Numbered
  <2>1. made <= Cardinality(Users) + Cardinality(Given)
      BY <1>4, <1>5, <1>9, <1>11, GivenFinite
  <2>2. ASSUME NEW u \in Users
        PROVE  session[u] <= made
    <3> HIDE DEF number
    <3>1. CASE u \in Range(store)
        BY <1>4, <1>7, <1>8, <1>9, <3>1
    <3>2. CASE u \notin Range(store)
        BY <1>4, <1>9, <3>2 DEF NoSession
    <3> QED
        BY <3>1, <3>2
  <2>3. \A r \in Requests : sess[r] <= made
      BY <1>4, <1>9 DEF Init, NoSession
  <2>4. \A s \in Sessions : s > made => spent[s] = 0
      BY <1>4, <1>9 DEF Sessions
  <2> QED
      BY <2>1, <2>2, <2>3, <2>4 DEF Numbered
<1>13. Phases
    BY DEF Init, Phases
<1>14. Shared
    BY <1>7, <1>8, <1>9 DEF Init, Shared, NoSession
<1>15. NothingForgotten
  <2> SUFFICES ASSUME NEW u \in Users, u \notin forgotten
               PROVE  charged[u] = IF session[u] = NoSession THEN 0 ELSE spent[session[u]]
      BY DEF NothingForgotten
  <2>1. CASE u \in Range(store)
    <3>1. session[u] = number(u) /\ number(u) \in 1..n /\ users[number(u)] = u
        BY <1>7, <1>8, <1>9, <2>1
    <3>2. \A s \in 1..n : s \in Sessions
        BY <1>4, <1>9, <1>10, <1>12, MadeIsSession DEF NoSession
    <3> QED
        BY <1>4, <1>7, <1>9, <2>1, <3>1, <3>2 DEF NoSession
  <2>2. CASE u \notin Range(store)
      BY <1>9, <2>2
  <2> QED
      BY <2>1, <2>2
<1>16. LockHeldWithin
    BY DEF Init, LockHeldWithin
<1>17. AbandonedRunning
    BY DEF Init, AbandonedRunning
<1> QED
    BY <1>10, <1>12, <1>13, <1>14, <1>15, <1>16, <1>17 DEF WebInv

-----------------------------------------------------------------------------
(* The store and the charges                                                *)

\* Steps that neither fetch a session nor charge it.
LEMMA StoreKept ==
    ASSUME Types, Numbered, Shared, NothingForgotten,
           UNCHANGED <<session, made, forgotten, spent, charged, sess, user>>,
           \A r \in Requests : pc[r] = "done" => pc'[r] = "done"
    PROVE  Numbered' /\ Shared' /\ NothingForgotten'
<1>1. Given' = Given
    BY DEF Given
<1>2. Numbered'
    BY <1>1 DEF Numbered
<1>3. Shared'
    BY DEF Shared
<1>4. NothingForgotten'
    BY DEF NothingForgotten
<1> QED
    BY <1>2, <1>3, <1>4

\* A charge goes to the session of a request that is inside, and is its user's.
LEMMA ChargeKept ==
    ASSUME Types, Numbered, Shared, NothingForgotten,
           NEW r \in Requests, NEW units \in {0, 1}, Charge(r, units),
           sess[r] # NoSession, pc[r] # "done", user[r] \in Users,
           UNCHANGED <<session, made, forgotten, sess, user>>,
           \A q \in Requests : pc[q] = "done" => pc'[q] = "done"
    PROVE  /\ spent' \in [Sessions -> Nat] /\ charged' \in [Users -> Nat]
           /\ Numbered' /\ Shared' /\ NothingForgotten'
<1>1. sess[r] \in Sessions /\ sess[r] <= made
    BY MadeIsSession DEF Types, Numbered
<1>2. /\ spent' = [spent EXCEPT ![sess[r]] = @ + units]
      /\ charged' = [charged EXCEPT ![user[r]] = @ + units]
    BY DEF Charge
<1>3. /\ \A s \in Sessions : spent'[s] = IF s = sess[r] THEN spent[s] + units ELSE spent[s]
      /\ \A u \in Users : charged'[u] = IF u = user[r] THEN charged[u] + units ELSE charged[u]
      /\ spent' \in [Sessions -> Nat] /\ charged' \in [Users -> Nat]
    BY <1>1, <1>2 DEF Types
<1>4. Given' = Given
    BY DEF Given
<1>5. Numbered'
    BY <1>1, <1>3, <1>4 DEF Numbered, Types, Sessions
<1>6. Shared'
    BY DEF Shared
<1>7. NothingForgotten'
  <2> SUFFICES ASSUME NEW u \in Users, u \notin forgotten
               PROVE  charged'[u] = IF session[u] = NoSession THEN 0 ELSE spent'[session[u]]
      BY DEF NothingForgotten
  <2>1. charged[u] = IF session[u] = NoSession THEN 0 ELSE spent[session[u]]
      BY DEF NothingForgotten
  <2>2. CASE u = user[r]
    <3>1. session[u] = sess[r]
        BY <2>2 DEF Shared
    <3> QED
        BY <1>1, <1>3, <2>1, <2>2, <3>1
  <2>3. CASE u # user[r] /\ session[u] # NoSession
    <3>1. session[u] # sess[r]
        BY <2>3 DEF Shared
    <3>2. session[u] \in Sessions
        BY <2>3, MadeIsSession DEF Types, Numbered
    <3> QED
        BY <1>3, <2>1, <2>3, <3>1, <3>2
  <2>4. CASE u # user[r] /\ session[u] = NoSession
      BY <1>3, <2>1, <2>4
  <2> QED
      BY <2>2, <2>3, <2>4
<1> QED
    BY <1>3, <1>5, <1>6, <1>7

\* get(user) gives back what is stored, or makes a session and may drop another.
LEMMA GetKept ==
    ASSUME Types, Numbered, Phases, Shared, NothingForgotten, NEW r \in Requests, Get(r)
    PROVE  /\ session' \in [Users -> Nat] /\ made' \in Nat /\ sess' \in [Requests -> Nat]
           /\ sess'[r] # NoSession /\ \A q \in Requests \ {r} : sess'[q] = sess[q]
           /\ Numbered' /\ Shared' /\ NothingForgotten'
<1>1. /\ pc[r] = "get" /\ sess[r] = NoSession /\ user[r] \in Users
      /\ UNCHANGED <<spent, charged, user>>
      /\ pc' = [pc EXCEPT ![r] = IF kind[r] = "stream" THEN "paused" ELSE "lock"]
    BY DEF Get, Goto, Phases, request
<1>2. \A q \in Requests : (pc[q] = "done" <=> pc'[q] = "done") /\ (q # r => pc'[q] = pc[q])
    BY <1>1 DEF Types
<1>3. CASE GetFound(r)
  <2>1. /\ session[user[r]] # NoSession
        /\ sess' = [sess EXCEPT ![r] = session[user[r]]]
        /\ UNCHANGED <<session, made, forgotten>>
      BY <1>3 DEF GetFound
  <2>2. \A q \in Requests : sess'[q] = IF q = r THEN session[user[r]] ELSE sess[q]
      BY <2>1 DEF Types
  <2>3. Cardinality(Given) <= Cardinality(Given')
    <3>1. Given \subseteq Given' /\ Given' \subseteq Requests
        BY <1>1, <2>2 DEF Given
    <3>2. IsFiniteSet(Given')
        BY <3>1, GivenFinite
    <3> QED
        BY <3>1, <3>2, FS_Subset
  <2>4. Cardinality(Given) \in Nat /\ Cardinality(Given') \in Nat /\ Cardinality(Users) \in Nat
    <3>1. Given \subseteq Requests /\ Given' \subseteq Requests
        BY DEF Given
    <3> QED
        BY <3>1, GivenFinite
  <2>5. Numbered'
      BY <1>1, <2>1, <2>2, <2>3, <2>4 DEF Numbered, Types
  <2>6. Shared'
      BY <1>1, <1>2, <2>1, <2>2 DEF Shared, Types
  <2>7. NothingForgotten'
      BY <1>1, <2>1 DEF NothingForgotten
  <2> QED
      BY <1>1, <2>1, <2>2, <2>5, <2>6, <2>7 DEF Types
<1>4. CASE GetNew(r)
  <2> DEFINE u == user[r]
             grown == Append(store, u)
             victim == Victim(grown, u)
             evicts == Len(grown) > MaxSessions
  <2>1. /\ session[u] = NoSession
        /\ made' = made + 1
        /\ session' = IF evicts THEN [[session EXCEPT ![u] = made + 1] EXCEPT ![victim] = NoSession]
                      ELSE [session EXCEPT ![u] = made + 1]
        /\ sess' = [sess EXCEPT ![r] = made + 1]
        /\ forgotten' = IF evicts /\ (UsersOf(session[victim]) # {} \/ spent[session[victim]] > 0)
                        THEN forgotten \cup {victim} ELSE forgotten
      BY <1>4, Zenon DEF GetNew
  <2> HIDE DEF victim, evicts
  <2>2. \A v \in Users : session'[v] = IF evicts /\ v = victim THEN NoSession
                                       ELSE IF v = u THEN made + 1 ELSE session[v]
      BY <1>1, <2>1 DEF Types
  <2>3. \A q \in Requests : sess'[q] = IF q = r THEN made + 1 ELSE sess[q]
      BY <2>1 DEF Types
  <2>4. \A v \in Users \ forgotten' :
            evicts /\ v = victim => UsersOf(session[v]) = {} /\ ~(spent[session[v]] > 0)
      BY <2>1
  <2>5. session' \in [Users -> Nat] /\ made' \in Nat /\ sess' \in [Requests -> Nat]
    <3>0. session \in [Users -> Nat] /\ made + 1 \in Nat
        BY DEF Types
    <3>1. [session EXCEPT ![u] = made + 1] \in [Users -> Nat]
        BY <3>0
    <3>2. session' \in [Users -> Nat]
      <4>1. CASE evicts
          BY <2>1, <3>1, <4>1 DEF NoSession
      <4>2. CASE ~evicts
          BY <2>1, <3>1, <4>2
      <4> QED
          BY <4>1, <4>2
    <3> QED
        BY <2>1, <3>2 DEF Types
  <2>6. made' <= Cardinality(Users) + Cardinality(Given') /\ Cardinality(Given') \in Nat
    <3>1. Given' = Given \cup {r} /\ r \notin Given /\ Given \subseteq Requests /\ Given' \subseteq Requests
        BY <1>1, <2>3 DEF Given, Types, NoSession
    <3>2. Cardinality(Given') = Cardinality(Given) + 1
        BY <3>1, GivenFinite, FS_AddElement
    <3> QED
        BY <2>1, <3>1, <3>2, GivenFinite DEF Numbered, Types
  <2>7. Numbered'
      BY <1>1, <2>1, <2>2, <2>3, <2>5, <2>6 DEF Numbered, Types, Sessions, NoSession
  <2>8. made + 1 \in Sessions /\ spent[made + 1] = 0
    <3>1. Given' \subseteq Requests
        BY DEF Given
    <3>2. Cardinality(Given') <= MaxRequests /\ Cardinality(Users) \in Nat
        BY <3>1, GivenFinite
    <3>3. made + 1 \in Sessions
        BY <2>1, <2>6, <3>2, WebAssumption DEF Sessions, Types
    <3> QED
        BY <3>3 DEF Numbered, Types
  <2>9. Shared'
    <3>1. ASSUME NEW v \in Users, NEW w \in Users,
                 session'[v] # NoSession, session'[v] = session'[w]
          PROVE  v = w
        BY <2>2, <3>1 DEF Shared, Numbered, Types, NoSession
    <3>2. ASSUME NEW q \in Requests, NEW v \in Users,
                 sess'[q] # NoSession, sess'[q] = session'[v]
          PROVE  user'[q] = v
        BY <1>1, <2>2, <2>3, <3>2 DEF Shared, Numbered, Types, NoSession
    <3>3. ASSUME NEW q \in Requests,
                 sess'[q] # NoSession, pc'[q] # "done", user'[q] \notin forgotten'
          PROVE  session'[user'[q]] = sess'[q]
      <4>1. user[q] \in Users \ forgotten' /\ user[q] \notin forgotten
          BY <1>1, <1>2, <2>1, <3>3 DEF Phases, Types, NoSession
      <4>2. CASE q = r
        <5>1. r \in UsersOf(session[u])
            BY <1>1, <2>1 DEF UsersOf
        <5>2. ~(evicts /\ u = victim)
            BY <2>4, <4>1, <4>2, <5>1
        <5> QED
            BY <1>1, <2>2, <2>3, <4>1, <4>2, <5>2
      <4>3. CASE q # r
        <5>1. sess[q] # NoSession /\ pc[q] # "done" /\ pc[q] # "idle" /\ session[user[q]] = sess[q]
            BY <1>1, <1>2, <2>3, <3>3, <4>1, <4>3 DEF Shared, Phases
        <5>2. q \in UsersOf(session[user[q]])
            BY <5>1 DEF UsersOf
        <5>3. ~(evicts /\ user[q] = victim) /\ user[q] # u
            BY <2>1, <2>4, <4>1, <5>1, <5>2
        <5> QED
            BY <1>1, <2>2, <2>3, <4>1, <4>3, <5>1, <5>3
      <4> QED
          BY <4>2, <4>3
    <3> QED
        BY <3>1, <3>2, <3>3 DEF Shared
  <2>10. NothingForgotten'
    <3> SUFFICES ASSUME NEW v \in Users, v \notin forgotten'
                 PROVE  charged[v] = IF session'[v] = NoSession THEN 0 ELSE spent[session'[v]]
        BY <1>1 DEF NothingForgotten
    <3>1. v \notin forgotten /\ charged[v] = IF session[v] = NoSession THEN 0 ELSE spent[session[v]]
        BY <2>1 DEF NothingForgotten
    <3>2. CASE evicts /\ v = victim
      <4>1. ~(spent[session[v]] > 0) /\ session'[v] = NoSession
          BY <2>2, <2>4, <3>2
      <4>2. session[v] # NoSession => session[v] \in Sessions
          BY MadeIsSession DEF Types, Numbered
      <4> QED
          BY <3>1, <4>1, <4>2 DEF Types
    <3>3. CASE ~(evicts /\ v = victim) /\ v = u
        BY <2>1, <2>2, <2>8, <3>1, <3>3 DEF Types, NoSession
    <3>4. CASE ~(evicts /\ v = victim) /\ v # u
        BY <2>2, <3>1, <3>4
    <3> QED
        BY <3>2, <3>3, <3>4
  <2> QED
      BY <2>3, <2>5, <2>7, <2>9, <2>10 DEF Types, NoSession
<1> QED
    BY <1>3, <1>4 DEF Get

-----------------------------------------------------------------------------
(* Every step                                                               *)

\* A request that ends is in no pool any more, and nobody else's place changes.
LEMMA EndKept ==
    ASSUME Types, AbandonedRunning, NEW r \in Requests, End(r),
           user[r] \in Users, UNCHANGED user
    PROVE  /\ pc' \in [Requests -> {"idle", "queued", "get", "lock", "work", "paused", "done"}]
           /\ reply' \in [Requests -> {"none", "ok", "late", "refused"}]
           /\ abandoned' \in [Users -> SUBSET Requests]
           /\ \A q \in Requests : pc'[q] = IF q = r THEN "done" ELSE pc[q]
           /\ \A q \in Requests \ {r} : reply'[q] = reply[q]
           /\ AbandonedRunning'
<1>1. /\ pc' = [pc EXCEPT ![r] = "done"]
      /\ reply' = [reply EXCEPT ![r] = IF @ = "none" THEN "ok" ELSE @]
      /\ abandoned' = [abandoned EXCEPT ![user[r]] = @ \ {r}]
    BY DEF End, Goto
<1>2. \A q \in Requests : pc'[q] = IF q = r THEN "done" ELSE pc[q]
    BY <1>1 DEF Types
<1>3. \A q \in Requests \ {r} : reply'[q] = reply[q]
    BY <1>1 DEF Types
<1>4. \A u \in Users : abandoned'[u] = IF u = user[r] THEN abandoned[u] \ {r} ELSE abandoned[u]
    BY <1>1 DEF Types
<1>5. AbandonedRunning'
  <2> SUFFICES ASSUME NEW u \in Users
               PROVE  abandoned'[u] = {q \in Requests : user[q] = u /\ reply'[q] = "late" /\ pc'[q] # "done"}
      BY DEF AbandonedRunning
  <2>1. abandoned[u] = {q \in Requests : user[q] = u /\ reply[q] = "late" /\ pc[q] # "done"}
      BY DEF AbandonedRunning
  <2>2. abandoned'[u] = abandoned[u] \ {r}
      BY <1>4, <2>1
  <2> QED
      BY <1>2, <1>3, <2>1, <2>2
<1>6. /\ pc' \in [Requests -> {"idle", "queued", "get", "lock", "work", "paused", "done"}]
      /\ reply' \in [Requests -> {"none", "ok", "late", "refused"}]
      /\ abandoned' \in [Users -> SUBSET Requests]
    BY <1>1 DEF Types
<1> QED
    BY <1>2, <1>3, <1>5, <1>6

\* A request that moves on, without an answer or an end.
LEMMA GotoKept ==
    ASSUME Types, AbandonedRunning, NEW r \in Requests,
           NEW step \in {"queued", "get", "lock", "work", "paused"}, Goto(r, step),
           pc[r] # "done", UNCHANGED <<abandoned, reply, user>>
    PROVE  /\ pc' \in [Requests -> {"idle", "queued", "get", "lock", "work", "paused", "done"}]
           /\ \A q \in Requests : pc'[q] = IF q = r THEN step ELSE pc[q]
           /\ AbandonedRunning'
<1>1. pc' = [pc EXCEPT ![r] = step]
    BY DEF Goto
<1>2. \A q \in Requests : pc'[q] = IF q = r THEN step ELSE pc[q]
    BY <1>1 DEF Types
<1>3. pc' \in [Requests -> {"idle", "queued", "get", "lock", "work", "paused", "done"}]
    BY <1>1 DEF Types
<1>4. AbandonedRunning'
    BY <1>2 DEF AbandonedRunning
<1> QED
    BY <1>2, <1>3, <1>4

\* A lock given back by a request that held it or not.
LEMMA FreeLockKept ==
    ASSUME Types, Numbered, NEW r \in Requests, sess[r] # NoSession, FreeLock(r)
    PROVE  /\ lock' \in [Sessions -> Requests \cup {NoRequest}]
           /\ \A s \in Sessions : lock'[s] = IF s = sess[r] /\ lock[s] = r THEN NoRequest ELSE lock[s]
<1>1. sess[r] \in Sessions
    BY MadeIsSession DEF Types, Numbered
<1>2. lock' = [lock EXCEPT ![sess[r]] = IF @ = r THEN NoRequest ELSE @]
    BY DEF FreeLock
<1> QED
    BY <1>1, <1>2 DEF Types

LEMMA StepWeb == WebInv /\ [Next]_vars => WebInv'
<1> SUFFICES ASSUME WebInv, [Next]_vars PROVE WebInv'
    OBVIOUS
<1> USE DEF WebInv
<1>1. ASSUME NEW r \in Requests, NEW u \in Users, NEW k \in Kinds, Arrive(r, u, k)
      PROVE  WebInv'
  <2>1. /\ pc[r] = "idle" /\ sess[r] = NoSession /\ reply[r] = "none"
        /\ user' = [user EXCEPT ![r] = u] /\ kind' = [kind EXCEPT ![r] = k]
        /\ UNCHANGED <<session, made, forgotten, spent, lock, abandoned, sess, charged>>
        /\ \/ reply' = [reply EXCEPT ![r] = "refused"] /\ pc' = [pc EXCEPT ![r] = "done"]
           \/ pc' = [pc EXCEPT ![r] = "queued"] /\ UNCHANGED reply
      BY <1>1 DEF Arrive, Phases, Goto, sessions
  <2>2. /\ \A q \in Requests : user'[q] = IF q = r THEN u ELSE user[q]
        /\ \A q \in Requests : kind'[q] = IF q = r THEN k ELSE kind[q]
        /\ \A q \in Requests \ {r} : pc'[q] = pc[q] /\ reply'[q] = reply[q]
        /\ pc'[r] \in {"done", "queued"} /\ reply'[r] \in {"none", "refused"}
      BY <2>1 DEF Types
  <2>3. Types'
      BY <2>1 DEF Types
  <2>4. Numbered'
    <3>1. Given' = Given
        BY <2>1 DEF Given
    <3> QED
        BY <2>1, <3>1 DEF Numbered
  <2>5. Phases'
      BY <2>1, <2>2 DEF Phases
  <2>6. Shared'
      BY <2>1, <2>2 DEF Shared
  <2>7. NothingForgotten'
      BY <2>1 DEF NothingForgotten
  <2>8. LockHeldWithin'
    <3>1. \A s \in Sessions : lock[s] # r
        BY <2>1, WebAssumption DEF LockHeldWithin, Requests, NoRequest
    <3> QED
        BY <2>1, <2>2, <3>1 DEF LockHeldWithin, Types
  <2>9. AbandonedRunning'
      BY <2>1, <2>2 DEF AbandonedRunning
  <2> QED
      BY <2>3, <2>4, <2>5, <2>6, <2>7, <2>8, <2>9
<1>2. ASSUME NEW r \in Requests, Overrun(r)
      PROVE  WebInv'
  <2>1. /\ pc[r] \in {"queued", "lock", "work"} /\ reply[r] = "none" /\ user[r] \in Users
        /\ reply' = [reply EXCEPT ![r] = "late"]
        /\ abandoned' = [abandoned EXCEPT ![user[r]] = @ \cup {r}]
        /\ UNCHANGED <<session, made, forgotten, spent, lock, pc, user, kind, sess, charged>>
      BY <1>2 DEF Overrun, sessions, request, Phases
  <2>2. Types'
      BY <2>1 DEF Types
  <2>3. Numbered' /\ Shared' /\ NothingForgotten'
      BY <2>1, StoreKept
  <2>4. \A q \in Requests : reply'[q] = IF q = r THEN "late" ELSE reply[q]
      BY <2>1 DEF Types
  <2>5. Phases'
      BY <2>1, <2>4 DEF Phases
  <2>6. LockHeldWithin'
      BY <2>1 DEF LockHeldWithin
  <2>7. \A v \in Users : abandoned'[v] = IF v = user[r] THEN abandoned[v] \cup {r} ELSE abandoned[v]
      BY <2>1 DEF Types
  <2>8. AbandonedRunning'
      BY <2>1, <2>4, <2>7 DEF AbandonedRunning
  <2> QED
      BY <2>2, <2>3, <2>5, <2>6, <2>8
<1>3. ASSUME NEW r \in Requests, Start(r)
      PROVE  WebInv'
  <2>1. /\ pc[r] = "queued" /\ Goto(r, "get")
        /\ UNCHANGED <<session, made, forgotten, spent, lock, abandoned, user, kind, sess, reply, charged>>
      BY <1>3 DEF Start, sessions, request
  <2>2. /\ pc' \in [Requests -> {"idle", "queued", "get", "lock", "work", "paused", "done"}]
        /\ \A q \in Requests : pc'[q] = IF q = r THEN "get" ELSE pc[q]
        /\ AbandonedRunning'
      BY <2>1, GotoKept
  <2>3. Types'
      BY <2>1, <2>2 DEF Types
  <2>4. Numbered' /\ Shared' /\ NothingForgotten'
      BY <2>1, <2>2, StoreKept
  <2>5. Phases'
      BY <2>1, <2>2 DEF Phases
  <2>6. LockHeldWithin'
      BY <2>1, <2>2 DEF LockHeldWithin, Types
  <2> QED
      BY <2>2, <2>3, <2>4, <2>5, <2>6
<1>4. ASSUME NEW r \in Requests, Probe(r)
      PROVE  WebInv'
  <2>1. /\ pc[r] = "get" /\ user[r] \in Users /\ End(r)
        /\ UNCHANGED <<session, made, forgotten, spent, lock, user, kind, sess, charged>>
      BY <1>4 DEF Probe, sessions, request, Phases
  <2>2. /\ pc' \in [Requests -> {"idle", "queued", "get", "lock", "work", "paused", "done"}]
        /\ reply' \in [Requests -> {"none", "ok", "late", "refused"}]
        /\ abandoned' \in [Users -> SUBSET Requests]
        /\ \A q \in Requests : pc'[q] = IF q = r THEN "done" ELSE pc[q]
        /\ \A q \in Requests \ {r} : reply'[q] = reply[q]
        /\ AbandonedRunning'
      BY <2>1, EndKept
  <2>3. Types'
      BY <2>1, <2>2 DEF Types
  <2>4. Numbered' /\ Shared' /\ NothingForgotten'
      BY <2>1, <2>2, StoreKept
  <2>5. Phases'
      BY <2>1, <2>2 DEF Phases
  <2>6. LockHeldWithin'
      BY <2>1, <2>2 DEF LockHeldWithin, Types
  <2> QED
      BY <2>2, <2>3, <2>4, <2>5, <2>6
<1>5. ASSUME NEW r \in Requests, Get(r)
      PROVE  WebInv'
  <2>1. /\ pc[r] = "get" /\ sess[r] = NoSession /\ user[r] \in Users
        /\ Goto(r, IF kind[r] = "stream" THEN "paused" ELSE "lock")
        /\ UNCHANGED <<spent, lock, abandoned, user, kind, reply, charged>>
      BY <1>5 DEF Get, request, Phases
  <2>2. /\ session' \in [Users -> Nat] /\ made' \in Nat /\ sess' \in [Requests -> Nat]
        /\ sess'[r] # NoSession /\ \A q \in Requests \ {r} : sess'[q] = sess[q]
        /\ Numbered' /\ Shared' /\ NothingForgotten'
      BY <1>5, GetKept
  <2>3. /\ pc' \in [Requests -> {"idle", "queued", "get", "lock", "work", "paused", "done"}]
        /\ \A q \in Requests : pc'[q] = IF q = r THEN IF kind[r] = "stream" THEN "paused" ELSE "lock"
                                        ELSE pc[q]
        /\ AbandonedRunning'
      BY <2>1, GotoKept
  <2>4. Types'
      BY <2>1, <2>2, <2>3 DEF Types
  <2>5. Phases'
      BY <2>1, <2>2, <2>3 DEF Phases
  <2>6. LockHeldWithin'
    <3>1. \A s \in Sessions : lock[s] # r
        BY <2>1, WebAssumption DEF LockHeldWithin, Requests, NoRequest
    <3> QED
        BY <2>1, <2>2, <2>3, <3>1 DEF LockHeldWithin, Types
  <2> QED
      BY <2>2, <2>3, <2>4, <2>5, <2>6
<1>6. ASSUME NEW r \in Requests, Pull(r)
      PROVE  WebInv'
  <2>1. /\ pc[r] = "paused"
        /\ Goto(r, IF lock[sess[r]] = r THEN "work" ELSE "lock")
        /\ UNCHANGED <<session, made, forgotten, spent, lock, abandoned, user, kind, sess, reply, charged>>
      BY <1>6 DEF Pull, sessions, request
  <2>2. /\ pc' \in [Requests -> {"idle", "queued", "get", "lock", "work", "paused", "done"}]
        /\ \A q \in Requests : pc'[q] = IF q = r THEN IF lock[sess[r]] = r THEN "work" ELSE "lock"
                                        ELSE pc[q]
        /\ AbandonedRunning'
      BY <2>1, GotoKept
  <2>3. Types'
      BY <2>1, <2>2 DEF Types
  <2>4. Numbered' /\ Shared' /\ NothingForgotten'
      BY <2>1, <2>2, StoreKept
  <2>5. Phases'
      BY <2>1, <2>2 DEF Phases
  <2>6. LockHeldWithin'
      BY <2>1, <2>2 DEF LockHeldWithin, Types
  <2> QED
      BY <2>2, <2>3, <2>4, <2>5, <2>6
<1>7. ASSUME NEW r \in Requests, Acquire(r)
      PROVE  WebInv'
  <2>1. /\ pc[r] = "lock" /\ sess[r] # NoSession /\ Goto(r, "work")
        /\ lock[sess[r]] = NoRequest /\ lock' = [lock EXCEPT ![sess[r]] = r]
        /\ UNCHANGED <<session, made, forgotten, spent, abandoned, user, kind, sess, reply, charged>>
      BY <1>7 DEF Acquire, sessions, request, Phases
  <2>2. /\ pc' \in [Requests -> {"idle", "queued", "get", "lock", "work", "paused", "done"}]
        /\ \A q \in Requests : pc'[q] = IF q = r THEN "work" ELSE pc[q]
        /\ AbandonedRunning'
      BY <2>1, GotoKept
  <2>3. Types'
      BY <2>1, <2>2 DEF Types
  <2>4. Numbered' /\ Shared' /\ NothingForgotten'
      BY <2>1, <2>2, StoreKept
  <2>5. Phases'
      BY <2>1, <2>2 DEF Phases
  <2>6. LockHeldWithin'
    <3>1. \A s \in Sessions : lock'[s] = IF s = sess[r] THEN r ELSE lock[s]
        BY <2>1 DEF Types
    <3> QED
        BY <2>1, <2>2, <3>1 DEF LockHeldWithin, Types
  <2> QED
      BY <2>2, <2>3, <2>4, <2>5, <2>6
<1>8. ASSUME NEW r \in Requests, Yield(r)
      PROVE  WebInv'
  <2>1. PICK units \in {0, 1} : Charge(r, units)
      BY <1>8 DEF Yield
  <2>2. /\ pc[r] = "work" /\ kind[r] = "stream" /\ sess[r] # NoSession /\ user[r] \in Users
        /\ Goto(r, "paused")
        /\ UNCHANGED <<session, made, forgotten, lock, abandoned, user, kind, sess, reply>>
      BY <1>8 DEF Yield, sessions, request, Phases
  <2>3. /\ pc' \in [Requests -> {"idle", "queued", "get", "lock", "work", "paused", "done"}]
        /\ \A q \in Requests : pc'[q] = IF q = r THEN "paused" ELSE pc[q]
        /\ AbandonedRunning'
      BY <2>2, GotoKept
  <2>4. /\ spent' \in [Sessions -> Nat] /\ charged' \in [Users -> Nat]
        /\ Numbered' /\ Shared' /\ NothingForgotten'
      BY <2>1, <2>2, <2>3, ChargeKept
  <2>5. Types'
      BY <2>2, <2>3, <2>4 DEF Types
  <2>6. Phases'
      BY <2>2, <2>3 DEF Phases
  <2>7. LockHeldWithin'
      BY <2>2, <2>3 DEF LockHeldWithin, Types
  <2> QED
      BY <2>3, <2>4, <2>5, <2>6, <2>7
<1>9. ASSUME NEW r \in Requests, Finish(r)
      PROVE  WebInv'
  <2>1. PICK units \in {0, 1} : Charge(r, units)
      BY <1>9 DEF Finish
  <2>2. /\ pc[r] = "work" /\ sess[r] # NoSession /\ user[r] \in Users
        /\ FreeLock(r) /\ End(r)
        /\ UNCHANGED <<session, made, forgotten, user, kind, sess>>
      BY <1>9 DEF Finish, sessions, request, Phases
  <2>3. /\ pc' \in [Requests -> {"idle", "queued", "get", "lock", "work", "paused", "done"}]
        /\ reply' \in [Requests -> {"none", "ok", "late", "refused"}]
        /\ abandoned' \in [Users -> SUBSET Requests]
        /\ \A q \in Requests : pc'[q] = IF q = r THEN "done" ELSE pc[q]
        /\ \A q \in Requests \ {r} : reply'[q] = reply[q]
        /\ AbandonedRunning'
      BY <2>2, EndKept
  <2>4. /\ spent' \in [Sessions -> Nat] /\ charged' \in [Users -> Nat]
        /\ Numbered' /\ Shared' /\ NothingForgotten'
      BY <2>1, <2>2, <2>3, ChargeKept
  <2>5. /\ lock' \in [Sessions -> Requests \cup {NoRequest}]
        /\ \A s \in Sessions : lock'[s] = IF s = sess[r] /\ lock[s] = r THEN NoRequest ELSE lock[s]
      BY <2>2, FreeLockKept
  <2>6. Types'
      BY <2>2, <2>3, <2>4, <2>5 DEF Types
  <2>7. Phases'
      BY <2>2, <2>3 DEF Phases
  <2>8. LockHeldWithin'
      BY <2>2, <2>3, <2>5 DEF LockHeldWithin, Types
  <2> QED
      BY <2>3, <2>4, <2>6, <2>7, <2>8
<1>10. ASSUME NEW r \in Requests, Disconnect(r)
       PROVE  WebInv'
  <2>1. /\ pc[r] = "paused" /\ sess[r] # NoSession /\ user[r] \in Users
        /\ FreeLock(r) /\ End(r)
        /\ UNCHANGED <<session, made, forgotten, spent, charged, user, kind, sess>>
      BY <1>10 DEF Disconnect, sessions, request, Phases
  <2>2. /\ pc' \in [Requests -> {"idle", "queued", "get", "lock", "work", "paused", "done"}]
        /\ reply' \in [Requests -> {"none", "ok", "late", "refused"}]
        /\ abandoned' \in [Users -> SUBSET Requests]
        /\ \A q \in Requests : pc'[q] = IF q = r THEN "done" ELSE pc[q]
        /\ \A q \in Requests \ {r} : reply'[q] = reply[q]
        /\ AbandonedRunning'
      BY <2>1, EndKept
  <2>3. Numbered' /\ Shared' /\ NothingForgotten'
      BY <2>1, <2>2, StoreKept
  <2>4. /\ lock' \in [Sessions -> Requests \cup {NoRequest}]
        /\ \A s \in Sessions : lock'[s] = IF s = sess[r] /\ lock[s] = r THEN NoRequest ELSE lock[s]
      BY <2>1, FreeLockKept
  <2>5. Types'
      BY <2>1, <2>2, <2>4 DEF Types
  <2>6. Phases'
      BY <2>1, <2>2 DEF Phases
  <2>7. LockHeldWithin'
      BY <2>1, <2>2, <2>4 DEF LockHeldWithin, Types
  <2> QED
      BY <2>2, <2>3, <2>5, <2>6, <2>7
<1>11. CASE UNCHANGED vars
  <2>1. UNCHANGED <<session, made, forgotten, spent, lock, abandoned, pc, user, kind, sess, reply, charged>>
      BY <1>11 DEF vars, sessions, request
  <2>2. Types' /\ Phases' /\ LockHeldWithin' /\ AbandonedRunning'
      BY <2>1 DEF Types, Phases, LockHeldWithin, AbandonedRunning
  <2>3. Numbered' /\ Shared' /\ NothingForgotten'
      BY <2>1, StoreKept
  <2> QED
      BY <2>2, <2>3
<1> QED
    BY <1>1, <1>2, <1>3, <1>4, <1>5, <1>6, <1>7, <1>8, <1>9, <1>10, <1>11 DEF Next, Step

-----------------------------------------------------------------------------
(***************************************************************************)
(* The store as a sequence: every user in it once and never more than the  *)
(* cap, and in it exactly those that have a session.                       *)
(***************************************************************************)
StoreInv ==
    /\ store \in Seq(Users) /\ IsInjective(store) /\ Len(store) <= MaxSessions
    /\ \A u \in Users : session[u] # NoSession <=> u \in Range(store)
    /\ left \in [Requests -> 0..Steps] /\ forgotten \subseteq Users

\* The first place of a test that some place passes.
LEMMA FirstPlace ==
    ASSUME NEW n \in Nat, NEW P \in SUBSET (1..n), P # {}
    PROVE  Min(P) \in P
<1>1. P \in SUBSET Nat
    OBVIOUS
<1>2. PICK m \in P : \A k \in P : m <= k
    BY <1>1, LeastNumber
<1> QED
    BY <1>2 DEF Min

\* A sequence without the item at one place.
LEMMA WithoutPlace ==
    ASSUME NEW S, NEW s \in Seq(S), IsInjective(s), NEW i \in 1..Len(s)
    PROVE  /\ RemoveAt(s, i) \in Seq(S) /\ IsInjective(RemoveAt(s, i))
           /\ Len(RemoveAt(s, i)) = Len(s) - 1
           /\ Range(RemoveAt(s, i)) = Range(s) \ {s[i]}
<1> DEFINE n == Len(s)
           before == SubSeq(s, 1, i - 1)
           after == SubSeq(s, i + 1, n)
           t == before \o after
<1>1. n \in Nat /\ i \in 1..n /\ DOMAIN s = 1..n /\ \A j \in 1..n : s[j] \in S
    BY LenProperties, ElementOfSeq
<1>2. /\ before \in Seq(S) /\ Len(before) = i - 1
      /\ \A j \in 1..(i - 1) : before[j] = s[j]
  <2>1. /\ 1 \in 1..(n + 1) /\ i - 1 \in 0..n
      BY <1>1
  <2> QED
      BY <1>1, SubSeqProperties
<1>3. /\ after \in Seq(S) /\ Len(after) = n - i
      /\ \A j \in 1..(n - i) : after[j] = s[j + i]
  <2>1. i + 1 \in 1..(n + 1) /\ n \in 0..n
      BY <1>1
  <2>2. /\ after \in Seq(S)
        /\ Len(after) = IF i + 1 <= n THEN n - (i + 1) + 1 ELSE 0
        /\ \A j \in 1..(n - (i + 1) + 1) : after[j] = s[(i + 1) + j - 1]
      BY <1>1, <2>1, SubSeqProperties
  <2> HIDE DEF after
  <2>3. Len(after) = n - i
    <3>1. Len(after) = IF i + 1 <= n THEN n - (i + 1) + 1 ELSE 0
        BY <2>2
    <3>2. \A k \in Nat : \A j \in 1..k : (IF j + 1 <= k THEN k - (j + 1) + 1 ELSE 0) = k - j
        OBVIOUS
    <3> QED
        BY <1>1, <3>1, <3>2
  <2>4. ASSUME NEW j \in 1..(n - i) PROVE after[j] = s[j + i]
    <3>1. j \in 1..(n - (i + 1) + 1) /\ (i + 1) + j - 1 = j + i
        BY <1>1
    <3> QED
        BY <2>2, <3>1
  <2> QED
      BY <2>2, <2>3, <2>4
<1> HIDE DEF before, after, n
<1>4. /\ t \in Seq(S) /\ Len(t) = n - 1 /\ DOMAIN t = 1..(n - 1)
      /\ \A j \in 1..(i - 1) : t[j] = s[j]
      /\ \A j \in i..(n - 1) : t[j] = s[j + 1]
  <2>1. /\ t \in Seq(S) /\ Len(t) = Len(before) + Len(after)
        /\ \A j \in 1..(Len(before) + Len(after)) :
              t[j] = IF j <= Len(before) THEN before[j] ELSE after[j - Len(before)]
      BY <1>2, <1>3, ConcatProperties
  <2> HIDE DEF t
  <2>2. Len(before) + Len(after) = n - 1
      BY <1>1, <1>2, <1>3
  <2>3. ASSUME NEW j \in 1..(i - 1) PROVE t[j] = s[j]
    <3>1. j \in 1..(n - 1) /\ j <= i - 1
        BY <1>1
    <3> QED
        BY <1>2, <2>1, <2>2, <3>1
  <2>4. ASSUME NEW j \in i..(n - 1) PROVE t[j] = s[j + 1]
    <3>1. j \in 1..(n - 1) /\ ~(j <= i - 1) /\ j - (i - 1) \in 1..(n - i) /\ j - (i - 1) + i = j + 1
        BY <1>1
    <3> QED
        BY <1>2, <1>3, <2>1, <2>2, <3>1
  <2> QED
      BY <1>1, <2>1, <2>2, <2>3, <2>4, LenProperties
<1> HIDE DEF t
<1>5. IsInjective(t)
  <2> SUFFICES ASSUME NEW a \in 1..(n - 1), NEW b \in 1..(n - 1), t[a] = t[b] PROVE a = b
      BY <1>4 DEF IsInjective
  <2> DEFINE at(j) == IF j <= i - 1 THEN j ELSE j + 1
  <2>1. \A j \in 1..(n - 1) : at(j) \in 1..n /\ t[j] = s[at(j)]
      BY <1>1, <1>4
  <2>2. at(a) = at(b)
      BY <1>1, <2>1 DEF IsInjective
  <2> QED
      BY <1>1, <2>2
<1>6. Range(t) = Range(s) \ {s[i]}
  <2>1. ASSUME NEW j \in 1..(n - 1) PROVE t[j] \in Range(s) /\ t[j] # s[i]
    <3>1. CASE j <= i - 1
      <4>1. t[j] = s[j] /\ j \in 1..n /\ j # i
          BY <1>1, <1>4, <3>1
      <4> QED
          BY <1>1, <4>1 DEF Range, IsInjective
    <3>2. CASE ~(j <= i - 1)
      <4>1. t[j] = s[j + 1] /\ j + 1 \in 1..n /\ j + 1 # i
          BY <1>1, <1>4, <3>2
      <4> QED
          BY <1>1, <4>1 DEF Range, IsInjective
    <3> QED
        BY <3>1, <3>2
  <2>2. ASSUME NEW j \in 1..n, j # i PROVE s[j] \in Range(t)
    <3>1. CASE j < i
      <4>1. t[j] = s[j] /\ j \in 1..(n - 1)
          BY <1>1, <1>4, <3>1
      <4> QED
          BY <1>4, <4>1 DEF Range
    <3>2. CASE ~(j < i)
      <4>1. t[j - 1] = s[j] /\ j - 1 \in 1..(n - 1)
        <5>1. j - 1 \in i..(n - 1) /\ (j - 1) + 1 = j
            BY <1>1, <2>2, <3>2
        <5> QED
            BY <1>1, <1>4, <5>1
      <4> QED
          BY <1>4, <4>1 DEF Range
    <3> QED
        BY <3>1, <3>2
  <2>3. DOMAIN s = 1..n /\ DOMAIN t = 1..(n - 1)
      BY <1>1, <1>4
  <2>4. ASSUME NEW x \in Range(t) PROVE x \in Range(s) /\ x # s[i]
    <3>1. PICK j \in 1..(n - 1) : x = t[j]
        BY <2>3 DEF Range
    <3> QED
        BY <2>1, <3>1
  <2>5. ASSUME NEW x \in Range(s), x # s[i] PROVE x \in Range(t)
    <3>1. PICK j \in 1..n : x = s[j]
        BY <2>3 DEF Range
    <3>2. j # i
        BY <2>5, <3>1
    <3> QED
        BY <2>2, <3>1, <3>2
  <2> QED
      BY <2>4, <2>5
<1>7. RemoveAt(s, i) = t
    BY DEF RemoveAt, t, before, after, n
<1> QED
    BY <1>4, <1>5, <1>6, <1>7 DEF n

\* A sequence without one of its members.
LEMMA WithoutMember ==
    ASSUME NEW S, NEW s \in Seq(S), IsInjective(s), NEW e \in Range(s)
    PROVE  /\ RemoveFirst(s, e) \in Seq(S) /\ IsInjective(RemoveFirst(s, e))
           /\ Len(RemoveFirst(s, e)) = Len(s) - 1
           /\ Range(RemoveFirst(s, e)) = Range(s) \ {e}
<1> DEFINE P == {i \in 1..Len(s) : s[i] = e}
<1>1. Len(s) \in Nat /\ DOMAIN s = 1..Len(s)
    BY LenProperties
<1>2. P # {} /\ P \in SUBSET (1..Len(s))
    BY <1>1 DEF Range
<1>3. RemoveFirst(s, e) = RemoveAt(s, Min(P))
  <2>1. SelectInSeq(s, LAMBDA v : v = e) = Min(P)
      BY <1>2 DEF SelectInSeq
  <2>2. \E i \in 1..Len(s) : s[i] = e
      BY <1>2
  <2> QED
      BY <2>1, <2>2 DEF RemoveFirst
<1> HIDE DEF P
<1>4. Min(P) \in P
    BY <1>1, <1>2, FirstPlace
<1>5. Min(P) \in 1..Len(s) /\ s[Min(P)] = e
    BY <1>4 DEF P
<1> QED
    BY <1>3, <1>5, WithoutPlace

\* A sequence with one member more.
LEMMA WithMember ==
    ASSUME NEW S, NEW s \in Seq(S), IsInjective(s), NEW e \in S, e \notin Range(s)
    PROVE  /\ Append(s, e) \in Seq(S) /\ IsInjective(Append(s, e))
           /\ Len(Append(s, e)) = Len(s) + 1
           /\ Range(Append(s, e)) = Range(s) \cup {e}
           /\ \A i \in 1..Len(s) : Append(s, e)[i] = s[i]
           /\ Append(s, e)[Len(s) + 1] = e
<1> DEFINE t == Append(s, e)
           n == Len(s)
<1>1. n \in Nat /\ DOMAIN s = 1..n
    BY LenProperties
<1>2. /\ t \in Seq(S) /\ Len(t) = n + 1 /\ DOMAIN t = 1..(n + 1)
      /\ \A i \in 1..n : t[i] = s[i]
      /\ t[n + 1] = e
    BY AppendProperties, LenProperties
<1> HIDE DEF t, n
<1>3. \A i \in 1..n : s[i] # e
    BY <1>1 DEF Range
<1>4. IsInjective(t)
    BY <1>1, <1>2, <1>3 DEF IsInjective
<1>5. Range(t) = Range(s) \cup {e}
    BY <1>1, <1>2 DEF Range
<1> QED
    BY <1>2, <1>4, <1>5 DEF t, n


LEMMA InitStore == Init => StoreInv
<1> SUFFICES ASSUME Init PROVE StoreInv
    OBVIOUS
<1>1. PICK n \in 0..MaxRestored : \E users \in [1..n -> Users] :
          /\ IsInjective(users)
          /\ store \in {SubSeq(users, i, Len(users)) : i \in 1..(Len(users) + 1)}
          /\ \E units \in [Users -> {0, 1}] : Restored(users, units)
    BY DEF Init
<1>2. PICK users \in [1..n -> Users] :
          /\ IsInjective(users)
          /\ store \in {SubSeq(users, i, Len(users)) : i \in 1..(Len(users) + 1)}
          /\ \E units \in [Users -> {0, 1}] : Restored(users, units)
    BY <1>1
<1>3. PICK units \in [Users -> {0, 1}] : Restored(users, units)
    BY <1>2
<1>4. n \in Nat /\ Len(users) = n /\ DOMAIN users = 1..n /\ users \in Seq(Users)
    BY WebAssumption
<1>5. PICK i \in 1..(n + 1) : store = SubSeq(users, i, n)
    BY <1>2, <1>4
<1>6. /\ store \in Seq(Users)
      /\ Len(store) = n - i + 1
      /\ \A j \in 1..(n - i + 1) : store[j] = users[i + j - 1]
  <2>1. /\ store \in Seq(Users)
        /\ Len(store) = IF i <= n THEN n - i + 1 ELSE 0
        /\ \A j \in 1..(n - i + 1) : store[j] = users[i + j - 1]
    <3>1. i \in 1..(Len(users) + 1) /\ n \in 0..Len(users)
        BY <1>4
    <3> QED
        BY <1>4, <1>5, <3>1, SubSeqProperties
  <2> QED
      BY <1>4, <2>1
<1>7. DOMAIN store = 1..(n - i + 1)
    BY <1>6, LenProperties
<1>8. IsInjective(store)
  <2> SUFFICES ASSUME NEW a \in 1..(n - i + 1), NEW b \in 1..(n - i + 1), store[a] = store[b]
               PROVE  a = b
      BY <1>7 DEF IsInjective
  <2>1. i + a - 1 \in 1..n /\ i + b - 1 \in 1..n
      BY <1>4
  <2>2. i + a - 1 = i + b - 1
      BY <1>2, <1>4, <1>6, <2>1 DEF IsInjective
  <2> QED
      BY <1>4, <2>2
<1>9. Len(store) <= MaxSessions
  <2>1. Len(store) = IF Len(users) > MaxSessions THEN MaxSessions ELSE Len(users)
      BY <1>3, Zenon DEF Restored
  <2> QED
      BY <1>4, <2>1, WebAssumption
<1>10. Range(store) \subseteq Range(users) /\ Range(users) \subseteq Users
  <2>1. ASSUME NEW j \in 1..(n - i + 1) PROVE store[j] \in Range(users)
    <3>1. i + j - 1 \in 1..n
        BY <1>4
    <3> QED
        BY <1>4, <1>6, <3>1 DEF Range
  <2> QED
      BY <1>4, <1>7, <2>1 DEF Range
<1> DEFINE kept == SubSeq(users, Len(users) - Len(store) + 1, Len(users))
           number(u) == CHOOSE k \in DOMAIN users : users[k] = u
<1>11. /\ store = kept
       /\ session = [u \in Users |-> IF u \in Range(kept) THEN number(u) ELSE NoSession]
       /\ forgotten = Range(users) \ Range(kept)
    BY <1>3, Zenon DEF Restored
<1> HIDE DEF kept
<1>12. \A u \in Range(users) : number(u) # NoSession
    BY <1>4 DEF Range, NoSession
<1> HIDE DEF number
<1>13. \A u \in Users : session[u] # NoSession <=> u \in Range(store)
    BY <1>10, <1>11, <1>12
<1>14. left \in [Requests -> 0..Steps] /\ forgotten \subseteq Users
  <2>1. left = [r \in Requests |-> Steps]
      BY DEF Init
  <2> QED
      BY <1>10, <1>11, <2>1, WebAssumption
<1> QED
    BY <1>6, <1>8, <1>9, <1>13, <1>14 DEF StoreInv

\* Who makes room for a newcomer is another user of the store; one that holds
\* something only when all of them do.
LEMMA VictimChosen ==
    ASSUME WebInv, StoreInv, NEW u \in Users, session[u] = NoSession,
           Len(Append(store, u)) > MaxSessions,
           NEW v, v = Victim(Append(store, u), u)
    PROVE  /\ v \in Range(store) /\ v # u
           /\ spent[session[v]] # 0 => \A t \in Range(store) : spent[session[t]] # 0
<1> DEFINE grown == Append(store, u)
           quiet == Evictable(grown, u)
           n == Len(store)
<1>1. /\ u \notin Range(store) /\ store \in Seq(Users) /\ IsInjective(store)
      /\ n \in Nat /\ DOMAIN store = 1..n
    BY LenProperties DEF StoreInv
<1>2. /\ Len(grown) = n + 1 /\ grown \in Seq(Users) /\ DOMAIN grown = 1..(n + 1)
      /\ \A i \in 1..n : grown[i] = store[i]
      /\ grown[n + 1] = u
    BY <1>1, WithMember, LenProperties
<1>3. n >= 1
    BY <1>1, <1>2, WebAssumption
<1> HIDE DEF grown, n
<1>4. quiet = {i \in 1..n : spent[session[store[i]]] = 0}
  <2>1. quiet = {i \in 1..(n + 1) : grown[i] # u /\ spent[session[grown[i]]] = 0}
      BY <1>2 DEF Evictable
  <2>2. \A i \in 1..n : store[i] # u
      BY <1>1 DEF Range
  <2> QED
      BY <1>1, <1>2, <2>1, <2>2
<1>5. v = grown[IF quiet # {} THEN Min(quiet) ELSE 1]
    BY DEF Victim, grown
<1> HIDE DEF quiet
<1>6. CASE quiet # {}
  <2>1. Min(quiet) \in quiet
      BY <1>1, <1>4, <1>6, FirstPlace
  <2>2. v = store[Min(quiet)] /\ Min(quiet) \in 1..n /\ spent[session[v]] = 0
      BY <1>2, <1>4, <1>5, <1>6, <2>1
  <2> QED
      BY <1>1, <2>2 DEF Range
<1>7. CASE quiet = {}
  <2>1. v = store[1] /\ 1 \in 1..n
      BY <1>1, <1>2, <1>3, <1>5, <1>7
  <2>2. v \in Range(store)
      BY <1>1, <2>1 DEF Range
  <2>3. \A t \in Range(store) : spent[session[t]] # 0
      BY <1>1, <1>4, <1>7 DEF Range
  <2> QED
      BY <1>1, <2>2, <2>3
<1> QED
    BY <1>6, <1>7

\* What get does to the store.
LEMMA GetStore ==
    ASSUME WebInv, StoreInv, NEW r \in Requests, Get(r)
    PROVE  StoreInv'
<1> DEFINE u == user[r]
<1>1. /\ sess[r] = NoSession /\ u \in Users /\ left' = left
      /\ session \in [Users -> Nat] /\ made \in Nat
    BY DEF Get, Phases, WebInv, Types
<1> HIDE DEF u
<1>2. /\ store \in Seq(Users) /\ IsInjective(store) /\ Len(store) <= MaxSessions
      /\ left \in [Requests -> 0..Steps] /\ forgotten \subseteq Users
      /\ \A w \in Users : session[w] # NoSession <=> w \in Range(store)
      /\ Len(store) \in Nat /\ MaxSessions \in Nat
    BY WebAssumption, LenProperties DEF StoreInv
<1>3. CASE GetFound(r)
  <2>1. /\ u \in Range(store) /\ store' = Append(RemoveFirst(store, u), u)
        /\ UNCHANGED <<session, forgotten>>
      BY <1>1, <1>2, <1>3 DEF GetFound, u
  <2> DEFINE rest == RemoveFirst(store, u)
  <2>2. /\ rest \in Seq(Users) /\ IsInjective(rest) /\ Len(rest) = Len(store) - 1
        /\ Range(rest) = Range(store) \ {u}
      BY <1>2, <2>1, WithoutMember
  <2> HIDE DEF rest
  <2>3. /\ Append(rest, u) \in Seq(Users) /\ IsInjective(Append(rest, u))
        /\ Len(Append(rest, u)) = Len(rest) + 1
        /\ Range(Append(rest, u)) = Range(rest) \cup {u}
      BY <1>1, <2>2, WithMember
  <2>4. store' = Append(rest, u)
      BY <2>1 DEF rest
  <2>5. Range(store') = Range(store)
      BY <2>1, <2>2, <2>3, <2>4
  <2>6. Len(store') = Len(store)
    <3>1. Len(store') = (Len(store) - 1) + 1
        BY <2>2, <2>3, <2>4
    <3> QED
        BY <1>2, <3>1
  <2> QED
      BY <1>1, <1>2, <2>1, <2>3, <2>4, <2>5, <2>6 DEF StoreInv
<1>4. CASE GetNew(r)
  <2> DEFINE grown == Append(store, u)
             victim == Victim(grown, u)
             evicts == Len(grown) > MaxSessions
  <2>1. /\ session[u] = NoSession /\ made' = made + 1
        /\ store' = IF evicts THEN RemoveFirst(grown, victim) ELSE grown
        /\ session' = IF evicts THEN [[session EXCEPT ![u] = made + 1] EXCEPT ![victim] = NoSession]
                      ELSE [session EXCEPT ![u] = made + 1]
        /\ forgotten' = IF evicts /\ (UsersOf(session[victim]) # {} \/ spent[session[victim]] > 0)
                        THEN forgotten \cup {victim} ELSE forgotten
      BY <1>4, Zenon DEF GetNew, u
  <2>2. u \notin Range(store)
      BY <1>1, <1>2, <2>1
  <2>3. /\ grown \in Seq(Users) /\ IsInjective(grown) /\ Len(grown) = Len(store) + 1
        /\ Range(grown) = Range(store) \cup {u}
      BY <1>1, <1>2, <2>2, WithMember
  <2>4. evicts => victim \in Range(store) /\ victim # u
      BY <1>1, <2>1, VictimChosen
  <2>5. Range(store) \subseteq Users
      BY <1>2, LenProperties, ElementOfSeq DEF Range
  <2> HIDE DEF victim, grown
  <2>6. CASE evicts
    <3>1. /\ store' \in Seq(Users) /\ IsInjective(store')
          /\ Len(store') = Len(grown) - 1 /\ Range(store') = Range(grown) \ {victim}
      <4>1. store' = RemoveFirst(grown, victim) /\ victim \in Range(grown)
          BY <2>1, <2>3, <2>4, <2>6
      <4> QED
          BY <2>3, <4>1, WithoutMember
    <3>2. \A w \in Users : session'[w] = IF w = victim THEN NoSession
                                         ELSE IF w = u THEN made + 1 ELSE session[w]
        BY <1>1, <2>1, <2>4, <2>5, <2>6
    <3>3. \A w \in Users : session'[w] # NoSession <=> w \in Range(store')
        BY <1>1, <1>2, <2>3, <2>4, <3>1, <3>2 DEF NoSession
    <3>4. Len(store') <= MaxSessions
        BY <1>2, <2>3, <3>1
    <3>5. forgotten' \subseteq Users
        BY <1>2, <2>1, <2>4, <2>5, <2>6
    <3> QED
        BY <1>1, <1>2, <3>1, <3>3, <3>4, <3>5 DEF StoreInv
  <2>7. CASE ~evicts
    <3>1. store' = grown /\ forgotten' = forgotten /\ session' = [session EXCEPT ![u] = made + 1]
        BY <2>1, <2>7
    <3>2. \A w \in Users : session'[w] # NoSession <=> w \in Range(store')
        BY <1>1, <1>2, <2>3, <3>1 DEF NoSession
    <3>3. Len(store') <= MaxSessions
        BY <1>2, <2>3, <2>7, <3>1
    <3> QED
        BY <1>1, <1>2, <2>3, <3>1, <3>2, <3>3 DEF StoreInv
  <2> QED
      BY <2>6, <2>7
<1> QED
    BY <1>3, <1>4 DEF Get

LEMMA StepStore == WebInv /\ StoreInv /\ [Next]_vars => StoreInv'
<1> SUFFICES ASSUME WebInv, StoreInv, [Next]_vars PROVE StoreInv'
    OBVIOUS
<1>1. ASSUME UNCHANGED <<store, session, forgotten>>, left' \in [Requests -> 0..Steps]
      PROVE  StoreInv'
    BY <1>1 DEF StoreInv
<1>2. left \in [Requests -> 0..Steps]
    BY DEF StoreInv
<1>3. ASSUME NEW r \in Requests, NEW u \in Users, NEW k \in Kinds, Arrive(r, u, k)
      PROVE  StoreInv'
    BY <1>1, <1>2, <1>3 DEF Arrive, sessions
<1>4. ASSUME NEW r \in Requests,
             Overrun(r) \/ Start(r) \/ Probe(r) \/ Pull(r) \/ Acquire(r) \/ Finish(r) \/ Disconnect(r)
      PROVE  StoreInv'
  <2>1. UNCHANGED <<store, session, forgotten>> /\ left' = left
      BY <1>4 DEF Overrun, Start, Probe, Pull, Acquire, Finish, Disconnect, sessions
  <2> QED
      BY <1>1, <1>2, <2>1
<1>5. ASSUME NEW r \in Requests, Yield(r)
      PROVE  StoreInv'
  <2>1. /\ UNCHANGED <<store, session, forgotten>>
        /\ left[r] > 0 /\ left' = [left EXCEPT ![r] = @ - 1]
      BY <1>5 DEF Yield, sessions
  <2>2. left[r] - 1 \in 0..Steps
      BY <1>2, <2>1, WebAssumption
  <2>3. left' \in [Requests -> 0..Steps]
      BY <1>2, <2>1, <2>2
  <2> QED
      BY <1>1, <2>1, <2>3
<1>6. ASSUME NEW r \in Requests, Get(r)
      PROVE  StoreInv'
    BY <1>6, GetStore
<1>7. CASE UNCHANGED vars
    BY <1>1, <1>2, <1>7 DEF vars, sessions
<1> QED
    BY <1>3, <1>4, <1>5, <1>6, <1>7 DEF Next, Step

\* Types, with the numbers of the sessions.
LEMMA WebTyped == WebInv /\ StoreInv => TypeOK
<1> SUFFICES ASSUME WebInv, StoreInv PROVE TypeOK
    OBVIOUS
<1>1. session \in [Users -> Sessions \cup {NoSession}]
  <2>1. \A u \in Users : session[u] \in Nat /\ session[u] <= made
      BY DEF WebInv, Types, Numbered
  <2>2. \A u \in Users : session[u] \in Sessions \cup {NoSession}
      BY <2>1, MadeIsSession DEF WebInv
  <2> QED
      BY <2>2 DEF WebInv, Types
<1>2. sess \in [Requests -> Sessions \cup {NoSession}]
  <2>1. \A r \in Requests : sess[r] \in Nat /\ sess[r] <= made
      BY DEF WebInv, Types, Numbered
  <2>2. \A r \in Requests : sess[r] \in Sessions \cup {NoSession}
      BY <2>1, MadeIsSession DEF WebInv
  <2> QED
      BY <2>2 DEF WebInv, Types
<1> QED
    BY <1>1, <1>2 DEF TypeOK, WebInv, Types, StoreInv

-----------------------------------------------------------------------------
(* Theorems                                                                 *)

\* Requests of one user that are inside, with a session not dropped in use,
\* have the one that the store has.
LEMMA SharedIsOne == WebInv => OneSession
<1> SUFFICES ASSUME WebInv, NEW q \in Requests, NEW r \in Requests,
                    user[q] = user[r], user[r] \notin forgotten,
                    sess[q] # NoSession, sess[r] # NoSession, pc[q] # "done", pc[r] # "done"
             PROVE  sess[q] = sess[r]
    BY DEF OneSession
<1>1. session[user[q]] = sess[q] /\ session[user[r]] = sess[r]
    BY DEF WebInv, Shared
<1> QED
    BY <1>1

\* Sessions, locks and the pools of abandoned tasks hold what the requests did,
\* whatever the store evicted, the ceiling cut off or a browser left: memory of
\* one identity is one auditor (session.py get), a lock is held by who is inside
\* (app.py with sess.lock), a pool counts what still runs (timing.py).
THEOREM NothingIsLost == Spec => []NothingLost
<1>1. WebInv /\ StoreInv => NothingLost
    BY SharedIsOne, WebTyped DEF WebInv, NothingLost
<1> QED
    BY <1>1, InitWeb, StepWeb, InitStore, StepStore, PTL DEF Spec

\* A query is refused at the door for what its caller has overrun itself, or for
\* the backstop over all callers, and for nothing else (timing.py 250-262).
LEMMA OwnWasteStep == WebInv /\ [Next]_vars => OwnWasteOnly
<1> SUFFICES ASSUME WebInv, [Next]_vars, NEW r \in Requests,
                    pc[r] = "idle", pc'[r] # "idle", kind'[r] = "query"
             PROVE  reply'[r] = "refused" <=>
                        \/ Cardinality(Overrunning(user'[r])) >= MaxAbandoned
                        \/ Cardinality(UNION {Overrunning(u) : u \in Users}) >= MaxAbandonedTotal
    BY DEF OwnWasteOnly
<1>1. \A u \in Users : abandoned[u] = Overrunning(u)
    BY DEF WebInv, AbandonedRunning, Overrunning
<1>2. Range(abandoned) = {Overrunning(u) : u \in Users}
    BY <1>1 DEF Range, WebInv, Types
<1>3. PICK u \in Users, k \in Kinds : Arrive(r, u, k)
  <2>1. CASE UNCHANGED vars
      BY <2>1 DEF vars
  <2>2. ASSUME NEW q \in Requests, Overrun(q) \/ Step(q) \/ Disconnect(q) PROVE FALSE
    <3>1. pc[q] # "idle"
        BY <2>2 DEF Overrun, Step, Start, Probe, Get, Pull, Acquire, Yield, Finish, Disconnect
    <3>2. pc'[r] = pc[r]
        BY <2>2, <3>1 DEF Overrun, Step, Start, Probe, Get, Pull, Acquire, Yield, Finish, Disconnect,
                          Goto, End, WebInv, Types
    <3> QED
        BY <3>2
  <2>3. ASSUME NEW q \in Requests, NEW u \in Users, NEW k \in Kinds, Arrive(q, u, k), q # r PROVE FALSE
      BY <2>3 DEF Arrive, Goto, WebInv, Types
  <2> QED
      BY <2>1, <2>2, <2>3 DEF Next
<1>4. user'[r] = u /\ k = "query" /\ reply[r] = "none"
    BY <1>3 DEF Arrive, WebInv, Types, Phases
<1>5. reply'[r] = "refused" <=> Full(u)
    BY <1>3, <1>4 DEF Arrive, WebInv, Types
<1> QED
    BY <1>1, <1>2, <1>4, <1>5 DEF Full

\* The sessions of the store change only when one is fetched.
LEMMA OnlyGet ==
    ASSUME WebInv, [Next]_vars, session' # session \/ sess' # sess
    PROVE  \E r \in Requests :
               /\ Get(r) /\ user'[r] = user[r] /\ user[r] \in Users
               /\ \A q \in Requests \ {r} : sess'[q] = sess[q]
<1>1. PICK r \in Requests : Get(r)
    BY DEF Next, Step, vars, sessions, Arrive, Overrun, Start, Probe, Pull, Acquire, Yield,
           Finish, Disconnect
<1>2. user'[r] = user[r] /\ user[r] \in Users
    BY <1>1 DEF Get, request, WebInv, Phases
<1>3. \A q \in Requests \ {r} : sess'[q] = sess[q]
    BY <1>1, GetKept DEF WebInv
<1> QED
    BY <1>1, <1>2, <1>3

\* A session that holds anything is dropped only when every other one does.
LEMMA KeepsStateStep == WebInv /\ StoreInv /\ [Next]_vars => KeepsState
<1> SUFFICES ASSUME WebInv, StoreInv, [Next]_vars, NEW v \in Users, NEW t \in Range(store),
                    session[v] # NoSession, spent[session[v]] > 0, session'[v] = NoSession
             PROVE  spent[session[t]] > 0
    BY DEF KeepsState
<1>1. session' # session
    OBVIOUS
<1>2. PICK r \in Requests : Get(r) /\ user[r] \in Users
    BY <1>1, OnlyGet
<1> DEFINE u == user[r]
           grown == Append(store, u)
           victim == Victim(grown, u)
           evicts == Len(grown) > MaxSessions
<1>3. /\ session[u] = NoSession
      /\ session' = IF evicts THEN [[session EXCEPT ![u] = made + 1] EXCEPT ![victim] = NoSession]
                    ELSE [session EXCEPT ![u] = made + 1]
  <2>1. GetNew(r)
      BY <1>1, <1>2 DEF Get, GetFound
  <2> QED
      BY <2>1, Zenon DEF GetNew
<1>4. session \in [Users -> Nat] /\ made \in Nat /\ u \in Users /\ v # u
    BY <1>2, <1>3 DEF WebInv, Types
<1>5. evicts /\ v = victim
  <2> HIDE DEF u, victim, evicts
  <2> QED
      BY <1>3, <1>4
<1>6. spent[session[v]] # 0
    BY <1>5
<1>7. \A w \in Range(store) : spent[session[w]] # 0
    BY <1>3, <1>4, <1>5, <1>6, VictimChosen
<1>8. t \in Users /\ session[t] \in Sessions
  <2>1. t \in Users
      BY LenProperties, ElementOfSeq DEF StoreInv, Range
  <2>2. session[t] # NoSession /\ session[t] \in Nat /\ session[t] <= made
      BY <2>1 DEF StoreInv, WebInv, Types, Numbered
  <2> QED
      BY <2>1, <2>2, MadeIsSession DEF WebInv
<1> QED
    BY <1>7, <1>8 DEF WebInv, Types

\* Whoever is given a session finds it in the store.
LEMMA GetKeepsStep == WebInv /\ StoreInv /\ [Next]_vars => GetKeeps
<1> SUFFICES ASSUME WebInv, StoreInv, [Next]_vars, NEW r \in Requests,
                    sess[r] = NoSession, sess'[r] # NoSession
             PROVE  session'[user[r]] = sess'[r]
    BY DEF GetKeeps
<1>1. sess' # sess
    OBVIOUS
<1>2. Get(r) /\ user'[r] = user[r] /\ user[r] \in Users
    BY <1>1, OnlyGet
<1>3. session \in [Users -> Nat] /\ sess \in [Requests -> Nat] /\ made \in Nat
    BY DEF WebInv, Types
<1>4. CASE GetFound(r)
    BY <1>2, <1>3, <1>4 DEF GetFound
<1>5. CASE GetNew(r)
  <2> DEFINE u == user[r]
             grown == Append(store, u)
             victim == Victim(grown, u)
             evicts == Len(grown) > MaxSessions
  <2>1. /\ session[u] = NoSession
        /\ session' = IF evicts THEN [[session EXCEPT ![u] = made + 1] EXCEPT ![victim] = NoSession]
                      ELSE [session EXCEPT ![u] = made + 1]
        /\ sess' = [sess EXCEPT ![r] = made + 1]
      BY <1>5, Zenon DEF GetNew
  <2>2. evicts => victim # u
      BY <1>2, <2>1, VictimChosen
  <2> HIDE DEF u, victim, evicts
  <2>3. u \in Users /\ u = user[r]
      BY <1>2 DEF u
  <2>4. session'[u] = made + 1 /\ sess'[r] = made + 1
      BY <1>3, <2>1, <2>2, <2>3
  <2> QED
      BY <2>3, <2>4
<1> QED
    BY <1>2, <1>4, <1>5 DEF Get

\* A query is refused at the door for what its caller has overrun itself, or for
\* the backstop over all callers, and for nothing else; a session that holds
\* anything is dropped for a newcomer only when every other one does, and a
\* newcomer is never dropped for itself (timing.py 250-262, session.py 103-153).
THEOREM ArrivalsAreFair == Spec => ArrivalsFair
<1>1. WebInv /\ StoreInv /\ [Next]_vars => [OwnWasteOnly /\ KeepsState /\ GetKeeps]_vars
    BY OwnWasteStep, KeepsStateStep, GetKeepsStep
<1> QED
    BY <1>1, InitWeb, StepWeb, InitStore, StepStore, PTL DEF Spec, ArrivalsFair

=============================================================================
