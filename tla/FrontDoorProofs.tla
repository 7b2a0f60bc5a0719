-------------------------- MODULE FrontDoorProofs --------------------------
(***************************************************************************)
(* Proofs about the front door.  What a limiter allows is settled by an    *)
(* account per key and stretch of time: what was granted in the stretch,   *)
(* with what the bucket still holds, is no more than a bucket and what     *)
(* came back; and a bucket that was dropped is missed by nobody, because   *)
(* it was full at every time that a caller can still come with.  Who is    *)
(* let in, and under which name, is decided by the posture alone.          *)
(***************************************************************************)
EXTENDS FrontDoor, RunningTotalsProofs, FiniteSetTheorems, TLAPS

-----------------------------------------------------------------------------
(***************************************************************************)
(* One limiter, of capacity C: its buckets B, what it granted G, the keys  *)
(* it forgave F, and the times T[k] that a request for k may come with.    *)
(***************************************************************************)

\* What is due to key k for n grants since s.
Due(C, B, k, n, s, times) ==
    /\ k \in DOMAIN B =>
        n * Window + B[k].tokens <= C * Window + B[k].last * C - s * C
    /\ k \notin DOMAIN B => \A u \in times : n * Window <= u * C - s * C

Account(C, B, k, n, s, t, times) ==
    /\ n * Window <= C * Window + t * C - s * C
    /\ n > 0 => Due(C, B, k, n, s, times)

Books(C, B, G, F, T) ==
    \A k \in DOMAIN G \ F : \A s \in Times : \A t \in s..MaxTime :
        Account(C, B, k, RunningTotal(G[k], s - 1, t), s, t, T[k])

\* What `allow` finds for a key, and leaves.
Finds(C, B, keys, key, time, units) ==
    IF key \in keys
    THEN /\ units <= C * Window
         /\ units <= B[key].tokens + time * C - B[key].last * C
    ELSE units = C * Window

Leaves(B, keys, key, time, units, B2) ==
    /\ DOMAIN B2 = keys \cup {key}
    /\ \A k \in keys \ {key} : B2[k] = B[k]
    /\ B2[key].last = time
    /\ B2[key].tokens = IF units < Window THEN units ELSE units - Window

\* One stretch of the key that is charged: where it stands after the charge.
LEMMA ChargeCounted ==
    ASSUME NEW C \in Nat \ {0}, NEW W \in Nat \ {0}, NEW n \in Nat, NEW s \in Nat, NEW t \in Nat,
           NEW time \in Nat, NEW units \in Int, s <= t,
           units <= C * W,
           n > 0 => n * W + units <= C * W + time * C - s * C,
           n * W <= C * W + t * C - s * C,
           NEW m \in Nat,
           m = IF units >= W /\ time \in s..t THEN n + 1 ELSE n,
           NEW left \in Int,
           left = IF units < W THEN units ELSE units - W
    PROVE  /\ m * W <= C * W + t * C - s * C
           /\ m > 0 => m * W + left <= C * W + time * C - s * C
<1>1. PICK nW \in Nat, mW \in Nat, CW \in Nat, tC \in Nat, sC \in Nat, timeC \in Nat :
          /\ nW = n * W /\ mW = m * W /\ CW = C * W
          /\ tC = t * C /\ sC = s * C /\ timeC = time * C
    OBVIOUS
<1>2. CASE units >= W /\ time \in s..t
  <2>1. m = n + 1 /\ left = units - W
      BY <1>2
  <2>2. mW = nW + W
      BY <1>1, <2>1
  <2>3. sC <= timeC /\ timeC <= tC
      BY <1>1, <1>2
  <2>4. n = 0 => nW = 0
      BY <1>1
  <2>5. n > 0 => nW + units <= CW + timeC - sC
      BY <1>1
  <2>6. units <= CW
      BY <1>1
  <2>7. nW + units <= CW + timeC - sC
      BY <2>3, <2>4, <2>5, <2>6
  <2>8. mW + left <= CW + timeC - sC
      BY <2>1, <2>2, <2>7
  <2>9. mW <= CW + tC - sC
      BY <1>2, <2>1, <2>3, <2>8
  <2> QED
      BY <1>1, <2>8, <2>9
<1>3. CASE ~(units >= W /\ time \in s..t)
  <2>1. m = n /\ left <= units
      BY <1>3
  <2> QED
      BY <2>1, <1>1
<1> QED
    BY <1>2, <1>3

\* A bucket full at one time is full at every later one.
LEMMA FullStaysFull ==
    ASSUME NEW C \in Nat, NEW W \in Nat, NEW tokens \in Int, NEW last \in Int, NEW t \in Int, NEW u \in Int,
           t <= u, C * W <= tokens + t * C - last * C
    PROVE  C * W <= tokens + u * C - last * C
<1>1. t * C <= u * C
    OBVIOUS
<1>2. t * C \in Int /\ u * C \in Int /\ last * C \in Int /\ C * W \in Int
    OBVIOUS
<1> QED
    BY <1>1, <1>2

\* What a limiter's books are about.
Sorted(B, G, T) ==
    /\ \A k \in DOMAIN B : B[k].tokens \in Int /\ B[k].last \in Int
    /\ \A k \in DOMAIN G : G[k] \in [Times -> Nat] /\ T[k] \subseteq Times

\* Grants of a stretch are a natural number.
LEMMA StretchIsNat ==
    ASSUME NEW g \in [Times -> Nat], NEW s \in Times, NEW t \in s..MaxTime
    PROVE  /\ s \in Nat /\ t \in Nat /\ s - 1 \in Nat /\ s - 1 <= t /\ s <= t
           /\ (s - 1) + 1 = s
           /\ RunningTotal(g, s - 1, t) \in Nat
<1>1. s \in Nat /\ t \in Nat /\ s - 1 \in Nat /\ s - 1 <= t /\ s <= t /\ (s - 1) + 1 = s
    BY LimiterAssumption DEF Times
<1>2. \A i \in ((s - 1) + 1)..t : g[i] \in Nat
    BY <1>1, LimiterAssumption DEF Times
<1> QED
    BY <1>1, <1>2, TotalIsNat

\* What a charge adds to the grants of a stretch.
LEMMA StretchAfter ==
    ASSUME NEW g \in [Times -> Nat], NEW s \in Times, NEW t \in s..MaxTime, NEW time \in Times,
           NEW h, h[time] = g[time] + 1, \A i \in Times \ {time} : h[i] = g[i]
    PROVE  RunningTotal(h, s - 1, t) =
               RunningTotal(g, s - 1, t) + (IF time \in s..t THEN 1 ELSE 0)
<1>1. PICK lo \in Nat : lo = s - 1 /\ lo + 1 = s
    BY StretchIsNat
<1>2. t \in Nat /\ lo <= t
    BY <1>1, StretchIsNat
<1>3. \A i \in (lo + 1)..t : i \in Times
    BY <1>1, LimiterAssumption DEF Times
<1>4. \A i \in (lo + 1)..t : g[i] \in Nat
    BY <1>3
<1>5. \A i \in (lo + 1)..t : i # time => h[i] = g[i]
    BY <1>3
<1>7. CASE time \in (lo + 1)..t
  <2>1. ASSUME NEW hi \in Nat, hi = t PROVE RunningTotal(h, lo, hi) = RunningTotal(g, lo, hi) + 1
    <3>1. lo <= hi /\ time \in (lo + 1)..hi
        BY <1>2, <1>7, <2>1
    <3>2. \A i \in (lo + 1)..hi : g[i] \in Nat
        BY <1>4, <2>1
    <3>3. \A i \in (lo + 1)..hi : i # time => h[i] = g[i]
        BY <1>5, <2>1
    <3> QED
        BY <3>1, <3>2, <3>3, TotalOfRaised
  <2> QED
      BY <1>1, <1>2, <1>7, <2>1
<1>8. CASE time \notin (lo + 1)..t
  <2>1. \A i \in (lo + 1)..t : h[i] = g[i]
      BY <1>5, <1>8
  <2>2. RunningTotal(h, lo, t) = RunningTotal(g, lo, t)
      BY <1>2, <2>1, TotalOfSame
  <2>3. RunningTotal(g, s - 1, t) \in Nat
      BY StretchIsNat
  <2> QED
      BY <1>1, <1>8, <2>2, <2>3
<1> QED
    BY <1>7, <1>8

\* A charge that drops no bucket but a full or a forgiven one keeps the books.
LEMMA BooksAfter ==
    ASSUME NEW C \in Nat \ {0}, NEW B, NEW B2, NEW G, NEW G2, NEW F, NEW F2, NEW T, NEW T2,
           NEW keys \in SUBSET DOMAIN B, NEW key \in DOMAIN G, NEW time \in Times,
           NEW units \in Int,
           Sorted(B, G, T), time \in T[key],
           Finds(C, B, keys, key, time, units), Leaves(B, keys, key, time, units, B2),
           G2 = IF units >= Window THEN [G EXCEPT ![key][time] = @ + 1] ELSE G,
           F \subseteq F2,
           \A k \in (DOMAIN B \cap DOMAIN G) \ keys : k \notin F2 =>
               \A u \in T[k] : C * Window <= B[k].tokens + u * C - B[k].last * C,
           \A k \in DOMAIN G : T2[k] \subseteq T[k],
           Books(C, B, G, F, T)
    PROVE  Books(C, B2, G2, F2, T2)
<1>w. Window \in Nat \ {0} /\ MaxTime \in Nat \ {0} /\ Times \subseteq Nat
    BY LimiterAssumption DEF Times
<1>g. DOMAIN G2 = DOMAIN G
    OBVIOUS
<1> SUFFICES ASSUME NEW k \in DOMAIN G \ F2, NEW s \in Times, NEW t \in s..MaxTime
             PROVE  Account(C, B2, k, RunningTotal(G2[k], s - 1, t), s, t, T2[k])
    BY <1>g DEF Books
<1> DEFINE n == RunningTotal(G[k], s - 1, t)
           m == RunningTotal(G2[k], s - 1, t)
<1>1. G[k] \in [Times -> Nat] /\ T[k] \subseteq Times /\ T2[k] \subseteq T[k]
    BY DEF Sorted
<1>2. s \in Nat /\ t \in Nat /\ s <= t /\ n \in Nat
    BY <1>1, StretchIsNat
<1>3. Account(C, B, k, n, s, t, T[k])
    BY DEF Books
<1>4. k \in DOMAIN B => B[k].tokens \in Int /\ B[k].last \in Int
    BY DEF Sorted
\* A bucket that is dropped is missed by nobody.
<1>5. ASSUME k \notin keys, n > 0 PROVE \A u \in T[k] : n * Window <= u * C - s * C
  <2>1. CASE k \notin DOMAIN B
      BY <2>1, <1>3, <1>5 DEF Account, Due
  <2>2. CASE k \in DOMAIN B
    <3> SUFFICES ASSUME NEW u \in T[k] PROVE n * Window <= u * C - s * C
        OBVIOUS
    <3>1. n * Window + B[k].tokens <= C * Window + B[k].last * C - s * C
        BY <2>2, <1>3, <1>5 DEF Account, Due
    <3>2. C * Window <= B[k].tokens + u * C - B[k].last * C
        BY <2>2, <1>5
    <3>3. u \in Nat
        BY <1>1, <1>w
    <3>4. \A p, q, r, v, w, x \in Int :
              p + q <= r + v - w /\ r <= q + x - v => p <= x - w
        OBVIOUS
    <3>5. /\ n * Window \in Int /\ C * Window \in Int /\ B[k].last * C \in Int
          /\ s * C \in Int /\ u * C \in Int /\ B[k].tokens \in Int
        BY <1>2, <1>4, <1>w, <2>2, <3>3
    <3> HIDE DEF n
    <3> QED
        BY <3>1, <3>2, <3>4, <3>5
  <2> QED
      BY <2>1, <2>2
<1>6. CASE k # key
  <2>1. G2[k] = G[k]
      BY <1>6
  <2>2. k \in DOMAIN B2 => k \in keys /\ k \in DOMAIN B /\ B2[k] = B[k]
      BY <1>6 DEF Leaves
  <2>3. k \notin DOMAIN B2 => k \notin keys
      BY DEF Leaves
  <2>4. n > 0 => Due(C, B2, k, n, s, T2[k])
      BY <1>1, <1>3, <1>5, <2>2, <2>3 DEF Account, Due
  <2> QED
      BY <1>3, <2>1, <2>4 DEF Account
<1>7. CASE k = key
  <2>1. m = IF units >= Window /\ time \in s..t THEN n + 1 ELSE n
    <3>1. units >= Window => /\ G2[k][time] = G[k][time] + 1
                             /\ \A i \in Times \ {time} : G2[k][i] = G[k][i]
        BY <1>1, <1>7
    <3>2. ~(units >= Window) => G2[k] = G[k]
        OBVIOUS
    <3>3. ASSUME NEW h, h[time] = G[k][time] + 1, \A i \in Times \ {time} : h[i] = G[k][i]
          PROVE  RunningTotal(h, s - 1, t) = n + (IF time \in s..t THEN 1 ELSE 0)
        BY <1>1, <3>3, StretchAfter
    <3>4. units >= Window => m = n + (IF time \in s..t THEN 1 ELSE 0)
        BY <3>1, <3>3
    <3> QED
        BY <3>2, <3>4, <1>2
  <2>2. m \in Nat
      BY <2>1, <1>2
  <2>3. k \in DOMAIN B2 /\ B2[k].last = time
        /\ B2[k].tokens = IF units < Window THEN units ELSE units - Window
      BY <1>7 DEF Leaves
  <2>4. units <= C * Window
      BY <1>w DEF Finds
  <2>5. n > 0 => n * Window + units <= C * Window + time * C - s * C
    <3> SUFFICES ASSUME n > 0
                 PROVE  n * Window + units <= C * Window + time * C - s * C
        OBVIOUS
    <3>t. time \in Nat
        BY <1>w
    <3>1. CASE k \in keys
      <4>1. n * Window + B[k].tokens <= C * Window + B[k].last * C - s * C
          BY <3>1, <1>3 DEF Account, Due
      <4>2. units <= B[k].tokens + time * C - B[k].last * C
          BY <3>1, <1>7 DEF Finds
      <4>3. \A p, q, r, v, w, x, y \in Int :
                p + q <= r + v - w /\ y <= q + x - v => p + y <= r + x - w
          OBVIOUS
      <4>4. /\ n * Window \in Int /\ C * Window \in Int /\ B[k].last * C \in Int
            /\ s * C \in Int /\ time * C \in Int /\ B[k].tokens \in Int
          BY <1>2, <1>4, <1>w, <3>1, <3>t
      <4> HIDE DEF n
      <4> QED
          BY <4>1, <4>2, <4>3, <4>4
    <3>2. CASE k \notin keys
      <4>1. n * Window <= time * C - s * C
          BY <1>5, <1>7, <3>2
      <4>2. units = C * Window
          BY <3>2, <1>7 DEF Finds
      <4>3. \A p, q, v, w \in Int : p <= v - w => p + q <= q + v - w
          OBVIOUS
      <4>4. n * Window \in Int /\ C * Window \in Int /\ s * C \in Int /\ time * C \in Int
          BY <1>2, <1>w, <3>t
      <4> HIDE DEF n
      <4> QED
          BY <4>1, <4>2, <4>3, <4>4
    <3> QED
        BY <3>1, <3>2
  <2>6. n * Window <= C * Window + t * C - s * C
      BY <1>3 DEF Account
  <2>7. B2[k].tokens \in Int
      BY <2>3, <1>w
  <2>8. time \in Nat
      BY <1>w
  <2> HIDE DEF n, m
  <2>9. /\ m * Window <= C * Window + t * C - s * C
        /\ m > 0 => m * Window + B2[k].tokens <= C * Window + time * C - s * C
      BY <1>2, <1>w, <2>1, <2>2, <2>3, <2>4, <2>5, <2>6, <2>7, <2>8, ChargeCounted
  <2> QED
      BY <2>3, <2>9 DEF Account, Due, m
<1> QED
    BY <1>6, <1>7

\* Fewer callers to come keep the books.
LEMMA BooksLater ==
    ASSUME NEW C, NEW B, NEW G, NEW F, NEW T, NEW T2,
           \A k \in DOMAIN G : T2[k] \subseteq T[k], Books(C, B, G, F, T)
    PROVE  Books(C, B, G, F, T2)
<1> SUFFICES ASSUME NEW k \in DOMAIN G \ F, NEW s \in Times, NEW t \in s..MaxTime
             PROVE  Account(C, B, k, RunningTotal(G[k], s - 1, t), s, t, T2[k])
    BY DEF Books
<1>1. Account(C, B, k, RunningTotal(G[k], s - 1, t), s, t, T[k]) /\ T2[k] \subseteq T[k]
    BY DEF Books
<1> QED
    BY <1>1 DEF Account, Due

-----------------------------------------------------------------------------
(***************************************************************************)
(* What the two limiters do, in these terms.                               *)
(***************************************************************************)

\* An instance counts as this module does.
LEMMA CountsAlike ==
    ASSUME NEW S
    PROVE  Limiter!Cardinality(S) = Cardinality(S)
BY DEF Limiter!Cardinality, Cardinality

\* A sweep keeps some of the keys, and of these no more than it may.
LEMMA SweepBounds ==
    ASSUME NEW B, IsFiniteSet(DOMAIN B), NEW time, NEW keys, keys \in Limiter!Kept(B, time)
    PROVE  keys \subseteq DOMAIN B /\ IsFiniteSet(keys) /\ Cardinality(keys) <= MaxKeys
<1>0. MaxKeys \in Nat
    BY LimiterAssumption
<1>1. CASE ~(Cardinality(DOMAIN B) > MaxKeys)
  <2>1. keys = DOMAIN B
      BY <1>1, CountsAlike DEF Limiter!Kept
  <2> QED
      BY <1>0, <1>1, <2>1, FS_CardinalityType
<1>2. CASE Cardinality(DOMAIN B) > MaxKeys
  <2> DEFINE active == DOMAIN B \ Limiter!Idle(B, time)
             excess == Cardinality(active) - MaxKeys
  <2>1. active \subseteq DOMAIN B /\ IsFiniteSet(active) /\ Cardinality(active) \in Nat
      BY FS_Subset, FS_CardinalityType
  <2>2. keys \in IF excess <= 0 THEN {active}
                 ELSE {active \ old : old \in Limiter!Oldest(active, excess, B)}
      BY <1>2, CountsAlike DEF Limiter!Kept, Limiter!Swept
  <2>3. CASE excess <= 0
    <3>1. keys = active
        BY <2>2, <2>3
    <3> QED
        BY <1>0, <2>1, <2>3, <3>1
  <2>4. CASE ~(excess <= 0)
    <3>1. PICK old : old \in Limiter!Oldest(active, excess, B) /\ keys = active \ old
        BY <2>2, <2>4
    <3>2. old \subseteq active /\ Cardinality(old) = excess
        BY <3>1, CountsAlike DEF Limiter!Oldest
    <3>3. active \cap old = old
        BY <3>2
    <3>4. Cardinality(keys) = Cardinality(active) - Cardinality(old) /\ IsFiniteSet(keys)
      <4> HIDE DEF active
      <4>1. IsFiniteSet(active)
          BY <2>1
      <4>2. /\ IsFiniteSet(active \ old)
            /\ Cardinality(active \ old) = Cardinality(active) - Cardinality(active \cap old)
          BY <4>1, FS_Difference, Zenon
      <4> QED
          BY <3>1, <3>3, <4>2
    <3> HIDE DEF active
    <3>5. Cardinality(keys) = MaxKeys
        BY <1>0, <2>1, <3>2, <3>4
    <3> QED
        BY <1>0, <2>1, <3>1, <3>4, <3>5
  <2> QED
      BY <2>3, <2>4
<1> QED
    BY <1>1, <1>2

LEMMA VerifierSweepBounds ==
    ASSUME NEW B, IsFiniteSet(DOMAIN B), NEW time, NEW keys, keys \in Verifier!Kept(B, time)
    PROVE  keys \subseteq DOMAIN B /\ IsFiniteSet(keys) /\ Cardinality(keys) <= MaxKeys
<1>1. Verifier!Kept(B, time) = Limiter!Kept(B, time)
    BY DEF Verifier!Kept, Limiter!Kept, Verifier!Swept, Limiter!Swept,
           Verifier!Idle, Limiter!Idle, Verifier!Oldest, Limiter!Oldest,
           Verifier!Cardinality, Limiter!Cardinality
<1> QED
    BY <1>1, SweepBounds

\* One key more than may be kept.
LEMMA OneKeyMore ==
    ASSUME NEW keys, NEW key, IsFiniteSet(keys), Cardinality(keys) <= MaxKeys
    PROVE  IsFiniteSet(keys \cup {key}) /\ Cardinality(keys \cup {key}) <= MaxKeys + 1
<1>1. Cardinality(keys) \in Nat /\ MaxKeys \in Nat
    BY FS_CardinalityType, LimiterAssumption
<1>2. /\ IsFiniteSet(keys \cup {key})
      /\ Cardinality(keys \cup {key}) =
             IF key \in keys THEN Cardinality(keys) ELSE Cardinality(keys) + 1
    BY FS_AddElement
<1> QED
    BY <1>1, <1>2

\* What a bucket holds at a time, with its products multiplied out.
LEMMA HoldsUnits ==
    ASSUME NEW C \in Nat, NEW tokens \in Int, NEW last \in Int, NEW time \in Int
    PROVE  tokens + (time - last) * C = tokens + time * C - last * C
<1>1. (time - last) * C = time * C - last * C
    OBVIOUS
<1>2. time * C \in Int /\ last * C \in Int
    OBVIOUS
<1> QED
    BY <1>1, <1>2

\* The limiter does what its books say it does.
LEMMA LimiterSpends ==
    ASSUME NEW B, NEW keys \in SUBSET DOMAIN B, NEW key, NEW time \in Int, NEW units,
           \A k \in keys : B[k].tokens \in Int /\ B[k].last \in Int,
           units = Limiter!Found(B, keys, key, time)
    PROVE  /\ units \in Int
           /\ Finds(Capacity, B, keys, key, time, units)
           /\ Leaves(B, keys, key, time, units, Limiter!Spend(B, keys, key, time))
           /\ Limiter!Allowed(B, keys, key, time) <=> units >= Window
<1>1. Capacity \in Nat /\ Window \in Nat /\ Capacity * Window \in Nat
    BY LimiterAssumption
<1>2. CASE key \in keys
  <2> DEFINE held == B[key].tokens + (time - B[key].last) * Capacity
  <2>1. held = B[key].tokens + time * Capacity - B[key].last * Capacity
      BY <1>1, <1>2, HoldsUnits
  <2>2. held \in Int
      BY <1>1, <1>2
  <2>3. units = IF held > Capacity * Window THEN Capacity * Window ELSE held
      BY <1>2 DEF Limiter!Found, Limiter!Refilled, Limiter!FullBucket, Limiter!Token
  <2> HIDE DEF held
  <2>4. units \in Int /\ units <= Capacity * Window /\ units <= held
      BY <1>1, <2>2, <2>3
  <2> QED
      BY <1>2, <2>1, <2>4
      DEF Finds, Leaves, Limiter!Spend, Limiter!Allowed, Limiter!Token
<1>3. CASE key \notin keys
  <2>1. units = Capacity * Window
      BY <1>3 DEF Limiter!Found, Limiter!FullBucket, Limiter!Token
  <2> QED
      BY <1>1, <1>3, <2>1 DEF Finds, Leaves, Limiter!Spend, Limiter!Allowed, Limiter!Token
<1> QED
    BY <1>2, <1>3

LEMMA VerifierSpends ==
    ASSUME NEW B, NEW keys \in SUBSET DOMAIN B, NEW key, NEW time \in Int, NEW units,
           \A k \in keys : B[k].tokens \in Int /\ B[k].last \in Int,
           units = Verifier!Found(B, keys, key, time)
    PROVE  /\ units \in Int
           /\ Finds(VerifyCapacity, B, keys, key, time, units)
           /\ Leaves(B, keys, key, time, units, Verifier!Spend(B, keys, key, time))
           /\ Verifier!Allowed(B, keys, key, time) <=> units >= Window
<1>1. VerifyCapacity \in Nat /\ Window \in Nat /\ VerifyCapacity * Window \in Nat
    BY LimiterAssumption
<1>2. CASE key \in keys
  <2> DEFINE held == B[key].tokens + (time - B[key].last) * VerifyCapacity
  <2>1. held = B[key].tokens + time * VerifyCapacity - B[key].last * VerifyCapacity
      BY <1>1, <1>2, HoldsUnits
  <2>2. held \in Int
      BY <1>1, <1>2
  <2>3. units = IF held > VerifyCapacity * Window THEN VerifyCapacity * Window ELSE held
      BY <1>2 DEF Verifier!Found, Verifier!Refilled, Verifier!FullBucket, Verifier!Token
  <2> HIDE DEF held
  <2>4. units \in Int /\ units <= VerifyCapacity * Window /\ units <= held
      BY <1>1, <2>2, <2>3
  <2> QED
      BY <1>2, <2>1, <2>4
      DEF Finds, Leaves, Verifier!Spend, Verifier!Allowed, Verifier!Token
<1>3. CASE key \notin keys
  <2>1. units = VerifyCapacity * Window
      BY <1>3 DEF Verifier!Found, Verifier!FullBucket, Verifier!Token
  <2> QED
      BY <1>1, <1>3, <2>1
      DEF Finds, Leaves, Verifier!Spend, Verifier!Allowed, Verifier!Token
<1> QED
    BY <1>2, <1>3

-----------------------------------------------------------------------------
(***************************************************************************)
(* The inductive invariant.                                                *)
(***************************************************************************)
DoorInv ==
    /\ posture \in Postures /\ now \in Times /\ asked \in 0..MaxRequests
    /\ \A v \in pending : /\ DOMAIN v = {"id", "user", "time"}
                          /\ v.user \in Users /\ v.time \in {Unread} \cup 1..now
    /\ DOMAIN granted = {"general", "verify"} /\ DOMAIN forgiven = {"general", "verify"}

\* The bound of a map of buckets.
Bounded(B, owners) ==
    /\ DOMAIN B \subseteq owners /\ IsFiniteSet(DOMAIN B)
    /\ Cardinality(DOMAIN B) <= MaxKeys + 1

\* Requests for the general limiter come now or later.
GeneralTimes == [k \in Keys |-> now..MaxTime]

GeneralInv ==
    /\ Bounded(buckets, Keys)
    /\ \A k \in DOMAIN buckets :
           buckets[k].tokens \in 0..Limiter!FullBucket /\ buckets[k].last \in 1..now
    /\ granted["general"] \in [Keys -> [Times -> Nat]]
    /\ Books(Capacity, buckets, granted["general"], forgiven["general"], GeneralTimes)

\* Verifications may also come with a time that they have read.
VerifyTimes == [u \in Users |-> Waits(u) \cup now..MaxTime]

VerifyInv ==
    /\ Bounded(verifies, Users)
    /\ \A k \in DOMAIN verifies : verifies[k].tokens \in Int /\ verifies[k].last \in 1..now
    /\ granted["verify"] \in [Users -> [Times -> Nat]]
    /\ Books(VerifyCapacity, verifies, granted["verify"], forgiven["verify"], VerifyTimes)

LimitersInv == DoorInv /\ GeneralInv /\ VerifyInv

\* What arrives is charged to a key, and a verification to a user.
LEMMA ArrivalTyped ==
    ASSUME posture \in Postures, NEW a \in Arrivals[posture]
    PROVE  a.key \in Keys /\ (a.user.allowed => a.user.user \in Users)
<1>1. PICK c \in Callers, v \in BOOLEAN : a = Arrival(posture, c, v)
    BY DEF Arrivals
<1>2. rate_limit_key(posture, c) \in Keys
    BY DEF rate_limit_key, Keys, Callers
<1>3. current_user(posture, c).allowed => current_user(posture, c).user \in Users
    BY DEF current_user, Users
<1> QED
    BY <1>1, <1>2, <1>3 DEF Arrival

\* What a bucket that is full holds.
LEMMA FullHolds ==
    ASSUME NEW bucket, NEW time \in Int, bucket.tokens \in Int, bucket.last \in Int
    PROVE  /\ Limiter!Refilled(bucket, time) = Limiter!FullBucket =>
                  Capacity * Window <= bucket.tokens + time * Capacity - bucket.last * Capacity
           /\ Verifier!Refilled(bucket, time) = Verifier!FullBucket =>
                  VerifyCapacity * Window <=
                      bucket.tokens + time * VerifyCapacity - bucket.last * VerifyCapacity
<1>0. Capacity \in Nat /\ VerifyCapacity \in Nat /\ Window \in Nat
    BY LimiterAssumption
<1>1. ASSUME NEW C \in Nat
      PROVE  /\ bucket.tokens + (time - bucket.last) * C
                    = bucket.tokens + time * C - bucket.last * C
             /\ bucket.tokens + (time - bucket.last) * C \in Int
             /\ C * Window \in Int
    BY <1>0, HoldsUnits
<1>2. \A x, y \in Int : (IF x > y THEN y ELSE x) = y => y <= x
    OBVIOUS
<1> QED
    BY <1>0, <1>1, <1>2
    DEF Limiter!Refilled, Limiter!FullBucket, Limiter!Token,
        Verifier!Refilled, Verifier!FullBucket, Verifier!Token

\* The books of a limiter that granted nothing.
LEMMA BooksOfNone ==
    ASSUME NEW C \in Nat, NEW B, NEW G, NEW F, NEW T,
           \A k \in DOMAIN G : G[k] = [t \in Times |-> 0]
    PROVE  Books(C, B, G, F, T)
<1> SUFFICES ASSUME NEW k \in DOMAIN G \ F, NEW s \in Times, NEW t \in s..MaxTime
             PROVE  Account(C, B, k, RunningTotal(G[k], s - 1, t), s, t, T[k])
    BY DEF Books
<1>0. Window \in Nat
    BY LimiterAssumption
<1>1. PICK lo \in Nat : lo = s - 1 /\ lo + 1 = s
    BY LimiterAssumption DEF Times
<1>2. s \in Nat /\ t \in Nat /\ s <= t /\ lo <= t
    BY <1>1, LimiterAssumption DEF Times
<1>3. \A i \in (lo + 1)..t : i \in Times
    BY <1>1, LimiterAssumption DEF Times
<1>4. \A i \in (lo + 1)..t : G[k][i] = 0
    BY <1>3
<1> DEFINE n == RunningTotal(G[k], s - 1, t)
<1>5. n = 0
    BY <1>1, <1>2, <1>4, TotalOfZeros
<1> HIDE DEF n
<1>6. s * C <= t * C
    BY <1>2
<1>7. s * C \in Int /\ t * C \in Int /\ C * Window \in Nat /\ n * Window = 0
    BY <1>0, <1>2, <1>5
<1>8. n * Window <= C * Window + t * C - s * C
    BY <1>6, <1>7
<1> QED
    BY <1>5, <1>8 DEF Account, n

LEMMA InitDoor == Init => LimitersInv
<1> SUFFICES ASSUME Init PROVE LimitersInv
    OBVIOUS
<1>0. /\ MaxTime \in Nat \ {0} /\ MaxKeys \in Nat /\ MaxRequests \in Nat
      /\ Capacity \in Nat /\ VerifyCapacity \in Nat
    BY LimiterAssumption
<1>1. DoorInv
    BY <1>0 DEF DoorInv, Init, Times
<1>2. Cardinality({}) = 0 /\ IsFiniteSet({})
    BY FS_EmptySet
<1>3. DOMAIN buckets = {} /\ DOMAIN verifies = {}
    BY DEF Init, Limiter!NoBuckets
<1>4. /\ granted["general"] = [k \in Keys |-> [t \in Times |-> 0]]
      /\ granted["verify"] = [k \in Users |-> [t \in Times |-> 0]]
    BY DEF Init, Charging
<1>5. GeneralInv
  <2>1. Books(Capacity, buckets, granted["general"], forgiven["general"], GeneralTimes)
      BY <1>0, <1>4, BooksOfNone
  <2> QED
      BY <1>0, <1>2, <1>3, <1>4, <2>1 DEF GeneralInv, Bounded
<1>6. VerifyInv
  <2>1. Books(VerifyCapacity, verifies, granted["verify"], forgiven["verify"], VerifyTimes)
      BY <1>0, <1>4, BooksOfNone
  <2> QED
      BY <1>0, <1>2, <1>3, <1>4, <2>1 DEF VerifyInv, Bounded
<1> QED
    BY <1>1, <1>5, <1>6 DEF LimitersInv

\* The times that a verification may come with are those of the clock, and no step
\* of another adds to those that are read.
LEMMA TimesOfCallers ==
    ASSUME DoorInv
    PROVE  /\ \A k \in Keys : GeneralTimes[k] = now..MaxTime /\ now..MaxTime \subseteq Times
           /\ \A u \in Users : /\ VerifyTimes[u] = Waits(u) \cup now..MaxTime
                               /\ VerifyTimes[u] \subseteq Times
<1>1. now \in Nat \ {0} /\ MaxTime \in Nat /\ now <= MaxTime
    BY LimiterAssumption DEF DoorInv, Times
<1>2. now..MaxTime \subseteq Times
    BY <1>1 DEF Times
<1>3. \A u \in Users : Waits(u) \subseteq Times
    BY <1>1 DEF DoorInv, Waits, Times
<1> QED
    BY <1>2, <1>3 DEF GeneralTimes, VerifyTimes

LEMMA DoorStep ==
    ASSUME DoorInv, Next
    PROVE  DoorInv' /\ now' >= now
<1>1. now \in Nat \ {0} /\ MaxTime \in Nat /\ now <= MaxTime /\ asked \in Nat
      /\ MaxRequests \in Nat /\ FewRequests \in 0..MaxRequests
    BY LimiterAssumption DEF DoorInv, Times
<1>2. CASE Tick
  <2>1. now' = now + 1 /\ now' \in Times
      BY <1>1, <1>2 DEF Tick, Times
  <2>2. UNCHANGED <<posture, asked, pending, granted, forgiven>>
      BY <1>2 DEF Tick
  <2>3. \A x \in {Unread} \cup 1..now : x \in {Unread} \cup 1..(now')
      BY <1>1, <2>1
  <2> QED
      BY <1>1, <2>1, <2>2, <2>3 DEF DoorInv
<1>3. ASSUME NEW a \in Arrivals[posture], RateLimit(a) PROVE DoorInv' /\ now' >= now
  <2>1. asked' \in 0..MaxRequests
      BY <1>1, <1>3 DEF RateLimit
  <2>2. UNCHANGED <<posture, now>>
      BY <1>3 DEF RateLimit
  <2>3. DOMAIN granted' = DOMAIN granted /\ DOMAIN forgiven' = DOMAIN forgiven
      BY <1>3 DEF RateLimit, Grant, Forgive
  <2> DEFINE new == [id |-> FreeId, user |-> a.user.user, time |-> Unread]
  <2>4. pending' = pending \/ (a.user.allowed /\ pending' = pending \cup {new})
      BY <1>3 DEF RateLimit
  <2>5. a.user.allowed => a.user.user \in Users
      BY ArrivalTyped DEF DoorInv
  <2>6. \A v \in pending' : /\ DOMAIN v = {"id", "user", "time"}
                            /\ v.user \in Users /\ v.time \in {Unread} \cup 1..now
      BY <2>4, <2>5 DEF DoorInv
  <2> QED
      BY <1>1, <2>1, <2>2, <2>3, <2>6 DEF DoorInv
<1>4. ASSUME NEW v \in pending, ReadClock(v) PROVE DoorInv' /\ now' >= now
  <2>1. UNCHANGED <<posture, now, asked, granted, forgiven>>
      BY <1>4 DEF ReadClock
  <2>2. \A w \in pending' : w \in pending \/ w = [v EXCEPT !.time = now]
      BY <1>4 DEF ReadClock
  <2>3. DOMAIN v = {"id", "user", "time"} /\ v.user \in Users
      BY DEF DoorInv
  <2>4. ASSUME NEW w, w = [v EXCEPT !.time = now]
        PROVE  DOMAIN w = {"id", "user", "time"} /\ w.user \in Users /\ w.time \in 1..now
      BY <1>1, <2>3, <2>4
  <2>5. \A w \in pending' : /\ DOMAIN w = {"id", "user", "time"}
                            /\ w.user \in Users /\ w.time \in {Unread} \cup 1..now
      BY <2>2, <2>4 DEF DoorInv
  <2> QED
      BY <1>1, <2>1, <2>5 DEF DoorInv
<1>5. ASSUME NEW v \in pending, Verify(v) PROVE DoorInv' /\ now' >= now
  <2>1. UNCHANGED <<posture, now, asked>>
      BY <1>5 DEF Verify
  <2>2. pending' \subseteq pending
      BY <1>5 DEF Verify
  <2>3. DOMAIN granted' = DOMAIN granted /\ DOMAIN forgiven' = DOMAIN forgiven
      BY <1>5 DEF Verify, Grant, Forgive
  <2> QED
      BY <1>1, <2>1, <2>2, <2>3 DEF DoorInv
<1> QED
    BY <1>2, <1>3, <1>4, <1>5 DEF Next

\* The callers of the general limiter still to come are fewer after every step.
LEMMA GeneralLater ==
    ASSUME DoorInv, Next, NEW k \in Keys
    PROVE  GeneralTimes'[k] \subseteq GeneralTimes[k]
<1>1. now \in Nat /\ now' \in Nat /\ now' >= now /\ MaxTime \in Nat
    BY DoorStep, LimiterAssumption DEF DoorInv, Times
<1>2. (now')..MaxTime \subseteq now..MaxTime
    BY <1>1
<1> QED
    BY <1>2 DEF GeneralTimes

\* So are the times that verifications may come with.
LEMMA VerifyLater ==
    ASSUME DoorInv, Next, NEW u \in Users
    PROVE  VerifyTimes'[u] \subseteq VerifyTimes[u]
<1>1. now \in Nat /\ now' \in Nat /\ now' >= now /\ MaxTime \in Nat /\ now <= MaxTime
    BY DoorStep, LimiterAssumption DEF DoorInv, Times
<1>2. (now')..MaxTime \subseteq now..MaxTime /\ now \in now..MaxTime
    BY <1>1
<1> SUFFICES ASSUME NEW v \in pending', v.user = u, v.time # Unread
             PROVE  v.time \in Waits(u) \cup now..MaxTime
    BY <1>2 DEF VerifyTimes, Waits
<1>3. v \in pending => v.time \in Waits(u)
    BY DEF Waits
<1>4. CASE Tick
    BY <1>3, <1>4 DEF Tick
<1>5. ASSUME NEW a \in Arrivals[posture], RateLimit(a)
      PROVE  v.time \in Waits(u) \cup now..MaxTime
  <2>1. v \in pending \/ v = [id |-> FreeId, user |-> a.user.user, time |-> Unread]
      BY <1>5 DEF RateLimit
  <2> QED
      BY <1>3, <2>1
<1>6. ASSUME NEW w \in pending, ReadClock(w)
      PROVE  v.time \in Waits(u) \cup now..MaxTime
  <2>1. v \in pending \/ v = [w EXCEPT !.time = now]
      BY <1>6 DEF ReadClock
  <2>2. DOMAIN w = {"id", "user", "time"}
      BY DEF DoorInv
  <2>3. v = [w EXCEPT !.time = now] => v.time = now
      BY <2>2
  <2> QED
      BY <1>2, <1>3, <2>1, <2>3
<1>7. ASSUME NEW w \in pending, Verify(w)
      PROVE  v.time \in Waits(u) \cup now..MaxTime
    BY <1>3, <1>7 DEF Verify
<1> QED
    BY <1>4, <1>5, <1>6, <1>7 DEF Next

\* A step keeps the books of the general limiter.
LEMMA GeneralStep ==
    ASSUME DoorInv, GeneralInv, Next
    PROVE  GeneralInv'
<1>0. /\ now \in Nat \ {0} /\ now' \in Nat /\ now' >= now /\ now \in Times
      /\ MaxTime \in Nat /\ Capacity \in Nat \ {0} /\ Window \in Nat \ {0}
      /\ Capacity * Window \in Nat
    BY DoorStep, LimiterAssumption DEF DoorInv, Times
<1>1. \A k \in Keys : GeneralTimes'[k] \subseteq GeneralTimes[k]
    BY GeneralLater
<1>2. DOMAIN granted["general"] = Keys
    BY DEF GeneralInv
<1>3. \A x \in 1..now : x \in 1..(now')
    BY <1>0
<1>4. ASSUME buckets' = buckets, granted'["general"] = granted["general"],
             forgiven'["general"] = forgiven["general"]
      PROVE  GeneralInv'
  <2>1. Books(Capacity, buckets, granted["general"], forgiven["general"], GeneralTimes')
      BY <1>1, <1>2, BooksLater DEF GeneralInv
  <2>2. \A k \in DOMAIN buckets : buckets[k].last \in 1..(now')
      BY <1>3 DEF GeneralInv
  <2> QED
      BY <1>4, <2>1, <2>2 DEF GeneralInv, Bounded
<1>5. CASE Tick
    BY <1>4, <1>5 DEF Tick
<1>6. ASSUME NEW v \in pending, ReadClock(v) PROVE GeneralInv'
    BY <1>4, <1>6 DEF ReadClock
<1>7. ASSUME NEW v \in pending, Verify(v) PROVE GeneralInv'
  <2>1. granted'["general"] = granted["general"] /\ forgiven'["general"] = forgiven["general"]
      BY <1>7 DEF Verify, Grant, Forgive, DoorInv
  <2> QED
      BY <1>4, <1>7, <2>1 DEF Verify
<1>8. ASSUME NEW a \in Arrivals[posture], RateLimit(a) PROVE GeneralInv'
  <2> DEFINE full == {k \in DOMAIN buckets :
                         Limiter!Refilled(buckets[k], now) = Limiter!FullBucket}
  <2>1. PICK keys \in Limiter!Kept(buckets, now) :
            /\ buckets' = Limiter!Spend(buckets, keys, a.key, now)
            /\ Grant("general", a.key, now, Limiter!Allowed(buckets, keys, a.key, now))
            /\ Forgive("general", DOMAIN buckets \ keys, full)
      BY <1>8 DEF RateLimit
  <2>2. now' = now
      BY <1>8 DEF RateLimit
  <2>3. keys \subseteq DOMAIN buckets /\ IsFiniteSet(keys) /\ Cardinality(keys) <= MaxKeys
      BY SweepBounds DEF GeneralInv, Bounded
  <2>4. a.key \in Keys
      BY ArrivalTyped DEF DoorInv
  <2>5. \A k \in DOMAIN buckets : /\ buckets[k].tokens \in 0..(Capacity * Window)
                                  /\ buckets[k].last \in 1..now
      BY DEF GeneralInv, Limiter!FullBucket, Limiter!Token
  <2>6. \A k \in DOMAIN buckets : buckets[k].tokens \in Int /\ buckets[k].last \in Int
      BY <1>0, <2>5
  <2> DEFINE units == Limiter!Found(buckets, keys, a.key, now)
  <2>7. /\ units \in Int
        /\ Finds(Capacity, buckets, keys, a.key, now, units)
        /\ Leaves(buckets, keys, a.key, now, units, buckets')
        /\ Limiter!Allowed(buckets, keys, a.key, now) <=> units >= Window
      BY <1>0, <2>1, <2>3, <2>6, LimiterSpends
  <2> HIDE DEF units, full
  <2>8. granted'["general"] = IF units >= Window
                              THEN [granted["general"] EXCEPT ![a.key][now] = @ + 1]
                              ELSE granted["general"]
      BY <2>1, <2>7 DEF Grant, DoorInv
  <2>9. forgiven'["general"] = forgiven["general"] \cup ((DOMAIN buckets \ keys) \ full)
      BY <2>1 DEF Forgive, DoorInv
  <2>10. Books(Capacity, buckets', granted'["general"], forgiven'["general"], GeneralTimes')
    <3>1. ASSUME NEW k \in DOMAIN buckets \ keys, k \notin forgiven'["general"],
                 NEW u \in GeneralTimes[k], k \in Keys
          PROVE  Capacity * Window <= buckets[k].tokens + u * Capacity - buckets[k].last * Capacity
      <4>1. Limiter!Refilled(buckets[k], now) = Limiter!FullBucket
          BY <2>9, <3>1 DEF full
      <4>2. Capacity * Window <= buckets[k].tokens + now * Capacity - buckets[k].last * Capacity
          BY <1>0, <2>6, <4>1, FullHolds
      <4>3. u \in Int /\ now <= u
          BY <1>0, <3>1 DEF GeneralTimes
      <4> QED
        <5>1. PICK tokens \in Int, last \in Int : tokens = buckets[k].tokens /\ last = buckets[k].last
            BY <2>6, <3>1
        <5>2. Capacity * Window <= tokens + now * Capacity - last * Capacity
            BY <4>2, <5>1
        <5>3. Capacity \in Nat /\ Window \in Nat /\ now \in Int
            BY <1>0
        <5>4. Capacity * Window <= tokens + u * Capacity - last * Capacity
            BY <4>3, <5>2, <5>3, FullStaysFull
        <5> QED BY <5>1, <5>4
    <3>2. Sorted(buckets, granted["general"], GeneralTimes)
        BY <1>2, <2>6, TimesOfCallers DEF Sorted, GeneralInv
    <3>3. now \in GeneralTimes[a.key]
        BY <1>0, <2>4 DEF GeneralTimes, Times
    <3>4. forgiven["general"] \subseteq forgiven'["general"]
        BY <2>9
    <3>5. Books(Capacity, buckets, granted["general"], forgiven["general"], GeneralTimes)
        BY DEF GeneralInv
    <3> QED
        BY <1>0, <1>1, <1>2, <2>3, <2>4, <2>7, <2>8, <3>1, <3>2, <3>3, <3>4, <3>5, BooksAfter
  <2>11. Bounded(buckets', Keys)
    <3>1. DOMAIN buckets' = keys \cup {a.key}
        BY <2>7 DEF Leaves
    <3>2. IsFiniteSet(keys \cup {a.key}) /\ Cardinality(keys \cup {a.key}) <= MaxKeys + 1
        BY <2>3, OneKeyMore
    <3>3. keys \cup {a.key} \subseteq Keys
        BY <2>3, <2>4 DEF GeneralInv, Bounded
    <3> QED
        BY <3>1, <3>2, <3>3 DEF Bounded
  <2>12. \A k \in DOMAIN buckets' : /\ buckets'[k].tokens \in 0..(Capacity * Window)
                                    /\ buckets'[k].last \in 1..now
    <3>1. units \in 0..(Capacity * Window)
      <4>1. CASE a.key \notin keys
          BY <1>0, <2>7, <4>1 DEF Finds
      <4>2. CASE a.key \in keys
        <5> DEFINE held == buckets[a.key].tokens + (now - buckets[a.key].last) * Capacity
        <5>1. now - buckets[a.key].last \in Nat /\ buckets[a.key].tokens \in Nat
            BY <1>0, <2>3, <2>5, <4>2
        <5>2. (now - buckets[a.key].last) * Capacity \in Nat
            BY <1>0, <5>1
        <5>3. held \in Nat
            BY <5>1, <5>2
        <5>4. units = IF held > Capacity * Window THEN Capacity * Window ELSE held
            BY <4>2 DEF units, Limiter!Found, Limiter!Refilled, Limiter!FullBucket, Limiter!Token
        <5> HIDE DEF held
        <5> QED
            BY <1>0, <5>3, <5>4
      <4> QED
          BY <4>1, <4>2
    <3>2. \A x \in 0..(Capacity * Window) :
              (IF x < Window THEN x ELSE x - Window) \in 0..(Capacity * Window)
        BY <1>0
    <3>3. \A k \in keys : /\ buckets[k].tokens \in 0..(Capacity * Window)
                          /\ buckets[k].last \in 1..now
        BY <2>3, <2>5
    <3> QED
        BY <1>0, <2>7, <3>1, <3>2, <3>3 DEF Leaves
  <2>13. granted'["general"] \in [Keys -> [Times -> Nat]]
    <3>1. granted["general"] \in [Keys -> [Times -> Nat]]
        BY DEF GeneralInv
    <3> QED
        BY <1>0, <2>4, <2>8, <3>1
  <2> QED
      BY <2>2, <2>10, <2>11, <2>12, <2>13 DEF GeneralInv, Limiter!FullBucket, Limiter!Token
<1> QED
    BY <1>5, <1>6, <1>7, <1>8 DEF Next

\* A step keeps the books of the limiter of verifications.
LEMMA VerifyStep ==
    ASSUME DoorInv, VerifyInv, Next
    PROVE  VerifyInv'
<1>0. /\ now \in Nat \ {0} /\ now' \in Nat /\ now' >= now /\ now \in Times
      /\ MaxTime \in Nat /\ VerifyCapacity \in Nat \ {0} /\ Window \in Nat \ {0}
    BY DoorStep, LimiterAssumption DEF DoorInv, Times
<1>1. \A u \in Users : VerifyTimes'[u] \subseteq VerifyTimes[u]
    BY VerifyLater
<1>2. DOMAIN granted["verify"] = Users
    BY DEF VerifyInv
<1>3. \A x \in 1..now : x \in 1..(now')
    BY <1>0
<1>4. ASSUME verifies' = verifies, granted'["verify"] = granted["verify"],
             forgiven'["verify"] = forgiven["verify"]
      PROVE  VerifyInv'
  <2>1. Books(VerifyCapacity, verifies, granted["verify"], forgiven["verify"], VerifyTimes')
      BY <1>1, <1>2, BooksLater DEF VerifyInv
  <2>2. \A k \in DOMAIN verifies : verifies[k].last \in 1..(now')
      BY <1>3 DEF VerifyInv
  <2> QED
      BY <1>4, <2>1, <2>2 DEF VerifyInv, Bounded
<1>5. CASE Tick
    BY <1>4, <1>5 DEF Tick
<1>6. ASSUME NEW v \in pending, ReadClock(v) PROVE VerifyInv'
    BY <1>4, <1>6 DEF ReadClock
<1>7. ASSUME NEW a \in Arrivals[posture], RateLimit(a) PROVE VerifyInv'
  <2>1. granted'["verify"] = granted["verify"] /\ forgiven'["verify"] = forgiven["verify"]
      BY <1>7 DEF RateLimit, Grant, Forgive, DoorInv
  <2> QED
      BY <1>4, <1>7, <2>1 DEF RateLimit
<1>8. ASSUME NEW v \in pending, Verify(v) PROVE VerifyInv'
  <2> DEFINE full == {k \in DOMAIN verifies : \A time \in Waits(k) \cup {v.time} :
                         Verifier!Refilled(verifies[k], time) = Verifier!FullBucket}
  <2>1. PICK keys \in Verifier!Kept(verifies, v.time) :
            /\ verifies' = Verifier!Spend(verifies, keys, v.user, v.time)
            /\ Grant("verify", v.user, v.time,
                     Verifier!Allowed(verifies, keys, v.user, v.time))
            /\ Forgive("verify", DOMAIN verifies \ keys, full)
      BY <1>8 DEF Verify
  <2>2. now' = now /\ v.time # Unread
      BY <1>8 DEF Verify
  <2>3. /\ keys \subseteq DOMAIN verifies /\ IsFiniteSet(keys)
        /\ Cardinality(keys) <= MaxKeys /\ DOMAIN verifies \subseteq Users
      BY VerifierSweepBounds DEF VerifyInv, Bounded
  <2>4. v.user \in Users /\ v.time \in 1..now
      BY <2>2 DEF DoorInv
  <2>5. v.time \in Times /\ v.time \in Int /\ v.time <= now
      BY <1>0, <2>4 DEF Times
  <2>6. \A k \in DOMAIN verifies : verifies[k].tokens \in Int /\ verifies[k].last \in Int
      BY <1>0 DEF VerifyInv
  <2> DEFINE units == Verifier!Found(verifies, keys, v.user, v.time)
  <2>7. /\ units \in Int
        /\ Finds(VerifyCapacity, verifies, keys, v.user, v.time, units)
        /\ Leaves(verifies, keys, v.user, v.time, units, verifies')
        /\ Verifier!Allowed(verifies, keys, v.user, v.time) <=> units >= Window
      BY <2>1, <2>3, <2>5, <2>6, VerifierSpends
  <2> HIDE DEF units, full
  <2>8. granted'["verify"] = IF units >= Window
                             THEN [granted["verify"] EXCEPT ![v.user][v.time] = @ + 1]
                             ELSE granted["verify"]
      BY <2>1, <2>7 DEF Grant, DoorInv
  <2>9. forgiven'["verify"] = forgiven["verify"] \cup ((DOMAIN verifies \ keys) \ full)
      BY <2>1 DEF Forgive, DoorInv
  <2>10. Books(VerifyCapacity, verifies', granted'["verify"], forgiven'["verify"], VerifyTimes')
    <3>1. ASSUME NEW k \in DOMAIN verifies \ keys, k \notin forgiven'["verify"],
                 NEW u \in VerifyTimes[k]
          PROVE  VerifyCapacity * Window <=
                     verifies[k].tokens + u * VerifyCapacity - verifies[k].last * VerifyCapacity
      <4>1. \A time \in Waits(k) \cup {v.time} :
                Verifier!Refilled(verifies[k], time) = Verifier!FullBucket
          BY <2>9, <3>1 DEF full
      <4>2. k \in Users /\ u \in Times /\ u \in Int
          BY <1>0, <2>3, <3>1, TimesOfCallers DEF Times
      <4>3. ASSUME NEW time \in Int, time \in Waits(k) \cup {v.time}
            PROVE  VerifyCapacity * Window <= verifies[k].tokens
                       + time * VerifyCapacity - verifies[k].last * VerifyCapacity
          BY <2>6, <4>1, <4>3, FullHolds
      <4>4. CASE u \in Waits(k)
          BY <4>2, <4>3, <4>4
      <4>5. CASE u \in now..MaxTime
        <5>1. v.time <= u
            BY <1>0, <2>5, <4>2, <4>5
        <5>2. VerifyCapacity * Window <= verifies[k].tokens
                  + v.time * VerifyCapacity - verifies[k].last * VerifyCapacity
            BY <2>5, <4>3
        <5> QED
            BY <1>0, <2>5, <2>6, <4>2, <5>1, <5>2, FullStaysFull
      <4> QED
          BY <3>1, <4>2, <4>4, <4>5 DEF VerifyTimes
    <3>2. Sorted(verifies, granted["verify"], VerifyTimes)
        BY <1>2, <2>6, TimesOfCallers DEF Sorted, VerifyInv
    <3>3. v.time \in VerifyTimes[v.user]
        BY <2>2, <2>4 DEF VerifyTimes, Waits
    <3>4. forgiven["verify"] \subseteq forgiven'["verify"]
        BY <2>9
    <3>5. Books(VerifyCapacity, verifies, granted["verify"], forgiven["verify"], VerifyTimes)
        BY DEF VerifyInv
    <3> QED
        BY <1>0, <1>1, <1>2, <2>3, <2>4, <2>5, <2>7, <2>8, <3>1, <3>2, <3>3, <3>4, <3>5,
           BooksAfter
  <2>11. Bounded(verifies', Users)
    <3>1. DOMAIN verifies' = keys \cup {v.user}
        BY <2>7 DEF Leaves
    <3>2. IsFiniteSet(keys \cup {v.user}) /\ Cardinality(keys \cup {v.user}) <= MaxKeys + 1
        BY <2>3, OneKeyMore
    <3>3. keys \cup {v.user} \subseteq Users
        BY <2>3, <2>4
    <3> QED
        BY <3>1, <3>2, <3>3 DEF Bounded
  <2>12. \A k \in DOMAIN verifies' : verifies'[k].tokens \in Int /\ verifies'[k].last \in 1..now
    <3>1. \A x \in Int : (IF x < Window THEN x ELSE x - Window) \in Int
        BY <1>0
    <3>2. \A k \in keys : verifies[k].tokens \in Int /\ verifies[k].last \in 1..now
        BY <2>3 DEF VerifyInv
    <3> QED
        BY <2>4, <2>7, <3>1, <3>2 DEF Leaves
  <2>13. granted'["verify"] \in [Users -> [Times -> Nat]]
    <3>1. granted["verify"] \in [Users -> [Times -> Nat]]
        BY DEF VerifyInv
    <3> QED
        BY <2>4, <2>5, <2>8, <3>1
  <2> QED
      BY <2>2, <2>10, <2>11, <2>12, <2>13 DEF VerifyInv
<1> QED
    BY <1>5, <1>6, <1>7, <1>8 DEF Next

LEMMA LimitersInductive ==
    ASSUME LimitersInv, [Next]_vars
    PROVE  LimitersInv'
<1>1. CASE Next
    BY <1>1, DoorStep, GeneralStep, VerifyStep DEF LimitersInv
<1>2. CASE UNCHANGED vars
  <2>1. UNCHANGED <<posture, now, buckets, verifies, pending, asked, granted, forgiven>>
      BY <1>2 DEF vars
  <2>2. GeneralTimes' = GeneralTimes /\ VerifyTimes' = VerifyTimes
      BY <2>1 DEF GeneralTimes, VerifyTimes, Waits
  <2> QED
      BY <2>1, <2>2 DEF LimitersInv, DoorInv, GeneralInv, VerifyInv, Bounded
<1> QED
    BY <1>1, <1>2

\* The invariant says what the property does.
LEMMA LimitersInvIsEnough == LimitersInv => LimitersSound
<1> SUFFICES ASSUME LimitersInv PROVE LimitersSound
    OBVIOUS
<1>0. /\ now \in Nat /\ Capacity \in Nat /\ VerifyCapacity \in Nat /\ Window \in Nat
      /\ MaxTime \in Nat
    BY LimiterAssumption DEF LimitersInv, DoorInv, Times
<1>1. TypeOK
    BY CountsAlike DEF LimitersInv, DoorInv, GeneralInv, VerifyInv, Bounded, TypeOK
<1>2. RateBound
  <2>1. ASSUME NEW C \in Nat, NEW B, NEW G, NEW F, NEW T, Books(C, B, G, F, T),
               \A k \in DOMAIN G : G[k] \in [Times -> Nat],
               NEW k \in DOMAIN G \ F, NEW s \in Times, NEW t \in s..MaxTime
        PROVE  RunningTotal(G[k], s - 1, t) * Window <= C * (Window + t - s)
    <3>1. RunningTotal(G[k], s - 1, t) * Window <= C * Window + t * C - s * C
        BY <2>1 DEF Books, Account
    <3>2. s \in Nat /\ t \in Nat /\ RunningTotal(G[k], s - 1, t) \in Nat
        BY <2>1, StretchIsNat
    <3>3. C * (Window + t - s) = C * Window + t * C - s * C
      <4>1. ASSUME NEW c \in Nat, NEW w \in Nat, NEW x \in Nat, NEW y \in Nat
            PROVE  c * (w + x - y) = c * w + x * c - y * c
          OBVIOUS
      <4> QED
          BY <1>0, <3>2, <4>1
    <3> QED
        BY <3>1, <3>3
  <2>2. /\ Books(Capacity, buckets, granted["general"], forgiven["general"], GeneralTimes)
        /\ granted["general"] \in [Keys -> [Times -> Nat]]
        /\ Books(VerifyCapacity, verifies, granted["verify"], forgiven["verify"], VerifyTimes)
        /\ granted["verify"] \in [Users -> [Times -> Nat]]
      BY DEF LimitersInv, GeneralInv, VerifyInv
  <2>3. ASSUME NEW k \in Charging["general"] \ forgiven["general"],
               NEW s \in Times, NEW t \in s..MaxTime
        PROVE  RunningTotal(granted["general"][k], s - 1, t) * Window
                   <= Capacity * (Window + t - s)
      BY <1>0, <2>1, <2>2, <2>3 DEF Charging
  <2>4. ASSUME NEW k \in Charging["verify"] \ forgiven["verify"],
               NEW s \in Times, NEW t \in s..MaxTime
        PROVE  RunningTotal(granted["verify"][k], s - 1, t) * Window
                   <= VerifyCapacity * (Window + t - s)
      BY <1>0, <2>1, <2>2, <2>4 DEF Charging
  <2> QED
      BY <2>3, <2>4 DEF RateBound
<1>3. IdleIsFull
  <2> SUFFICES ASSUME NEW k \in Limiter!Idle(buckets, now)
               PROVE  Limiter!Refilled(buckets[k], now) = Limiter!FullBucket
      BY DEF IdleIsFull
  <2>1. /\ buckets[k].tokens \in 0..(Capacity * Window) /\ buckets[k].last \in 1..now
        /\ buckets[k].last <= now - Window
      BY DEF LimitersInv, GeneralInv, Limiter!Idle, Limiter!FullBucket, Limiter!Token
  <2>2. ASSUME NEW c \in Nat, NEW w \in Nat, NEW age \in Nat, w <= age
        PROVE  c * w <= age * c
      BY <2>2
  <2>3. now - buckets[k].last \in Nat /\ Window <= now - buckets[k].last
      BY <1>0, <2>1
  <2>4. Capacity * Window <= (now - buckets[k].last) * Capacity
      BY <1>0, <2>2, <2>3
  <2>5. Capacity * Window \in Nat /\ (now - buckets[k].last) * Capacity \in Nat
      BY <1>0, <2>3
  <2>6. \A held, full, back \in Int :
            0 <= held /\ full <= back => full <= held + back
      OBVIOUS
  <2>7. Capacity * Window <= buckets[k].tokens + (now - buckets[k].last) * Capacity
      BY <2>1, <2>4, <2>5, <2>6
  <2>8. \A x, y \in Int : y <= x => (IF x > y THEN y ELSE x) = y
      OBVIOUS
  <2> QED
      BY <2>1, <2>5, <2>7, <2>8 DEF Limiter!Refilled, Limiter!FullBucket, Limiter!Token
<1> QED
    BY <1>1, <1>2, <1>3 DEF LimitersSound

\* Whatever the number of callers, keys, verifications that wait with an old reading
\* of the clock, and ticks: no key that a sweep has not forgiven is allowed more in
\* any stretch of time than a bucket and what came back, the maps stay within one
\* bucket of their bound, and an idle bucket is a full one.
THEOREM LimitersAreSound == Spec => []LimitersSound
<1>1. Spec => []LimitersInv
    BY InitDoor, LimitersInductive, PTL DEF Spec
<1> QED
    BY <1>1, LimitersInvIsEnough, PTL

-----------------------------------------------------------------------------
(***************************************************************************)
(* What is decided of a request by the posture alone.                      *)
(***************************************************************************)

\* Where the layers stand.
LEMMA Places ==
    /\ DOMAIN MIDDLEWARE_ORDER = 1..6
    /\ Place("rate_limit") = 6 /\ Place("ResponseTimeBoundary") = 2
    /\ MIDDLEWARE_ORDER[1] = "RequestSizeLimit"
    /\ MIDDLEWARE_ORDER[4] = "restricted_channel"
    /\ MIDDLEWARE_ORDER[5] = "same_site_only"
<1>1. /\ DOMAIN MIDDLEWARE_ORDER = 1..6
      /\ MIDDLEWARE_ORDER[1] = "RequestSizeLimit"
      /\ MIDDLEWARE_ORDER[2] = "ResponseTimeBoundary"
      /\ MIDDLEWARE_ORDER[3] = "security_headers"
      /\ MIDDLEWARE_ORDER[4] = "restricted_channel"
      /\ MIDDLEWARE_ORDER[5] = "same_site_only"
      /\ MIDDLEWARE_ORDER[6] = "rate_limit"
    BY DEF MIDDLEWARE_ORDER
<1>2. \A i \in 1..6 : i = 1 \/ i = 2 \/ i = 3 \/ i = 4 \/ i = 5 \/ i = 6
    OBVIOUS
<1> HIDE DEF MIDDLEWARE_ORDER
<1>3. \A i \in 1..6 : (MIDDLEWARE_ORDER[i] = "rate_limit" <=> i = 6)
    BY <1>1, <1>2
<1>4. \A i \in 1..6 : (MIDDLEWARE_ORDER[i] = "ResponseTimeBoundary" <=> i = 2)
    BY <1>1, <1>2
<1>5. Place("rate_limit") = 6
    BY <1>1, <1>3 DEF Place
<1>6. Place("ResponseTimeBoundary") = 2
    BY <1>1, <1>4 DEF Place
<1> QED
    BY <1>1, <1>5, <1>6

\* A layer that refuses is one of three.
LEMMA ThreeRefuse ==
    ASSUME NEW p, NEW c, NEW a
    PROVE  /\ Refusing(p, c, a) \subseteq {1, 4, 5}
           /\ 1 \in Refusing(p, c, a) <=> a.body = "declared"
           /\ 4 \in Refusing(p, c, a) <=> ~channel_allowed(p, c)
           /\ 5 \in Refusing(p, c, a) <=> StateChanging(a) /\ a.foreign
BY DEF Refusing, Refuses, MIDDLEWARE_ORDER

LEMMA RefusedSpendsNone ==
    ASSUME posture \in Postures
    PROVE  RefusedSpendsNothing
<1> SUFFICES ASSUME NEW c \in Callers, NEW a \in Asks,
                    Charged(posture, c, a) \/ Handled(posture, c, a)
             PROVE  /\ channel_allowed(posture, c)
                    /\ a.body # "declared"
                    /\ a.foreign => a.path \in {"static", "page", "read"}
    BY DEF RefusedSpendsNothing
<1>1. \A i \in Refusing(posture, c, a) : 6 < i
    BY Places DEF Charged, Reaches, Handled
<1>2. Refusing(posture, c, a) \cap {1, 4, 5} = {}
    BY <1>1
<1>3. ~(StateChanging(a) /\ a.foreign)
    BY <1>2, ThreeRefuse
<1>4. a.path \in {"static", "page", "read", "verify", "query", "analysis"}
    BY DEF Asks
<1> QED
    BY <1>2, <1>3, <1>4, ThreeRefuse DEF StateChanging

LEMMA RefusalsArePadded ==
    ASSUME posture \in Postures
    PROVE  RefusalsPadded
<1> SUFFICES ASSUME NEW c \in Callers, NEW a \in Asks, a.path # "analysis", a.body # "declared"
             PROVE  Padded(posture, c, a)
    BY DEF RefusalsPadded
<1>1. Refusing(posture, c, a) \subseteq {4, 5}
    BY ThreeRefuse
<1> QED
    BY <1>1, Places DEF Padded, Reaches

\* Whoever is known by a login presented that login and nothing else.
LEMMA PresentedAlone ==
    ASSUME NEW c \in Callers, _presented_login(c) \in Logins
    PROVE  /\ Len(c.headers) = 1 /\ DOMAIN c.headers = {1}
           /\ c.headers[1] = _presented_login(c) /\ c.headers = <<_presented_login(c)>>
<1>1. "none" \notin Logins /\ "ambiguous" \notin Logins
    BY LoginAssumption
<1>2. Len(c.headers) = 1 /\ c.headers[1] = _presented_login(c)
    BY <1>1 DEF _presented_login
<1>3. c.headers \in Headers
    BY DEF Callers
<1>4. PICK x : c.headers = <<x>>
  <2>1. ASSUME NEW S, NEW T, c.headers \in S \X T PROVE Len(c.headers) = 2
      BY <2>1
  <2>2. c.headers # <<>>
      BY <1>2
  <2> QED
      BY <1>2, <1>3, <2>1, <2>2 DEF Headers
<1> QED
    BY <1>2, <1>4

\* A posture's list is empty or lists logins.
LEMMA ListsLogins ==
    ASSUME posture \in Postures
    PROVE  posture.allowlist \subseteq Logins /\ posture.require \in BOOLEAN
           /\ posture.secret \in BOOLEAN /\ posture.forward \in BOOLEAN
           /\ posture.testclient \in BOOLEAN
BY LoginAssumption DEF Postures

\* Who is charged under a login.
LEMMA KeyEarned ==
    ASSUME posture \in Postures, NEW c \in Callers,
           NEW key, key = rate_limit_key(posture, c), key[1] = "login"
    PROVE  /\ posture.secret /\ c.proof
           /\ \E i \in DOMAIN c.headers : c.headers[i] = key[2]
           /\ \A i \in DOMAIN c.headers : c.headers[i] \in {key[2], Blank}
           /\ posture.allowlist = {} \/ key[2] \in posture.allowlist
<1>1. /\ _presented_login(c) \in Logins /\ posture.secret
      /\ _header_trustworthy(posture, c) /\ _allowed(posture, _presented_login(c))
      /\ key = <<"login", _presented_login(c)>>
    BY DEF rate_limit_key
<1>2. c.proof
    BY <1>1 DEF _header_trustworthy, _secret_ok
<1>3. posture.allowlist = {} \/ _presented_login(c) \in posture.allowlist
    BY <1>1 DEF _allowed
<1>4. key[2] = _presented_login(c)
    BY <1>1
<1> QED
    BY <1>1, <1>2, <1>3, <1>4, PresentedAlone

\* Who is counted under a login by the boundary.
LEMMA CallerEarned ==
    ASSUME posture \in Postures, NEW c \in Callers,
           NEW key, key = _caller(posture, c), key[1] = "login"
    PROVE  /\ posture.secret /\ c.proof
           /\ \E i \in DOMAIN c.headers : c.headers[i] = key[2]
           /\ \A i \in DOMAIN c.headers : c.headers[i] \in {key[2], Blank}
           /\ posture.allowlist = {} \/ key[2] \in posture.allowlist
<1> DEFINE sole == {i \in DOMAIN c.headers :
                       \A j \in DOMAIN c.headers : c.headers[j] # Blank <=> j = i}
           named == {c.headers[i] : i \in sole} \cap Logins
<1>1. /\ posture.secret /\ c.proof /\ \E login \in named : _allowed(posture, login)
      /\ key = <<"login", CHOOSE login \in named : TRUE>>
    BY DEF _caller
<1>2. PICK login \in named : _allowed(posture, login)
    BY <1>1
<1>3. PICK i \in sole : login = c.headers[i]
    BY <1>2
<1>4. \A j \in sole : j = i
    BY <1>3
<1>5. \A x \in named : x = login
    BY <1>3, <1>4
<1>6. (CHOOSE x \in named : TRUE) = login
    BY <1>2, <1>5
<1> HIDE DEF named
<1>7. key[2] = login
    BY <1>1, <1>6
<1>8. posture.allowlist = {} \/ login \in posture.allowlist
    BY <1>2 DEF _allowed
<1>9. \A j \in DOMAIN c.headers : c.headers[j] \in {login, Blank}
    BY <1>3
<1> QED
    BY <1>1, <1>3, <1>7, <1>8, <1>9

\* Whoever gets in with a login is trusted to be its owner.
LEMMA LetIn ==
    ASSUME posture \in Postures, NEW c \in Callers, current_user(posture, c).allowed,
           _presented_login(c) \in Logins
    PROVE  /\ current_user(posture, c).user = _presented_login(c)
           /\ _header_trustworthy(posture, c) /\ _allowed(posture, _presented_login(c))
BY DEF current_user

\* Whoever gets in where a login is required presents one.
LEMMA Required ==
    ASSUME posture \in Postures, NEW c \in Callers,
           posture.require, current_user(posture, c).allowed
    PROVE  /\ posture.secret /\ c.proof
           /\ c.headers = <<current_user(posture, c).user>>
           /\ current_user(posture, c).user \in posture.allowlist
           /\ posture.nets = {"loopback"} \/ posture.forward
<1>1. _presented_login(c) \in Logins
    BY DEF current_user
<1>2. /\ current_user(posture, c).user = _presented_login(c)
      /\ _header_trustworthy(posture, c) /\ _allowed(posture, _presented_login(c))
    BY <1>1, LetIn
<1>3. posture.secret /\ c.proof
    BY <1>2 DEF _header_trustworthy, _secret_ok
<1>4. _presented_login(c) \in posture.allowlist
    BY <1>2 DEF _allowed
<1>5. posture.nets = {"loopback"} \/ posture.forward
    BY <1>2 DEF _header_trustworthy, channel_is_loopback_only
<1> QED
    BY <1>1, <1>2, <1>3, <1>4, <1>5, PresentedAlone

LEMMA IdentityHolds ==
    ASSUME posture \in Postures
    PROVE  IdentitySound
<1>1. KeysEarned
    BY KeyEarned, CallerEarned DEF KeysEarned
<1>2. ProductionProved
    BY Required DEF ProductionProved
<1>3. OneBucketPerUser
    BY LetIn DEF OneBucketPerUser, rate_limit_key
<1>4. ReportHonest
  <2> DEFINE admitted == {c \in Callers : channel_allowed(posture, c)
                                          /\ current_user(posture, c).allowed}
  <2> SUFFICES ASSUME posture.require
               PROVE  /\ configuration_report(posture).blocking # {} => admitted = {}
                      /\ \A c \in admitted :
                          c.peer # "loopback" => configuration_report(posture).waived # {}
      BY DEF ReportHonest
  <2>1. ASSUME NEW c \in admitted
        PROVE  configuration_report(posture).blocking = {}
    <3>1. posture.secret /\ posture.allowlist # {}
        BY Required
    <3> QED
        BY <3>1 DEF configuration_report
  <2>2. ASSUME NEW c \in admitted, c.peer # "loopback"
        PROVE  configuration_report(posture).waived # {}
    <3>1. posture.nets = {"loopback"} \/ posture.forward
        BY Required
    <3>2. posture.forward \/ posture.testclient
        BY <2>2, <3>1 DEF channel_allowed, Off, Malformed
    <3> QED
        BY <3>2 DEF configuration_report
  <2> QED
      BY <2>1, <2>2
<1> QED
    BY <1>1, <1>2, <1>3, <1>4 DEF IdentitySound

LEMMA PostureKept == Spec => [](posture \in Postures)
<1>1. Init => posture \in Postures
    BY DEF Init
<1>2. ASSUME posture \in Postures, [Next]_vars PROVE (posture \in Postures)'
    BY <1>2 DEF Next, vars, Tick, RateLimit, ReadClock, Verify
<1> QED
    BY <1>1, <1>2, PTL DEF Spec

\* In every posture and for every set of logins and lists: nobody chooses a key or a
\* name that they have not earned, nobody gets into production without the secret
\* and a place on the list, and the report of a posture does not flatter it.
THEOREM IdentityIsSound == Spec => []IdentitySound
BY PostureKept, IdentityHolds, PTL

\* In every posture no request that is turned away spends a bucket or runs a handler,
\* and every refusal but those exempt is padded.
THEOREM RefusalsAreCheap == Spec => []RefusalsCheap
<1>1. posture \in Postures => RefusalsCheap
    BY RefusedSpendsNone, RefusalsArePadded DEF RefusalsCheap
<1> QED
    BY <1>1, PostureKept, PTL

=============================================================================
