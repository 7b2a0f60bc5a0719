---------------------------- MODULE RateLimiter ----------------------------
(***************************************************************************)
(* A token bucket per key, and the map of buckets with its bound.  A token *)
(* is Window units, and Capacity units come back at every tick: the rate   *)
(* is Capacity / Window, and no fraction is lost.                          *)
(***************************************************************************)
EXTENDS Integers, FiniteSets

CONSTANTS
    Capacity,           \* tokens of a full bucket
    Window,             \* ticks in which an empty bucket fills: window_sec
    MaxKeys             \* max_keys

Token == Window
FullBucket == Capacity * Token

\* A map of buckets is a function from its keys.
NoBuckets == [k \in {} |-> 0]

\* Mutant: what came back is not capped.
RefilledPast(bucket, now) == bucket.tokens + (now - bucket.last) * Capacity

\* What a bucket holds at a time; earlier than its last use, it holds less.
Refilled(bucket, now) ==
    LET units == bucket.tokens + (now - bucket.last) * Capacity
    IN  IF units > FullBucket THEN FullBucket ELSE units

Idle(buckets, now) == {k \in DOMAIN buckets : buckets[k].last <= now - Window}

\* The n least recently used of some keys; among equals, any.
Oldest(keys, n, buckets) ==
    {old \in SUBSET keys :
        /\ Cardinality(old) = n
        /\ \A k \in old, other \in keys \ old : buckets[k].last <= buckets[other].last}

\* _sweep_locked: the keys that may be left by a sweep.
Swept(buckets, now) ==
    LET active == DOMAIN buckets \ Idle(buckets, now)
        excess == Cardinality(active) - MaxKeys
    IN  IF excess <= 0 THEN {active}
                       ELSE {active \ old : old \in Oldest(active, excess, buckets)}

Kept(buckets, now) ==
    IF Cardinality(DOMAIN buckets) > MaxKeys THEN Swept(buckets, now) ELSE {DOMAIN buckets}

\* The bucket `allow` finds for a key, filled up to now.
Found(buckets, keys, key, now) ==
    IF key \in keys THEN Refilled(buckets[key], now) ELSE FullBucket

\* The map after `allow`, when `keys` survived its sweep.
Spend(buckets, keys, key, now) ==
    LET units == Found(buckets, keys, key, now)
    IN  [k \in keys \cup {key} |->
            IF k # key THEN buckets[k]
            ELSE [tokens |-> IF units < Token THEN units ELSE units - Token, last |-> now]]

Allowed(buckets, keys, key, now) == Found(buckets, keys, key, now) >= Token

=============================================================================
