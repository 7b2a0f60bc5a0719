------------------------ MODULE RunningTotalsProofs ------------------------
(***************************************************************************)
(* What proofs need of running totals.  That a recursive function is what  *)
(* it says, and what it computes for every length, is proved without an    *)
(* induction theorem: every set of naturals has a least member, so the     *)
(* first place where a claim fails is a place after which it cannot.       *)
(***************************************************************************)
EXTENDS RunningTotals, FiniteSetTheorems, TLAPS

\* Every set of naturals has a least member.
LEMMA LeastNumber ==
    ASSUME NEW T \in SUBSET Nat, T # {}
    PROVE  \E m \in T : \A k \in T : m <= k
<1> DEFINE S(k) == 0 .. k
           X == {S(k) : k \in T}
<1>1. X \subseteq FiniteSubsetsOf(Nat) /\ X # {}
  <2>1. ASSUME NEW k \in T PROVE S(k) \in SUBSET Nat /\ IsFiniteSet(S(k))
      BY FS_Interval
  <2> QED
      BY <2>1 DEF FiniteSubsetsOf
<1>2. PICK x \in X : \A y \in X : ~(<<y, x>> \in StrictSubsetOrdering(Nat))
    BY <1>1, FS_StrictSubsetOrderingWellFounded, WFMin
<1>3. PICK m \in T : x = S(m)
    OBVIOUS
<1>4. ASSUME NEW k \in T, ~(m <= k) PROVE FALSE
  <2>1. S(k) \subseteq S(m) /\ m \notin S(k) /\ m \in S(m)
      BY <1>4
  <2>2. <<S(k), S(m)>> \in StrictSubsetOrdering(Nat)
      BY <2>1 DEF StrictSubsetOrdering
  <2> QED
      BY <1>2, <1>3, <2>2
<1> QED
    BY <1>4

Totals(f, c, lo, hi) ==
    f = [n \in lo..hi |-> IF n = lo THEN 0 ELSE f[n - 1] + c[n]]

\* There is a function of running totals.
LEMMA TotalsExist ==
    ASSUME NEW c, NEW lo \in Nat, NEW hi \in Nat, lo <= hi
    PROVE  \E f : Totals(f, c, lo, hi)
<1> DEFINE T == {k \in Nat : ~\E f : Totals(f, c, lo, lo + k)}
<1>1. SUFFICES ASSUME T # {} PROVE FALSE
  <2>1. hi - lo \in Nat /\ lo + (hi - lo) = hi
      OBVIOUS
  <2> QED
      BY <2>1
<1>2. PICK k \in T : \A j \in T : k <= j
    BY <1>1, LeastNumber
<1>3. CASE k = 0
  <2>1. Totals([n \in lo..lo |-> 0], c, lo, lo)
      BY DEF Totals
  <2> QED
      BY <1>3, <2>1
<1>4. CASE k # 0
  <2>1. k - 1 \in Nat /\ k - 1 \notin T
      BY <1>2, <1>4
  <2>2. PICK f : Totals(f, c, lo, lo + (k - 1))
      BY <2>1
  <2> DEFINE g == [n \in lo..(lo + k) |-> IF n = lo THEN 0 ELSE f[n - 1] + c[n]]
  <2>3. \A n \in lo..(lo + (k - 1)) : g[n] = f[n]
      BY <2>2 DEF Totals
  <2>4. ASSUME NEW n \in lo..(lo + k), n # lo
        PROVE  g[n - 1] = f[n - 1]
    <3> HIDE DEF g
    <3>1. n - 1 \in lo..(lo + (k - 1))
        BY <2>4
    <3> QED
        BY <2>3, <3>1
  <2>5. Totals(g, c, lo, lo + k)
      BY <2>4 DEF Totals
  <2> QED
      BY <2>5
<1> QED
    BY <1>3, <1>4

\* Two functions of running totals agree if what they sum does.
LEMMA TotalsUnique ==
    ASSUME NEW c, NEW d, NEW f, NEW g, NEW lo \in Nat, NEW hi \in Nat,
           lo <= hi, Totals(f, c, lo, hi), Totals(g, d, lo, hi),
           \A i \in (lo + 1)..hi : c[i] = d[i]
    PROVE  \A i \in lo..hi : f[i] = g[i]
<1> DEFINE T == {i \in lo..hi : f[i] # g[i]}
<1>1. SUFFICES ASSUME T # {} PROVE FALSE
    OBVIOUS
<1>2. PICK i \in T : \A j \in T : i <= j
  <2>1. T \in SUBSET Nat
      OBVIOUS
  <2> HIDE DEF T
  <2> QED
      BY <1>1, <2>1, LeastNumber
<1>3. i # lo => i - 1 \in lo..hi /\ i - 1 \notin T
    BY <1>2
<1>4. f[i] = IF i = lo THEN 0 ELSE f[i - 1] + c[i]
    BY DEF Totals
<1>5. g[i] = IF i = lo THEN 0 ELSE g[i - 1] + d[i]
    BY DEF Totals
<1> QED
    BY <1>3, <1>4, <1>5

\* What a running total is.
LEMMA TotalDefined ==
    ASSUME NEW c, NEW lo \in Nat, NEW hi \in Nat, lo <= hi
    PROVE  \E f : Totals(f, c, lo, hi) /\ RunningTotal(c, lo, hi) = f[hi]
<1> DEFINE f == CHOOSE h : Totals(h, c, lo, hi)
<1>1. Totals(f, c, lo, hi)
    BY TotalsExist
<1>2. RunningTotal(c, lo, hi) = f[hi]
    BY DEF RunningTotal, Totals
<1> QED
    BY <1>1, <1>2

\* The sum of nothing, and of one number more.
LEMMA TotalOfNone ==
    ASSUME NEW c, NEW lo \in Nat
    PROVE  RunningTotal(c, lo, lo) = 0
<1>1. PICK f : Totals(f, c, lo, lo) /\ RunningTotal(c, lo, lo) = f[lo]
    BY TotalDefined
<1> QED
    BY <1>1 DEF Totals

LEMMA TotalOfOneMore ==
    ASSUME NEW c, NEW lo \in Nat, NEW hi \in Nat, lo <= hi
    PROVE  RunningTotal(c, lo, hi + 1) = RunningTotal(c, lo, hi) + c[hi + 1]
<1>1. PICK f : Totals(f, c, lo, hi) /\ RunningTotal(c, lo, hi) = f[hi]
    BY TotalDefined
<1>2. PICK g : Totals(g, c, lo, hi + 1) /\ RunningTotal(c, lo, hi + 1) = g[hi + 1]
    BY TotalDefined
<1>3. f[hi] = g[hi]
  <2> DEFINE h == [n \in lo..hi |-> g[n]]
  <2>1. Totals(h, c, lo, hi)
    <3>1. ASSUME NEW n \in lo..hi PROVE h[n] = IF n = lo THEN 0 ELSE h[n - 1] + c[n]
        BY <1>2 DEF Totals
    <3> QED
        BY <3>1 DEF Totals
  <2>2. h[hi] = g[hi]
      OBVIOUS
  <2> HIDE DEF h
  <2>3. ASSUME NEW d, Totals(h, d, lo, hi), \A i \in (lo + 1)..hi : c[i] = d[i]
        PROVE  \A i \in lo..hi : f[i] = h[i]
      BY <1>1, <2>3, TotalsUnique
  <2>4. \A i \in lo..hi : f[i] = h[i]
      BY <2>1, <2>3
  <2> QED
      BY <2>2, <2>4
<1>4. g[hi + 1] = g[hi] + c[hi + 1]
    BY <1>2 DEF Totals
<1> QED
    BY <1>1, <1>2, <1>3, <1>4

\* Only what is summed matters.
LEMMA TotalOfSame ==
    ASSUME NEW c, NEW d, NEW lo \in Nat, NEW hi \in Nat, lo <= hi,
           \A i \in (lo + 1)..hi : c[i] = d[i]
    PROVE  RunningTotal(c, lo, hi) = RunningTotal(d, lo, hi)
<1>1. PICK f : Totals(f, c, lo, hi) /\ RunningTotal(c, lo, hi) = f[hi]
    BY TotalDefined
<1>2. PICK g : Totals(g, d, lo, hi) /\ RunningTotal(d, lo, hi) = g[hi]
    BY TotalDefined
<1>3. \A i \in lo..hi : f[i] = g[i]
    BY <1>1, <1>2, TotalsUnique
<1> QED
    BY <1>1, <1>2, <1>3

\* Naturals sum to a natural.
LEMMA TotalIsNat ==
    ASSUME NEW c, NEW lo \in Nat, NEW hi \in Nat, lo <= hi,
           \A i \in (lo + 1)..hi : c[i] \in Nat
    PROVE  RunningTotal(c, lo, hi) \in Nat
<1>1. PICK f : Totals(f, c, lo, hi) /\ RunningTotal(c, lo, hi) = f[hi]
    BY TotalDefined
<1> DEFINE T == {i \in lo..hi : f[i] \notin Nat}
<1>2. SUFFICES ASSUME T # {} PROVE FALSE
    BY <1>1
<1>3. PICK i \in T : \A j \in T : i <= j
  <2>1. T \in SUBSET Nat
      OBVIOUS
  <2> HIDE DEF T
  <2> QED
      BY <1>2, <2>1, LeastNumber
<1>4. i # lo => i - 1 \in lo..hi /\ i - 1 \notin T
    BY <1>3
<1>5. f[i] = IF i = lo THEN 0 ELSE f[i - 1] + c[i]
    BY <1>1 DEF Totals
<1> QED
    BY <1>4, <1>5

\* One number more by one raises the sum by one.
LEMMA TotalOfRaised ==
    ASSUME NEW c, NEW d, NEW u, NEW lo \in Nat, NEW hi \in Nat, lo <= hi,
           \A i \in (lo + 1)..hi : c[i] \in Nat,
           \A i \in (lo + 1)..hi : i # u => d[i] = c[i],
           u \in (lo + 1)..hi, d[u] = c[u] + 1
    PROVE  RunningTotal(d, lo, hi) = RunningTotal(c, lo, hi) + 1
<1>1. PICK f : Totals(f, c, lo, hi) /\ RunningTotal(c, lo, hi) = f[hi]
    BY TotalDefined
<1>2. PICK g : Totals(g, d, lo, hi) /\ RunningTotal(d, lo, hi) = g[hi]
    BY TotalDefined
<1> DEFINE Ok(i) == f[i] \in Nat /\ g[i] = f[i] + (IF u <= i THEN 1 ELSE 0)
           T == {i \in lo..hi : ~Ok(i)}
<1>3. SUFFICES ASSUME T # {} PROVE FALSE
    BY <1>1, <1>2
<1>4. PICK i \in T : \A j \in T : i <= j
  <2>1. T \in SUBSET Nat
      OBVIOUS
  <2> HIDE DEF T
  <2> QED
      BY <1>3, <2>1, LeastNumber
<1>5. i # lo => i - 1 \in lo..hi /\ Ok(i - 1)
    BY <1>4
<1>6. f[i] = IF i = lo THEN 0 ELSE f[i - 1] + c[i]
    BY <1>1 DEF Totals
<1>7. g[i] = IF i = lo THEN 0 ELSE g[i - 1] + d[i]
    BY <1>2 DEF Totals
<1>8. CASE i = lo
    BY <1>6, <1>7, <1>8
<1>9. CASE i # lo
  <2>1. i \in (lo + 1)..hi /\ c[i] \in Nat /\ d[i] = IF i = u THEN c[i] + 1 ELSE c[i]
      BY <1>9
  <2>2. u <= i <=> u <= i - 1 \/ u = i
      BY <2>1
  <2> QED
      BY <1>5, <1>6, <1>7, <1>9, <2>1, <2>2
<1> QED
    BY <1>8, <1>9

\* Nothing but zeros sums to zero.
LEMMA TotalOfZeros ==
    ASSUME NEW c, NEW lo \in Nat, NEW hi \in Nat, lo <= hi, \A i \in (lo + 1)..hi : c[i] = 0
    PROVE  RunningTotal(c, lo, hi) = 0
<1>1. PICK f : Totals(f, c, lo, hi) /\ RunningTotal(c, lo, hi) = f[hi]
    BY TotalDefined
<1> DEFINE T == {i \in lo..hi : f[i] # 0}
<1>2. SUFFICES ASSUME T # {} PROVE FALSE
    BY <1>1
<1>3. PICK i \in T : \A j \in T : i <= j
  <2>1. T \in SUBSET Nat
      OBVIOUS
  <2> HIDE DEF T
  <2> QED
      BY <1>2, <2>1, LeastNumber
<1>4. i # lo => i - 1 \in lo..hi /\ i - 1 \notin T
    BY <1>3
<1>5. f[i] = IF i = lo THEN 0 ELSE f[i - 1] + c[i]
    BY <1>1 DEF Totals
<1> QED
    BY <1>4, <1>5

=============================================================================
