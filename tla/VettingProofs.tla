---------------------------- MODULE VettingProofs ----------------------------
(***************************************************************************)
(* What vetting promises.  For every view, cohort, event and filter: what  *)
(* two releases tell by their difference is nobody's.  For every table and *)
(* every bound: what leaves is safe cell by cell and by subtraction, and   *)
(* no number of an answer that leaves is one person's.  For every file and *)
(* environment: what is enforced is what was written, with its floors, but *)
(* for fractions that are cut off.  For every definition: its shadow has   *)
(* its levels, joins and bands, and what it accepts is what it offers and  *)
(* what was asked.  For any number of requests, starts, tables and lines   *)
(* out of turn of the external checker: types, no table decided by         *)
(* another's answer, no process out of reach, a quiet pipe for every       *)
(* question, and a version that stands once it is settled.                 *)
(***************************************************************************)
EXTENDS ExternalChecker, Answers, Policies, Shadows, Proposals, RunningTotalsProofs, FiniteSetTheorems, SequenceTheorems, TLAPS

-----------------------------------------------------------------------------
(* Sums over finite sets *)

\* A collection of finite sets has a smallest member.
LEMMA SmallestSet ==
    ASSUME NEW S, IsFiniteSet(S), NEW C \in SUBSET SUBSET S, C # {}
    PROVE  \E s \in C : \A t \in C : t \subseteq s => t = s
<1>1. C \subseteq FiniteSubsetsOf(S)
    BY FS_Subset DEF FiniteSubsetsOf
<1>2. PICK s \in C : \A t \in C : ~(<<t, s>> \in StrictSubsetOrdering(S))
    BY <1>1, FS_StrictSubsetOrderingWellFounded, WFMin
<1>3. ASSUME NEW t \in C, t \subseteq s, t # s PROVE FALSE
    BY <1>2, <1>3 DEF StrictSubsetOrdering
<1> QED
    BY <1>3

\* g folds f over every part of S, one chosen element at a time.
Sums(g, f, S) ==
    g = [s \in SUBSET S |-> IF s = {} THEN 0
                            ELSE LET x == CHOOSE x \in s : TRUE IN f[x] + g[s \ {x}]]

Some(s) == CHOOSE x \in s : TRUE

\* Folds of functions that agree on what two sets share agree there.
LEMMA SumsUnique ==
    ASSUME NEW S, IsFiniteSet(S), NEW R, NEW f, NEW e, NEW g, NEW h,
           Sums(g, f, S), Sums(h, e, R), \A x \in S \cap R : f[x] = e[x]
    PROVE  \A s \in SUBSET (S \cap R) : g[s] = h[s]
<1> DEFINE C == {s \in SUBSET (S \cap R) : g[s] # h[s]}
<1>1. SUFFICES ASSUME C # {} PROVE FALSE
    OBVIOUS
<1>2. PICK s \in C : \A t \in C : t \subseteq s => t = s
  <2>1. C \in SUBSET SUBSET S
      OBVIOUS
  <2> HIDE DEF C
  <2> QED
      BY <1>1, <2>1, SmallestSet
<1>3. s \in SUBSET S /\ s \in SUBSET R
    OBVIOUS
<1>4. g[s] = (IF s = {} THEN 0 ELSE f[Some(s)] + g[s \ {Some(s)}])
    BY <1>3 DEF Sums, Some
<1>5. h[s] = (IF s = {} THEN 0 ELSE e[Some(s)] + h[s \ {Some(s)}])
    BY <1>3 DEF Sums, Some
<1>6. CASE s = {}
    BY <1>4, <1>5, <1>6
<1>7. CASE s # {}
  <2>1. Some(s) \in s
      BY <1>7 DEF Some
  <2>2. s \ {Some(s)} \subseteq s /\ s \ {Some(s)} # s /\ s \ {Some(s)} \in SUBSET (S \cap R)
      BY <2>1
  <2>3. s \ {Some(s)} \notin C
      BY <1>2, <2>2
  <2>4. f[Some(s)] = e[Some(s)]
      BY <1>3, <2>1
  <2> QED
      BY <1>4, <1>5, <1>7, <2>2, <2>3, <2>4
<1> QED
    BY <1>6, <1>7

\* There is such a fold over every finite set.
LEMMA SumsExist ==
    ASSUME NEW S, IsFiniteSet(S), NEW f
    PROVE  \E g : Sums(g, f, S)
<1> DEFINE C == {s \in SUBSET S : ~\E g : Sums(g, f, s)}
<1>1. SUFFICES ASSUME C # {} PROVE FALSE
    OBVIOUS
<1>2. PICK s \in C : \A t \in C : t \subseteq s => t = s
  <2>1. C \in SUBSET SUBSET S
      OBVIOUS
  <2> HIDE DEF C
  <2> QED
      BY <1>1, <2>1, SmallestSet
<1> DEFINE H(t) == CHOOSE h : Sums(h, f, t)
           rest(t) == t \ {Some(t)}
           G == [t \in SUBSET s |-> IF t = {} THEN 0 ELSE f[Some(t)] + H(rest(t))[rest(t)]]
<1>3. ASSUME NEW t \in SUBSET s, t # {}
      PROVE  /\ rest(t) \in SUBSET s /\ rest(t) \subseteq t
             /\ Sums(H(rest(t)), f, rest(t))
  <2>1. Some(t) \in t
      BY <1>3 DEF Some
  <2>2. rest(t) \subseteq s /\ rest(t) # s /\ rest(t) \in SUBSET S
      BY <2>1
  <2>3. rest(t) \notin C
      BY <1>2, <2>2
  <2>4. \E h : Sums(h, f, rest(t))
      BY <2>2, <2>3
  <2> HIDE DEF rest
  <2>5. Sums(H(rest(t)), f, rest(t))
      BY <2>4
  <2> QED
      BY <2>2, <2>5 DEF rest
<1>4. ASSUME NEW u \in SUBSET s, Sums(H(u), f, u)
      PROVE  H(u)[u] = G[u]
  <2>1. H(u)[u] = (IF u = {} THEN 0 ELSE f[Some(u)] + H(u)[rest(u)])
    <3> HIDE DEF H
    <3> QED
        BY <1>4 DEF Sums, Some
  <2>2. ASSUME u # {} PROVE H(u)[rest(u)] = H(rest(u))[rest(u)]
    <3>1. Sums(H(rest(u)), f, rest(u)) /\ rest(u) \in SUBSET (u \cap rest(u))
        BY <1>3, <2>2
    <3>2. IsFiniteSet(u)
        BY FS_Subset
    <3> HIDE DEF H, rest
    <3>3. \A t \in SUBSET (u \cap rest(u)) : H(u)[t] = H(rest(u))[t]
        BY <1>4, <3>1, <3>2, SumsUnique
    <3> QED
        BY <3>1, <3>3
  <2> HIDE DEF H, rest
  <2> QED
      BY <2>1, <2>2
<1>5. ASSUME NEW t \in SUBSET s, t # {} PROVE G[t] = f[Some(t)] + G[rest(t)]
  <2>1. H(rest(t))[rest(t)] = G[rest(t)]
    <3> HIDE DEF G, H, rest
    <3> QED
        BY <1>3, <1>4, <1>5
  <2>2. G[t] = f[Some(t)] + H(rest(t))[rest(t)]
    <3> HIDE DEF H, rest
    <3> QED
        BY <1>5
  <2> HIDE DEF G, H, rest
  <2> QED
      BY <2>1, <2>2
<1>6. G = [t \in SUBSET s |-> IF t = {} THEN 0 ELSE f[Some(t)] + G[rest(t)]]
  <2>1. G = [t \in SUBSET s |-> G[t]] /\ ({} \in SUBSET s => G[{}] = 0)
    <3> HIDE DEF H, rest
    <3> QED
        OBVIOUS
  <2> HIDE DEF G, rest
  <2>2. \A t \in SUBSET s : G[t] = IF t = {} THEN 0 ELSE f[Some(t)] + G[rest(t)]
      BY <1>5, <2>1
  <2> QED
      BY <2>1, <2>2
<1>7. Sums(G, f, s)
  <2> HIDE DEF G
  <2> QED
      BY <1>6 DEF Sums, Some
<1> HIDE DEF G
<1> QED
    BY <1>7

\* SumFunctionOnSet adds one element at a time.
LEMMA SumDefined ==
    ASSUME NEW S, IsFiniteSet(S), NEW f
    PROVE  \E g : Sums(g, f, S) /\ SumFunctionOnSet(f, S) = g[S]
<1> DEFINE g == CHOOSE h : Sums(h, f, S)
<1>1. Sums(g, f, S)
    BY SumsExist
<1>2. SumFunctionOnSet(f, S) = g[S]
    BY DEF SumFunctionOnSet, FoldFunctionOnSet, MapThenFoldSet, Sums
<1> QED
    BY <1>1, <1>2

\* Only what is summed matters.
LEMMA SumOfSame ==
    ASSUME NEW S, IsFiniteSet(S), NEW f, NEW e, \A x \in S : f[x] = e[x]
    PROVE  SumFunctionOnSet(f, S) = SumFunctionOnSet(e, S)
<1>1. PICK g : Sums(g, f, S) /\ SumFunctionOnSet(f, S) = g[S]
    BY SumDefined
<1>2. PICK h : Sums(h, e, S) /\ SumFunctionOnSet(e, S) = h[S]
    BY SumDefined
<1>3. \A s \in SUBSET (S \cap S) : g[s] = h[s]
    BY <1>1, <1>2, SumsUnique
<1> QED
    BY <1>1, <1>2, <1>3

\* The sum over nothing is 0.
LEMMA SumOfNone == ASSUME NEW f PROVE SumFunctionOnSet(f, {}) = 0
<1>1. PICK g : Sums(g, f, {}) /\ SumFunctionOnSet(f, {}) = g[{}]
    BY FS_EmptySet, SumDefined
<1> QED
    BY <1>1 DEF Sums

\* A sum takes some member first.
LEMMA SumOfSome ==
    ASSUME NEW S, IsFiniteSet(S), NEW f, S # {}
    PROVE  /\ Some(S) \in S
           /\ SumFunctionOnSet(f, S) = f[Some(S)] + SumFunctionOnSet(f, S \ {Some(S)})
<1> DEFINE R == S \ {Some(S)}
<1>1. Some(S) \in S /\ IsFiniteSet(R)
    BY FS_Subset DEF Some
<1>2. PICK g : Sums(g, f, S) /\ SumFunctionOnSet(f, S) = g[S]
    BY SumDefined
<1>3. PICK h : Sums(h, f, R) /\ SumFunctionOnSet(f, R) = h[R]
    BY <1>1, SumDefined
<1>4. \A s \in SUBSET (S \cap R) : g[s] = h[s]
    BY <1>2, <1>3, SumsUnique
<1>5. g[S] = f[Some(S)] + g[R]
    BY <1>2 DEF Sums, Some
<1>6. R \in SUBSET (S \cap R)
    OBVIOUS
<1> QED
    BY <1>1, <1>2, <1>3, <1>4, <1>5, <1>6

\* A sum of integers is an integer.
LEMMA SumIsInt ==
    ASSUME NEW S, IsFiniteSet(S), NEW f, \A x \in S : f[x] \in Int
    PROVE  SumFunctionOnSet(f, S) \in Int
<1> DEFINE C == {s \in SUBSET S : SumFunctionOnSet(f, s) \notin Int}
<1>1. SUFFICES ASSUME C # {} PROVE FALSE
    OBVIOUS
<1>2. PICK s \in C : \A t \in C : t \subseteq s => t = s
  <2>1. C \in SUBSET SUBSET S
      OBVIOUS
  <2> HIDE DEF C
  <2> QED
      BY <1>1, <2>1, SmallestSet
<1>3. s # {}
    BY SumOfNone
<1>4. IsFiniteSet(s)
    BY FS_Subset
<1>5. Some(s) \in s /\ SumFunctionOnSet(f, s) = f[Some(s)] + SumFunctionOnSet(f, s \ {Some(s)})
    BY <1>3, <1>4, SumOfSome
<1>6. s \ {Some(s)} \notin C
    BY <1>2, <1>5
<1>7. SumFunctionOnSet(f, s \ {Some(s)}) \in Int /\ f[Some(s)] \in Int
    BY <1>5, <1>6
<1> QED
    BY <1>5, <1>7

\* The sum over one element is its value.
LEMMA SumOfOne ==
    ASSUME NEW f, NEW x, f[x] \in Int
    PROVE  SumFunctionOnSet(f, {x}) = f[x]
<1>1. IsFiniteSet({x})
    BY FS_Singleton
<1>2. Some({x}) \in {x} /\ SumFunctionOnSet(f, {x}) = f[Some({x})] + SumFunctionOnSet(f, {x} \ {Some({x})})
    BY <1>1, SumOfSome
<1>3. Some({x}) = x /\ {x} \ {Some({x})} = {}
    BY <1>2
<1>4. SumFunctionOnSet(f, {x} \ {Some({x})}) = 0
    BY <1>3, SumOfNone
<1>5. f[x] + 0 = f[x]
    OBVIOUS
<1> QED
    BY <1>2, <1>3, <1>4, <1>5

\* The difference of two sums is the sum of the differences.
LEMMA SumOfDifferences ==
    ASSUME NEW S, IsFiniteSet(S), NEW f, NEW e, NEW d,
           \A x \in S : f[x] \in Int /\ e[x] \in Int /\ d[x] = f[x] - e[x]
    PROVE  SumFunctionOnSet(d, S) = SumFunctionOnSet(f, S) - SumFunctionOnSet(e, S)
<1> DEFINE Ok(s) == SumFunctionOnSet(d, s) = SumFunctionOnSet(f, s) - SumFunctionOnSet(e, s)
           C == {s \in SUBSET S : ~Ok(s)}
<1>1. SUFFICES ASSUME C # {} PROVE FALSE
    OBVIOUS
<1>2. PICK s \in C : \A t \in C : t \subseteq s => t = s
  <2>1. C \in SUBSET SUBSET S
      OBVIOUS
  <2> HIDE DEF C
  <2> QED
      BY <1>1, <2>1, SmallestSet
<1>3. s # {}
  <2>1. /\ SumFunctionOnSet(d, {}) = 0 /\ SumFunctionOnSet(e, {}) = 0
        /\ SumFunctionOnSet(f, {}) = 0
      BY SumOfNone
  <2>2. Ok({})
      BY <2>1
  <2> HIDE DEF Ok
  <2> QED
      BY <2>2
<1>4. IsFiniteSet(s)
    BY FS_Subset
<1> DEFINE x == Some(s)  r == s \ {x}
<1>5. /\ x \in s
      /\ SumFunctionOnSet(f, s) = f[x] + SumFunctionOnSet(f, r)
      /\ SumFunctionOnSet(e, s) = e[x] + SumFunctionOnSet(e, r)
      /\ SumFunctionOnSet(d, s) = d[x] + SumFunctionOnSet(d, r)
    BY <1>3, <1>4, SumOfSome
<1>6. Ok(r)
    BY <1>2, <1>5
<1>7. IsFiniteSet(r) /\ r \subseteq S
    BY <1>4, FS_Subset
<1>8. SumFunctionOnSet(f, r) \in Int /\ SumFunctionOnSet(e, r) \in Int
  <2> HIDE DEF r
  <2> QED
      BY <1>7, SumIsInt
<1>9. f[x] \in Int /\ e[x] \in Int /\ d[x] = f[x] - e[x]
    BY <1>5
<1>10. ASSUME NEW a \in Int, NEW b \in Int, NEW p \in Int, NEW q \in Int
       PROVE  (p - q) + (a - b) = (p + a) - (q + b)
    OBVIOUS
<1>11. Ok(s)
  <2> HIDE DEF x, r
  <2> QED
      BY <1>5, <1>6, <1>8, <1>9, <1>10
<1> QED
    BY <1>11

\* Two sets together have at most as many members as both, and as many if disjoint.
LEMMA CardinalityOfUnion ==
    ASSUME NEW A, NEW B, IsFiniteSet(A), IsFiniteSet(B)
    PROVE  /\ IsFiniteSet(A \cup B)
           /\ Cardinality(A) \in Nat /\ Cardinality(B) \in Nat /\ Cardinality(A \cup B) \in Nat
           /\ Cardinality(A \cup B) <= Cardinality(A) + Cardinality(B)
           /\ A \cap B = {} => Cardinality(A \cup B) = Cardinality(A) + Cardinality(B)
<1>1. /\ IsFiniteSet(A \cup B) /\ IsFiniteSet(A \cap B)
      /\ Cardinality(A \cup B) = Cardinality(A) + Cardinality(B) - Cardinality(A \cap B)
    BY FS_Union, FS_Subset
<1>2. /\ Cardinality(A) \in Nat /\ Cardinality(B) \in Nat
      /\ Cardinality(A \cup B) \in Nat /\ Cardinality(A \cap B) \in Nat
    BY <1>1, FS_CardinalityType
<1>3. A \cap B = {} => Cardinality(A \cap B) = 0
    BY FS_EmptySet
<1> QED
    BY <1>1, <1>2, <1>3

\* The members of some sets are no more than the sizes of the sets add up to,
\* and as many if the sets are disjoint.
LEMMA SumCoversUnion ==
    ASSUME NEW S, IsFiniteSet(S), NEW B, NEW f,
           \A x \in S : IsFiniteSet(B[x]) /\ f[x] \in Int /\ Cardinality(B[x]) <= f[x]
    PROVE  /\ IsFiniteSet(UNION {B[x] : x \in S})
           /\ Cardinality(UNION {B[x] : x \in S}) <= SumFunctionOnSet(f, S)
           /\ (\A x \in S : Cardinality(B[x]) = f[x]) /\ (\A x, y \in S : x # y => B[x] \cap B[y] = {}) =>
                Cardinality(UNION {B[x] : x \in S}) = SumFunctionOnSet(f, S)
<1> DEFINE U(s) == UNION {B[x] : x \in s}
           apart == (\A x \in S : Cardinality(B[x]) = f[x]) /\ (\A x, y \in S : x # y => B[x] \cap B[y] = {})
           Ok(s) == /\ IsFiniteSet(U(s))
                    /\ Cardinality(U(s)) <= SumFunctionOnSet(f, s)
                    /\ apart => Cardinality(U(s)) = SumFunctionOnSet(f, s)
           C == {s \in SUBSET S : ~Ok(s)}
<1>1. SUFFICES ASSUME C # {} PROVE FALSE
  <2>1. S \in SUBSET S
      OBVIOUS
  <2>2. C = {}
      BY <1>1
  <2>3. Ok(S)
      BY <2>1, <2>2
  <2> QED
      BY <2>3
<1>2. PICK s \in C : \A t \in C : t \subseteq s => t = s
  <2>1. C \in SUBSET SUBSET S
      OBVIOUS
  <2> HIDE DEF C
  <2> QED
      BY <1>1, <2>1, SmallestSet
<1>3. s # {}
  <2>1. U({}) = {} /\ IsFiniteSet({}) /\ Cardinality({}) = 0
      BY FS_EmptySet
  <2>2. SumFunctionOnSet(f, {}) = 0
      BY SumOfNone
  <2>3. Ok({})
      BY <2>1, <2>2
  <2> HIDE DEF Ok
  <2> QED
      BY <2>3
<1>4. IsFiniteSet(s) /\ s \subseteq S /\ ~Ok(s)
    BY FS_Subset
<1> DEFINE x == Some(s)  r == s \ {x}
<1>5. x \in s /\ SumFunctionOnSet(f, s) = f[x] + SumFunctionOnSet(f, r)
    BY <1>3, <1>4, SumOfSome
<1>6. Ok(r)
  <2>1. r \subseteq s /\ r # s /\ r \in SUBSET S
      BY <1>5
  <2>2. r \notin C
      BY <1>2, <2>1
  <2> HIDE DEF Ok, r
  <2> QED
      BY <2>1, <2>2
<1>7. IsFiniteSet(r) /\ \A y \in r : f[y] \in Int
    BY <1>4, FS_Subset
<1>8. SumFunctionOnSet(f, r) \in Int
  <2> HIDE DEF r
  <2> QED
      BY <1>7, SumIsInt
<1>9. U(s) = B[x] \cup U(r)
  <2>1. s = {x} \cup r
      BY <1>5
  <2> HIDE DEF x, r
  <2> QED
      BY <2>1
<1>10. IsFiniteSet(B[x]) /\ f[x] \in Int /\ Cardinality(B[x]) <= f[x]
    BY <1>4, <1>5
<1>11. apart => B[x] \cap U(r) = {} /\ Cardinality(B[x]) = f[x]
  <2>1. \A y \in r : x \in S /\ y \in S /\ x # y
      BY <1>4, <1>5
  <2>2. x \in S
      BY <1>4, <1>5
  <2> HIDE DEF x, r
  <2> QED
      BY <2>1, <2>2
<1>12. /\ IsFiniteSet(B[x] \cup U(r))
       /\ Cardinality(B[x]) \in Nat /\ Cardinality(U(r)) \in Nat /\ Cardinality(B[x] \cup U(r)) \in Nat
       /\ Cardinality(B[x] \cup U(r)) <= Cardinality(B[x]) + Cardinality(U(r))
       /\ B[x] \cap U(r) = {} => Cardinality(B[x] \cup U(r)) = Cardinality(B[x]) + Cardinality(U(r))
  <2>1. IsFiniteSet(U(r))
      BY <1>6
  <2> HIDE DEF U, x, r
  <2> QED
      BY <1>10, <2>1, CardinalityOfUnion
<1>13. /\ IsFiniteSet(U(r)) /\ Cardinality(U(r)) <= SumFunctionOnSet(f, r)
       /\ apart => Cardinality(U(r)) = SumFunctionOnSet(f, r)
    BY <1>6
<1>14. Ok(s)
  <2> HIDE DEF U, x, r, apart
  <2>1. /\ Cardinality(U(s)) <= SumFunctionOnSet(f, s)
      BY <1>5, <1>8, <1>9, <1>10, <1>12, <1>13
  <2>2. apart => Cardinality(U(s)) = SumFunctionOnSet(f, s)
      BY <1>5, <1>9, <1>11, <1>12, <1>13
  <2> QED
      BY <1>9, <1>12, <2>1, <2>2
<1> QED
    BY <1>4, <1>14

-----------------------------------------------------------------------------
(* Predicates *)

\* The truth values of SQL.
Truths == {No, Unknown, Yes}

\* A conjunction is true if all are, a disjunction if one is.
LEMMA AndOr ==
    ASSUME NEW S \in SUBSET Truths
    PROVE  /\ And(S) \in Truths /\ Or(S) \in Truths
           /\ And(S) = Yes <=> \A x \in S : x = Yes
           /\ Or(S) = Yes <=> \E x \in S : x = Yes
           /\ (\A x \in S : x # Unknown) => And(S) # Unknown
           /\ And(S) = No <=> \E x \in S : x = No
<1> DEFINE T == S \cup {Yes}  R == S \cup {No}
<1>1. \E x \in T : \A y \in T : x <= y
  <2>1. CASE No \in T
      BY <2>1 DEF Truths, No, Unknown, Yes
  <2>2. CASE No \notin T /\ Unknown \in T
      BY <2>2 DEF Truths, No, Unknown, Yes
  <2>3. CASE No \notin T /\ Unknown \notin T
      BY <2>3 DEF Truths, No, Unknown, Yes
  <2> QED
      BY <2>1, <2>2, <2>3
<1>2. And(S) \in T /\ \A y \in T : And(S) <= y
    BY <1>1 DEF And, Min
<1>3. \E x \in R : \A y \in R : x >= y
  <2>1. CASE Yes \in R
      BY <2>1 DEF Truths, No, Unknown, Yes
  <2>2. CASE Yes \notin R /\ Unknown \in R
      BY <2>2 DEF Truths, No, Unknown, Yes
  <2>3. CASE Yes \notin R /\ Unknown \notin R
      BY <2>3 DEF Truths, No, Unknown, Yes
  <2> QED
      BY <2>1, <2>2, <2>3
<1>4. Or(S) \in R /\ \A y \in R : Or(S) >= y
    BY <1>3 DEF Or, Max
<1>5. And(S) \in Truths /\ Or(S) \in Truths /\ \A x \in S : x \in Truths
    BY <1>2, <1>4 DEF Truths
<1>6. /\ \A x \in S : And(S) <= x /\ x <= Or(S)
      /\ And(S) \in S \/ And(S) = Yes
      /\ Or(S) \in S \/ Or(S) = No
  <2>1. \A x \in S : x <= Or(S)
      BY <1>4, <1>5 DEF Truths, No, Unknown, Yes
  <2> QED
      BY <1>2, <1>4, <2>1
<1>7. And(S) = Yes <=> \A x \in S : x = Yes
    BY <1>5, <1>6 DEF Truths, No, Unknown, Yes
<1>8. Or(S) = Yes <=> \E x \in S : x = Yes
    BY <1>5, <1>6 DEF Truths, No, Unknown, Yes
<1>9. And(S) = No <=> \E x \in S : x = No
    BY <1>5, <1>6 DEF Truths, No, Unknown, Yes
<1>10. (\A x \in S : x # Unknown) => And(S) # Unknown
    BY <1>6 DEF No, Unknown, Yes
<1> QED
    BY <1>5, <1>7, <1>8, <1>9, <1>10

\* Of one filter on one row.
PredicateTruth(row, p) ==
    IF row.at[p.column] = Missing THEN Unknown ELSE IF Meets(row.at[p.column], p) THEN Yes ELSE No

\* A row is selected exactly when it has the values asked for; unknown needs a missing one.
LEMMA TruthMeans ==
    ASSUME NEW row, NEW a
    PROVE  /\ Truth(row, a) \in Truths
           /\ Truth(row, a) = Yes
                <=> \A p \in a : row.at[p.column] # Missing /\ Meets(row.at[p.column], p)
           /\ (\A p \in a : row.at[p.column] # Missing) => Truth(row, a) # Unknown
<1> DEFINE S == {PredicateTruth(row, p) : p \in a}
<1>1. S \in SUBSET Truths
    BY DEF Truths, PredicateTruth
<1>2. Truth(row, a) = And(S)
    BY DEF Truth, PredicateTruth
<1>3. (\A x \in S : x = Yes)
        <=> \A p \in a : row.at[p.column] # Missing /\ Meets(row.at[p.column], p)
    BY DEF PredicateTruth, Yes, No, Unknown
<1>4. (\A p \in a : row.at[p.column] # Missing) => \A x \in S : x # Unknown
    BY DEF PredicateTruth, Yes, No, Unknown
<1> HIDE DEF S
<1> QED
    BY <1>1, <1>2, <1>3, <1>4, AndOr

\* What it takes for a row to be selected.
Fits(at, a) == \A p \in a : at[p.column] # Missing /\ Meets(at[p.column], p)

\* The rows selected are the rows that fit.
LEMMA SelectedMeans ==
    ASSUME NEW t, NEW a, NEW i
    PROVE  i \in Selected(t, a) <=> i \in DOMAIN t /\ Fits(t[i].at, a)
BY TruthMeans DEF Selected, Fits

\* Finitely many rows are of finitely many people.
LEMMA DonorsFinite ==
    ASSUME NEW t, NEW S, IsFiniteSet(S)
    PROVE  IsFiniteSet(DonorsOf(t, S)) /\ Cardinality(DonorsOf(t, S)) \in Nat
<1> DEFINE f == [i \in S |-> t[i].donor]
<1>1. DonorsOf(t, S) = {f[i] : i \in S}
    BY DEF DonorsOf
<1>2. f \in Surjection(S, {f[i] : i \in S})
    BY DEF Surjection
<1>3. IsFiniteSet({f[i] : i \in S})
  <2> HIDE DEF f
  <2> QED
      BY <1>2, FS_Surjection
<1> QED
    BY <1>1, <1>3, FS_CardinalityType

\* Rows that differ, for the exact leg and for the two queries.
LEMMA RowsApart ==
    ASSUME NEW t, NEW a, NEW b
    PROVE  LET far(i) == \/ Truth(t[i], a) = Yes /\ Truth(t[i], b) = No
                         \/ Truth(t[i], b) = Yes /\ Truth(t[i], a) = No
           IN  RowSymdiffDonors(t, a, b) = Cardinality(DonorsOf(t, {i \in DOMAIN t : far(i)}))
<1> DEFINE far(i) == \/ Truth(t[i], a) = Yes /\ Truth(t[i], b) = No
                     \/ Truth(t[i], b) = Yes /\ Truth(t[i], a) = No
<1>1. ASSUME NEW x \in Truths, NEW y \in Truths
      PROVE  Or({And({x, Not(y)}), And({y, Not(x)})}) = Yes
                <=> (x = Yes /\ y = No) \/ (y = Yes /\ x = No)
  <2>1. Not(x) \in Truths /\ Not(y) \in Truths /\ (Not(x) = Yes <=> x = No) /\ (Not(y) = Yes <=> y = No)
      BY DEF Not, Truths, Yes, No, Unknown
  <2>2. {x, Not(y)} \in SUBSET Truths /\ {y, Not(x)} \in SUBSET Truths
      BY <2>1
  <2>3. /\ And({x, Not(y)}) \in Truths /\ And({y, Not(x)}) \in Truths
        /\ And({x, Not(y)}) = Yes <=> x = Yes /\ Not(y) = Yes
        /\ And({y, Not(x)}) = Yes <=> y = Yes /\ Not(x) = Yes
      BY <2>2, AndOr
  <2>4. {And({x, Not(y)}), And({y, Not(x)})} \in SUBSET Truths
      BY <2>3
  <2>5. Or({And({x, Not(y)}), And({y, Not(x)})}) = Yes
          <=> And({x, Not(y)}) = Yes \/ And({y, Not(x)}) = Yes
      BY <2>4, AndOr
  <2> QED
      BY <2>1, <2>3, <2>5
<1>2. \A i : Truth(t[i], a) \in Truths /\ Truth(t[i], b) \in Truths
    BY TruthMeans
<1>3. {i \in DOMAIN t : Or({And({Truth(t[i], a), Not(Truth(t[i], b))}),
                            And({Truth(t[i], b), Not(Truth(t[i], a))})}) = Yes}
        = {i \in DOMAIN t : far(i)}
  <2> HIDE DEF far
  <2>1. \A i : Or({And({Truth(t[i], a), Not(Truth(t[i], b))}),
                   And({Truth(t[i], b), Not(Truth(t[i], a))})}) = Yes <=> far(i)
      BY <1>1, <1>2 DEF far
  <2> QED
      BY <2>1
<1> QED
    BY <1>3 DEF RowSymdiffDonors

-----------------------------------------------------------------------------
(* Two cohorts of one view *)

\* The people two queries differ over are finitely many.
LEMMA ApartFinite ==
    ASSUME NEW t, IsTable(t), NEW a, NEW b
    PROVE  /\ IsFiniteSet(Apart(t, a, b)) /\ Cardinality(Apart(t, a, b)) \in Nat
           /\ IsFiniteSet(Selected(t, a)) /\ IsFiniteSet(Selected(t, b))
<1>1. Selected(t, a) \subseteq DOMAIN t /\ Selected(t, b) \subseteq DOMAIN t
      /\ SymDiff(Selected(t, a), Selected(t, b)) \subseteq DOMAIN t
    BY DEF Selected, SymDiff
<1>2. /\ IsFiniteSet(Selected(t, a)) /\ IsFiniteSet(Selected(t, b))
      /\ IsFiniteSet(SymDiff(Selected(t, a), Selected(t, b)))
    BY <1>1, FS_Subset DEF IsTable
<1> QED
    BY <1>2, DonorsFinite DEF Apart

\* The exact leg counts only people whose rows exactly one query counts.
LEMMA ExactLegBounded ==
    ASSUME NEW t, IsTable(t), NEW a, NEW b
    PROVE  RowSymdiffDonors(t, a, b) \in Nat /\ RowSymdiffDonors(t, a, b) <= Cardinality(Apart(t, a, b))
<1> DEFINE far(i) == \/ Truth(t[i], a) = Yes /\ Truth(t[i], b) = No
                     \/ Truth(t[i], b) = Yes /\ Truth(t[i], a) = No
           D == DonorsOf(t, {i \in DOMAIN t : far(i)})
<1>1. RowSymdiffDonors(t, a, b) = Cardinality(D)
    BY RowsApart
<1>2. {i \in DOMAIN t : far(i)} \subseteq SymDiff(Selected(t, a), Selected(t, b))
    BY DEF Selected, SymDiff, Yes, No
<1>3. D \subseteq Apart(t, a, b)
    BY <1>2 DEF Apart, DonorsOf
<1>4. IsFiniteSet(Apart(t, a, b))
    BY ApartFinite
<1>5. IsFiniteSet(D) /\ Cardinality(D) <= Cardinality(Apart(t, a, b))
  <2> HIDE DEF D
  <2> QED
      BY <1>3, <1>4, FS_Subset
<1>6. Cardinality(D) \in Nat
  <2> HIDE DEF D
  <2> QED
      BY <1>5, FS_CardinalityType
<1> QED
    BY <1>1, <1>5, <1>6

\* A row that has every value is in exactly one cohort by both legs.
LEMMA ExactLegOfWhole ==
    ASSUME NEW t, IsTable(t), NEW a, IsCohort(a), NEW b, IsCohort(b), Whole(t)
    PROVE  RowSymdiffDonors(t, a, b) = Cardinality(Apart(t, a, b))
<1> DEFINE far(i) == \/ Truth(t[i], a) = Yes /\ Truth(t[i], b) = No
                     \/ Truth(t[i], b) = Yes /\ Truth(t[i], a) = No
<1>1. ASSUME NEW i \in DOMAIN t, NEW p \in a \cup b PROVE t[i].at[p.column] # Missing
  <2>1. p.column \in DOMAIN t[i].at
      BY DEF IsTable, IsCohort
  <2>2. t[i].at[p.column] \in Range(t[i].at)
      BY <2>1 DEF Range
  <2> QED
      BY <2>2 DEF Whole
<1>2. \A i \in DOMAIN t : /\ Truth(t[i], a) \in Truths \ {Unknown}
                          /\ Truth(t[i], b) \in Truths \ {Unknown}
    BY <1>1, TruthMeans
<1>3. {i \in DOMAIN t : far(i)} = SymDiff(Selected(t, a), Selected(t, b))
    BY <1>2 DEF Selected, SymDiff, Truths, Yes, No, Unknown
<1> QED
    BY <1>3, RowsApart DEF Apart

\* A difference over fewer people than the threshold is denied, by whichever leg decides.
LEMMA CloseDenied ==
    ASSUME Threshold \in Nat, NEW t, IsTable(t), NEW a, NEW b, a # b,
           Cardinality(Apart(t, a, b)) < Threshold
    PROVE  ComesTooClose([v |-> t], [view |-> "v", filters |-> a, quantity |-> Missing],
                         [view |-> "v", filters |-> b, quantity |-> Missing], Threshold)
<1>1. RowSymdiffDonors(t, a, b) < Threshold
  <2>1. Cardinality(Apart(t, a, b)) \in Nat
      BY ApartFinite
  <2> QED
      BY <2>1, ExactLegBounded
<1>2. DifferenceBound(t, a, b, Threshold) < Threshold
    BY <1>1 DEF DifferenceBound
<1> QED
    BY <1>2 DEF ComesTooClose

\* A row is selected when each of its values is one the cohort admits.
LEMMA SelectedByColumns ==
    ASSUME NEW t, NEW a, NEW C, \A p \in a : p.column \in C, NEW i \in DOMAIN t
    PROVE  i \in Selected(t, a) <=>
             \A c \in C : t[i].at[c] \in DimValueSet(DOMAIN Marginal(t, c), On(a, c))
<1>1. \A c : t[i].at[c] \in DOMAIN Marginal(t, c)
    BY DEF Marginal
<1>2. \A c : t[i].at[c] \in DimValueSet(DOMAIN Marginal(t, c), On(a, c))
        <=> \A p \in a : p.column = c => t[i].at[c] # Missing /\ Meets(t[i].at[c], p)
    BY <1>1 DEF DimValueSet, On
<1> QED
    BY <1>2, SelectedMeans DEF Fits

\* Who is apart differs in some column, at a value one cohort selects there and the other does
\* not, and is counted under that value in the marginal.
LEMMA CheapBound ==
    ASSUME NEW t, IsTable(t), NEW a, IsCohort(a), NEW b, IsCohort(b)
    PROVE  Cardinality(Apart(t, a, b)) <= SimulatableCohortBound(t, a, b)
<1> DEFINE C == {p.column : p \in a \cup b}
           M(c) == Marginal(t, c)
           D(c) == DiffersAt(M(c), c, a, b)
           with(c, v) == DonorsOf(t, {i \in DOMAIN t : t[i].at[c] = v})
           f == [c \in C |-> SumFunctionOnSet(M(c), D(c))]
           B == [c \in C |-> UNION {with(c, v) : v \in D(c)}]
<1>1. SimulatableCohortBound(t, a, b) = SumFunctionOnSet(f, C)
    BY DEF SimulatableCohortBound, SumFunction
<1>2. IsFiniteSet(C)
  <2>1. IsFiniteSet(a \cup b)
      BY FS_Union DEF IsCohort
  <2> DEFINE g == [p \in a \cup b |-> p.column]
  <2>2. g \in Surjection(a \cup b, C)
      BY DEF Surjection
  <2> HIDE DEF g, C
  <2> QED
      BY <2>1, <2>2, FS_Surjection
<1>3. ASSUME NEW c \in C
      PROVE  IsFiniteSet(B[c]) /\ f[c] \in Int /\ Cardinality(B[c]) <= f[c]
  <2> DEFINE W == [v \in D(c) |-> with(c, v)]
  <2>1. IsFiniteSet(DOMAIN M(c))
    <3> DEFINE g == [i \in DOMAIN t |-> t[i].at[c]]
               V == {t[i].at[c] : i \in DOMAIN t}
    <3>1. g \in Surjection(DOMAIN t, V)
        BY DEF Surjection
    <3>2. DOMAIN M(c) = V
        BY DEF Marginal
    <3>3. IsFiniteSet(V)
      <4> HIDE DEF g, V
      <4> QED
          BY <3>1, FS_Surjection DEF IsTable
    <3> QED
        BY <3>2, <3>3
  <2>2. D(c) \subseteq DOMAIN M(c)
      BY DEF DiffersAt, SymDiff, DimValueSet
  <2>3. IsFiniteSet(D(c))
      BY <2>1, <2>2, FS_Subset
  <2>4. ASSUME NEW v \in D(c)
        PROVE  IsFiniteSet(W[v]) /\ M(c)[v] \in Int /\ Cardinality(W[v]) = M(c)[v]
    <3>1. IsFiniteSet({i \in DOMAIN t : t[i].at[c] = v})
        BY FS_Subset DEF IsTable
    <3>2. IsFiniteSet(with(c, v)) /\ Cardinality(with(c, v)) \in Nat
        BY <3>1, DonorsFinite
    <3>3. M(c)[v] = Cardinality(with(c, v))
        BY <2>2, <2>4 DEF Marginal
    <3>4. W[v] = with(c, v)
        BY <2>4
    <3> HIDE DEF W, D, M, with
    <3> QED
        BY <3>2, <3>3, <3>4
  <2> DEFINE m == M(c)  d == D(c)
  <2>5. \A v \in d : IsFiniteSet(W[v]) /\ m[v] \in Int /\ Cardinality(W[v]) <= m[v]
    <3> SUFFICES ASSUME NEW v \in d PROVE IsFiniteSet(W[v]) /\ m[v] \in Int /\ Cardinality(W[v]) <= m[v]
        OBVIOUS
    <3>1. IsFiniteSet(W[v]) /\ m[v] \in Int /\ Cardinality(W[v]) = m[v]
        BY <2>4
    <3> HIDE DEF W, m
    <3> QED
        BY <3>1
  <2>6. /\ IsFiniteSet(UNION {W[v] : v \in d})
        /\ Cardinality(UNION {W[v] : v \in d}) <= SumFunctionOnSet(m, d)
    <3> HIDE DEF W, m, d
    <3> QED
        BY <2>3, <2>5, SumCoversUnion DEF d
  <2>7. B[c] = UNION {W[v] : v \in d}
    <3>1. B[c] = UNION {with(c, v) : v \in d}
        BY DEF B
    <3>2. \A v \in d : W[v] = with(c, v)
        OBVIOUS
    <3> HIDE DEF W, d, with, B
    <3> QED
        BY <3>1, <3>2
  <2>8. f[c] = SumFunctionOnSet(m, d)
      OBVIOUS
  <2>9. f[c] \in Int
    <3>1. \A v \in d : m[v] \in Int
        BY <2>5
    <3> HIDE DEF m, d, f
    <3> QED
        BY <2>3, <2>8, <3>1, SumIsInt DEF d
  <2> HIDE DEF W, m, d, B, f
  <2> QED
      BY <2>6, <2>7, <2>8, <2>9
<1>4. Apart(t, a, b) \subseteq UNION {B[c] : c \in C}
  <2> SUFFICES ASSUME NEW n \in Apart(t, a, b) PROVE \E c \in C : n \in B[c]
    <3> HIDE DEF B, C
    <3> QED
        OBVIOUS
  <2>0. PICK i \in SymDiff(Selected(t, a), Selected(t, b)) : n = t[i].donor
      BY DEF Apart, DonorsOf
  <2>1. i \in DOMAIN t /\ ~(i \in Selected(t, a) <=> i \in Selected(t, b))
      BY DEF SymDiff, Selected
  <2>2. /\ i \in Selected(t, a) <=> \A c \in C : t[i].at[c] \in DimValueSet(DOMAIN M(c), On(a, c))
        /\ i \in Selected(t, b) <=> \A c \in C : t[i].at[c] \in DimValueSet(DOMAIN M(c), On(b, c))
    <3>1. (\A p \in a : p.column \in C) /\ (\A p \in b : p.column \in C)
        OBVIOUS
    <3> HIDE DEF C
    <3> QED
        BY <2>1, <3>1, SelectedByColumns
  <2>3. PICK c \in C : ~(t[i].at[c] \in DimValueSet(DOMAIN M(c), On(a, c))
                          <=> t[i].at[c] \in DimValueSet(DOMAIN M(c), On(b, c)))
    <3> HIDE DEF C, M
    <3> QED
        BY <2>1, <2>2
  <2>4. t[i].at[c] \in D(c)
    <3> HIDE DEF M
    <3> QED
        BY <2>3 DEF DiffersAt, SymDiff
  <2>5. t[i].donor \in with(c, t[i].at[c])
      BY <2>1 DEF DonorsOf
  <2>6. t[i].donor \in B[c]
    <3> HIDE DEF D, with
    <3> QED
        BY <2>4, <2>5
  <2> QED
      BY <2>0, <2>6
<1> DEFINE all == UNION {B[c] : c \in C}
<1>5. IsFiniteSet(all) /\ Cardinality(all) <= SumFunctionOnSet(f, C)
  <2> HIDE DEF B, f, C
  <2> QED
      BY <1>2, <1>3, SumCoversUnion
<1>6. SumFunctionOnSet(f, C) \in Int
  <2> HIDE DEF B, f, C
  <2> QED
      BY <1>2, <1>3, SumIsInt
<1>7. IsFiniteSet(Apart(t, a, b)) /\ Cardinality(Apart(t, a, b)) <= Cardinality(all)
  <2> HIDE DEF all
  <2> QED
      BY <1>4, <1>5, FS_Subset DEF all
<1>8. Cardinality(all) \in Nat /\ Cardinality(Apart(t, a, b)) \in Nat
  <2> HIDE DEF all
  <2> QED
      BY <1>5, <1>7, FS_CardinalityType
<1> HIDE DEF all, f, C
<1> QED
    BY <1>1, <1>5, <1>6, <1>7, <1>8

\* Where the filters read what is fixed per person, all of a person's rows fit or none.
LEMMA FixedRowsFit ==
    ASSUME NEW t, NEW a, \A p \in a : Fixed(t, p.column),
           NEW i \in DOMAIN t, NEW j \in DOMAIN t, t[i].donor = t[j].donor
    PROVE  i \in Selected(t, a) <=> j \in Selected(t, a)
<1>1. \A p \in a : t[i].at[p.column] = t[j].at[p.column]
    BY DEF Fixed
<1> QED
    BY <1>1, SelectedMeans DEF Fits

\* Where the columns are people's own, the people apart are the people of
\* exactly one of the cohorts.
LEMMA ApartOfFixed ==
    ASSUME NEW t, NEW a, NEW b, \A p \in a \cup b : Fixed(t, p.column)
    PROVE  Apart(t, a, b) = SymDiff(DonorsOf(t, Selected(t, a)), DonorsOf(t, Selected(t, b)))
<1> DEFINE A == Selected(t, a)  B == Selected(t, b)
<1>1. A \subseteq DOMAIN t /\ B \subseteq DOMAIN t
    BY DEF Selected
<1>2. \A i, j \in DOMAIN t : t[i].donor = t[j].donor =>
        (i \in A <=> j \in A) /\ (i \in B <=> j \in B)
    BY FixedRowsFit
<1> HIDE DEF A, B
<1>3. DonorsOf(t, SymDiff(A, B)) = SymDiff(DonorsOf(t, A), DonorsOf(t, B))
    BY <1>1, <1>2 DEF DonorsOf, SymDiff
<1> QED
    BY <1>3 DEF Apart, A, B

\* Of nested cohorts the totals differ by at least the people apart: level by level of the
\* grouping the outer has all the inner has.
LEMMA TotalsOfNested ==
    ASSUME NEW t, IsTable(t), NEW a, NEW b, \A p \in a \cup b : Fixed(t, p.column),
           Selected(t, a) \subseteq Selected(t, b), NEW g
    PROVE  LET people == CohortSymdiff(t, a, t, b)
               apart == DonorTotal(t, b, g) - DonorTotal(t, a, g)
           IN  people <= apart /\ (Fixed(t, g) => people = apart)
<1> DEFINE A == Selected(t, a)  B == Selected(t, b)
           V == {t[i].at[g] : i \in DOMAIN t}
           of(S, v) == DonorsOf(t, {i \in S : t[i].at[g] = v})
           fa == [v \in V |-> Cardinality(of(A, v))]
           fb == [v \in V |-> Cardinality(of(B, v))]
           d == [v \in V |-> fb[v] - fa[v]]
           E == [v \in V |-> of(B, v) \ of(A, v)]
           far == SymDiff(DonorsOf(t, A), DonorsOf(t, B))
<1>1. A \subseteq B /\ B \subseteq DOMAIN t /\ IsFiniteSet(A) /\ IsFiniteSet(B)
    BY ApartFinite DEF Selected
<1>2. /\ DonorTotal(t, a, g) = SumFunctionOnSet(fa, V)
      /\ DonorTotal(t, b, g) = SumFunctionOnSet(fb, V)
      /\ CohortSymdiff(t, a, t, b) = Cardinality(far)
    BY DEF DonorTotal, SumFunction, CohortSymdiff
<1>3. IsFiniteSet(V)
  <2> DEFINE h == [i \in DOMAIN t |-> t[i].at[g]]
  <2>1. h \in Surjection(DOMAIN t, V)
      BY DEF Surjection
  <2> HIDE DEF h, V
  <2> QED
      BY <2>1, FS_Surjection DEF IsTable
<1>4. \A i, j \in DOMAIN t : t[i].donor = t[j].donor => (i \in A <=> j \in A) /\ (i \in B <=> j \in B)
    BY FixedRowsFit
<1> HIDE DEF A, B
<1>5. ASSUME NEW v \in V
      PROVE  /\ IsFiniteSet(E[v]) /\ Cardinality(E[v]) = d[v]
             /\ fa[v] \in Int /\ fb[v] \in Int /\ d[v] \in Int /\ d[v] = fb[v] - fa[v]
  <2> DEFINE x == of(A, v)  y == of(B, v)
  <2>1. IsFiniteSet(x) /\ IsFiniteSet(y) /\ Cardinality(x) \in Nat /\ Cardinality(y) \in Nat
    <3>1. IsFiniteSet({i \in A : t[i].at[g] = v}) /\ IsFiniteSet({i \in B : t[i].at[g] = v})
        BY <1>1, FS_Subset
    <3> QED
        BY <3>1, DonorsFinite
  <2>2. x \subseteq y
      BY <1>1 DEF DonorsOf
  <2> HIDE DEF x, y
  <2>3. IsFiniteSet(y \ x) /\ Cardinality(y \ x) = Cardinality(y) - Cardinality(y \cap x)
      BY <2>1, FS_Difference
  <2>4. y \cap x = x
      BY <2>2
  <2>5. Cardinality(y \ x) = Cardinality(y) - Cardinality(x)
      BY <2>3, <2>4
  <2>6. E[v] = y \ x /\ fa[v] = Cardinality(x) /\ fb[v] = Cardinality(y) /\ d[v] = fb[v] - fa[v]
      BY DEF x, y
  <2> HIDE DEF E, fa, fb, d
  <2> QED
      BY <2>1, <2>3, <2>5, <2>6
<1>6. SumFunctionOnSet(d, V) = SumFunctionOnSet(fb, V) - SumFunctionOnSet(fa, V)
  <2> HIDE DEF d, fa, fb, V, E
  <2> QED
      BY <1>3, <1>5, SumOfDifferences
<1> DEFINE U == UNION {E[v] : v \in V}
<1>7. /\ IsFiniteSet(U) /\ Cardinality(U) <= SumFunctionOnSet(d, V)
      /\ (\A v, w \in V : v # w => E[v] \cap E[w] = {}) => Cardinality(U) = SumFunctionOnSet(d, V)
  <2>1. \A v \in V : IsFiniteSet(E[v]) /\ d[v] \in Int /\ Cardinality(E[v]) <= d[v] /\ Cardinality(E[v]) = d[v]
    <3> HIDE DEF d, fa, fb, V, E
    <3> QED
        BY <1>5
  <2> HIDE DEF d, V, E
  <2>2. /\ IsFiniteSet(U) /\ Cardinality(U) <= SumFunctionOnSet(d, V)
        /\ (\A v \in V : Cardinality(E[v]) = d[v]) /\ (\A v, w \in V : v # w => E[v] \cap E[w] = {})
              => Cardinality(U) = SumFunctionOnSet(d, V)
    <3>1. \A v \in V : IsFiniteSet(E[v]) /\ d[v] \in Int /\ Cardinality(E[v]) <= d[v]
        BY <2>1
    <3> QED
        BY <1>3, <3>1, SumCoversUnion
  <2> HIDE DEF U
  <2> QED
      BY <2>1, <2>2
<1>8. far \subseteq U
  <2> SUFFICES ASSUME NEW n \in far PROVE \E v \in V : n \in E[v]
    <3> HIDE DEF E, V, far
    <3> QED
        OBVIOUS
  <2>1. PICK i \in B : n = t[i].donor /\ n \notin DonorsOf(t, A)
      BY <1>1 DEF SymDiff, DonorsOf
  <2>2. t[i].at[g] \in V /\ n \in of(B, t[i].at[g]) /\ n \notin of(A, t[i].at[g])
      BY <1>1, <2>1 DEF DonorsOf
  <2> HIDE DEF V, of
  <2> QED
      BY <2>2
<1>9. ASSUME Fixed(t, g)
      PROVE  U = far /\ \A v, w \in V : v # w => E[v] \cap E[w] = {}
  <2>1. ASSUME NEW v \in V, NEW n \in E[v]
        PROVE  n \in far /\ \A i \in DOMAIN t : t[i].donor = n => t[i].at[g] = v
    <3>1. n \in of(B, v) /\ n \notin of(A, v)
      <4> HIDE DEF of
      <4> QED
          BY <2>1
    <3>2. PICK i \in B : t[i].donor = n /\ t[i].at[g] = v
        BY <3>1 DEF DonorsOf
    <3>3. \A j \in DOMAIN t : t[j].donor = n => t[j].at[g] = v
        BY <1>1, <1>9, <3>2 DEF Fixed
    <3>4. n \notin DonorsOf(t, A)
        BY <1>1, <3>1, <3>3 DEF DonorsOf
    <3>5. n \in DonorsOf(t, B)
        BY <3>2 DEF DonorsOf
    <3> QED
        BY <3>3, <3>4, <3>5 DEF SymDiff
  <2>2. ASSUME NEW v \in V, NEW w \in V, v # w, NEW n \in E[v] \cap E[w] PROVE FALSE
    <3>1. n \in of(B, v)
      <4> HIDE DEF of
      <4> QED
          BY <2>2
    <3>2. PICK i \in B : t[i].donor = n
        BY <3>1 DEF DonorsOf
    <3>3. i \in DOMAIN t
        BY <1>1, <3>2
    <3> HIDE DEF E, V, of
    <3> QED
        BY <2>1, <2>2, <3>2, <3>3
  <2> HIDE DEF E, V, far
  <2> QED
      BY <1>8, <2>1, <2>2
<1>10. IsFiniteSet(far) /\ Cardinality(far) <= Cardinality(U)
  <2> HIDE DEF U, far
  <2> QED
      BY <1>7, <1>8, FS_Subset
<1>11. Cardinality(far) \in Nat /\ Cardinality(U) \in Nat
  <2> HIDE DEF U, far
  <2> QED
      BY <1>7, <1>10, FS_CardinalityType
<1>12. SumFunctionOnSet(d, V) \in Int
  <2>1. \A v \in V : d[v] \in Int
      BY <1>5
  <2> HIDE DEF d, V
  <2> QED
      BY <1>3, <2>1, SumIsInt
<1> DEFINE total == SumFunctionOnSet(fb, V) - SumFunctionOnSet(fa, V)
<1>13. Cardinality(far) <= total
  <2> HIDE DEF U, far, d, fa, fb, V
  <2> QED
      BY <1>6, <1>7, <1>10, <1>11, <1>12
<1>14. Fixed(t, g) => Cardinality(far) = total
  <2> HIDE DEF far, d, fa, fb, V, E
  <2> QED
      BY <1>6, <1>7, <1>9
<1> HIDE DEF far, V, fa, fb
<1> QED
    BY <1>2, <1>13, <1>14

-----------------------------------------------------------------------------
(* Cohorts of two views *)

\* Somebody whose profile fits contributes all of their events, anybody else none.
LEMMA EventsContribute ==
    ASSUME NEW profile, NEW log, NEW a, NEW d
    PROVE  LET e == EventsOf(profile, log) IN
           /\ Fits(profile[d], a) => Contribution(e, a, d) = Contribution(e, {}, d)
           /\ ~Fits(profile[d], a) => Contribution(e, a, d) = 0
<1> DEFINE e == EventsOf(profile, log)
           given(f) == {i \in Selected(e, f) : e[i].donor = d /\ e[i].amount # Missing}
           sum(S) == SumFunction([i \in S |-> e[i].amount])
<1>1. \A f : Contribution(e, f, d) = sum(given(f))
    BY DEF Contribution
<1>2. \A i \in DOMAIN e : e[i].donor = d => e[i].at = profile[d]
    BY DEF EventsOf
<1>3. \A f : \A i \in given(f) : i \in DOMAIN e
    BY DEF Selected
<1> HIDE DEF e
<1>4. Fits(profile[d], a) => given(a) = given({})
  <2>1. \A i : i \in Selected(e, {}) <=> i \in DOMAIN e
      BY SelectedMeans DEF Fits
  <2>2. \A i : i \in Selected(e, a) <=> i \in DOMAIN e /\ Fits(e[i].at, a)
      BY SelectedMeans
  <2> QED
      BY <1>2, <2>1, <2>2
<1>5. ~Fits(profile[d], a) => given(a) = {}
  <2>1. \A i : i \in Selected(e, a) <=> i \in DOMAIN e /\ Fits(e[i].at, a)
      BY SelectedMeans
  <2> QED
      BY <1>2, <2>1
<1>6. sum({}) = 0
  <2>1. DOMAIN [i \in {} |-> e[i].amount] = {}
      OBVIOUS
  <2> QED
      BY <2>1, SumOfNone DEF SumFunction
<1> HIDE DEF sum, given
<1>7. /\ Fits(profile[d], a) => Contribution(e, a, d) = Contribution(e, {}, d)
      /\ ~Fits(profile[d], a) => Contribution(e, a, d) = 0
    BY <1>1, <1>4, <1>5, <1>6
<1> QED
    BY <1>7 DEF e

\* A contribution is a whole number.
LEMMA ContributionIsInt ==
    ASSUME NEW t, IsFiniteSet(DOMAIN t), \A i \in DOMAIN t : t[i].amount \in Int \cup {Missing},
           NEW a, NEW d
    PROVE  Contribution(t, a, d) \in Int
<1> DEFINE S == {i \in Selected(t, a) : t[i].donor = d /\ t[i].amount # Missing}
           f == [i \in S |-> t[i].amount]
<1>1. IsFiniteSet(S)
  <2>1. S \subseteq DOMAIN t
      BY DEF Selected
  <2> HIDE DEF S
  <2> QED
      BY <2>1, FS_Subset
<1>2. \A i \in S : f[i] \in Int
    BY DEF Selected
<1>3. Contribution(t, a, d) = SumFunctionOnSet(f, S)
    BY DEF Contribution, SumFunction
<1> HIDE DEF S, f
<1> QED
    BY <1>1, <1>2, <1>3, SumIsInt

\* The rollup of somebody who fits carries what all of their events add up to.
LEMMA RollupContributes ==
    ASSUME Missing \notin Int, NEW profile, NEW e, NEW b, NEW d \in Persons,
           Contribution(e, {}, d) \in Int, NEW r, r = Rollup(profile, e)
    PROVE  /\ r[d].donor = d /\ r[d].amount = Contribution(e, {}, d) /\ r[d].at = profile[d]
           /\ Fits(profile[d], b) => Contribution(r, b, d) = Contribution(e, {}, d)
           /\ ~Fits(profile[d], b) => Contribution(r, b, d) = 0
<1> DEFINE own == Contribution(e, {}, d)
           S == {i \in Selected(r, b) : r[i].donor = d /\ r[i].amount # Missing}
           f == [i \in S |-> r[i].amount]
<1>1. DOMAIN r = Persons /\ \A i \in Persons : r[i].donor = i /\ r[i].at = profile[i]
    BY DEF Rollup
<1>2. r[d].amount = own
    BY DEF Rollup
<1>3. Fits(profile[d], b) => S = {d}
  <2>1. \A i : i \in Selected(r, b) <=> i \in DOMAIN r /\ Fits(r[i].at, b)
      BY SelectedMeans
  <2>2. own # Missing
    <3> HIDE DEF own
    <3>1. own \in Int
        BY DEF own
    <3> QED
        BY <3>1
  <2> QED
      BY <1>1, <1>2, <2>1, <2>2
<1>4. ~Fits(profile[d], b) => S = {}
  <2>1. \A i : i \in Selected(r, b) <=> i \in DOMAIN r /\ Fits(r[i].at, b)
      BY SelectedMeans
  <2> QED
      BY <1>1, <2>1
<1>5. Contribution(r, b, d) = SumFunctionOnSet(f, S)
    BY DEF Contribution, SumFunction
<1>6. d \in S => f[d] = own
    BY <1>2
<1> HIDE DEF S, f
<1>7. ASSUME S = {d} PROVE SumFunctionOnSet(f, S) = own
  <2>1. f[d] = own /\ f[d] \in Int
      BY <1>6, <1>7
  <2> HIDE DEF own
  <2> QED
      BY <1>7, <2>1, SumOfOne
<1>8. ASSUME S = {} PROVE SumFunctionOnSet(f, S) = 0
    BY <1>8, SumOfNone
<1>9. /\ r[d].donor = d /\ r[d].amount = Contribution(e, {}, d) /\ r[d].at = profile[d]
      /\ Fits(profile[d], b) => Contribution(r, b, d) = Contribution(e, {}, d)
      /\ ~Fits(profile[d], b) => Contribution(r, b, d) = 0
    BY <1>1, <1>2, <1>3, <1>4, <1>5, <1>7, <1>8
<1> QED
    BY <1>9

\* Who contributes differently to the two totals is in one cohort only and contributed
\* something, and those are too few.
LEMMA ViewsDenied ==
    ASSUME Missing \notin Int, Missing # "spend", Threshold \in Nat, IsFiniteSet(Persons),
           NEW profile, NEW log, IsFiniteSet(DOMAIN log),
           \A i \in DOMAIN log : log[i].donor \in Persons /\ log[i].amount \in Int \cup {Missing},
           NEW a, NEW b, a # b,
           NEW e, e = EventsOf(profile, log), NEW r, r = Rollup(profile, e),
           Cardinality({d \in SymDiff(DonorsOf(r, Selected(r, a)), DonorsOf(r, Selected(r, b))) :
                            r[d].amount # 0}) < Threshold
    PROVE  ComesTooClose([events |-> e, rollup |-> r],
                         [view |-> "events", filters |-> a, quantity |-> "spend"],
                         [view |-> "rollup", filters |-> b, quantity |-> "spend"], Threshold)
<1> DEFINE paid == {d \in SymDiff(DonorsOf(r, Selected(r, a)), DonorsOf(r, Selected(r, b))) :
                            r[d].amount # 0}
           apart == {d \in DonorsOf(e, Selected(e, a)) \cup DonorsOf(r, Selected(r, b)) :
                            Contribution(e, a, d) # Contribution(r, b, d)}
<1>1. DOMAIN r = Persons /\ DOMAIN e = DOMAIN log
    BY DEF Rollup, EventsOf
<1>2. \A i \in DOMAIN e : e[i].donor \in Persons /\ e[i].amount \in Int \cup {Missing}
    BY DEF EventsOf
<1>3. \A d : Contribution(e, {}, d) \in Int
    BY <1>1, <1>2, ContributionIsInt
<1>4. \A d \in Persons :
        /\ r[d].donor = d /\ r[d].amount = Contribution(e, {}, d) /\ r[d].at = profile[d]
        /\ Fits(profile[d], b) => Contribution(r, b, d) = Contribution(e, {}, d)
        /\ ~Fits(profile[d], b) => Contribution(r, b, d) = 0
  <2> SUFFICES ASSUME NEW d \in Persons
               PROVE  /\ r[d].donor = d /\ r[d].amount = Contribution(e, {}, d) /\ r[d].at = profile[d]
                      /\ Fits(profile[d], b) => Contribution(r, b, d) = Contribution(e, {}, d)
                      /\ ~Fits(profile[d], b) => Contribution(r, b, d) = 0
      OBVIOUS
  <2>1. Contribution(e, {}, d) \in Int
      BY <1>3
  <2> HIDE DEF paid, apart
  <2> QED
      BY <2>1, RollupContributes
<1>5. \A d : /\ Fits(profile[d], a) => Contribution(e, a, d) = Contribution(e, {}, d)
             /\ ~Fits(profile[d], a) => Contribution(e, a, d) = 0
    BY EventsContribute
<1>6. \A f : \A d \in Persons : d \in DonorsOf(r, Selected(r, f)) <=> Fits(profile[d], f)
  <2> SUFFICES ASSUME NEW f, NEW d \in Persons
               PROVE  d \in DonorsOf(r, Selected(r, f)) <=> Fits(profile[d], f)
      OBVIOUS
  <2>1. \A i : i \in Selected(r, f) <=> i \in Persons /\ Fits(r[i].at, f)
      BY <1>1, SelectedMeans
  <2>2. \A i \in Persons : r[i].donor = i /\ r[i].at = profile[i]
      BY <1>4
  <2> QED
      BY <2>1, <2>2 DEF DonorsOf
<1>7. apart \subseteq Persons
  <2>1. \A i \in Selected(e, a) : e[i].donor \in Persons
      BY <1>2 DEF Selected
  <2>2. \A i \in Selected(r, b) : r[i].donor \in Persons
      BY <1>1, <1>4 DEF Selected
  <2> QED
      BY <2>1, <2>2 DEF DonorsOf
<1>8. apart \subseteq paid
  <2> SUFFICES ASSUME NEW d \in apart PROVE d \in paid
    <3> HIDE DEF apart, paid
    <3> QED
        OBVIOUS
  <2>1. d \in Persons /\ Contribution(e, a, d) # Contribution(r, b, d)
      BY <1>7
  <2>2. ~(Fits(profile[d], a) <=> Fits(profile[d], b)) /\ r[d].amount # 0
      BY <1>4, <1>5, <2>1
  <2>3. d \in SymDiff(DonorsOf(r, Selected(r, a)), DonorsOf(r, Selected(r, b)))
      BY <1>6, <2>1, <2>2 DEF SymDiff
  <2> QED
      BY <2>2, <2>3
<1>9. paid \subseteq Persons
  <2>1. \A f : \A i \in Selected(r, f) : r[i].donor \in Persons
      BY <1>1, <1>4 DEF Selected
  <2> QED
      BY <2>1 DEF DonorsOf, SymDiff
<1>10. Cardinality(paid) < Threshold
    OBVIOUS
<1> HIDE DEF apart, paid
<1>11. IsFiniteSet(paid) /\ IsFiniteSet(apart) /\ Cardinality(apart) <= Cardinality(paid)
    BY <1>8, <1>9, FS_Subset
<1>12. Cardinality(apart) \in Nat /\ Cardinality(paid) \in Nat
    BY <1>11, FS_CardinalityType
<1>13. Cardinality(apart) < Threshold
    BY <1>10, <1>11, <1>12
<1>14. ContributionSymdiff(e, a, r, b) < Threshold
    BY <1>13 DEF ContributionSymdiff, apart
<1> QED
    BY <1>14 DEF ComesTooClose

-----------------------------------------------------------------------------
(* Filters and what is published *)

\* What a filter asks of a value, and its canonical form asks the same.
Asks(f, v) ==
    v # Missing /\ Meets(v, IF f.op = "in" THEN [f EXCEPT !.value = Range(f.value)] ELSE f)

\* A filter and its canonical form accept the same values of the same column.
LEMMA NormalFormAsks ==
    ASSUME NEW f, IsFilter(f), NEW v
    PROVE  /\ NormalForm(f).column = f.column
           /\ (v # Missing /\ Meets(v, NormalForm(f))) <=> Asks(f, v)
<1> DEFINE n == NormalForm(f)  w == [f EXCEPT !.value = Range(f.value)]
<1>1. f = [column |-> f.column, op |-> f.op, value |-> f.value]
    BY DEF IsFilter
<1>2. w = [column |-> f.column, op |-> f.op, value |-> Range(f.value)]
    BY <1>1
<1>3. CASE f.op = "in" /\ Cardinality(Range(f.value)) = 1
  <2>1. f.value \in Seq(Range(f.value))
      BY <1>3 DEF IsFilter
  <2>2. PICK x : Range(f.value) = {x}
    <3>1. Range(f.value) = {f.value[i] : i \in 1..Len(f.value)}
        BY <2>1 DEF Range
    <3>2. IsFiniteSet(Range(f.value))
      <4> DEFINE D == 1..Len(f.value)
      <4>1. IsFiniteSet(D)
          BY <2>1, FS_Interval
      <4>2. f.value \in Surjection(D, Range(f.value))
          BY <2>1, <3>1 DEF Surjection
      <4> HIDE DEF D
      <4> QED
          BY <4>1, <4>2, FS_Surjection
    <3> QED
        BY <1>3, <3>2, FS_Singleton
  <2>3. f.value[1] = x
    <3>1. PICK i \in DOMAIN f.value : f.value[i] = x
        BY <2>2 DEF Range
    <3>2. 1 \in DOMAIN f.value
        BY <2>1, <3>1
    <3> QED
        BY <2>2, <3>2 DEF Range
  <2>4. n = [column |-> f.column, op |-> "==", value |-> x]
      BY <1>3, <2>3 DEF NormalForm
  <2>5. Meets(v, n) <=> v = x
      BY <2>4 DEF Meets
  <2>6. Meets(v, w) <=> v = x
    <3>1. w.op = "in" /\ w.value = {x}
        BY <1>2, <1>3, <2>2
    <3> HIDE DEF w
    <3> QED
        BY <3>1 DEF Meets
  <2>7. n.column = f.column
      BY <2>4
  <2> QED
      BY <1>3, <2>5, <2>6, <2>7 DEF Asks
<1>4. CASE f.op = "in" /\ Cardinality(Range(f.value)) # 1
  <2>1. n = w
      BY <1>4 DEF NormalForm
  <2> QED
      BY <1>2, <1>4, <2>1 DEF Asks
<1>5. CASE f.op # "in"
  <2>1. n = [f EXCEPT !.value = f.value]
      BY <1>5 DEF NormalForm
  <2>2. n = f
      BY <1>1, <2>1
  <2> QED
      BY <1>5, <2>2 DEF Asks
<1> QED
    BY <1>3, <1>4, <1>5

\* A list of filters and its canonical form select the same rows, and the
\* list backwards has the same canonical form.
LEMMA NormalFormSelects ==
    ASSUME NEW t, NEW l, l \in Seq(Range(l)), \A f \in Range(l) : IsFilter(f)
    PROVE  /\ Selected(t, Normalized(l))
                 = {i \in DOMAIN t : \A j \in DOMAIN l : Asks(l[j], t[i].at[l[j].column])}
           /\ Normalized(l) = Normalized(Reverse(l))
<1>1. \A j \in DOMAIN l : IsFilter(l[j])
    BY DEF Range
<1>2. ASSUME NEW i
      PROVE  i \in Selected(t, Normalized(l))
                <=> i \in DOMAIN t /\ \A j \in DOMAIN l : Asks(l[j], t[i].at[l[j].column])
  <2>1. Fits(t[i].at, Normalized(l))
            <=> \A j \in DOMAIN l : LET p == NormalForm(l[j]) IN
                    t[i].at[p.column] # Missing /\ Meets(t[i].at[p.column], p)
      BY DEF Fits, Normalized
  <2>2. \A j \in DOMAIN l : LET p == NormalForm(l[j]) IN
            (t[i].at[p.column] # Missing /\ Meets(t[i].at[p.column], p))
                <=> Asks(l[j], t[i].at[l[j].column])
      BY <1>1, NormalFormAsks
  <2> QED
      BY <2>1, <2>2, SelectedMeans
<1>3. Normalized(l) = Normalized(Reverse(l))
  <2> DEFINE n == Len(l)
  <2>1. n \in Nat /\ DOMAIN l = 1..n
      OBVIOUS
  <2>2. /\ DOMAIN Reverse(l) = 1..n
        /\ \A j \in 1..n : Reverse(l)[j] = l[(n - j) + 1]
      BY <2>1 DEF Reverse
  <2> HIDE DEF n
  <2>3. \A j \in 1..n : (n - j) + 1 \in 1..n /\ (n - ((n - j) + 1)) + 1 = j
      BY <2>1
  <2>4. ASSUME NEW x PROVE x \in Normalized(l) <=> x \in Normalized(Reverse(l))
    <3>1. x \in Normalized(l) <=> \E j \in 1..n : x = NormalForm(l[j])
        BY <2>1 DEF Normalized
    <3>2. x \in Normalized(Reverse(l)) <=> \E j \in 1..n : x = NormalForm(Reverse(l)[j])
        BY <2>2 DEF Normalized
    <3> QED
        BY <2>2, <2>3, <3>1, <3>2
  <2> QED
      BY <2>4
<1> QED
    BY <1>2, <1>3

\* A product grows with its factor.
LEMMA ProductGrows == \A a, b, c \in Nat : a <= b => c * a <= c * b
OBVIOUS

\* Rounding to a base keeps what is at least a multiple of the base so.
LEMMA RoundKeeps ==
    ASSUME NEW c \in Nat, NEW base \in Nat \ {0}, NEW threshold \in Nat, c >= threshold
    PROVE  /\ RoundTo(c, base) \in Nat
           /\ threshold % base = 0 => RoundTo(c, base) >= threshold
<1> DEFINE low == c \div base  twice == 2 * (c % base)
           steps == IF twice > base \/ (twice = base /\ low % 2 = 1) THEN low + 1 ELSE low
           least == threshold \div base
<1>1. low \in Nat /\ least \in Nat
    OBVIOUS
<1>2. steps \in Nat /\ steps >= low
  <2> HIDE DEF twice, low
  <2> QED
      BY <1>1
<1>3. RoundTo(c, base) = base * steps
    BY DEF RoundTo
<1>4. threshold % base = 0 => threshold = base * least
    OBVIOUS
<1>5. least <= low
    OBVIOUS
<1>6. least <= steps
  <2> HIDE DEF least, low, steps
  <2> QED
      BY <1>1, <1>2, <1>5
<1> HIDE DEF least, low, steps
<1>7. base * steps \in Nat /\ base * least <= base * steps
    BY <1>1, <1>2, <1>6, ProductGrows
<1> QED
    BY <1>3, <1>4, <1>7

\* A published marginal has a number exactly where the count is not rare.
LEMMA PublishedTells ==
    ASSUME Missing \notin Int, NEW m, \A v \in DOMAIN m : m[v] \in Nat,
           NEW threshold \in Nat, NEW base \in Nat \ {0}, NEW domain, NEW v \in DOMAIN m,
           domain # Missing => v \in domain,
           NEW public,
           public = IF domain = Missing THEN PublishedUndeclared(m, threshold, base)
                    ELSE Published(m, domain, threshold, base)
    PROVE  LET given == v \in DOMAIN public /\ public[v] # Missing IN
           /\ given <=> m[v] >= threshold
           /\ given /\ threshold % base = 0 => public[v] >= threshold
<1>1. m[v] \in Nat
    OBVIOUS
<1>2. m[v] >= threshold => /\ RoundTo(m[v], base) \in Nat
                           /\ threshold % base = 0 => RoundTo(m[v], base) >= threshold
    BY <1>1, RoundKeeps
<1>3. m[v] >= threshold => RoundTo(m[v], base) # Missing
    BY <1>2
<1>4. v \in DOMAIN public <=> domain # Missing \/ m[v] >= threshold
  <2>1. CASE domain = Missing
      BY <2>1 DEF PublishedUndeclared
  <2>2. CASE domain # Missing
      BY <2>2 DEF Published
  <2> QED
      BY <2>1, <2>2
<1>5. v \in DOMAIN public => public[v] = IF m[v] >= threshold THEN RoundTo(m[v], base) ELSE Missing
  <2>1. CASE domain = Missing
      BY <2>1 DEF PublishedUndeclared
  <2>2. CASE domain # Missing
      BY <2>2 DEF Published
  <2> QED
      BY <2>1, <2>2
<1> QED
    BY <1>2, <1>3, <1>4, <1>5

\* Excluding the sparse levels leaves the rows of every other level alone.
LEMMA RefitLeavesRows ==
    ASSUME NEW t, IsTable(t), NEW a, NEW c, NEW D, Missing \notin D, Threshold \in Nat,
           NEW levels, levels = SparseLevels(t, c, D, a, Threshold), NEW v \in D \ levels
    PROVE  Cardinality(DonorsOf(t, {i \in Selected(t, ExcludeSparse(c, levels, a)) : t[i].at[c] = v}))
                >= Threshold
<1> DEFINE q(w) == [column |-> c, op |-> "!=", value |-> w]
           rows == {i \in Selected(t, a) : t[i].at[c] = v}
<1>1. \A w, x : q(w).column = c /\ (Meets(x, q(w)) <=> x # w)
    BY DEF Meets
<1>2. \A at : Fits(at, ExcludeSparse(c, levels, a))
                <=> Fits(at, a) /\ \A w \in levels : at[c] # Missing /\ at[c] # w
    BY <1>1 DEF Fits, ExcludeSparse
<1>3. {i \in Selected(t, ExcludeSparse(c, levels, a)) : t[i].at[c] = v} = rows
  <2>1. v # Missing
      OBVIOUS
  <2>2. \A i : i \in Selected(t, a) <=> i \in DOMAIN t /\ Fits(t[i].at, a)
      BY SelectedMeans
  <2>3. \A i : i \in Selected(t, ExcludeSparse(c, levels, a))
                <=> i \in DOMAIN t /\ Fits(t[i].at, ExcludeSparse(c, levels, a))
      BY SelectedMeans
  <2> QED
      BY <1>2, <2>1, <2>2, <2>3
<1>4. ~(Cardinality(DonorsOf(t, rows)) < Threshold)
    BY DEF SparseLevels
<1>5. Cardinality(DonorsOf(t, rows)) \in Nat
  <2>1. rows \subseteq DOMAIN t
      BY DEF Selected
  <2>2. IsFiniteSet(rows)
    <3> HIDE DEF rows
    <3> QED
        BY <2>1, FS_Subset DEF IsTable
  <2> HIDE DEF rows
  <2> QED
      BY <2>2, DonorsFinite
<1>6. Cardinality(DonorsOf(t, rows)) >= Threshold
  <2> HIDE DEF rows
  <2> QED
      BY <1>4, <1>5
<1> QED
    BY <1>3, <1>6

-----------------------------------------------------------------------------
(* The theorem *)

\* What each kind of question holds: inputs that were given, and what the program computes of them.
PairAsked == Is("pair") => asked.table \in Tables /\ asked.a \in FilterSets /\ asked.b \in FilterSets
                           /\ asked.a # asked.b
ViewsAsked ==
    Is("views") =>
        \E profile \in Profiles, log \in Logs :
            /\ asked.events = EventsOf(profile, log)
            /\ asked.rollup = Rollup(profile, asked.events)
NormalAsked == Is("normal") => asked.table \in Samples /\ asked.list \in FilterLists
PublishedAsked ==
    Is("published") =>
        /\ asked.marginal \in Marginals /\ asked.threshold \in Thresholds /\ asked.base \in Bases
        /\ \E domain \in Domains :
            /\ asked.named = IF domain = Missing THEN DOMAIN asked.marginal
                             ELSE DOMAIN asked.marginal \cap domain
            /\ asked.public = IF domain = Missing
                              THEN PublishedUndeclared(asked.marginal, asked.threshold, asked.base)
                              ELSE Published(asked.marginal, domain, asked.threshold, asked.base)
SparseAsked ==
    Is("sparse") =>
        /\ asked.table \in Tables /\ asked.column \in DOMAIN DomainOf
        /\ asked.levels = SparseLevels(asked.table, asked.column, DomainOf[asked.column],
                                       asked.filters, Threshold)

\* Every question is about one of the given inputs, with the answer computed.
ComparisonAsked == PairAsked /\ ViewsAsked /\ NormalAsked /\ PublishedAsked /\ SparseAsked

\* Two cohorts of one view.
LEMMA PairsSound ==
    PairAsked => CheapBoundCovers /\ SmallDifferenceDenied /\ ExactLegExact /\ TotalsCovered
<1> SUFFICES ASSUME PairAsked, Is("pair")
             PROVE  CheapBoundCovers /\ SmallDifferenceDenied /\ ExactLegExact /\ TotalsCovered
    BY DEF CheapBoundCovers, SmallDifferenceDenied, ExactLegExact, TotalsCovered
<1> DEFINE t == asked.table  a == asked.a  b == asked.b
<1>1. IsTable(t) /\ IsCohort(a) /\ IsCohort(b) /\ a # b /\ Threshold \in Nat
    BY DifferencesAssumption DEF PairAsked
<1> HIDE DEF t, a, b
<1>2. Cardinality(Apart(t, a, b)) <= SimulatableCohortBound(t, a, b)
    BY <1>1, CheapBound
<1>3. Cardinality(Apart(t, a, b)) < Threshold =>
        ComesTooClose([v |-> t], [view |-> "v", filters |-> a, quantity |-> Missing],
                      [view |-> "v", filters |-> b, quantity |-> Missing], Threshold)
    BY <1>1, CloseDenied
<1>4. Whole(t) => RowSymdiffDonors(t, a, b) = Cardinality(Apart(t, a, b))
    BY <1>1, ExactLegOfWhole
<1>5. ASSUME Whole(t), \A p \in a \cup b : Fixed(t, p.column)
      PROVE  /\ RowSymdiffDonors(t, a, b) = CohortSymdiff(t, a, t, b)
             /\ Selected(t, a) \subseteq Selected(t, b) =>
                  \A g \in Columns :
                      LET apart == DonorTotal(t, b, g) - DonorTotal(t, a, g)
                      IN  /\ CohortSymdiff(t, a, t, b) <= apart
                          /\ Fixed(t, g) => CohortSymdiff(t, a, t, b) = apart
  <2>1. RowSymdiffDonors(t, a, b) = CohortSymdiff(t, a, t, b)
      BY <1>4, <1>5, ApartOfFixed DEF CohortSymdiff
  <2>2. ASSUME Selected(t, a) \subseteq Selected(t, b), NEW g \in Columns
        PROVE  LET apart == DonorTotal(t, b, g) - DonorTotal(t, a, g)
               IN  /\ CohortSymdiff(t, a, t, b) <= apart
                   /\ Fixed(t, g) => CohortSymdiff(t, a, t, b) = apart
      BY <1>1, <1>5, <2>2, TotalsOfNested
  <2> QED
      BY <2>1, <2>2
<1> USE DEF t, a, b
<1>6. CheapBoundCovers /\ SmallDifferenceDenied
    BY <1>2, <1>3 DEF CheapBoundCovers, SmallDifferenceDenied
<1>7. ExactLegExact
    BY <1>4 DEF ExactLegExact
<1>8. TotalsCovered
    BY <1>5 DEF TotalsCovered
<1> QED
    BY <1>6, <1>7, <1>8

\* Cohorts of two views.
LEMMA ViewsSound == ViewsAsked => CrossViewDenied
<1> SUFFICES ASSUME ViewsAsked, Is("views"), asked.a # asked.b,
                    Cardinality({d \in SymDiff(DonorsOf(asked.rollup, Selected(asked.rollup, asked.a)),
                                               DonorsOf(asked.rollup, Selected(asked.rollup, asked.b))) :
                                    asked.rollup[d].amount # 0}) < Threshold
             PROVE  ComesTooClose([events |-> asked.events, rollup |-> asked.rollup],
                            [view |-> "events", filters |-> asked.a, quantity |-> "spend"],
                            [view |-> "rollup", filters |-> asked.b, quantity |-> "spend"],
                            Threshold)
    BY DEF CrossViewDenied
<1>1. PICK profile \in Profiles : \E log \in Logs :
            /\ asked.events = EventsOf(profile, log)
            /\ asked.rollup = Rollup(profile, asked.events)
    BY DEF ViewsAsked
<1>2. PICK log \in Logs :
            /\ asked.events = EventsOf(profile, log)
            /\ asked.rollup = Rollup(profile, asked.events)
    BY <1>1
<1>3. /\ Missing \notin Int /\ Missing # "spend" /\ Threshold \in Nat
      /\ IsFiniteSet(Persons) /\ IsFiniteSet(DOMAIN log)
      /\ \A i \in DOMAIN log : log[i].donor \in Persons /\ log[i].amount \in Int \cup {Missing}
    BY DifferencesAssumption
<1> QED
    BY <1>2, <1>3, ViewsDenied

\* Filter lists.
LEMMA NormalSound == NormalAsked => NormalFormKeepsRows
<1> SUFFICES ASSUME NormalAsked, Is("normal") PROVE NormalFormKeepsRows
    BY DEF NormalFormKeepsRows
<1> DEFINE t == asked.table  l == asked.list
<1>1. l \in Seq(Range(l)) /\ \A f \in Range(l) : IsFilter(f)
    BY DifferencesAssumption DEF NormalAsked
<1> HIDE DEF t, l
<1>2. /\ Selected(t, Normalized(l))
            = {i \in DOMAIN t : \A j \in DOMAIN l : Asks(l[j], t[i].at[l[j].column])}
      /\ Normalized(l) = Normalized(Reverse(l))
    BY <1>1, NormalFormSelects
<1> QED
    BY <1>2 DEF NormalFormKeepsRows, Asks, t, l

\* Published marginals.
LEMMA PublishedSound == PublishedAsked => PublishedSimulates
<1> SUFFICES ASSUME PublishedAsked, Is("published"), NEW v \in asked.named
             PROVE  LET given == v \in DOMAIN asked.public /\ asked.public[v] # Missing IN
                    /\ given <=> asked.marginal[v] >= asked.threshold
                    /\ given /\ asked.threshold % asked.base = 0 => asked.public[v] >= asked.threshold
    BY DEF PublishedSimulates
<1> DEFINE m == asked.marginal  threshold == asked.threshold  base == asked.base
           public == asked.public
<1>1. PICK domain \in Domains :
            /\ asked.named = IF domain = Missing THEN DOMAIN m ELSE DOMAIN m \cap domain
            /\ public = IF domain = Missing THEN PublishedUndeclared(m, threshold, base)
                        ELSE Published(m, domain, threshold, base)
    BY DEF PublishedAsked
<1>2. /\ Missing \notin Int
      /\ \A w \in DOMAIN m : m[w] \in Nat
      /\ threshold \in Nat /\ base \in Nat \ {0}
    BY DifferencesAssumption DEF PublishedAsked
<1>3. v \in DOMAIN m /\ (domain # Missing => v \in domain)
    BY <1>1
<1> HIDE DEF m, threshold, base, public
<1>4. LET given == v \in DOMAIN public /\ public[v] # Missing IN
      /\ given <=> m[v] >= threshold
      /\ given /\ threshold % base = 0 => public[v] >= threshold
    BY <1>1, <1>2, <1>3, PublishedTells
<1> QED
    BY <1>4 DEF m, threshold, base, public

\* Sparse levels.
LEMMA SparseSound == SparseAsked => RefitCellsSafe
<1> SUFFICES ASSUME SparseAsked, Is("sparse"), NEW v \in DomainOf[asked.column] \ asked.levels
             PROVE  Cardinality(DonorsOf(asked.table,
                        {i \in Selected(asked.table, ExcludeSparse(asked.column, asked.levels, asked.filters)) :
                            asked.table[i].at[asked.column] = v})) >= Threshold
    BY DEF RefitCellsSafe
<1>1. /\ IsTable(asked.table) /\ Missing \notin DomainOf[asked.column] /\ Threshold \in Nat
      /\ asked.levels = SparseLevels(asked.table, asked.column, DomainOf[asked.column],
                                     asked.filters, Threshold)
    BY DifferencesAssumption DEF SparseAsked
<1> QED
    BY <1>1, RefitLeavesRows

\* Every question asked is one of the given ones, with the answer computed.
THEOREM ComparedAlways == Comparisons => []ComparisonAsked
<1>1. Unasked => ComparisonAsked
    BY DEF Unasked, ComparisonAsked, PairAsked, ViewsAsked, NormalAsked, PublishedAsked, SparseAsked, Is
<1>2. ComparisonAsked /\ [AskCohorts]_asked => ComparisonAsked'
  <2> SUFFICES ASSUME ComparisonAsked, [AskCohorts]_asked PROVE ComparisonAsked'
      OBVIOUS
  <2> USE DEF ComparisonAsked
  <2>1. CASE AskPair
    <3>1. asked'.about = "pair" /\ PairAsked'
        BY <2>1 DEF AskPair, PairAsked
    <3> QED
        BY <3>1 DEF ViewsAsked, NormalAsked, PublishedAsked, SparseAsked, Is
  <2>2. CASE AskViews
    <3>1. asked'.about = "views" /\ ViewsAsked'
        BY <2>2 DEF AskViews, ViewsAsked
    <3> QED
        BY <3>1 DEF PairAsked, NormalAsked, PublishedAsked, SparseAsked, Is
  <2>3. CASE AskNormalForm
    <3>1. asked'.about = "normal" /\ NormalAsked'
        BY <2>3 DEF AskNormalForm, NormalAsked
    <3> QED
        BY <3>1 DEF PairAsked, ViewsAsked, PublishedAsked, SparseAsked, Is
  <2>4. CASE AskPublished
    <3>1. PICK marginal \in Marginals, threshold \in Thresholds, base \in Bases, domain \in Domains :
            asked' = [about |-> "published", marginal |-> marginal, threshold |-> threshold, base |-> base,
                      named |-> IF domain = Missing THEN DOMAIN marginal ELSE DOMAIN marginal \cap domain,
                      public |-> IF domain = Missing
                                 THEN PublishedUndeclared(marginal, threshold, base)
                                 ELSE Published(marginal, domain, threshold, base)]
        BY <2>4 DEF AskPublished
    <3>2. /\ asked'.about = "published" /\ asked'.marginal = marginal
          /\ asked'.threshold = threshold /\ asked'.base = base
        BY <3>1
    <3>3. /\ asked'.named = IF domain = Missing THEN DOMAIN marginal ELSE DOMAIN marginal \cap domain
          /\ asked'.public = IF domain = Missing
                              THEN PublishedUndeclared(marginal, threshold, base)
                              ELSE Published(marginal, domain, threshold, base)
        BY <3>1
    <3>4. PublishedAsked'
        BY <3>2, <3>3 DEF PublishedAsked
    <3> QED
        BY <3>2, <3>4 DEF PairAsked, ViewsAsked, NormalAsked, SparseAsked, Is
  <2>5. CASE AskSparse
    <3>1. asked'.about = "sparse" /\ SparseAsked'
        BY <2>5 DEF AskSparse, SparseAsked
    <3> QED
        BY <3>1 DEF PairAsked, ViewsAsked, NormalAsked, PublishedAsked, Is
  <2>6. CASE UNCHANGED asked
      BY <2>6 DEF PairAsked, ViewsAsked, NormalAsked, PublishedAsked, SparseAsked, Is
  <2> QED
      BY <2>1, <2>2, <2>3, <2>4, <2>5, <2>6 DEF AskCohorts
<1> QED
    BY <1>1, <1>2, PTL DEF Comparisons

\* What two releases tell by their difference is nobody's, whatever the table,
\* the cohorts, the events and the filters: the bound from the marginals covers
\* the people apart, the exact legs and the comparison across views deny what
\* is close, and normal forms, published marginals and rewritten plans say of
\* the rows what the decision took them to say.
THEOREM DifferencesSound == Comparisons => []DifferencingSound
<1>1. ComparisonAsked => DifferencingSound
    BY PairsSound, ViewsSound, NormalSound, PublishedSound, SparseSound
       DEF ComparisonAsked, DifferencingSound
<1> QED
    BY <1>1, ComparedAlways, PTL

-----------------------------------------------------------------------------
(* Orders *)

\* A strict total order on the members of a set.
StrictOrder(R, S) ==
    /\ \A x \in S : <<x, x>> \notin R
    /\ \A x, y \in S : x # y => <<x, y>> \in R \/ <<y, x>> \in R
    /\ \A x, y, z \in S : <<x, y>> \in R /\ <<y, z>> \in R => <<x, z>> \in R

\* How many members come before x.
Place(R, S, x) == Cardinality({y \in S : <<y, x>> \in R})

\* In a finite set each place of a strict total order has exactly one member.
LEMMA Places ==
    ASSUME NEW S, IsFiniteSet(S), NEW R, StrictOrder(R, S)
    PROVE  /\ \A x \in S : Place(R, S, x) \in 0..(Cardinality(S) - 1)
           /\ \A x, y \in S : Place(R, S, x) = Place(R, S, y) => x = y
           /\ \A i \in 0..(Cardinality(S) - 1) : \E x \in S : Place(R, S, x) = i
<1> DEFINE B(x) == {y \in S : <<y, x>> \in R}
           n == Cardinality(S)
<1>1. n \in Nat
    BY FS_CardinalityType
<1>2. ASSUME NEW x \in S
      PROVE  IsFiniteSet(B(x)) /\ Cardinality(B(x)) \in Nat /\ Cardinality(B(x)) < n
  <2>1. B(x) \in SUBSET S /\ x \notin B(x)
      BY DEF StrictOrder
  <2>2. IsFiniteSet(B(x)) /\ Cardinality(B(x)) <= n /\ (n = Cardinality(B(x)) => S = B(x))
      BY <2>1, FS_Subset
  <2>3. Cardinality(B(x)) \in Nat
      BY <2>2, FS_CardinalityType
  <2>4. S # B(x)
      BY <2>1
  <2> QED
      BY <2>2, <2>3, <2>4, <1>1
<1>3. ASSUME NEW x \in S, NEW y \in S, <<x, y>> \in R
      PROVE  Cardinality(B(x)) < Cardinality(B(y))
  <2>1. B(x) \in SUBSET B(y) /\ x \in B(y) /\ x \notin B(x)
      BY <1>3 DEF StrictOrder
  <2>2. IsFiniteSet(B(y)) /\ Cardinality(B(y)) \in Nat /\ Cardinality(B(x)) \in Nat
      BY <1>2
  <2>3. Cardinality(B(x)) <= Cardinality(B(y)) /\ (Cardinality(B(y)) = Cardinality(B(x)) => B(y) = B(x))
    <3> HIDE DEF B
    <3> QED
        BY <2>1, <2>2, FS_Subset
  <2> QED
      BY <2>1, <2>2, <2>3
<1>4. ASSUME NEW x \in S, NEW y \in S, Cardinality(B(x)) = Cardinality(B(y))
      PROVE  x = y
  <2>1. SUFFICES ASSUME x # y PROVE FALSE
      OBVIOUS
  <2>2. <<x, y>> \in R \/ <<y, x>> \in R
      BY <2>1 DEF StrictOrder
  <2>3. Cardinality(B(x)) \in Nat /\ Cardinality(B(y)) \in Nat
      BY <1>2
  <2> HIDE DEF B
  <2> QED
      BY <2>2, <2>3, <1>3, <1>4
<1>5. \A x \in S : Cardinality(B(x)) \in 0..(n - 1)
  <2> SUFFICES ASSUME NEW x \in S PROVE Cardinality(B(x)) \in 0..(n - 1)
      OBVIOUS
  <2>1. Cardinality(B(x)) \in Nat /\ Cardinality(B(x)) < n
      BY <1>2
  <2> HIDE DEF B
  <2> QED
      BY <2>1, <1>1
<1>6. ASSUME NEW i \in 0..(n - 1)
      PROVE  \E x \in S : Cardinality(B(x)) = i
  <2> DEFINE f == [x \in S |-> Cardinality(B(x))]
             T == {f[x] : x \in S}
  <2>1. f \in Bijection(S, T)
    <3>1. \A x, y \in S : f[x] = f[y] => x = y
        BY <1>4
    <3> HIDE DEF B
    <3>2. f \in Injection(S, T)
        BY <3>1 DEF Injection, IsInjective
    <3>3. f \in Surjection(S, T)
        BY DEF Surjection
    <3> QED
        BY <3>2, <3>3 DEF Bijection
  <2>2. IsFiniteSet(T) /\ Cardinality(T) = n
      BY <2>1, FS_Bijection DEF ExistsBijection
  <2>3. T \in SUBSET (0..(n - 1))
    <3>1. \A x \in S : Cardinality(B(x)) \in 0..(n - 1)
        BY <1>5
    <3> HIDE DEF B
    <3> QED
        BY <3>1
  <2>4. IsFiniteSet(0..(n - 1)) /\ Cardinality(0..(n - 1)) = n
    <3>1. 0 \in Int /\ n - 1 \in Int
        BY <1>1
    <3>2. IsFiniteSet(0..(n - 1)) /\ Cardinality(0..(n - 1)) = IF 0 > n - 1 THEN 0 ELSE (n - 1) - 0 + 1
        BY <3>1, FS_Interval
    <3> QED
        BY <3>2, <1>1
  <2>5. T = 0..(n - 1)
    <3> HIDE DEF T
    <3> QED
        BY <2>2, <2>3, <2>4, FS_Subset
  <2> QED
      BY <2>5
<1>7. \A x : Place(R, S, x) = Cardinality(B(x))
    BY DEF Place
<1> HIDE DEF B
<1> QED
    BY <1>4, <1>5, <1>6, <1>7

\* ... so the set has a first member, unless it is empty.
LEMMA FirstOfOrder ==
    ASSUME NEW S, IsFiniteSet(S), NEW R, StrictOrder(R, S), S # {}
    PROVE  \E x \in S : \A y \in S \ {x} : <<x, y>> \in R
<1>1. Cardinality(S) \in Nat /\ Cardinality(S) # 0
    BY FS_CardinalityType, FS_EmptySet
<1>2. 0 \in 0..(Cardinality(S) - 1)
    BY <1>1
<1>3. PICK x \in S : Place(R, S, x) = 0
    BY <1>2, Places
<1>4. {y \in S : <<y, x>> \in R} = {}
  <2>1. IsFiniteSet({y \in S : <<y, x>> \in R})
      BY FS_Subset
  <2> QED
      BY <2>1, <1>3, FS_EmptySet DEF Place
<1> QED
    BY <1>4 DEF StrictOrder

-----------------------------------------------------------------------------
(* Keys *)

\* Levels are ranked apart: a missing one before all others.
LEMMA RankOfLevel ==
    ASSUME Missing \notin Int
    PROVE  /\ \A a \in KeyLevels : Rank(a) \in Nat
           /\ \A a, b \in KeyLevels : Rank(a) = Rank(b) => a = b
BY DEF KeyLevels, Rank

\* The keys of a table are strictly ordered.
LEMMA KeysOrdered ==
    ASSUME Missing \notin Int, NEW w \in Nat,
           NEW k \in [1..w -> KeyLevels], NEW l \in [1..w -> KeyLevels], NEW m \in [1..w -> KeyLevels]
    PROVE  /\ ~KeyBefore(k, k)
           /\ k # l => KeyBefore(k, l) \/ KeyBefore(l, k)
           /\ KeyBefore(k, l) /\ KeyBefore(l, m) => KeyBefore(k, m)
<1>1. \A i \in 1..w : Rank(k[i]) \in Nat /\ Rank(l[i]) \in Nat /\ Rank(m[i]) \in Nat
    BY RankOfLevel
<1>2. ~KeyBefore(k, k)
    BY <1>1 DEF KeyBefore
<1>3. ASSUME k # l PROVE KeyBefore(k, l) \/ KeyBefore(l, k)
  <2> DEFINE T == {i \in 1..w : Rank(k[i]) # Rank(l[i])}
  <2>1. T # {}
    <3>1. PICK i \in 1..w : k[i] # l[i]
        BY <1>3
    <3> QED
        BY <3>1, RankOfLevel
  <2>2. T \in SUBSET Nat
      OBVIOUS
  <2>3. PICK i \in T : \A j \in T : i <= j
    <3> HIDE DEF T
    <3> QED
        BY <2>1, <2>2, LeastNumber
  <2>4. \A j \in 1..(i - 1) : Rank(k[j]) = Rank(l[j])
      BY <2>3
  <2>5. Rank(k[i]) < Rank(l[i]) \/ Rank(l[i]) < Rank(k[i])
      BY <1>1
  <2> QED
      BY <2>4, <2>5 DEF KeyBefore
<1>4. ASSUME KeyBefore(k, l), KeyBefore(l, m) PROVE KeyBefore(k, m)
  <2>1. PICK i \in 1..w : Rank(k[i]) < Rank(l[i]) /\ \A j \in 1..(i - 1) : Rank(k[j]) = Rank(l[j])
      BY <1>4 DEF KeyBefore
  <2>2. PICK h \in 1..w : Rank(l[h]) < Rank(m[h]) /\ \A j \in 1..(h - 1) : Rank(l[j]) = Rank(m[j])
      BY <1>4 DEF KeyBefore
  <2> DEFINE a(j) == Rank(k[j])  b(j) == Rank(l[j])  c(j) == Rank(m[j])
  <2>3. CASE i <= h
    <3>1. a(i) < b(i) /\ b(i) <= c(i)
      <4>1. CASE i = h
          BY <2>1, <2>2, <4>1, <1>1
      <4>2. CASE i # h
        <5>1. i \in 1..(h - 1)
            BY <2>3, <4>2
        <5> QED
            BY <2>1, <2>2, <5>1, <1>1
      <4> QED
          BY <4>1, <4>2
    <3>2. a(i) < c(i)
        BY <3>1, <1>1
    <3>3. \A j \in 1..(i - 1) : a(j) = c(j)
        BY <2>1, <2>2, <2>3
    <3> QED
        BY <3>2, <3>3 DEF KeyBefore
  <2>4. CASE h < i
    <3>1. a(h) = b(h) /\ b(h) < c(h)
        BY <2>1, <2>2, <2>4
    <3>2. \A j \in 1..(h - 1) : a(j) = c(j)
        BY <2>1, <2>2, <2>4
    <3> QED
        BY <3>1, <3>2 DEF KeyBefore
  <2> QED
      BY <2>3, <2>4
<1> QED
    BY <1>2, <1>3, <1>4

-----------------------------------------------------------------------------
(* Counts as released, and the orders of cells *)

\* A product of naturals is one.
LEMMA ProductIsNat == \A a, b \in Nat : a * b \in Nat
OBVIOUS

\* A rounded count is a natural number.
LEMMA RoundIsNat ==
    ASSUME NEW c \in Nat, NEW base \in Nat \ {0}
    PROVE  RoundTo(c, base) \in Nat
<1>1. c \div base \in Nat
    OBVIOUS
<1> DEFINE low == c \div base  twice == 2 * (c % base)
           steps == IF twice > base \/ (twice = base /\ low % 2 = 1) THEN low + 1 ELSE low
<1>2. steps \in Nat
  <2> HIDE DEF twice
  <2> QED
      BY <1>1
<1>3. RoundTo(c, base) = base * steps
    BY DEF RoundTo
<1> HIDE DEF steps
<1> QED
    BY <1>2, <1>3, ProductIsNat

\* Cells of a table that have a count.
Numbered(f, K) ==
    /\ IsFrame(f)
    /\ K \subseteq DOMAIN f.cells
    /\ \A k \in K : f.cells[k].n \in Nat

\* The keys of cells that have a count are finitely many tuples of levels.
LEMMA NumberedKeys ==
    ASSUME Missing \notin Int, NEW f, NEW K, Numbered(f, K),
           NEW par, par.base \in Nat \ {0}
    PROVE  /\ IsFiniteSet(K) /\ Width(f) \in Nat
           /\ \A k \in K : k \in [1..Width(f) -> KeyLevels] /\ ReleasedCount(f, k, par) \in Nat
<1>1. IsFiniteSet(K)
    BY FS_Subset DEF Numbered, IsFrame
<1>2. Width(f) \in Nat
    BY DEF Numbered, IsFrame, Width
<1>3. \A k \in K : k \in [1..Width(f) -> KeyLevels]
    BY DEF Numbered, IsFrame
<1>4. \A k \in K : ReleasedCount(f, k, par) \in Nat
    BY RoundIsNat DEF ReleasedCount, Numbered
<1> QED
    BY <1>1, <1>2, <1>3, <1>4

\* The order in which cells are given up, and the order in which they are listed.
SmallerPairs(f, K, par) == {p \in K \X K : Smaller(f, p[1], p[2], par)}
LargerPairs(f, K, par) == {p \in K \X K : Larger(f, p[1], p[2], par)}

\* Both orders are strict and total, whatever the counts round to.
LEMMA CellsOrdered ==
    ASSUME Missing \notin Int, NEW f, NEW K, Numbered(f, K),
           NEW par, par.base \in Nat \ {0}
    PROVE  StrictOrder(SmallerPairs(f, K, par), K) /\ StrictOrder(LargerPairs(f, K, par), K)
<1> DEFINE c(k) == ReleasedCount(f, k, par)
<1>1. Width(f) \in Nat /\ \A k \in K : k \in [1..Width(f) -> KeyLevels] /\ c(k) \in Nat
    BY NumberedKeys
<1>2. \A k, l, m \in K :
        /\ ~KeyBefore(k, k)
        /\ k # l => KeyBefore(k, l) \/ KeyBefore(l, k)
        /\ KeyBefore(k, l) /\ KeyBefore(l, m) => KeyBefore(k, m)
    BY <1>1, KeysOrdered
<1>3. \A k, l \in K : /\ <<k, l>> \in SmallerPairs(f, K, par)
                            <=> c(k) < c(l) \/ (c(k) = c(l) /\ KeyBefore(k, l))
                      /\ <<k, l>> \in LargerPairs(f, K, par)
                            <=> c(k) > c(l) \/ (c(k) = c(l) /\ KeyBefore(k, l))
    BY DEF SmallerPairs, LargerPairs, Smaller, Larger
<1> HIDE DEF c
<1>4. StrictOrder(SmallerPairs(f, K, par), K)
    BY <1>1, <1>2, <1>3 DEF StrictOrder
<1>5. StrictOrder(LargerPairs(f, K, par), K)
    BY <1>1, <1>2, <1>3 DEF StrictOrder
<1> QED
    BY <1>4, <1>5

\* The cell given up is one of the candidates, and comes before all others.
LEMMA SacrificeIsFirst ==
    ASSUME Missing \notin Int, NEW f, NEW K, Numbered(f, K),
           NEW par, par.base \in Nat \ {0}, K # {}
    PROVE  /\ Sacrifice(f, K, par) \in K
           /\ \A l \in K \ {Sacrifice(f, K, par)} : Smaller(f, Sacrifice(f, K, par), l, par)
<1>1. StrictOrder(SmallerPairs(f, K, par), K) /\ IsFiniteSet(K)
    BY CellsOrdered, NumberedKeys
<1>2. \E k \in K : \A l \in K \ {k} : <<k, l>> \in SmallerPairs(f, K, par)
    BY <1>1, FirstOfOrder
<1>3. \E k \in K : \A l \in K \ {k} : Smaller(f, k, l, par)
    BY <1>2 DEF SmallerPairs
<1> QED
    BY <1>3 DEF Sacrifice

\* Whatever cell comes before all others is the one given up.
LEMMA SacrificeUnique ==
    ASSUME Missing \notin Int, NEW f, NEW K, Numbered(f, K),
           NEW par, par.base \in Nat \ {0}, NEW k \in K,
           \A l \in K \ {k} : Smaller(f, k, l, par)
    PROVE  Sacrifice(f, K, par) = k
<1> DEFINE s == Sacrifice(f, K, par)
<1>1. s \in K /\ \A l \in K \ {s} : Smaller(f, s, l, par)
    BY SacrificeIsFirst
<1>2. SUFFICES ASSUME s # k PROVE FALSE
    OBVIOUS
<1> HIDE DEF s
<1>3. <<s, k>> \in SmallerPairs(f, K, par) /\ <<k, s>> \in SmallerPairs(f, K, par)
    BY <1>1, <1>2 DEF SmallerPairs
<1>4. StrictOrder(SmallerPairs(f, K, par), K)
    BY CellsOrdered
<1> QED
    BY <1>1, <1>3, <1>4 DEF StrictOrder

\* The rows of a finalized table: its cells, each once, in the order of Larger.
RowAt(f, K, par, i) == CHOOSE k \in K : Cardinality({l \in K : Larger(f, l, k, par)}) = i - 1

\* The place of each row of a release is filled by exactly one cell.
LEMMA FinalizedRows ==
    ASSUME Missing \notin Int, NEW f, NEW K, Numbered(f, K),
           NEW par, par.base \in Nat \ {0}
    PROVE  /\ Cardinality(K) \in Nat
           /\ \A i \in 1..Cardinality(K) :
                /\ RowAt(f, K, par, i) \in K
                /\ Cardinality({l \in K : Larger(f, l, RowAt(f, K, par, i), par)}) = i - 1
           /\ \A k \in K : \E i \in 1..Cardinality(K) : RowAt(f, K, par, i) = k
           /\ \A k, l \in K : Cardinality({m \in K : Larger(f, m, k, par)})
                                = Cardinality({m \in K : Larger(f, m, l, par)}) => k = l
<1> DEFINE R == LargerPairs(f, K, par)  n == Cardinality(K)
           at(k) == Cardinality({l \in K : Larger(f, l, k, par)})
<1>1. StrictOrder(R, K) /\ IsFiniteSet(K) /\ n \in Nat
    BY CellsOrdered, NumberedKeys, FS_CardinalityType
<1>2. \A k \in K : Place(R, K, k) = at(k)
  <2> SUFFICES ASSUME NEW k \in K PROVE Place(R, K, k) = at(k)
      OBVIOUS
  <2>1. {l \in K : <<l, k>> \in R} = {l \in K : Larger(f, l, k, par)}
      BY DEF LargerPairs
  <2> QED
      BY <2>1 DEF Place
<1>3. /\ \A k \in K : Place(R, K, k) \in 0..(n - 1)
      /\ \A k, l \in K : Place(R, K, k) = Place(R, K, l) => k = l
      /\ \A i \in 0..(n - 1) : \E k \in K : Place(R, K, k) = i
    BY <1>1, Places
<1>4. /\ \A k \in K : at(k) \in 0..(n - 1)
      /\ \A k, l \in K : at(k) = at(l) => k = l
      /\ \A i \in 0..(n - 1) : \E k \in K : at(k) = i
  <2> HIDE DEF R, n, at
  <2> QED
      BY <1>2, <1>3
<1>5. ASSUME NEW i \in 1..n
      PROVE  RowAt(f, K, par, i) \in K /\ at(RowAt(f, K, par, i)) = i - 1
  <2>1. i - 1 \in 0..(n - 1)
      BY <1>1
  <2>2. \E k \in K : at(k) = i - 1
      BY <2>1, <1>4
  <2> QED
      BY <2>2 DEF RowAt
<1>6. ASSUME NEW k \in K PROVE \E i \in 1..n : RowAt(f, K, par, i) = k
  <2>1. PICK j \in 0..(n - 1) : at(k) = j
    <3> HIDE DEF at
    <3> QED
        BY <1>4
  <2>2. j + 1 \in 1..n /\ (j + 1) - 1 = j
      BY <1>1
  <2>3. RowAt(f, K, par, j + 1) \in K /\ at(RowAt(f, K, par, j + 1)) = j
      BY <2>2, <1>5
  <2>4. RowAt(f, K, par, j + 1) = k
    <3> HIDE DEF at
    <3> QED
        BY <2>1, <2>3, <1>4
  <2> QED
      BY <2>2, <2>4
<1> QED
    BY <1>1, <1>4, <1>5, <1>6

\* TLC's view of the same: what a finalized table holds.
LEMMA FinalizedTable ==
    ASSUME Missing \notin Int, NEW f, NEW K, Numbered(f, K),
           NEW par, par.base \in Nat \ {0}
    PROVE  LET t == Finalize(f, K, par) IN
           /\ Len(t) = Cardinality(K)
           /\ {t[i].key : i \in DOMAIN t} = K
           /\ t = <<>> <=> K = {}
<1> DEFINE t == Finalize(f, K, par)  n == Cardinality(K)
<1>1. t = [i \in 1..n |-> [key |-> RowAt(f, K, par, i),
                           n |-> ReleasedCount(f, RowAt(f, K, par, i), par)]]
    BY DEF Finalize, RowAt
<1>2. n \in Nat /\ IsFiniteSet(K)
    BY FinalizedRows, NumberedKeys
<1>3. DOMAIN t = 1..n /\ \A i \in 1..n : t[i].key = RowAt(f, K, par, i)
    BY <1>1
<1>4. Len(t) = n /\ t \in Seq({t[i] : i \in 1..n})
  <2> HIDE DEF n
  <2> QED
      BY <1>1, <1>2, <1>3
<1>5. {t[i].key : i \in DOMAIN t} = K
  <2>1. \A i \in 1..n : RowAt(f, K, par, i) \in K
      BY FinalizedRows
  <2>2. \A k \in K : \E i \in 1..n : RowAt(f, K, par, i) = k
      BY FinalizedRows
  <2> HIDE DEF t, n
  <2> QED
      BY <2>1, <2>2, <1>3
<1>6. n = 0 <=> K = {}
    BY <1>2, FS_EmptySet
<1>7. t = <<>> <=> n = 0
  <2> HIDE DEF t, n
  <2> QED
      BY <1>4, <1>2
<1> QED
    BY <1>4, <1>5, <1>6, <1>7

-----------------------------------------------------------------------------
(* Complementary suppression *)

\* What a step function gives, applied again and again.
Iterates(h, x, G, n) == h = [i \in 0..n |-> IF i = 0 THEN x ELSE G[<<i, h[i - 1]>>]]

\* A step can be repeated any number of times: there is a function that does so.
LEMMA IteratesExist ==
    ASSUME NEW U, NEW x \in U, NEW n \in Nat, NEW G \in [Nat \X U -> U]
    PROVE  \E h \in [0..n -> U] : Iterates(h, x, G, n)
<1> DEFINE T == {k \in Nat : ~\E h \in [0..k -> U] : Iterates(h, x, G, k)}
<1>1. SUFFICES ASSUME T # {} PROVE FALSE
    OBVIOUS
<1>2. PICK k \in T : \A j \in T : k <= j
    BY <1>1, LeastNumber
<1>3. CASE k = 0
  <2> DEFINE h == [i \in 0..0 |-> x]
  <2>1. Iterates(h, x, G, 0) /\ h \in [0..0 -> U]
      BY DEF Iterates
  <2> QED
      BY <1>3, <2>1
<1>4. CASE k # 0
  <2>1. k - 1 \in Nat /\ k - 1 \notin T
      BY <1>2, <1>4
  <2>2. PICK h \in [0..(k - 1) -> U] : Iterates(h, x, G, k - 1)
      BY <2>1
  <2> DEFINE g == [i \in 0..k |-> IF i = 0 THEN x ELSE G[<<i, h[i - 1]>>]]
  <2>3. \A i \in 0..(k - 1) : h[i] = IF i = 0 THEN x ELSE G[<<i, h[i - 1]>>]
      BY <2>2 DEF Iterates
  <2>4. \A i \in 0..(k - 1) : g[i] = h[i]
      BY <2>3, <2>1
  <2>5. ASSUME NEW i \in 0..k, i # 0 PROVE g[i - 1] = h[i - 1] /\ <<i, h[i - 1]>> \in Nat \X U
    <3>1. i - 1 \in 0..(k - 1)
        BY <2>5
    <3> HIDE DEF g
    <3> QED
        BY <3>1, <2>2, <2>4
  <2>6. g \in [0..k -> U]
    <3> SUFFICES ASSUME NEW i \in 0..k PROVE (IF i = 0 THEN x ELSE G[<<i, h[i - 1]>>]) \in U
        OBVIOUS
    <3> QED
        BY <2>5
  <2>7. Iterates(g, x, G, k)
      BY <2>5 DEF Iterates
  <2> QED
      BY <2>6, <2>7
<1> QED
    BY <1>3, <1>4

\* A sequence of sets that only shrinks.
LEMMA Shrinking ==
    ASSUME NEW n \in Nat, NEW h, \A i \in 1..n : h[i] \subseteq h[i - 1]
    PROVE  \A i \in 0..n : h[i] \subseteq h[0] /\ h[n] \subseteq h[i]
<1>1. \A i \in 0..n : h[i] \subseteq h[0]
  <2> DEFINE T == {i \in 0..n : ~(h[i] \subseteq h[0])}
  <2>1. SUFFICES ASSUME T # {} PROVE FALSE
      OBVIOUS
  <2>2. PICK i \in T : \A j \in T : i <= j
    <3>1. T \in SUBSET Nat
        OBVIOUS
    <3> HIDE DEF T
    <3> QED
        BY <2>1, <3>1, LeastNumber
  <2>3. i \in 1..n /\ i - 1 \in 0..n /\ ~(i <= i - 1)
      OBVIOUS
  <2>4. i - 1 \notin T
      BY <2>2, <2>3
  <2> QED
      BY <2>3, <2>4
<1>2. \A i \in 0..n : h[n] \subseteq h[i]
  <2> DEFINE T == {k \in 0..n : ~(h[n] \subseteq h[n - k])}
  <2>1. SUFFICES ASSUME T # {} PROVE FALSE
    <3>1. ASSUME NEW i \in 0..n PROVE h[n] \subseteq h[i]
      <4>1. n - i \in 0..n /\ n - (n - i) = i
          OBVIOUS
      <4>2. n - i \notin T
          BY <3>1, <2>1
      <4> QED
          BY <4>1, <4>2
    <3> QED
        BY <3>1
  <2>2. PICK k \in T : \A j \in T : k <= j
    <3>1. T \in SUBSET Nat
        OBVIOUS
    <3> HIDE DEF T
    <3> QED
        BY <2>1, <3>1, LeastNumber
  <2>3. k # 0
      OBVIOUS
  <2>4. k - 1 \in 0..n /\ ~(k <= k - 1) /\ n - (k - 1) \in 1..n /\ (n - (k - 1)) - 1 = n - k
      BY <2>3
  <2>5. k - 1 \notin T
      BY <2>2, <2>4
  <2>6. h[n] \subseteq h[n - (k - 1)] /\ h[n - (k - 1)] \subseteq h[n - k]
      BY <2>4, <2>5
  <2> QED
      BY <2>6
<1> QED
    BY <1>1, <1>2

\* Some of the cells that have a count have one.
LEMMA NumberedSubset ==
    ASSUME NEW f, NEW K, Numbered(f, K), NEW L \in SUBSET K
    PROVE  Numbered(f, L)
BY DEF Numbered

\* One column: cells are only given up, and none only when no margin is exposed.
LEMMA ColumnProtected ==
    ASSUME Missing \notin Int, NEW f, NEW K, Numbered(f, K),
           NEW par, par.base \in Nat \ {0}, NEW i
    PROVE  /\ ProtectColumn(f, K, i, par) \subseteq K
           /\ ProtectColumn(f, K, i, par) = K =>
                \A m \in Margins(f, i) : ~Exposed(m, K)
<1>1. ProtectColumn(f, K, i, par) \subseteq K
    BY DEF ProtectColumn
<1>2. ASSUME NEW m \in Margins(f, i), Exposed(m, K)
      PROVE  ProtectColumn(f, K, i, par) # K
  <2>1. m \cap K # {} /\ m \cap K \in SUBSET K
      BY <1>2 DEF Exposed
  <2>2. Sacrifice(f, m \cap K, par) \in m \cap K
      BY <2>1, NumberedSubset, SacrificeIsFirst
  <2>3. Sacrifice(f, m \cap K, par) \notin ProtectColumn(f, K, i, par)
      BY <1>2 DEF ProtectColumn
  <2> QED
      BY <2>2, <2>3
<1> QED
    BY <1>1, <1>2

\* One pass, column by column.
PassColumns(kept, f, K, par) ==
    kept = [i \in 0..Width(f) |-> IF i = 0 THEN K ELSE ProtectColumn(f, kept[i - 1], i, par)]

\* The recursive function in ProtectOnce has values.
LEMMA PassDefined ==
    ASSUME NEW f, NEW K, Width(f) \in Nat, NEW par
    PROVE  \E kept : PassColumns(kept, f, K, par) /\ ProtectOnce(f, K, par) = kept[Width(f)]
<1> DEFINE U == SUBSET K
           G == [p \in Nat \X U |-> ProtectColumn(f, p[2], p[1], par)]
           w == Width(f)
<1>1. G \in [Nat \X U -> U]
  <2>1. \A p \in Nat \X U : ProtectColumn(f, p[2], p[1], par) \in U
      BY DEF ProtectColumn
  <2> QED
      BY <2>1
<1>2. PICK h \in [0..w -> U] : Iterates(h, K, G, w)
  <2>1. K \in U /\ w \in Nat
      OBVIOUS
  <2> HIDE DEF G, U, w
  <2> QED
      BY <1>1, <2>1, IteratesExist
<1>3. ASSUME NEW i \in 0..w, i # 0
      PROVE  G[<<i, h[i - 1]>>] = ProtectColumn(f, h[i - 1], i, par)
  <2>1. i - 1 \in 0..w
      BY <1>3
  <2>2. <<i, h[i - 1]>> \in Nat \X U
      BY <2>1
  <2> QED
      BY <2>2
<1>4. PassColumns(h, f, K, par)
  <2>1. h = [i \in 0..w |-> IF i = 0 THEN K ELSE G[<<i, h[i - 1]>>]]
      BY <1>2 DEF Iterates
  <2> HIDE DEF G
  <2>2. \A i \in 0..w : h[i] = IF i = 0 THEN K ELSE ProtectColumn(f, h[i - 1], i, par)
      BY <1>3, <2>1
  <2> QED
      BY <2>1, <2>2 DEF PassColumns
<1> DEFINE kept == CHOOSE g : PassColumns(g, f, K, par)
<1>5. PassColumns(kept, f, K, par)
    BY <1>4
<1>6. ProtectOnce(f, K, par) = kept[w]
    BY DEF ProtectOnce, PassColumns
<1> QED
    BY <1>5, <1>6

\* One pass: cells are only given up, and none only when no margin is exposed.
LEMMA PassProtects ==
    ASSUME Missing \notin Int, NEW f, NEW K, Numbered(f, K),
           NEW par, par.base \in Nat \ {0}
    PROVE  /\ ProtectOnce(f, K, par) \subseteq K
           /\ ProtectOnce(f, K, par) = K =>
                \A i \in 1..Width(f) : \A m \in Margins(f, i) : ~Exposed(m, K)
<1> DEFINE w == Width(f)
<1>1. w \in Nat
    BY NumberedKeys
<1>2. PICK kept : PassColumns(kept, f, K, par) /\ ProtectOnce(f, K, par) = kept[w]
    BY <1>1, PassDefined
<1>3. \A i \in 0..w : kept[i] = IF i = 0 THEN K ELSE ProtectColumn(f, kept[i - 1], i, par)
    BY <1>2 DEF PassColumns
<1> HIDE DEF w
<1>4. \A i \in 1..w : kept[i] \subseteq kept[i - 1]
  <2> SUFFICES ASSUME NEW i \in 1..w PROVE kept[i] \subseteq kept[i - 1]
      OBVIOUS
  <2>1. i \in 0..w /\ i # 0
      BY <1>1
  <2>2. kept[i] = ProtectColumn(f, kept[i - 1], i, par)
      BY <1>3, <2>1
  <2> QED
      BY <2>2 DEF ProtectColumn
<1>5. \A i \in 0..w : kept[i] \subseteq kept[0] /\ kept[w] \subseteq kept[i]
    BY <1>1, <1>4, Shrinking
<1>6. kept[0] = K
    BY <1>1, <1>3
<1>7. ASSUME kept[w] = K, NEW i \in 1..w
      PROVE  \A m \in Margins(f, i) : ~Exposed(m, K)
  <2>1. i - 1 \in 0..w /\ i \in 0..w /\ i # 0
      BY <1>1
  <2>2. kept[i] = K /\ kept[i - 1] = K
      BY <1>5, <1>6, <1>7, <2>1
  <2>3. kept[i] = ProtectColumn(f, kept[i - 1], i, par)
      BY <1>3, <2>1
  <2> QED
      BY <2>2, <2>3, ColumnProtected
<1>8. w \in 0..w
    BY <1>1
<1> QED
    BY <1>2, <1>5, <1>6, <1>7, <1>8 DEF w

\* n passes, one after the other.
Passes(after, f, K, par, n) ==
    after = [i \in 0..n |-> IF i = 0 THEN K ELSE ProtectOnce(f, after[i - 1], par)]

\* The recursive function in SecondarySuppress has values.
LEMMA PassesDefined ==
    ASSUME Missing \notin Int, NEW f, NEW K, Numbered(f, K), NEW n \in Nat,
           NEW par, par.base \in Nat \ {0}
    PROVE  \E after : Passes(after, f, K, par, n)
<1> DEFINE U == SUBSET K
           G == [p \in Nat \X U |-> ProtectOnce(f, p[2], par)]
<1>1. G \in [Nat \X U -> U]
  <2>1. \A p \in Nat \X U : ProtectOnce(f, p[2], par) \in U
      BY NumberedSubset, PassProtects
  <2> QED
      BY <2>1
<1>2. PICK h \in [0..n -> U] : Iterates(h, K, G, n)
  <2>1. K \in U
      OBVIOUS
  <2> HIDE DEF G, U
  <2> QED
      BY <1>1, <2>1, IteratesExist
<1>3. ASSUME NEW i \in 0..n, i # 0
      PROVE  G[<<i, h[i - 1]>>] = ProtectOnce(f, h[i - 1], par)
  <2>1. i - 1 \in 0..n
      BY <1>3
  <2>2. <<i, h[i - 1]>> \in Nat \X U
      BY <2>1
  <2> QED
      BY <2>2
<1>4. Passes(h, f, K, par, n)
  <2>1. h = [i \in 0..n |-> IF i = 0 THEN K ELSE G[<<i, h[i - 1]>>]]
      BY <1>2 DEF Iterates
  <2> HIDE DEF G
  <2>2. \A i \in 0..n : h[i] = IF i = 0 THEN K ELSE ProtectOnce(f, h[i - 1], par)
      BY <1>3, <2>1
  <2> QED
      BY <2>1, <2>2 DEF Passes
<1> QED
    BY <1>4

\* A pass that gives up a cell keeps the bound on what is left.
LEMMA OneFewer ==
    \A n, c, d \in Nat : \A i \in 1..n : c <= n - (i - 1) /\ d <= c /\ c # d => d <= n - i
OBVIOUS

\* As many passes as there are cells are enough: what is left then is not
\* changed by one more.
LEMMA PassesSettle ==
    ASSUME Missing \notin Int, NEW f, NEW K, Numbered(f, K),
           NEW par, par.base \in Nat \ {0},
           NEW after, Passes(after, f, K, par, Cardinality(K))
    PROVE  /\ after[Cardinality(K)] \subseteq K
           /\ ProtectOnce(f, after[Cardinality(K)], par) = after[Cardinality(K)]
<1> DEFINE n == Cardinality(K)  once(L) == ProtectOnce(f, L, par)
           Ok(i) == /\ after[i] \subseteq K
                    /\ once(after[i]) = after[i] \/ Cardinality(after[i]) <= n - i
           T == {i \in 0..n : ~Ok(i)}
<1>1. IsFiniteSet(K) /\ n \in Nat
    BY NumberedKeys, FS_CardinalityType
<1>2. \A i \in 0..n : after[i] = IF i = 0 THEN K ELSE once(after[i - 1])
    BY DEF Passes
<1>3. T = {}
  <2>1. SUFFICES ASSUME T # {} PROVE FALSE
      OBVIOUS
  <2>2. PICK i \in T : \A j \in T : i <= j
    <3>1. T \in SUBSET Nat
        OBVIOUS
    <3> HIDE DEF T
    <3> QED
        BY <2>1, <3>1, LeastNumber
  <2>3. CASE i = 0
    <3>1. after[0] = K
        BY <1>1, <1>2
    <3> HIDE DEF once
    <3> QED
        BY <1>1, <2>3, <3>1
  <2>4. CASE i # 0
    <3>1. i \in 1..n /\ i - 1 \in 0..n /\ ~(i <= i - 1)
      <4>1. i \in 0..n
          OBVIOUS
      <4> HIDE DEF n, T
      <4> QED
          BY <2>4, <4>1, <1>1
    <3>2. i - 1 \notin T
        BY <2>2, <3>1
    <3> DEFINE a == after[i - 1]
    <3>3. /\ a \subseteq K
          /\ once(a) = a \/ Cardinality(a) <= n - (i - 1)
        BY <3>1, <3>2
    <3>4. after[i] = once(a)
        BY <1>2, <3>1
    <3>5. once(a) \subseteq a
        BY <3>3, NumberedSubset, PassProtects
    <3>6. IsFiniteSet(a) /\ Cardinality(a) \in Nat
        BY <1>1, <3>3, FS_Subset, FS_CardinalityType
    <3>7. /\ IsFiniteSet(once(a)) /\ Cardinality(once(a)) \in Nat
          /\ Cardinality(once(a)) <= Cardinality(a)
          /\ Cardinality(a) = Cardinality(once(a)) => a = once(a)
      <4> HIDE DEF a, once
      <4> QED
          BY <3>5, <3>6, FS_Subset, FS_CardinalityType
    <3>8. CASE once(a) = a
        BY <3>1, <3>3, <3>4, <3>8
    <3>9. CASE once(a) # a
      <4>1. Cardinality(a) <= n - (i - 1) /\ Cardinality(a) # Cardinality(once(a))
          BY <3>3, <3>7, <3>9
      <4>2. Cardinality(once(a)) <= n - i
        <5> HIDE DEF a, once, n
        <5> QED
            BY <1>1, <3>1, <3>6, <3>7, <4>1, OneFewer
      <4>3. Cardinality(after[i]) <= n - i /\ after[i] \subseteq K
          BY <3>3, <3>4, <3>5, <4>2
      <4> QED
          BY <4>3
    <3> QED
        BY <3>8, <3>9
  <2> QED
      BY <2>3, <2>4
<1>4. n \in 0..n
    BY <1>1
<1>5. Ok(n)
    BY <1>3, <1>4
<1>6. CASE Cardinality(after[n]) <= n - n
  <2>1. IsFiniteSet(after[n])
      BY <1>1, <1>5, FS_Subset
  <2>2. Cardinality(after[n]) \in Nat
      BY <2>1, FS_CardinalityType
  <2>3. Cardinality(after[n]) = 0
      BY <1>1, <1>6, <2>2
  <2>4. after[n] = {}
      BY <2>1, <2>3, FS_EmptySet
  <2>5. once(after[n]) \subseteq after[n]
      BY <1>5, NumberedSubset, PassProtects
  <2> QED
      BY <1>5, <2>4, <2>5
<1> QED
    BY <1>5, <1>6

\* What complementary suppression leaves exposes no margin.
LEMMA SecondaryProtects ==
    ASSUME Missing \notin Int, NEW f, NEW K, Numbered(f, K), K # DOMAIN f.cells,
           Width(f) # 0, NEW par, par.base \in Nat \ {0}
    PROVE  /\ SecondarySuppress(f, K, par) \subseteq K
           /\ \A i \in 1..Width(f) : \A m \in Margins(f, i) :
                ~Exposed(m, SecondarySuppress(f, K, par))
<1> DEFINE n == Cardinality(K)
           after == CHOOSE h : Passes(h, f, K, par, n)
<1>1. n \in Nat
    BY NumberedKeys, FS_CardinalityType
<1>2. Passes(after, f, K, par, n)
    BY <1>1, PassesDefined
<1>3. SecondarySuppress(f, K, par) = after[n]
    BY DEF SecondarySuppress, Passes, Numbered, IsFrame, Counted, CountColumns
<1>4. after[n] \subseteq K /\ ProtectOnce(f, after[n], par) = after[n]
    BY <1>2, PassesSettle
<1> HIDE DEF after
<1> QED
    BY <1>3, <1>4, NumberedSubset, PassProtects

\* Complementary suppression only withholds.
LEMMA SecondarySubset ==
    ASSUME Missing \notin Int, NEW f, NEW K, Numbered(f, K),
           NEW par, par.base \in Nat \ {0}
    PROVE  SecondarySuppress(f, K, par) \subseteq K
<1>1. CASE Width(f) = 0 \/ K = DOMAIN f.cells
    BY <1>1 DEF SecondarySuppress
<1>2. CASE Width(f) # 0 /\ K # DOMAIN f.cells
    BY <1>2, SecondaryProtects
<1> QED
    BY <1>1, <1>2

-----------------------------------------------------------------------------
(* Tables that are released alike *)

\* Two tables that differ, on some cells, in nothing that leaves.
Alike(f, g, K, par) ==
    /\ Numbered(f, K) /\ Numbered(g, K)
    /\ DOMAIN f.cells = DOMAIN g.cells /\ f.columns = g.columns /\ f.domains = g.domains
    /\ \A k \in K : ReleasedCount(f, k, par) = ReleasedCount(g, k, par)

\* Tables alike on some cells are alike on fewer.
LEMMA AlikeSubset ==
    ASSUME NEW f, NEW g, NEW K, NEW par, Alike(f, g, K, par), NEW L \in SUBSET K
    PROVE  Alike(f, g, L, par)
BY NumberedSubset DEF Alike

\* Tables that round alike have their cells in the same orders.
LEMMA OrdersAlike ==
    ASSUME NEW f, NEW g, NEW K, NEW par, Alike(f, g, K, par), NEW k \in K, NEW l \in K
    PROVE  /\ Smaller(f, k, l, par) <=> Smaller(g, k, l, par)
           /\ Larger(f, k, l, par) <=> Larger(g, k, l, par)
BY DEF Alike, Smaller, Larger

\* The same cell is given up.
LEMMA SacrificeAlike ==
    ASSUME Missing \notin Int, NEW f, NEW g, NEW K,
           NEW par, par.base \in Nat \ {0}, Alike(f, g, K, par), K # {}
    PROVE  Sacrifice(f, K, par) = Sacrifice(g, K, par)
<1> DEFINE s == Sacrifice(g, K, par)
<1>1. Numbered(f, K) /\ Numbered(g, K)
    BY DEF Alike
<1>2. s \in K /\ \A l \in K \ {s} : Smaller(g, s, l, par)
    BY <1>1, SacrificeIsFirst
<1> HIDE DEF s
<1>3. \A l \in K \ {s} : Smaller(f, s, l, par)
    BY <1>2, OrdersAlike
<1>4. Sacrifice(f, K, par) = s
    BY <1>1, <1>2, <1>3, SacrificeUnique
<1> QED
    BY <1>4 DEF s

\* The same cells are given up for one column.
LEMMA ColumnAlike ==
    ASSUME Missing \notin Int, NEW f, NEW g, NEW K,
           NEW par, par.base \in Nat \ {0}, Alike(f, g, K, par), NEW i
    PROVE  ProtectColumn(f, K, i, par) = ProtectColumn(g, K, i, par)
<1>1. Margins(f, i) = Margins(g, i)
    BY DEF Margins, Width, Alike
<1>2. ASSUME NEW m \in Margins(f, i), Exposed(m, K)
      PROVE  Sacrifice(f, m \cap K, par) = Sacrifice(g, m \cap K, par)
  <2>1. m \cap K # {} /\ m \cap K \in SUBSET K
      BY <1>2 DEF Exposed
  <2>2. Alike(f, g, m \cap K, par)
      BY <2>1, AlikeSubset
  <2> QED
      BY <2>1, <2>2, SacrificeAlike
<1>3. {Sacrifice(f, m \cap K, par) : m \in {m \in Margins(f, i) : Exposed(m, K)}}
        = {Sacrifice(g, m \cap K, par) : m \in {m \in Margins(g, i) : Exposed(m, K)}}
    BY <1>1, <1>2
<1> QED
    BY <1>3 DEF ProtectColumn

\* The same cells are given up in one pass.
LEMMA PassAlike ==
    ASSUME Missing \notin Int, NEW f, NEW g, NEW K,
           NEW par, par.base \in Nat \ {0}, Alike(f, g, K, par)
    PROVE  ProtectOnce(f, K, par) = ProtectOnce(g, K, par)
<1> DEFINE w == Width(f)
<1>1. w \in Nat /\ Width(g) = w
    BY NumberedKeys DEF Alike, Width
<1>2. PICK a : PassColumns(a, f, K, par) /\ ProtectOnce(f, K, par) = a[w]
    BY <1>1, PassDefined
<1>3. PICK b : PassColumns(b, g, K, par) /\ ProtectOnce(g, K, par) = b[w]
    BY <1>1, PassDefined
<1>4. /\ \A i \in 0..w : a[i] = IF i = 0 THEN K ELSE ProtectColumn(f, a[i - 1], i, par)
      /\ \A i \in 0..w : b[i] = IF i = 0 THEN K ELSE ProtectColumn(g, b[i - 1], i, par)
    BY <1>1, <1>2, <1>3 DEF PassColumns
<1> HIDE DEF w
<1> DEFINE T == {i \in 0..w : ~(a[i] \subseteq K /\ a[i] = b[i])}
<1>5. T = {}
  <2>1. SUFFICES ASSUME T # {} PROVE FALSE
      OBVIOUS
  <2>2. PICK i \in T : \A j \in T : i <= j
    <3>1. T \in SUBSET Nat
        OBVIOUS
    <3> HIDE DEF T
    <3> QED
        BY <2>1, <3>1, LeastNumber
  <2>3. i # 0
      BY <1>4, <1>1
  <2>4. i \in 0..w /\ i - 1 \in 0..w /\ ~(i <= i - 1)
      BY <2>3, <1>1
  <2>5. i - 1 \notin T
      BY <2>2, <2>4
  <2>6. a[i - 1] \subseteq K /\ a[i - 1] = b[i - 1]
      BY <2>4, <2>5
  <2>7. Alike(f, g, a[i - 1], par)
      BY <2>6, AlikeSubset
  <2>8. ProtectColumn(f, a[i - 1], i, par) = ProtectColumn(g, a[i - 1], i, par)
      BY <2>7, ColumnAlike
  <2>9. ProtectColumn(f, a[i - 1], i, par) \subseteq a[i - 1]
      BY DEF ProtectColumn
  <2>10. a[i] = b[i] /\ a[i] \subseteq K
      BY <1>4, <2>3, <2>4, <2>6, <2>8, <2>9
  <2> QED
      BY <2>10
<1>6. w \in 0..w
    BY <1>1
<1>7. a[w] = b[w]
    BY <1>5, <1>6
<1> QED
    BY <1>2, <1>3, <1>7

\* The same cells are left.
LEMMA SecondaryAlike ==
    ASSUME Missing \notin Int, NEW f, NEW g, NEW K,
           NEW par, par.base \in Nat \ {0}, Alike(f, g, K, par)
    PROVE  SecondarySuppress(f, K, par) = SecondarySuppress(g, K, par)
<1> DEFINE n == Cardinality(K)
           a == CHOOSE h : Passes(h, f, K, par, n)
           b == CHOOSE h : Passes(h, g, K, par, n)
<1>1. Numbered(f, K) /\ Numbered(g, K) /\ Width(f) = Width(g) /\ DOMAIN f.cells = DOMAIN g.cells
      /\ Counted(f) = Counted(g)
    BY DEF Alike, Width, Counted
<1>2. n \in Nat
    BY <1>1, NumberedKeys, FS_CardinalityType
<1>3. CASE ~Counted(f) \/ Width(f) = 0 \/ K = DOMAIN f.cells
    BY <1>1, <1>3 DEF SecondarySuppress
<1>4. CASE ~(~Counted(f) \/ Width(f) = 0 \/ K = DOMAIN f.cells)
  <2>1. Passes(a, f, K, par, n) /\ Passes(b, g, K, par, n)
      BY <1>1, <1>2, PassesDefined
  <2>2. SecondarySuppress(f, K, par) = a[n] /\ SecondarySuppress(g, K, par) = b[n]
      BY <1>1, <1>4 DEF SecondarySuppress, Passes
  <2>3. /\ \A i \in 0..n : a[i] = IF i = 0 THEN K ELSE ProtectOnce(f, a[i - 1], par)
        /\ \A i \in 0..n : b[i] = IF i = 0 THEN K ELSE ProtectOnce(g, b[i - 1], par)
    <3> HIDE DEF a, b, n
    <3> QED
        BY <2>1 DEF Passes
  <2> HIDE DEF a, b, n
  <2> DEFINE T == {i \in 0..n : ~(a[i] \subseteq K /\ a[i] = b[i])}
  <2>4. T = {}
    <3>1. SUFFICES ASSUME T # {} PROVE FALSE
        OBVIOUS
    <3>2. PICK i \in T : \A j \in T : i <= j
      <4>1. T \in SUBSET Nat
          OBVIOUS
      <4> HIDE DEF T
      <4> QED
          BY <3>1, <4>1, LeastNumber
    <3>3. i # 0
        BY <1>2, <2>3
    <3>4. i \in 0..n /\ i - 1 \in 0..n /\ ~(i <= i - 1)
        BY <1>2, <3>3
    <3>5. i - 1 \notin T
        BY <3>2, <3>4
    <3>6. a[i - 1] \subseteq K /\ a[i - 1] = b[i - 1]
        BY <3>4, <3>5
    <3>7. Alike(f, g, a[i - 1], par)
        BY <3>6, AlikeSubset
    <3>8. ProtectOnce(f, a[i - 1], par) = ProtectOnce(g, a[i - 1], par)
        BY <3>7, PassAlike
    <3>9. ProtectOnce(f, a[i - 1], par) \subseteq a[i - 1]
        BY <3>7, PassProtects DEF Alike
    <3>10. a[i] = b[i] /\ a[i] \subseteq K
        BY <2>3, <3>3, <3>4, <3>6, <3>8, <3>9
    <3> QED
        BY <3>10
  <2>5. n \in 0..n
      BY <1>2
  <2>6. a[n] = b[n]
      BY <2>4, <2>5
  <2> QED
      BY <2>2, <2>6
<1> QED
    BY <1>3, <1>4

\* The same rows are listed in the same order.
LEMMA FinalizeAlike ==
    ASSUME Missing \notin Int, NEW f, NEW g, NEW K,
           NEW par, par.base \in Nat \ {0}, Alike(f, g, K, par)
    PROVE  Finalize(f, K, par) = Finalize(g, K, par)
<1>1. Numbered(f, K) /\ Numbered(g, K)
    BY DEF Alike
<1> DEFINE n == Cardinality(K)
           at(h, k) == Cardinality({l \in K : Larger(h, l, k, par)})
<1>2. \A k \in K : at(f, k) = at(g, k)
  <2> SUFFICES ASSUME NEW k \in K PROVE at(f, k) = at(g, k)
      OBVIOUS
  <2>1. {l \in K : Larger(f, l, k, par)} = {l \in K : Larger(g, l, k, par)}
      BY OrdersAlike
  <2> QED
      BY <2>1
<1>3. ASSUME NEW i \in 1..n PROVE RowAt(f, K, par, i) \in K /\ RowAt(f, K, par, i) = RowAt(g, K, par, i)
  <2> DEFINE x == RowAt(f, K, par, i)  y == RowAt(g, K, par, i)
  <2>1. x \in K /\ y \in K /\ at(f, x) = i - 1 /\ at(g, y) = i - 1
      BY <1>1, FinalizedRows
  <2>2. \A k, l \in K : at(f, k) = at(f, l) => k = l
      BY <1>1, FinalizedRows
  <2>3. at(f, y) = i - 1
    <3> HIDE DEF at, x, y
    <3> QED
        BY <1>2, <2>1
  <2> HIDE DEF at, x, y
  <2>4. x = y
      BY <2>1, <2>2, <2>3
  <2> QED
      BY <2>1, <2>4 DEF x, y
<1>4. \A i \in 1..n : ReleasedCount(f, RowAt(f, K, par, i), par) = ReleasedCount(g, RowAt(g, K, par, i), par)
    BY <1>3 DEF Alike
<1>5. Finalize(f, K, par) = [i \in 1..n |-> [key |-> RowAt(f, K, par, i), n |-> ReleasedCount(f, RowAt(f, K, par, i), par)]]
    BY DEF Finalize, RowAt
<1>6. Finalize(g, K, par) = [i \in 1..n |-> [key |-> RowAt(g, K, par, i), n |-> ReleasedCount(g, RowAt(g, K, par, i), par)]]
    BY DEF Finalize, RowAt
<1> HIDE DEF n
<1> QED
    BY <1>3, <1>4, <1>5, <1>6

\* The same answer is given to the same verdicts.
LEMMA ApplyAlike ==
    ASSUME Missing \notin Int, NEW f, NEW g, NEW v,
           NEW par, par.base \in Nat \ {0}, Alike(f, g, DOMAIN f.cells \ v.suppress, par)
    PROVE  Apply(f, v, par) = Apply(g, v, par)
<1> DEFINE P == DOMAIN f.cells \ v.suppress
           K == IF v.suppress = {} THEN P ELSE SecondarySuppress(f, P, par)
<1>1. DOMAIN g.cells \ v.suppress = P
    BY DEF Alike
<1>2. SecondarySuppress(f, P, par) = SecondarySuppress(g, P, par)
    BY SecondaryAlike
<1>3. K \subseteq P
    BY SecondarySubset DEF Alike
<1>4. Alike(f, g, K, par)
  <2> HIDE DEF K, P
  <2> QED
      BY <1>3, AlikeSubset DEF P
<1>5. Finalize(f, K, par) = Finalize(g, K, par)
  <2> HIDE DEF K
  <2> QED
      BY <1>4, FinalizeAlike
<1> QED
    BY <1>1, <1>2, <1>5 DEF Apply

-----------------------------------------------------------------------------
(* The decision on a table *)

\* The stand-in and another vetter together; the cells they pass; those left to release.
Verdicts(f, v) == CompositeVetter(StandinVetter(f, Par), v)
Passed(f, v) == DOMAIN f.cells \ Verdicts(f, v).suppress
Left(f, v) == IF Verdicts(f, v).suppress = {} THEN Passed(f, v)
              ELSE SecondarySuppress(f, Passed(f, v), Par)

\* A rule fails on cells of the table.
LEMMA FailsAreCells ==
    ASSUME NEW f, NEW v, IsVerdict(v, f)
    PROVE  Verdicts(f, v).suppress \subseteq DOMAIN f.cells
BY DEF Verdicts, CompositeVetter, StandinVetter, Fails, IsVerdict

\* A cell that passes the rules.
LEMMA PassedCells ==
    ASSUME Missing \notin Int, NEW f, IsFrame(f), NEW v, NEW k \in Passed(f, v)
    PROVE  LET c == f.cells[k] IN
           /\ c.n \in Nat /\ c.n >= Par.threshold
           /\ c.donors \in Nat /\ c.donors >= Par.threshold
           /\ "value" \in f.columns => c.finite
           /\ "dominance" \in f.columns => Within(c.share, DominanceBound(f, Par))
           /\ "influence" \in f.columns => Within(c.influence, Par.influence)
           /\ f.known => \A i \in 1..Width(f) :
                f.domains[i] # Missing => k[i] \in f.domains[i] \cup {Missing}
<1> DEFINE c == f.cells[k]
<1>1. k \in DOMAIN f.cells /\ \A r \in CellRules : k \notin Fails(r, f, Par)
    BY DEF Passed, Verdicts, CompositeVetter, StandinVetter
<1>2. c \in Cell /\ {"n", "n_donors"} \subseteq f.columns
    BY <1>1 DEF IsFrame, CountColumns
<1>3. c.n \in CellNumbers /\ c.donors \in CellNumbers
    BY <1>2 DEF Cell
<1>4. c.n # Missing /\ ~(c.n < Par.threshold) /\ c.donors # Missing /\ ~(c.donors < Par.threshold)
    BY <1>1, <1>2 DEF Fails, CellRules
<1>5. "value" \in f.columns => c.finite
    BY <1>1, <1>2 DEF Fails, CellRules, Counted, CountColumns
<1>6. "dominance" \in f.columns => Within(c.share, DominanceBound(f, Par))
    BY <1>1 DEF Fails, CellRules
<1>7. "influence" \in f.columns => Within(c.influence, Par.influence)
    BY <1>1 DEF Fails, CellRules
<1>8. f.known => \A i \in 1..Width(f) :
                f.domains[i] # Missing => k[i] \in f.domains[i] \cup {Missing}
    BY <1>1 DEF Fails, CellRules
<1>9. Par.threshold \in Nat
    BY ReleasesAssumption
<1>10. c.n \in Nat /\ c.donors \in Nat
    BY <1>3, <1>4 DEF CellNumbers
<1>11. c.n >= Par.threshold /\ c.donors >= Par.threshold
    BY <1>4, <1>9, <1>10
<1> QED
    BY <1>5, <1>6, <1>7, <1>8, <1>10, <1>11

\* A cell that passes the stand-in has a count.
LEMMA PassedNumbered ==
    ASSUME Missing \notin Int, NEW f, IsFrame(f), NEW v
    PROVE  Numbered(f, Passed(f, v)) /\ Numbered(f, Left(f, v)) /\ Left(f, v) \subseteq Passed(f, v)
<1>1. Par.base \in Nat \ {0}
    BY ReleasesAssumption
<1>2. Numbered(f, Passed(f, v))
    BY PassedCells DEF Numbered, Passed
<1>3. Left(f, v) \subseteq Passed(f, v)
    BY <1>1, <1>2, SecondarySubset DEF Left
<1> QED
    BY <1>2, <1>3, NumberedSubset

\* What is applied: nothing, or the table of the cells left.
LEMMA AppliedTable ==
    ASSUME Missing \notin Int, NEW f, IsFrame(f), NEW v,
           NEW a, a = Apply(f, Verdicts(f, v), Par)
    PROVE  \/ /\ Verdicts(f, v).deny
              /\ a.table = <<>> /\ a.action = "deny" /\ TableKeys(a) = {}
           \/ /\ ~Verdicts(f, v).deny
              /\ a.table = Finalize(f, Left(f, v), Par)
              /\ TableKeys(a) = Left(f, v)
              /\ Len(a.table) = Cardinality(Left(f, v))
              /\ Cardinality(Left(f, v)) \in Nat
              /\ a.table = <<>> <=> Left(f, v) = {}
              /\ \E noted :
                    /\ a.findings = Granularity(Left(f, v), noted, Par)
                    /\ \A x \in noted : x \in Verdicts(f, v).findings \/ x.severity = "low"
<1> DEFINE w == Verdicts(f, v)
<1>1. Par.base \in Nat \ {0}
    BY ReleasesAssumption
<1>2. CASE w.deny
  <2>1. a.table = <<>> /\ a.action = "deny"
      BY <1>2 DEF Apply
  <2>2. DOMAIN a.table = {}
      BY <2>1
  <2> QED
      BY <1>2, <2>1, <2>2 DEF TableKeys
<1>3. CASE ~w.deny
  <2> DEFINE noted == w.findings
                 \cup {FindingOf("low", "secondary_suppression") : x \in Passed(f, v) \ Left(f, v)}
  <2>1. a.table = Finalize(f, Left(f, v), Par) /\ a.findings = Granularity(Left(f, v), noted, Par)
      BY <1>3 DEF Apply, Left, Passed
  <2>2. \A x \in noted : x \in w.findings \/ x.severity = "low"
      BY DEF FindingOf
  <2>3. Numbered(f, Left(f, v))
      BY PassedNumbered
  <2> DEFINE t == Finalize(f, Left(f, v), Par)
  <2>4. /\ Len(t) = Cardinality(Left(f, v))
        /\ {t[i].key : i \in DOMAIN t} = Left(f, v)
        /\ t = <<>> <=> Left(f, v) = {}
      BY <1>1, <2>3, FinalizedTable
  <2>5. Cardinality(Left(f, v)) \in Nat
      BY <1>1, <2>3, FinalizedRows
  <2> HIDE DEF noted, t
  <2> QED
      BY <1>3, <2>1, <2>2, <2>4, <2>5 DEF TableKeys, t
<1> QED
    BY <1>2, <1>3

\* A question about one table holds what apply makes of it.
TableAsked == Is("table") =>
    \E f \in Frames : \E v \in OtherVerdicts(f) :
        asked = [about |-> "table", frame |-> f, applied |-> Apply(f, Verdicts(f, v), Par)]

\* A row that leaves is a cell every rule passed.
LEMMA CellsSafe == TableAsked => ReleasedCellsSafe
<1> SUFFICES ASSUME TableAsked, Is("table") PROVE ReleasedCellsSafe
    BY DEF ReleasedCellsSafe
<1>f. PICK f \in Frames : \E v \in OtherVerdicts(f) :
        asked = [about |-> "table", frame |-> f, applied |-> Apply(f, Verdicts(f, v), Par)]
    BY DEF TableAsked
<1>1. PICK v \in OtherVerdicts(f) :
        asked = [about |-> "table", frame |-> f, applied |-> Apply(f, Verdicts(f, v), Par)]
    BY <1>f
<1>2. IsFrame(f) /\ IsVerdict(v, f) /\ Missing \notin Int
    BY ReleasesAssumption
<1> DEFINE a == Apply(f, Verdicts(f, v), Par)
<1>3. asked.frame = f /\ asked.applied = a
    BY <1>1
<1> HIDE DEF a
<1>4. ASSUME NEW k \in TableKeys(a)
      PROVE  k \in Passed(f, v) /\ DOMAIN k = 1..Width(f)
  <2>1. k \in Left(f, v)
      BY <1>2, <1>4, AppliedTable DEF a
  <2>2. k \in Passed(f, v)
      BY <2>1, <1>2, PassedNumbered
  <2>3. k \in [1..Width(f) -> KeyLevels]
      BY <2>2, <1>2 DEF Passed, IsFrame
  <2> QED
      BY <2>2, <2>3
<1>5. "identifier" \in f.columns => a.table = <<>>
  <2> SUFFICES ASSUME "identifier" \in f.columns PROVE a.table = <<>>
      OBVIOUS
  <2>1. CASE Verdicts(f, v).deny
      BY <2>1, <1>2, AppliedTable DEF a
  <2>2. CASE ~Verdicts(f, v).deny
    <3>1. FindingOf("high", "identifier_egress") \notin Findings(f, Par)
        BY <2>2 DEF Verdicts, CompositeVetter, StandinVetter, FindingOf, CellRules
    <3>2. DOMAIN f.cells = {}
        BY <3>1 DEF Findings
    <3>3. Left(f, v) = {}
        BY <3>2, <1>2, PassedNumbered DEF Passed
    <3> QED
        BY <2>2, <3>3, <1>2, AppliedTable DEF a
  <2> QED
      BY <2>1, <2>2
<1>6. ASSUME NEW k \in TableKeys(a)
      PROVE  LET c == f.cells[k] IN
              /\ c.n # Missing /\ c.n >= Par.threshold
              /\ c.donors # Missing /\ c.donors >= Par.threshold
              /\ "value" \in f.columns => c.finite
              /\ "dominance" \in f.columns => Within(c.share, DominanceBound(f, Par))
              /\ "influence" \in f.columns => Within(c.influence, Par.influence)
              /\ f.known => \A i \in DOMAIN k :
                    f.domains[i] # Missing => k[i] \in f.domains[i] \cup {Missing}
  <2>1. k \in Passed(f, v) /\ DOMAIN k = 1..Width(f)
      BY <1>4
  <2>2. \A n \in Nat : n # Missing
      BY <1>2
  <2> QED
      BY <1>2, <2>1, <2>2, PassedCells
<1> QED
    BY <1>3, <1>5, <1>6 DEF ReleasedCellsSafe, Within, DominanceBound

\* Complementary suppression ran to its end, so no level is left with one withheld cell.
LEMMA NoneAlone == TableAsked => NoLoneCell
<1> SUFFICES ASSUME TableAsked, Is("table") PROVE NoLoneCell
    BY DEF NoLoneCell
<1>f. PICK f \in Frames : \E v \in OtherVerdicts(f) :
        asked = [about |-> "table", frame |-> f, applied |-> Apply(f, Verdicts(f, v), Par)]
    BY DEF TableAsked
<1>1. PICK v \in OtherVerdicts(f) :
        asked = [about |-> "table", frame |-> f, applied |-> Apply(f, Verdicts(f, v), Par)]
    BY <1>f
<1>2. IsFrame(f) /\ IsVerdict(v, f) /\ Missing \notin Int /\ Par.base \in Nat \ {0}
    BY ReleasesAssumption
<1> DEFINE a == Apply(f, Verdicts(f, v), Par)
           safe(s) == Cardinality(s \ TableKeys(a)) = 1 => s \cap TableKeys(a) = {}
           w == Width(f)
<1>3. asked.frame = f /\ asked.applied = a
    BY <1>1
<1>4. SUFFICES IF w = 1 THEN safe(DOMAIN f.cells)
               ELSE \A i \in 1..w, l \in DOMAIN f.cells :
                      l[i] # Missing => safe({k \in DOMAIN f.cells : k[i] = l[i]})
    BY <1>3 DEF NoLoneCell
<1>5. CASE Verdicts(f, v).deny
  <2>1. TableKeys(a) = {}
      BY <1>2, <1>5, AppliedTable
  <2> QED
      BY <2>1
<1>6. CASE ~Verdicts(f, v).deny
  <2>1. TableKeys(a) = Left(f, v)
      BY <1>2, <1>6, AppliedTable
  <2>2. CASE Verdicts(f, v).suppress = {}
    <3>1. TableKeys(a) = DOMAIN f.cells
        BY <2>1, <2>2 DEF Left, Passed
    <3>2. \A s \in SUBSET DOMAIN f.cells : s \ TableKeys(a) = {}
        BY <3>1
    <3>3. Cardinality({}) = 0
        BY FS_EmptySet
    <3>4. \A s \in SUBSET DOMAIN f.cells : safe(s)
        BY <3>2, <3>3
    <3> HIDE DEF safe
    <3> QED
        BY <3>4
  <2>3. CASE Verdicts(f, v).suppress # {}
    <3>1. Passed(f, v) # DOMAIN f.cells
        BY <2>3, <1>2, FailsAreCells DEF Passed
    <3>2. Numbered(f, Passed(f, v))
        BY <1>2, PassedNumbered
    <3>3. Left(f, v) = SecondarySuppress(f, Passed(f, v), Par)
        BY <2>3 DEF Left
    <3>4. w # 0 => \A i \in 1..w : \A m \in Margins(f, i) : ~Exposed(m, Left(f, v))
        BY <1>2, <3>1, <3>2, <3>3, SecondaryProtects
    <3>5. \A i \in 1..w : \A m \in Margins(f, i) : safe(m)
        BY <2>1, <3>4 DEF Exposed
    <3>6. w = 1 => DOMAIN f.cells \in Margins(f, 1)
        BY DEF Margins
    <3>7. ASSUME w # 1, NEW i \in 1..w, NEW l \in DOMAIN f.cells, l[i] # Missing
          PROVE  {k \in DOMAIN f.cells : k[i] = l[i]} \in Margins(f, i)
        BY <3>7 DEF Margins
    <3> HIDE DEF safe, a
    <3> QED
        BY <3>5, <3>6, <3>7
  <2> QED
      BY <2>2, <2>3
<1> QED
    BY <1>5, <1>6

\* No finding but too_granular can send a table to a human, and it counts what leaves.
LEMMA ReviewIsOfRelease == TableAsked => ReviewedByRelease
<1> SUFFICES ASSUME TableAsked, Is("table") PROVE ReviewedByRelease
    BY DEF ReviewedByRelease
<1>f. PICK f \in Frames : \E v \in OtherVerdicts(f) :
        asked = [about |-> "table", frame |-> f, applied |-> Apply(f, Verdicts(f, v), Par)]
    BY DEF TableAsked
<1>1. PICK v \in OtherVerdicts(f) :
        asked = [about |-> "table", frame |-> f, applied |-> Apply(f, Verdicts(f, v), Par)]
    BY <1>f
<1>2. IsFrame(f) /\ IsVerdict(v, f) /\ Missing \notin Int /\ Par.rows \in Nat
    BY ReleasesAssumption
<1> DEFINE a == Apply(f, Verdicts(f, v), Par)
           left == Left(f, v)
<1>3. asked.applied = a
    BY <1>1
<1>4. CASE Verdicts(f, v).deny
  <2>1. a.action = "deny"
      BY <1>2, <1>4, AppliedTable
  <2>2. Decide(a, FALSE) = "denied"
      BY <2>1 DEF Decide
  <2> QED
      BY <1>3, <2>2 DEF ReviewedByRelease
<1>5. CASE ~Verdicts(f, v).deny
  <2>1. Len(a.table) = Cardinality(left) /\ Cardinality(left) \in Nat /\ (a.table = <<>> <=> left = {})
      BY <1>2, <1>5, AppliedTable
  <2>2. PICK noted : /\ a.findings = Granularity(left, noted, Par)
                     /\ \A x \in noted : x \in Verdicts(f, v).findings \/ x.severity = "low"
      BY <1>2, <1>5, AppliedTable
  <2>3. Cardinality(left) = 0 <=> left = {}
    <3>1. IsFiniteSet(left)
        BY <1>2, PassedNumbered, NumberedKeys, ReleasesAssumption
    <3> QED
        BY <3>1, FS_EmptySet
  <2>4. \A x \in noted : x.severity = "medium" /\ x.rule # "too_granular" => x.suppressable
    <3> SUFFICES ASSUME NEW x \in noted, x.severity = "medium", x.rule # "too_granular"
                 PROVE  x.suppressable
        OBVIOUS
    <3>1. x \in Verdicts(f, v).findings
        BY <2>2
    <3>2. x \in v.findings \/ x \in Findings(f, Par)
        BY <3>1 DEF Verdicts, CompositeVetter, StandinVetter
    <3>3. CASE x \in v.findings
        BY <3>3, <1>2 DEF IsVerdict
    <3>4. CASE x \in Findings(f, Par)
        BY <3>4 DEF Findings, FindingOf
    <3> QED
        BY <3>2, <3>3, <3>4
  <2> DEFINE many == Cardinality(left) > Par.rows
             residual == {x.severity : x \in {x \in a.findings : ~x.suppressable}}
  <2>5. "medium" \in residual <=> many
    <3>1. ASSUME "medium" \in residual PROVE many
      <4>1. PICK x \in a.findings : ~x.suppressable /\ x.severity = "medium"
          BY <3>1
      <4>2. x \in noted => x.rule = "too_granular"
          BY <2>4, <4>1
      <4> QED
          BY <2>2, <4>1, <4>2 DEF Granularity
    <3>2. ASSUME many PROVE "medium" \in residual
      <4> DEFINE x == FindingOf("medium", "too_granular")
      <4>1. x \in a.findings
          BY <2>2, <3>2 DEF Granularity
      <4>2. ~x.suppressable /\ x.severity = "medium"
          BY DEF FindingOf, CellRules
      <4> HIDE DEF x
      <4> QED
          BY <4>1, <4>2
    <3> QED
        BY <3>1, <3>2
  <2>6. Decide(a, FALSE) = "review" => "medium" \in residual
      BY DEF Decide, Hitl
  <2>7. Decide(a, FALSE) \in {"released", "redacted"} => "medium" \notin residual /\ a.table # <<>>
      BY DEF Decide, Hitl
  <2>8. Decide(a, FALSE) = "review" => Cardinality(left) > Par.rows
      BY <2>5, <2>6
  <2>9. Decide(a, FALSE) \in {"released", "redacted"} => 0 < Cardinality(left) /\ Cardinality(left) <= Par.rows
    <3>1. Decide(a, FALSE) \in {"released", "redacted"} => ~many /\ Cardinality(left) # 0
        BY <2>1, <2>3, <2>5, <2>7
    <3>2. \A k, r \in Nat : ~(k > r) /\ k # 0 => 0 < k /\ k <= r
        OBVIOUS
    <3> QED
        BY <1>2, <2>1, <3>1, <3>2
  <2> HIDE DEF a, left
  <2> QED
      BY <1>3, <2>1, <2>8, <2>9 DEF ReviewedByRelease
<1> QED
    BY <1>4, <1>5

\* A question about two tables holds two that differ in one count that rounds alike.
TwinsAsked == Is("twins") =>
    \E f \in Frames : \E k \in DOMAIN f.cells, m \in Counts :
        LET c == f.cells[k] IN
        /\ c.n # Missing /\ c.n >= Par.threshold /\ c.donors # Missing /\ c.donors >= Par.threshold
        /\ m # c.n /\ m >= Par.threshold /\ RoundTo(m, Par.base) = RoundTo(c.n, Par.base)
        /\ asked = [about |-> "twins", one |-> f,
                    two |-> [f EXCEPT !.cells[k] = [@ EXCEPT !.n = m, !.donors = m]]]

\* No rule tells the two tables apart, and what leaves is rounded.
LEMMA RoundedAlike == TwinsAsked => ReleaseOfRounded
<1> SUFFICES ASSUME TwinsAsked, Is("twins") PROVE ReleaseOfRounded
    BY DEF ReleaseOfRounded
<1>1. PICK f \in Frames :
        \E k \in DOMAIN f.cells, m \in Counts :
        LET c == f.cells[k] IN
        /\ c.n # Missing /\ c.n >= Par.threshold /\ c.donors # Missing /\ c.donors >= Par.threshold
        /\ m # c.n /\ m >= Par.threshold /\ RoundTo(m, Par.base) = RoundTo(c.n, Par.base)
        /\ asked = [about |-> "twins", one |-> f,
                    two |-> [f EXCEPT !.cells[k] = [@ EXCEPT !.n = m, !.donors = m]]]
    BY DEF TwinsAsked
<1>2. PICK k \in DOMAIN f.cells, m \in Counts :
        LET c == f.cells[k] IN
        /\ c.n # Missing /\ c.n >= Par.threshold /\ c.donors # Missing /\ c.donors >= Par.threshold
        /\ m # c.n /\ m >= Par.threshold /\ RoundTo(m, Par.base) = RoundTo(c.n, Par.base)
        /\ asked = [about |-> "twins", one |-> f,
                    two |-> [f EXCEPT !.cells[k] = [@ EXCEPT !.n = m, !.donors = m]]]
    BY <1>1
<1> DEFINE g == [f EXCEPT !.cells[k] = [@ EXCEPT !.n = m, !.donors = m]]
           c == f.cells[k]
<1>3. IsFrame(f) /\ Missing \notin Int /\ Par.threshold \in Nat /\ Par.base \in Nat \ {0} /\ m \in Nat
    BY ReleasesAssumption
<1>4. asked.one = f /\ asked.two = g
    BY <1>2
<1>5. c \in Cell /\ c.n \in CellNumbers /\ c.donors \in CellNumbers
    BY <1>3 DEF IsFrame, Cell
<1>6. /\ DOMAIN f = {"cells", "columns", "domains", "known", "class"}
      /\ DOMAIN c = {"n", "donors", "share", "influence", "finite"}
    BY <1>3, <1>5 DEF IsFrame, Cell
<1>7. /\ g.columns = f.columns /\ g.domains = f.domains /\ g.known = f.known /\ g.class = f.class
      /\ DOMAIN g = DOMAIN f /\ DOMAIN g.cells = DOMAIN f.cells
      /\ \A l \in DOMAIN f.cells : l # k => g.cells[l] = f.cells[l]
      /\ g.cells[k].n = m /\ g.cells[k].donors = m
      /\ g.cells[k].share = c.share /\ g.cells[k].influence = c.influence /\ g.cells[k].finite = c.finite
    BY <1>6
<1>8. IsFrame(g)
  <2>1. ASSUME NEW l \in DOMAIN f.cells PROVE g.cells[l] \in Cell
    <3>1. CASE l # k
        BY <1>3, <1>7, <3>1 DEF IsFrame
    <3>2. CASE l = k
      <4>1. g.cells[k] = [c EXCEPT !.n = m, !.donors = m]
          BY <1>6
      <4>2. m \in CellNumbers
          BY <1>3 DEF CellNumbers
      <4> HIDE DEF c, g
      <4> QED
          BY <1>5, <3>2, <4>1, <4>2 DEF Cell
    <3> QED
        BY <3>1, <3>2
  <2>2. g = [cells |-> g.cells, columns |-> g.columns, domains |-> g.domains,
             known |-> g.known, class |-> g.class]
      BY <1>6
  <2>3. g.cells \in [DOMAIN g.cells -> Cell]
    <3>1. g.cells = [l \in DOMAIN f.cells |-> g.cells[l]]
        BY <1>6
    <3> HIDE DEF g
    <3> QED
        BY <1>7, <2>1, <3>1
  <2> HIDE DEF g
  <2> QED
      BY <1>3, <1>7, <2>2, <2>3 DEF IsFrame, Width
<1>9. ASSUME NEW r \in CellRules PROVE Fails(r, g, Par) = Fails(r, f, Par)
  <2> SUFFICES ASSUME NEW l \in DOMAIN f.cells
               PROVE  l \in Fails(r, g, Par) <=> l \in Fails(r, f, Par)
      BY <1>7 DEF Fails
  <2>1. DominanceBound(g, Par) = DominanceBound(f, Par) /\ Width(g) = Width(f)
        /\ Counted(g) = Counted(f)
      BY <1>7 DEF DominanceBound, Width, Counted
  <2>2. CASE l # k
      BY <1>7, <2>1, <2>2 DEF Fails
  <2>3. CASE l = k
    <3>1. ~(m = Missing \/ m < Par.threshold)
        BY <1>2, <1>3
    <3>2. ~(c.n = Missing \/ c.n < Par.threshold) /\ ~(c.donors = Missing \/ c.donors < Par.threshold)
        BY <1>2, <1>3, <1>5 DEF CellNumbers
    <3> HIDE DEF g
    <3> QED
        BY <1>7, <2>1, <2>3, <3>1, <3>2 DEF Fails
  <2> QED
      BY <2>2, <2>3
<1>10. Findings(g, Par) = Findings(f, Par)
  <2>1. Counted(g) = Counted(f) /\ DOMAIN g.cells = DOMAIN f.cells /\ g.columns = f.columns
      BY <1>7 DEF Counted
  <2>2. {r \in CellRules : Fails(r, g, Par) # {}} = {r \in CellRules : Fails(r, f, Par) # {}}
      BY <1>9
  <2> HIDE DEF g
  <2> QED
      BY <2>1, <2>2 DEF Findings
<1>11. StandinVetter(g, Par) = StandinVetter(f, Par)
  <2>1. UNION {Fails(r, g, Par) : r \in CellRules} = UNION {Fails(r, f, Par) : r \in CellRules}
      BY <1>9
  <2> HIDE DEF g
  <2> QED
      BY <1>10, <2>1 DEF StandinVetter
<1> DEFINE P == DOMAIN f.cells \ StandinVetter(f, Par).suppress
           none == [suppress |-> {}, findings |-> {}, deny |-> FALSE]
<1>12. Numbered(f, P) /\ Numbered(g, P)
  <2>1. P = Passed(f, none)
      BY DEF Passed, Verdicts, CompositeVetter
  <2>2. P = Passed(g, none)
      BY <1>7, <1>11 DEF Passed, Verdicts, CompositeVetter
  <2> HIDE DEF g, P
  <2> QED
      BY <1>3, <1>8, <2>1, <2>2, PassedNumbered
<1>13. \A l \in P : ReleasedCount(f, l, Par) = ReleasedCount(g, l, Par)
    BY <1>2, <1>7 DEF ReleasedCount
<1>14. Alike(f, g, P, Par)
  <2> HIDE DEF g, P
  <2> QED
      BY <1>7, <1>12, <1>13 DEF Alike
<1>15. Apply(f, StandinVetter(f, Par), Par) = Apply(g, StandinVetter(f, Par), Par)
  <2> HIDE DEF g
  <2> QED
      BY <1>3, <1>14, ApplyAlike
<1> HIDE DEF g
<1> QED
    BY <1>4, <1>11, <1>15 DEF ReleaseOfRounded

-----------------------------------------------------------------------------
(* The theorem *)

\* Every question about a release is one of the given ones, with the answer computed.
ReleaseAsked == TableAsked /\ TwinsAsked

\* The answers computed are safe.
LEMMA ReleaseAskedSafe == ReleaseAsked => ReleaseSafe
BY CellsSafe, NoneAlone, ReviewIsOfRelease, RoundedAlike DEF ReleaseAsked, ReleaseSafe

\* Every question asked about a release is one of the given ones, with the answer
\* apply computes.
THEOREM ReleasedAlways == Releases => []ReleaseAsked
<1>1. Unasked => ReleaseAsked
    BY DEF Unasked, ReleaseAsked, TableAsked, TwinsAsked, Is
<1>2. ReleaseAsked /\ [AskRelease]_asked => ReleaseAsked'
  <2> SUFFICES ASSUME ReleaseAsked, [AskRelease]_asked PROVE ReleaseAsked'
      OBVIOUS
  <2>1. CASE AskTable
    <3>1. \E f \in Frames : \E v \in OtherVerdicts(f) :
            asked' = [about |-> "table", frame |-> f, applied |-> Apply(f, Verdicts(f, v), Par)]
        BY <2>1 DEF AskTable, Verdicts
    <3>2. asked'.about = "table"
        BY <3>1
    <3> QED
        BY <3>1, <3>2 DEF ReleaseAsked, TableAsked, TwinsAsked, Is
  <2>2. CASE AskTwins
    <3>1. asked'.about = "twins"
        BY <2>2 DEF AskTwins
    <3>2. TwinsAsked'
        BY <2>2 DEF AskTwins, TwinsAsked
    <3> QED
        BY <3>1, <3>2 DEF ReleaseAsked, TableAsked, Is
  <2>3. CASE UNCHANGED asked
      BY <2>3 DEF ReleaseAsked, TableAsked, TwinsAsked, Is, Verdicts
  <2> QED
      BY <2>1, <2>2, <2>3 DEF AskRelease
<1> QED
    BY <1>1, <1>2, PTL DEF Releases

\* What leaves is safe, whatever the table, the bounds and the other vetter.
THEOREM ReleasesSafe == Releases => []ReleaseSafe
<1>1. ReleaseAsked => ReleaseSafe
    BY ReleaseAskedSafe
<1> QED
    BY <1>1, ReleasedAlways, PTL

-----------------------------------------------------------------------------
(* Sums taken apart *)

\* Any member of a set may be added first.
LEMMA SumTakesAny ==
    ASSUME NEW S, IsFiniteSet(S), NEW f, \A x \in S : f[x] \in Int, NEW y \in S
    PROVE  SumFunctionOnSet(f, S) = f[y] + SumFunctionOnSet(f, S \ {y})
<1> DEFINE Ok(s) == \A x \in s : SumFunctionOnSet(f, s) = f[x] + SumFunctionOnSet(f, s \ {x})
           C == {s \in SUBSET S : ~Ok(s)}
<1>1. SUFFICES ASSUME C # {} PROVE FALSE
  <2>1. S \in SUBSET S /\ S \notin C
      BY <1>1
  <2> QED
      BY <2>1
<1>2. PICK s \in C : \A t \in C : t \subseteq s => t = s
  <2>1. C \in SUBSET SUBSET S
      OBVIOUS
  <2> HIDE DEF C
  <2> QED
      BY <1>1, <2>1, SmallestSet
<1>3. PICK x \in s : SumFunctionOnSet(f, s) # f[x] + SumFunctionOnSet(f, s \ {x})
    BY <1>2
<1>4. IsFiniteSet(s) /\ s \subseteq S
    BY FS_Subset
<1> DEFINE z == Some(s)
<1>5. z \in s /\ SumFunctionOnSet(f, s) = f[z] + SumFunctionOnSet(f, s \ {z})
    BY <1>3, <1>4, SumOfSome
<1> HIDE DEF z
<1>6. z # x
    BY <1>3, <1>5
<1>7. ASSUME NEW a \in s, NEW b \in s, a # b
      PROVE  SumFunctionOnSet(f, s \ {a}) = f[b] + SumFunctionOnSet(f, (s \ {a}) \ {b})
  <2> DEFINE r == s \ {a}
  <2>1. r \subseteq s /\ r # s /\ r \in SUBSET S /\ b \in r
      BY <1>4, <1>7
  <2>2. r \notin C
      BY <1>2, <2>1
  <2>3. Ok(r)
      BY <2>1, <2>2
  <2> HIDE DEF r
  <2>4. SumFunctionOnSet(f, r) = f[b] + SumFunctionOnSet(f, r \ {b})
      BY <2>1, <2>3
  <2> QED
      BY <2>4 DEF r
<1> DEFINE rest == (s \ {z}) \ {x}
<1>8. /\ SumFunctionOnSet(f, s \ {z}) = f[x] + SumFunctionOnSet(f, rest)
      /\ SumFunctionOnSet(f, s \ {x}) = f[z] + SumFunctionOnSet(f, rest)
  <2>1. rest = (s \ {x}) \ {z}
      OBVIOUS
  <2> HIDE DEF rest
  <2>2. SumFunctionOnSet(f, s \ {x}) = f[z] + SumFunctionOnSet(f, rest)
      BY <2>1, <1>5, <1>6, <1>7
  <2>3. SumFunctionOnSet(f, s \ {z}) = f[x] + SumFunctionOnSet(f, rest)
      BY <1>5, <1>6, <1>7 DEF rest
  <2> QED
      BY <2>2, <2>3
<1>9. f[x] \in Int /\ f[z] \in Int /\ SumFunctionOnSet(f, rest) \in Int
  <2>1. IsFiniteSet(rest) /\ \A i \in rest : f[i] \in Int
      BY <1>4, FS_Subset
  <2> HIDE DEF rest
  <2> QED
      BY <2>1, <1>4, <1>5, SumIsInt
<1> HIDE DEF rest
<1> QED
    BY <1>3, <1>5, <1>8, <1>9

\* The sum over two disjoint sets.
LEMMA SumOfUnion ==
    ASSUME NEW A, IsFiniteSet(A), NEW B, IsFiniteSet(B), A \cap B = {},
           NEW f, \A x \in A \cup B : f[x] \in Int
    PROVE  SumFunctionOnSet(f, A \cup B) = SumFunctionOnSet(f, A) + SumFunctionOnSet(f, B)
<1> DEFINE Ok(s) == SumFunctionOnSet(f, A \cup s) = SumFunctionOnSet(f, A) + SumFunctionOnSet(f, s)
           C == {s \in SUBSET B : ~Ok(s)}
<1>1. SUFFICES ASSUME C # {} PROVE FALSE
  <2>1. B \in SUBSET B /\ B \notin C
      BY <1>1
  <2> QED
      BY <2>1
<1>2. PICK s \in C : \A t \in C : t \subseteq s => t = s
  <2>1. C \in SUBSET SUBSET B
      OBVIOUS
  <2> HIDE DEF C
  <2> QED
      BY <1>1, <2>1, SmallestSet
<1>3. SumFunctionOnSet(f, A) \in Int
    BY SumIsInt
<1>4. s # {}
  <2>1. A \cup {} = A /\ SumFunctionOnSet(f, {}) = 0
      BY SumOfNone
  <2>2. Ok({})
      BY <1>3, <2>1
  <2> HIDE DEF Ok
  <2> QED
      BY <2>2
<1>5. PICK x \in s : TRUE
    BY <1>4
<1> DEFINE r == s \ {x}
<1>6. /\ IsFiniteSet(s) /\ IsFiniteSet(r) /\ IsFiniteSet(A \cup s)
      /\ (\A y \in s : f[y] \in Int) /\ (\A y \in r : f[y] \in Int) /\ (\A y \in A \cup s : f[y] \in Int)
      /\ x \in A \cup s /\ (A \cup s) \ {x} = A \cup r
  <2>1. s \subseteq B /\ IsFiniteSet(s)
      BY FS_Subset
  <2>2. IsFiniteSet(A \cup s)
      BY <2>1, FS_Union
  <2>3. IsFiniteSet(r)
      BY <2>1, FS_Subset
  <2>4. (A \cup s) \ {x} = A \cup r
      BY <1>5, <2>1
  <2> QED
      BY <1>5, <2>1, <2>2, <2>3, <2>4
<1>7. Ok(r)
  <2>1. r \subseteq s /\ r # s /\ r \in SUBSET B
      BY <1>5
  <2>2. r \notin C
      BY <1>2, <2>1
  <2> HIDE DEF r, Ok
  <2> QED
      BY <2>1, <2>2
<1> HIDE DEF r
<1>8. SumFunctionOnSet(f, s) = f[x] + SumFunctionOnSet(f, r)
    BY <1>5, <1>6, SumTakesAny DEF r
<1>9. SumFunctionOnSet(f, A \cup s) = f[x] + SumFunctionOnSet(f, A \cup r)
    BY <1>6, SumTakesAny
<1>10. SumFunctionOnSet(f, r) \in Int /\ f[x] \in Int
    BY <1>5, <1>6, SumIsInt
<1>11. Ok(s)
    BY <1>3, <1>7, <1>8, <1>9, <1>10
<1> QED
    BY <1>11

\* What each owner has adds up to what there is.
LEMMA SumByOwner ==
    ASSUME NEW owner, IsFiniteSet(DOMAIN owner), NEW f, \A x \in DOMAIN owner : f[x] \in Int,
           NEW D, IsFiniteSet(D), \A x \in DOMAIN owner : owner[x] \in D,
           NEW g, \A d \in D : g[d] = SumFunctionOnSet(f, {x \in DOMAIN owner : owner[x] = d})
    PROVE  SumFunctionOnSet(g, D) = SumFunctionOnSet(f, DOMAIN owner)
<1> DEFINE S == DOMAIN owner
           Of(E) == {x \in S : owner[x] \in E}
           Ok(E) == SumFunctionOnSet(g, E) = SumFunctionOnSet(f, Of(E))
           C == {E \in SUBSET D : ~Ok(E)}
<1>1. SUFFICES ASSUME C # {} PROVE FALSE
  <2>1. D \in SUBSET D /\ D \notin C
      BY <1>1
  <2>2. Ok(D)
      BY <2>1
  <2>3. Of(D) = S
      OBVIOUS
  <2> HIDE DEF Of
  <2> QED
      BY <2>2, <2>3
<1>2. PICK E \in C : \A t \in C : t \subseteq E => t = E
  <2>1. C \in SUBSET SUBSET D
      OBVIOUS
  <2> HIDE DEF C
  <2> QED
      BY <1>1, <2>1, SmallestSet
<1>3. E # {}
  <2>1. Of({}) = {}
      OBVIOUS
  <2>2. SumFunctionOnSet(f, Of({})) = 0 /\ SumFunctionOnSet(g, {}) = 0
    <3> HIDE DEF Of
    <3> QED
        BY <2>1, SumOfNone
  <2> HIDE DEF Of
  <2>3. Ok({})
      BY <2>2
  <2> HIDE DEF Ok
  <2> QED
      BY <2>3
<1>4. PICK d \in E : TRUE
    BY <1>3
<1> DEFINE R == E \ {d}  mine == {x \in S : owner[x] = d}
<1>5. IsFiniteSet(E) /\ E \subseteq D
    BY FS_Subset
<1>6. Ok(R)
  <2>1. R \subseteq E /\ R # E /\ R \in SUBSET D
      BY <1>4
  <2>2. R \notin C
      BY <1>2, <2>1
  <2> HIDE DEF R, Ok
  <2> QED
      BY <2>1, <2>2
<1>7. \A F : IsFiniteSet(Of(F)) /\ \A x \in Of(F) : f[x] \in Int
  <2> TAKE F
  <2>1. Of(F) \in SUBSET S
      OBVIOUS
  <2> HIDE DEF Of
  <2> QED
      BY <2>1, FS_Subset
<1>8. IsFiniteSet(mine) /\ \A x \in mine : f[x] \in Int
  <2>1. mine \in SUBSET S
      OBVIOUS
  <2> HIDE DEF mine
  <2> QED
      BY <2>1, FS_Subset
<1>9. \A e \in E : g[e] \in Int
  <2> TAKE e \in E
  <2>1. g[e] = SumFunctionOnSet(f, {x \in S : owner[x] = e})
      BY <1>5
  <2>2. {x \in S : owner[x] = e} \in SUBSET S
      OBVIOUS
  <2>3. IsFiniteSet({x \in S : owner[x] = e})
      BY <2>2, FS_Subset
  <2>4. SumFunctionOnSet(f, {x \in S : owner[x] = e}) \in Int
      BY <2>3, SumIsInt
  <2> QED
      BY <2>1, <2>4
<1>10. SumFunctionOnSet(g, E) = g[d] + SumFunctionOnSet(g, R)
    BY <1>4, <1>5, <1>9, SumTakesAny
<1>11. g[d] = SumFunctionOnSet(f, mine)
    BY <1>4, <1>5
<1>12. Of(E) = mine \cup Of(R) /\ mine \cap Of(R) = {}
    BY <1>4
<1> HIDE DEF Of, mine, R
<1>13. SumFunctionOnSet(f, Of(E)) = SumFunctionOnSet(f, mine) + SumFunctionOnSet(f, Of(R))
  <2>1. \A x \in mine \cup Of(R) : f[x] \in Int
      BY <1>7, <1>8
  <2> QED
      BY <1>7, <1>8, <1>12, <2>1, SumOfUnion
<1>14. Ok(E)
    BY <1>6, <1>10, <1>11, <1>13
<1> QED
    BY <1>14

-----------------------------------------------------------------------------
(* Rows and what people give *)

\* A finite set of integers that is not empty has a greatest member.
LEMMA MaxIsGreatest ==
    ASSUME NEW S \in SUBSET Int, IsFiniteSet(S), S # {}
    PROVE  Max(S) \in S /\ \A y \in S : Max(S) >= y
<1> DEFINE R == {p \in S \X S : p[1] > p[2]}
<1>1. \A x, y \in S : <<x, y>> \in R <=> x > y
    OBVIOUS
<1>2. StrictOrder(R, S)
  <2> HIDE DEF R
  <2> QED
      BY <1>1 DEF StrictOrder
<1>3. PICK x \in S : \A y \in S \ {x} : <<x, y>> \in R
    BY <1>2, FirstOfOrder
<1>4. \A y \in S : x >= y
  <2> TAKE y \in S
  <2>1. x \in Int /\ y \in Int
      OBVIOUS
  <2>2. y = x \/ x > y
    <3> HIDE DEF R
    <3> QED
        BY <1>1, <1>3
  <2> QED
      BY <2>1, <2>2
<1> QED
    BY <1>4 DEF Max

\* ... and a least.
LEMMA MinOfInts ==
    ASSUME NEW S \in SUBSET Int, IsFiniteSet(S), S # {}
    PROVE  Min(S) \in S /\ \A y \in S : Min(S) <= y
<1> DEFINE R == {p \in S \X S : p[1] < p[2]}
<1>1. \A x, y \in S : <<x, y>> \in R <=> x < y
    OBVIOUS
<1>2. StrictOrder(R, S)
  <2> HIDE DEF R
  <2> QED
      BY <1>1 DEF StrictOrder
<1>3. PICK x \in S : \A y \in S \ {x} : <<x, y>> \in R
    BY <1>2, FirstOfOrder
<1>4. \A y \in S : x <= y
  <2> TAKE y \in S
  <2>1. x \in Int /\ y \in Int
      OBVIOUS
  <2>2. y = x \/ x < y
    <3> HIDE DEF R
    <3> QED
        BY <1>1, <1>3
  <2> QED
      BY <2>1, <2>2
<1> QED
    BY <1>4 DEF Min

LEMMA MinIsLeast ==
    ASSUME NEW S \in SUBSET Nat, S # {}
    PROVE  Min(S) \in S /\ \A y \in S : Min(S) <= y
<1>1. \E x \in S : \A y \in S : x <= y
    BY LeastNumber
<1> QED
    BY <1>1 DEF Min

\* The procedures, by what they read.
LEMMA Procedures ==
    ASSUME NEW t, NEW q, IsQuestion(t, q)
    PROVE  /\ Procedure[q.fn].power \in 0..4
           /\ Additive(q) => /\ DOMAIN q.columns = 1..1 /\ Guards(q) = {q.columns[1]}
                             /\ q.fn \notin {"count", "corr"}
           /\ q.fn = "count" => Guards(q) = {}
           /\ q.fn = "corr" => Guards(q) = {q.columns[1], q.columns[2]}
<1>1. q.fn \in {"count", "mean", "sum", "sum_sq", "sum_cube", "sum_quad", "corr"}
    BY DEF IsQuestion, Procedure
<1>2. Procedure[q.fn].power \in 0..4 /\ (q.fn \in {"count", "corr"} => Procedure[q.fn].power = 0)
    BY <1>1 DEF Procedure
<1>3. DOMAIN q.columns = 1..Arity(q.fn)
    BY DEF IsQuestion
<1>4. Additive(q) => q.fn \notin {"count", "corr"}
    BY <1>2 DEF Additive
<1>5. q.fn \notin {"count", "corr"} => DOMAIN q.columns = 1..1 /\ Guards(q) = {q.columns[1]}
  <2>1. q.fn \notin {"count", "corr"} => Arity(q.fn) = 1
      BY DEF Arity
  <2>2. \A x : x \in 1..1 <=> x = 1
      OBVIOUS
  <2> QED
      BY <1>3, <2>1, <2>2 DEF Guards, Range
<1>6. q.fn = "count" => Guards(q) = {}
    BY <1>3 DEF Guards, Range, Arity
<1>7. q.fn = "corr" => Guards(q) = {q.columns[1], q.columns[2]}
  <2>1. q.fn = "corr" => Arity(q.fn) = 2
      BY DEF Arity
  <2>2. \A x : x \in 1..2 <=> x = 1 \/ x = 2
      OBVIOUS
  <2> QED
      BY <1>3, <2>1, <2>2 DEF Guards, Range
<1> QED
    BY <1>2, <1>4, <1>5, <1>6, <1>7

\* The rows of one cell that count.
CountedRows(t, q, k) == InCell(t, RowsOf(t, q, Guards(q)), q, k)

\* Rows are rows of the table, each with a number in every measure.
LEMMA RowsHaveNumbers ==
    ASSUME Missing \notin Int, NEW t, NEW q, IsQuestion(t, q), NEW guards
    PROVE  /\ RowsOf(t, q, guards) \in SUBSET DOMAIN t /\ IsFiniteSet(RowsOf(t, q, guards))
           /\ \A k : InCell(t, RowsOf(t, q, guards), q, k) \in SUBSET DOMAIN t
           /\ \A k : IsFiniteSet(InCell(t, RowsOf(t, q, guards), q, k))
           /\ \A k, c : c \in Guards(q) => \A i \in CountedRows(t, q, k) : t[i].at[c] \in Int
<1>1. RowsOf(t, q, guards) \in SUBSET DOMAIN t
    BY DEF RowsOf, Selected
<1>2. \A k : InCell(t, RowsOf(t, q, guards), q, k) \in SUBSET DOMAIN t
    BY <1>1 DEF InCell
<1>3. IsFiniteSet(DOMAIN t)
    BY DEF IsQuestion
<1>4. \A S \in SUBSET DOMAIN t : IsFiniteSet(S)
    BY <1>3, FS_Subset
<1>5. ASSUME NEW k, NEW c, c \in Guards(q), NEW i \in CountedRows(t, q, k)
      PROVE  t[i].at[c] \in Int
  <2>1. i \in RowsOf(t, q, Guards(q))
      BY DEF CountedRows, InCell
  <2>2. t[i].at[c] # Missing /\ i \in DOMAIN t
      BY <1>5, <2>1 DEF RowsOf, Selected
  <2>3. t[i].at[c] \in Int \cup {Missing}
      BY <1>5, <2>2 DEF IsQuestion, Guards
  <2> QED
      BY <2>2, <2>3
<1> QED
    BY <1>1, <1>2, <1>4, <1>5

\* A power of an integer is one.
LEMMA PowerIsInt == \A x \in Int, power \in 0..4 : Power(x, power) \in Int
<1> TAKE x \in Int, power \in 0..4
<1>1. x * x \in Int
    OBVIOUS
<1>2. x * x * x \in Int
    BY <1>1
<1>3. x * x * x * x \in Int
    BY <1>2
<1>4. power = 0 \/ power = 1 \/ power = 2 \/ power = 3 \/ power = 4
    OBVIOUS
<1> QED
    BY <1>1, <1>2, <1>3, <1>4 DEF Power

\* A total of numbers is a number.
LEMMA TotalIsInt ==
    ASSUME NEW t, NEW ids, IsFiniteSet(ids), NEW c, \A i \in ids : t[i].at[c] \in Int,
           NEW power \in 0..4
    PROVE  Total(t, ids, c, power) \in Int
<1> DEFINE f == [i \in ids |-> Power(t[i].at[c], power)]
<1>1. \A i \in ids : f[i] \in Int
    BY PowerIsInt
<1>2. DOMAIN f = ids /\ Total(t, ids, c, power) = SumFunctionOnSet(f, DOMAIN f)
    BY DEF Total, SumFunction
<1> HIDE DEF f
<1> QED
    BY <1>1, <1>2, SumIsInt

\* What people give to a cell adds up to its total.
LEMMA ContributionsAdd ==
    ASSUME Missing \notin Int, NEW t, NEW q, NEW ids, IsFiniteSet(ids),
           \A i \in ids : t[i].at[q.columns[1]] \in Int \cup {Missing},
           Procedure[q.fn].power \in 0..4
    PROVE  LET valued == {i \in ids : t[i].at[q.columns[1]] # Missing}
               given == Contributions(t, ids, q)
           IN  /\ DOMAIN given = DonorsOf(t, valued) /\ IsFiniteSet(DOMAIN given)
               /\ \A d \in DOMAIN given : given[d] \in Int
               /\ SumFunction(given) = Total(t, valued, q.columns[1], Procedure[q.fn].power)
               /\ SumFunction(given) \in Int
<1> DEFINE c == q.columns[1]
           power == Procedure[q.fn].power
           valued == {i \in ids : t[i].at[c] # Missing}
           f == [i \in valued |-> Power(t[i].at[c], power)]
           owner == [i \in valued |-> t[i].donor]
           D == DonorsOf(t, valued)
           part(d) == {i \in valued : t[i].donor = d}
           given == [d \in D |-> Total(t, part(d), c, power)]
<1>1. Contributions(t, ids, q) = given
    BY DEF Contributions
<1>2. IsFiniteSet(valued) /\ \A i \in valued : t[i].at[c] \in Int
    BY FS_Subset
<1>3. IsFiniteSet(D)
  <2> HIDE DEF valued
  <2> QED
      BY <1>2, DonorsFinite
<1>4. \A i \in valued : f[i] \in Int
  <2>1. \A i \in valued : Power(t[i].at[c], power) \in Int
    <3> HIDE DEF valued, c, power
    <3> QED
        BY <1>2, PowerIsInt DEF power
  <2> HIDE DEF valued, c, power
  <2> QED
      BY <2>1
<1>5. \A i \in valued : owner[i] \in D
  <2> HIDE DEF valued
  <2> QED
      BY DEF DonorsOf
<1>6. ASSUME NEW d \in D
      PROVE  /\ given[d] \in Int
             /\ given[d] = SumFunctionOnSet(f, {i \in valued : owner[i] = d})
  <2>1. part(d) = {i \in valued : owner[i] = d}
      OBVIOUS
  <2>2. IsFiniteSet(part(d)) /\ part(d) \subseteq valued
      BY <1>2, FS_Subset
  <2>3. Total(t, part(d), c, power) \in Int
    <3>1. \A i \in part(d) : t[i].at[c] \in Int
        BY <1>2, <2>2
    <3> HIDE DEF part, c, power
    <3> QED
        BY <2>2, <3>1, TotalIsInt DEF power
  <2> DEFINE h == [i \in part(d) |-> Power(t[i].at[c], power)]
  <2>4. Total(t, part(d), c, power) = SumFunctionOnSet(h, part(d))
    <3> HIDE DEF part
    <3> QED
        BY DEF Total, SumFunction
  <2>5. \A i \in part(d) : h[i] = f[i]
    <3> HIDE DEF part, c, power, valued
    <3> QED
        BY <2>2
  <2>6. SumFunctionOnSet(h, part(d)) = SumFunctionOnSet(f, part(d))
    <3> HIDE DEF part, h, f
    <3> QED
        BY <2>2, <2>5, SumOfSame
  <2>7. given[d] = Total(t, part(d), c, power)
    <3> HIDE DEF part, c, power, D
    <3> QED
        OBVIOUS
  <2> HIDE DEF given, h, f, part, c, power, valued, owner
  <2> QED
      BY <2>1, <2>3, <2>4, <2>6, <2>7
<1>7. DOMAIN given = D
    OBVIOUS
<1>8. Total(t, valued, c, power) = SumFunctionOnSet(f, valued)
  <2> HIDE DEF valued
  <2> QED
      BY DEF Total, SumFunction
<1>9. SumFunctionOnSet(given, D) = SumFunctionOnSet(f, valued)
  <2>3. DOMAIN owner = valued
    <3> HIDE DEF valued
    <3> QED
        OBVIOUS
  <2>1. \A d \in D : given[d] = SumFunctionOnSet(f, {i \in valued : owner[i] = d})
    <3> HIDE DEF given, D, f, valued, owner
    <3> QED
        BY <1>6
  <2> HIDE DEF given, f, valued, owner, D
  <2>2. IsFiniteSet(valued)
      BY <1>2
  <2>4. /\ IsFiniteSet(DOMAIN owner)
        /\ \A x \in DOMAIN owner : f[x] \in Int
        /\ \A x \in DOMAIN owner : owner[x] \in D
        /\ \A d \in D : given[d] = SumFunctionOnSet(f, {x \in DOMAIN owner : owner[x] = d})
      BY <2>1, <2>2, <2>3, <1>4, <1>5
  <2>5. SumFunctionOnSet(given, D) = SumFunctionOnSet(f, DOMAIN owner)
      BY <2>4, <1>3, SumByOwner
  <2> QED
      BY <2>3, <2>5
<1>10. SumFunctionOnSet(f, valued) \in Int
  <2> HIDE DEF f, valued
  <2> QED
      BY <1>2, <1>4, SumIsInt
<1>11. \A d \in D : given[d] \in Int
  <2> HIDE DEF given, D
  <2> QED
      BY <1>6
<1> HIDE DEF given, f, D
<1> QED
    BY <1>1, <1>3, <1>7, <1>8, <1>9, <1>10, <1>11 DEF SumFunction, D

\* The rows whose contributions count are those of the value, guarded or not.
LEMMA SameContributions ==
    ASSUME NEW t, NEW q, IsQuestion(t, q), Additive(q), NEW k
    PROVE  LET loose == InCell(t, RowsOf(t, q, {}), q, k)
               c == q.columns[1]
           IN  /\ {i \in loose : t[i].at[c] # Missing} = CountedRows(t, q, k)
               /\ {i \in CountedRows(t, q, k) : t[i].at[c] # Missing} = CountedRows(t, q, k)
               /\ Contributions(t, loose, q) = Contributions(t, CountedRows(t, q, k), q)
<1> DEFINE loose == InCell(t, RowsOf(t, q, {}), q, k)
           c == q.columns[1]
<1>1. Guards(q) = {c}
    BY Procedures
<1>2. {i \in loose : t[i].at[c] # Missing} = CountedRows(t, q, k)
    BY <1>1 DEF CountedRows, InCell, RowsOf
<1>3. {i \in CountedRows(t, q, k) : t[i].at[c] # Missing} = CountedRows(t, q, k)
    BY <1>2
<1>4. Contributions(t, loose, q) = Contributions(t, CountedRows(t, q, k), q)
    BY <1>2, <1>3 DEF Contributions
<1> QED
    BY <1>2, <1>3, <1>4

-----------------------------------------------------------------------------
(* The witnesses *)

\* A sum of natural numbers is one.
LEMMA SumIsNat ==
    ASSUME NEW S, IsFiniteSet(S), NEW f, \A x \in S : f[x] \in Nat
    PROVE  SumFunctionOnSet(f, S) \in Nat
<1> DEFINE B == [x \in S |-> {}]
<1>1. IsFiniteSet({}) /\ Cardinality({}) = 0
    BY FS_EmptySet
<1>2. \A x \in S : IsFiniteSet(B[x]) /\ f[x] \in Int /\ Cardinality(B[x]) <= f[x]
    BY <1>1
<1>3. UNION {B[x] : x \in S} = {}
    OBVIOUS
<1> HIDE DEF B
<1>4. Cardinality(UNION {B[x] : x \in S}) <= SumFunctionOnSet(f, S)
    BY <1>2, SumCoversUnion
<1>5. SumFunctionOnSet(f, S) \in Int
    BY <1>2, SumIsInt
<1> QED
    BY <1>1, <1>3, <1>4, <1>5

\* Natural numbers that add up to nothing are all nothing.
LEMMA NothingAddsUp ==
    ASSUME NEW S, IsFiniteSet(S), NEW f, \A x \in S : f[x] \in Nat, SumFunctionOnSet(f, S) = 0
    PROVE  \A x \in S : f[x] = 0
<1> SUFFICES ASSUME NEW y \in S PROVE f[y] = 0
    OBVIOUS
<1>1. SumFunctionOnSet(f, S) = f[y] + SumFunctionOnSet(f, S \ {y})
    BY SumTakesAny
<1>2. IsFiniteSet(S \ {y})
    BY FS_Subset
<1>3. SumFunctionOnSet(f, S \ {y}) \in Nat
    BY <1>2, SumIsNat
<1> QED
    BY <1>1, <1>3

\* A magnitude is a natural number.
LEMMA MagnitudeIsNat == \A x \in Int : Magnitude(x) \in Nat
BY DEF Magnitude

\* A share bounds its part, except of nothing.
LEMMA PercentBounds ==
    ASSUME NEW part \in Nat, NEW whole \in Nat
    PROVE  /\ Percent(part, whole) \in Nat \cup {Missing}
           /\ whole = 0 => Percent(part, whole) = Missing
           /\ whole # 0 => /\ Percent(part, whole) \in Nat
                           /\ \A b \in Nat : Percent(part, whole) <= b => 100 * part <= b * whole
<1>1. \A p, w \in Nat : w > 0 => (100 * p + w - 1) \div w \in Nat
    OBVIOUS
<1>2. \A p, w, b \in Nat : w > 0 /\ (100 * p + w - 1) \div w <= b => 100 * p <= b * w
    OBVIOUS
<1> QED
    BY <1>1, <1>2 DEF Percent

\* The greater of two shares is there if one of them is, and bounds both.
LEMMA GreatestBounds ==
    ASSUME Missing \notin Int, NEW a \in Nat \cup {Missing}, NEW b \in Nat \cup {Missing}
    PROVE  /\ Greatest({a, b}) \in Nat \cup {Missing}
           /\ a # Missing => Greatest({a, b}) \in Nat /\ a <= Greatest({a, b})
           /\ b # Missing => Greatest({a, b}) \in Nat /\ b <= Greatest({a, b})
           /\ a = Missing /\ b = Missing => Greatest({a, b}) = Missing
<1> DEFINE S == {a, b} \ {Missing}
<1>1. CASE S = {}
    BY <1>1 DEF Greatest
<1>2. CASE S # {}
  <2>1. S \in SUBSET Nat /\ S \in SUBSET Int
      OBVIOUS
  <2>2. IsFiniteSet({a, b})
    <3>1. {a, b} = {a} \cup {b}
        OBVIOUS
    <3>2. IsFiniteSet({a}) /\ IsFiniteSet({b})
        BY FS_Singleton
    <3> QED
        BY <3>1, <3>2, CardinalityOfUnion
  <2>3. IsFiniteSet(S)
      BY <2>2, FS_Subset
  <2>4. Max(S) \in S /\ \A y \in S : Max(S) >= y
    <3> HIDE DEF S
    <3> QED
        BY <1>2, <2>1, <2>3, MaxIsGreatest
  <2>5. Greatest({a, b}) = Max(S)
      BY <1>2 DEF Greatest
  <2>6. \A x \in {a, b} : x # Missing => x \in S
      OBVIOUS
  <2>7. Max(S) \in Nat
      BY <2>1, <2>4
  <2>8. \A x \in {a, b} : x # Missing => x <= Max(S)
    <3> SUFFICES ASSUME NEW x \in {a, b}, x # Missing PROVE x <= Max(S)
        OBVIOUS
    <3>1. Max(S) >= x
        BY <2>4, <2>6
    <3>2. x \in Nat
        OBVIOUS
    <3> HIDE DEF S
    <3> QED
        BY <2>7, <3>1, <3>2
  <2>9. ~(a = Missing /\ b = Missing)
      BY <1>2
  <2> HIDE DEF S
  <2> QED
      BY <2>5, <2>7, <2>8, <2>9
<1> QED
    BY <1>1, <1>2

\* What each person gives to a cell of a released total.
GivenBy(t, q, k) == Contributions(t, CountedRows(t, q, k), q)

\* What is given to a cell, of an additive question.
LEMMA GivenAdds ==
    ASSUME Missing \notin Int, NEW t, NEW q, IsQuestion(t, q), Additive(q), NEW k
    PROVE  /\ DOMAIN GivenBy(t, q, k) = DonorsOf(t, CountedRows(t, q, k))
           /\ IsFiniteSet(DOMAIN GivenBy(t, q, k))
           /\ \A d \in DOMAIN GivenBy(t, q, k) : GivenBy(t, q, k)[d] \in Int
           /\ SumFunction(GivenBy(t, q, k)) = Value(t, q, k)
           /\ SumFunction(GivenBy(t, q, k)) \in Int
<1> DEFINE ids == CountedRows(t, q, k)  c == q.columns[1]  power == Procedure[q.fn].power
           valued == {i \in ids : t[i].at[c] # Missing}
<1>1. power \in 0..4 /\ Guards(q) = {c}
    BY Procedures
<1>2. IsFiniteSet(ids) /\ \A i \in ids : t[i].at[c] \in Int
    BY <1>1, RowsHaveNumbers DEF CountedRows
<1>3. valued = ids
    BY SameContributions
<1> HIDE DEF ids, power
<1>4. /\ \A i \in ids : t[i].at[q.columns[1]] \in Int \cup {Missing}
      /\ Procedure[q.fn].power \in 0..4
    BY <1>1, <1>2 DEF power
<1>5. /\ DOMAIN Contributions(t, ids, q) = DonorsOf(t, valued)
      /\ IsFiniteSet(DOMAIN Contributions(t, ids, q))
      /\ \A d \in DOMAIN Contributions(t, ids, q) : Contributions(t, ids, q)[d] \in Int
      /\ SumFunction(Contributions(t, ids, q)) = Total(t, valued, c, power)
      /\ SumFunction(Contributions(t, ids, q)) \in Int
    BY <1>2, <1>4, ContributionsAdd DEF power
<1>6. GivenBy(t, q, k) = Contributions(t, ids, q)
    BY DEF GivenBy, ids
<1>7. Value(t, q, k) = Total(t, ids, c, power)
    BY DEF Value, CountedRows, ids, power
<1> HIDE DEF c, valued
<1> QED
    BY <1>3, <1>5, <1>6, <1>7 DEF ids

\* What the rule about shares says of the amounts of one cell.
SharesBounded(c, bound) ==
    LET total == Magnitude(SumFunction(c))
        given == SumFunction(Unsigned(c))
        whole == IF total = 0 THEN given ELSE total
    IN  /\ given > 0
        /\ \A d \in DOMAIN c : 100 * Magnitude(c[d]) <= bound * whole

\* The dominance of a cell is a share or missing, and bounds what each person
\* is of the total, or of all that was given to a total of zero.
LEMMA DominanceBounds ==
    ASSUME Missing \notin Int, NEW t, NEW q, IsQuestion(t, q), Additive(q), NEW k
    PROVE  /\ Dominance(t, q, k) \in Nat \cup {Missing}
           /\ \A bound \in Nat : Within(Dominance(t, q, k), bound) => SharesBounded(GivenBy(t, q, k), bound)
<1> DEFINE c == GivenBy(t, q, k)
           sizes == Unsigned(c)
           S == {0} \cup Range(sizes)
           top == Max(S)
           whole == Magnitude(SumFunction(c))
           all == SumFunction(sizes)
<1>1. Dominance(t, q, k) = Greatest({Percent(top, all), Percent(top, whole)})
    BY SameContributions DEF Dominance, GivenBy, Unsigned
<1>2. /\ IsFiniteSet(DOMAIN c) /\ \A d \in DOMAIN c : c[d] \in Int
      /\ SumFunction(c) \in Int
    BY GivenAdds
<1> HIDE DEF c
<1>3. \A d \in DOMAIN c : sizes[d] \in Nat /\ sizes[d] = Magnitude(c[d])
    BY <1>2, MagnitudeIsNat DEF Unsigned
<1>4. DOMAIN sizes = DOMAIN c /\ sizes = [d \in DOMAIN c |-> sizes[d]]
    BY DEF Unsigned
<1> HIDE DEF sizes
<1>5. IsFiniteSet(S)
  <2>1. sizes \in Surjection(DOMAIN c, Range(sizes))
    <3> QED
        BY <1>4 DEF Surjection, Range
  <2>2. IsFiniteSet(Range(sizes))
      BY <1>2, <2>1, FS_Surjection
  <2> QED
      BY <2>2, FS_Singleton, FS_Union
<1>6. S \in SUBSET Nat /\ S \in SUBSET Int /\ S # {} /\ \A d \in DOMAIN c : sizes[d] \in S
    BY <1>3, <1>4 DEF Range
<1>7. top \in Nat /\ \A d \in DOMAIN c : Magnitude(c[d]) <= top
  <2>1. Max(S) \in S /\ \A y \in S : Max(S) >= y
    <3> HIDE DEF S
    <3> QED
        BY <1>5, <1>6, MaxIsGreatest
  <2>2. top \in Nat
      BY <2>1, <1>6
  <2> HIDE DEF S
  <2>3. \A d \in DOMAIN c : sizes[d] \in Nat /\ top >= sizes[d]
      BY <2>1, <1>3, <1>6
  <2> HIDE DEF top
  <2> QED
      BY <2>2, <2>3, <1>3
<1>8. whole \in Nat
    BY <1>2, MagnitudeIsNat
<1>9. all \in Nat
    BY <1>2, <1>3, <1>4, SumIsNat DEF SumFunction
<1> HIDE DEF S, top, whole, all
<1>10. Percent(top, all) \in Nat \cup {Missing} /\ Percent(top, whole) \in Nat \cup {Missing}
    BY <1>7, <1>8, <1>9, PercentBounds
<1>11. /\ Dominance(t, q, k) \in Nat \cup {Missing}
       /\ \A share \in {Percent(top, all), Percent(top, whole)} :
             share # Missing => share <= Dominance(t, q, k)
       /\ Percent(top, all) = Missing /\ Percent(top, whole) = Missing => Dominance(t, q, k) = Missing
    BY <1>1, <1>10, GreatestBounds
<1>12. ASSUME NEW bound \in Nat, Within(Dominance(t, q, k), bound)
       PROVE  SharesBounded(c, bound)
  <2>1. Dominance(t, q, k) \in Nat /\ Dominance(t, q, k) <= bound
      BY <1>11, <1>12 DEF Within
  <2>2. \A w \in {all, whole} : w # 0 => 100 * top <= bound * w
    <3> SUFFICES ASSUME NEW w \in {all, whole}, w # 0 PROVE 100 * top <= bound * w
        OBVIOUS
    <3>1. w \in Nat /\ Percent(top, w) \in Nat
        BY <1>7, <1>8, <1>9, PercentBounds
    <3>2. Percent(top, w) <= Dominance(t, q, k)
        BY <1>11, <3>1
    <3>3. Percent(top, w) <= bound
        BY <2>1, <3>1, <3>2
    <3> QED
        BY <1>7, <3>1, <3>3, PercentBounds
  <2>3. all # 0
    <3> SUFFICES ASSUME all = 0 PROVE FALSE
        OBVIOUS
    <3>1. Percent(top, all) = Missing
        BY <1>7, <1>9, PercentBounds
    <3>2. Percent(top, whole) # Missing /\ whole # 0
        BY <1>7, <1>8, <1>11, <2>1, <3>1, PercentBounds
    <3>3. \A d \in DOMAIN c : sizes[d] = 0
        BY <1>2, <1>3, <1>4, NothingAddsUp DEF all, SumFunction
    <3>4. \A d \in DOMAIN c : c[d] = sizes[d]
        BY <1>2, <1>3, <3>3 DEF Magnitude
    <3>5. SumFunction(c) = all
        BY <1>2, <1>4, <3>4, SumOfSame DEF SumFunction, all
    <3> QED
        BY <3>2, <3>5 DEF whole, Magnitude
  <2>4. all > 0
      BY <1>9, <2>3
  <2>5. ASSUME NEW d \in DOMAIN c
        PROVE  100 * Magnitude(c[d]) <= bound * (IF whole = 0 THEN all ELSE whole)
    <3>1. Magnitude(c[d]) \in Nat /\ Magnitude(c[d]) <= top
        BY <1>2, <1>7, MagnitudeIsNat
    <3>2. PICK w \in {all, whole} : w # 0 /\ w = IF whole = 0 THEN all ELSE whole
        BY <2>3
    <3>3. 100 * top <= bound * w /\ bound * w \in Nat
        BY <1>8, <1>9, <2>2, <3>2
    <3> QED
        BY <1>7, <3>1, <3>2, <3>3
  <2> QED
      BY <2>4, <2>5 DEF SharesBounded, whole, all, sizes
<1> QED
    BY <1>11, <1>12 DEF c

-----------------------------------------------------------------------------
(* Answers are frames *)

\* An influence is nothing at all, or missing.
LEMMA InfluenceIsNumber ==
    ASSUME NEW t, NEW q, NEW k
    PROVE  Influence(t, q, k) \in {0, Missing}
BY DEF Influence

\* What is said of a cell is numbers.
LEMMA CellIsCell ==
    ASSUME Missing \notin Int, NEW t, NEW q, IsQuestion(t, q), NEW k
    PROVE  CellOf(t, q, k) \in Cell
<1> DEFINE ids == CountedRows(t, q, k)  c == CellOf(t, q, k)
<1>1. IsFiniteSet(ids)
    BY RowsHaveNumbers DEF CountedRows
<1>2. Cardinality(ids) \in Nat /\ Cardinality(DonorsOf(t, ids)) \in Nat
    BY <1>1, DonorsFinite, FS_CardinalityType
<1>3. CountOf(t, q, k) \in Nat /\ DonorCount(t, q, k) \in Nat
    BY <1>2 DEF CountOf, DonorCount, CountedRows
<1>4. Additive(q) => Dominance(t, q, k) \in CellNumbers
    BY DominanceBounds DEF CellNumbers
<1>5. Influence(t, q, k) \in CellNumbers
    BY InfluenceIsNumber DEF CellNumbers
<1>6. /\ CountOf(t, q, k) \in CellNumbers /\ DonorCount(t, q, k) \in CellNumbers
      /\ Missing \in CellNumbers
    BY <1>3 DEF CellNumbers
<1>7. \A i : Varies(t, i, q) \in BOOLEAN
    BY DEF Varies
<1>8. (CountOf(t, q, k) > 0) \in BOOLEAN
    BY <1>3
<1> HIDE DEF ids
<1>9. c.finite \in BOOLEAN
    BY <1>7, <1>8 DEF CellOf
<1>10. /\ c = [n |-> c.n, donors |-> c.donors, share |-> c.share, influence |-> c.influence, finite |-> c.finite]
       /\ c.n = CountOf(t, q, k) /\ c.donors = DonorCount(t, q, k)
       /\ c.share = (IF Additive(q) THEN Dominance(t, q, k) ELSE Missing)
       /\ c.influence = (IF q.fn = "corr" THEN Influence(t, q, k) ELSE Missing)
    BY DEF CellOf
<1>11. c.share \in CellNumbers /\ c.influence \in CellNumbers
    BY <1>4, <1>5, <1>6, <1>10
<1> HIDE DEF c
<1>12. c \in Cell
    BY <1>6, <1>9, <1>10, <1>11 DEF Cell
<1> QED
    BY <1>12 DEF c

\* The engine answers any question with a frame.
LEMMA RunIsFrame ==
    ASSUME Missing \notin Int, NEW t, NEW q, IsQuestion(t, q)
    PROVE  IsFrame(Run(t, q, DomainOf))
<1> DEFINE f == Run(t, q, DomainOf)
           ids == RowsOf(t, q, Guards(q))
           keys == Groups(t, ids, q)
<1>1. IsFiniteSet(ids) /\ ids \in SUBSET DOMAIN t
    BY RowsHaveNumbers
<1>2. q.by \in Seq(Range(q.by)) /\ Len(q.by) \in Nat /\ DOMAIN q.by = 1..Len(q.by)
      /\ \A i \in DOMAIN q.by : q.by[i] \in Range(q.by)
    BY DEF IsQuestion, Range
<1> HIDE DEF ids
<1>3. f = [cells |-> [k \in keys |-> CellOf(t, q, k)],
           columns |-> {"n", "n_donors"} \cup {"value" : x \in {q.fn} \ {"count"}}
                        \cup ({Procedure[q.fn].witness} \ {"none"}),
           domains |-> [i \in DOMAIN q.by |-> DomainOf[q.by[i]]],
           known |-> TRUE,
           class |-> Procedure[q.fn].class]
    BY DEF Run, ids
<1>4. IsFiniteSet(keys)
  <2> DEFINE g == [i \in ids |-> KeyOf(t[i], q)]
  <2>1. {KeyOf(t[i], q) : i \in ids} = {g[i] : i \in ids}
      OBVIOUS
  <2>2. g \in Surjection(ids, {g[i] : i \in ids})
      BY DEF Surjection
  <2>3. IsFiniteSet({g[i] : i \in ids})
    <3> HIDE DEF g
    <3> QED
        BY <1>1, <2>2, FS_Surjection
  <2>4. IsFiniteSet({<<>>})
      BY FS_Singleton
  <2> HIDE DEF g
  <2> QED
      BY <2>1, <2>3, <2>4 DEF Groups
<1>5. DOMAIN f.domains = 1..Len(q.by) /\ Len(f.domains) = Len(q.by)
      /\ f.domains \in Seq({Missing} \cup SUBSET KeyLevels)
  <2> DEFINE D == {Missing} \cup SUBSET KeyLevels
  <2>1. \A i \in 1..Len(q.by) : DomainOf[q.by[i]] \in D
      BY <1>2 DEF IsQuestion
  <2>2. f.domains = [i \in 1..Len(q.by) |-> DomainOf[q.by[i]]]
      BY <1>2, <1>3
  <2> HIDE DEF D, f
  <2>3. f.domains \in [1..Len(q.by) -> D]
      BY <2>1, <2>2
  <2>4. f.domains \in Seq(D) /\ Len(f.domains) = Len(q.by)
      BY <1>2, <2>3
  <2> QED
      BY <2>2, <2>4 DEF D
<1>6. \A k \in keys : k \in [1..Len(q.by) -> KeyLevels]
  <2> TAKE k \in keys
  <2>1. CASE q.by = <<>>
    <3>1. k = <<>> /\ Len(q.by) = 0
        BY <2>1 DEF Groups
    <3>2. 1..0 = {}
        OBVIOUS
    <3> QED
        BY <3>1, <3>2
  <2>2. CASE q.by # <<>>
    <3>1. PICK i \in ids : k = KeyOf(t[i], q)
        BY <2>2 DEF Groups
    <3>2. i \in DOMAIN t
        BY <1>1
    <3>3. k = [j \in 1..Len(q.by) |-> t[i].at[q.by[j]]]
        BY <1>2, <3>1 DEF KeyOf
    <3>4. \A j \in 1..Len(q.by) : t[i].at[q.by[j]] \in KeyLevels
        BY <1>2, <3>2 DEF IsQuestion
    <3> QED
        BY <3>3, <3>4
  <2> QED
      BY <2>1, <2>2
<1>7. DOMAIN f.cells = keys /\ f.cells \in [keys -> Cell]
  <2>1. f.cells = [k \in keys |-> CellOf(t, q, k)]
      BY <1>3
  <2> HIDE DEF f, keys
  <2> QED
      BY <2>1, CellIsCell
<1>8. CountColumns \subseteq f.columns
    BY <1>3 DEF CountColumns
<1>9. f = [cells |-> f.cells, columns |-> f.columns, domains |-> f.domains,
           known |-> f.known, class |-> f.class]
  <2> HIDE DEF keys
  <2> QED
      BY <1>3
<1> HIDE DEF f, keys
<1>10. IsFrame(f)
    BY <1>4, <1>5, <1>6, <1>7, <1>8, <1>9 DEF IsFrame, Width
<1> QED
    BY <1>10 DEF f

-----------------------------------------------------------------------------
(* Answers *)

\* An answer is one of a given question, with what apply leaves of it.
AnswerAsked == Is("answer") =>
    \E s \in Surveys : \E t \in s.tables, q \in s.questions :
        LET f == Run(t, q, DomainOf) IN
        asked = [about |-> "answer", table |-> t, question |-> q, frame |-> f,
                 applied |-> Apply(f, StandinVetter(f, Par), Par)]

\* Whoever gave to a cell is counted in it, and the amounts make its value.
LEMMA RowsAreOne ==
    ASSUME Missing \notin Int, NEW t, NEW q, IsQuestion(t, q), NEW k
    PROVE  LET given == CheckerFrame(t, q)
               people == IF k \in DOMAIN given THEN DOMAIN given[k] ELSE {}
           IN  /\ k \in DOMAIN given <=> CountedRows(t, q, k) # {}
               /\ people = DonorsOf(t, CountedRows(t, q, k))
               /\ DonorCount(t, q, k) = Cardinality(people)
               /\ Additive(q) /\ people # {} =>
                     /\ given[k] = GivenBy(t, q, k)
                     /\ Value(t, q, k) = SumFunction(given[k])
<1> DEFINE ids == RowsOf(t, q, Guards(q))
           cell == CountedRows(t, q, k)
           given == CheckerFrame(t, q)
           people == IF k \in DOMAIN given THEN DOMAIN given[k] ELSE {}
<1>1. DOMAIN given = {KeyOf(t[i], q) : i \in ids}
    BY DEF CheckerFrame
<1>2. cell = {i \in ids : KeyOf(t[i], q) = k}
    BY DEF CountedRows, InCell
<1>3. k \in DOMAIN given <=> cell # {}
    BY <1>1, <1>2
<1>4. k \in DOMAIN given =>
        given[k] = IF Additive(q) THEN GivenBy(t, q, k) ELSE [d \in DonorsOf(t, cell) |-> 0]
    BY <1>1 DEF CheckerFrame, GivenBy, CountedRows
<1>5. Additive(q) => DOMAIN GivenBy(t, q, k) = DonorsOf(t, cell) /\ SumFunction(GivenBy(t, q, k)) = Value(t, q, k)
    BY GivenAdds
<1>6. DonorCount(t, q, k) = Cardinality(DonorsOf(t, cell))
    BY DEF DonorCount, CountedRows
<1>7. cell = {} => DonorsOf(t, cell) = {}
    BY DEF DonorsOf
<1> HIDE DEF given, cell
<1>8. people = DonorsOf(t, cell)
    BY <1>3, <1>4, <1>5, <1>7
<1>9. people # {} => k \in DOMAIN given
    OBVIOUS
<1> HIDE DEF people
<1>10. Additive(q) /\ people # {} => given[k] = GivenBy(t, q, k) /\ Value(t, q, k) = SumFunction(given[k])
    BY <1>4, <1>5, <1>9
<1> QED
    BY <1>3, <1>6, <1>8, <1>10 DEF given, cell, people

\* A cell that leaves passed the rules, and some people are counted in it.
LEMMA LeftPassed ==
    ASSUME Missing \notin Int, NEW t, NEW q, IsQuestion(t, q),
           NEW f, f = Run(t, q, DomainOf),
           NEW k \in TableKeys(Apply(f, StandinVetter(f, Par), Par))
    PROVE  /\ k \in DOMAIN f.cells /\ f.cells[k] = CellOf(t, q, k)
           /\ f.cells[k].donors \in Nat /\ f.cells[k].donors >= Par.threshold
           /\ "dominance" \in f.columns => Within(f.cells[k].share, DominanceBound(f, Par))
           /\ "influence" \in f.columns => Within(f.cells[k].influence, Par.influence)
<1> DEFINE none == [suppress |-> {}, findings |-> {}, deny |-> FALSE]
           a == Apply(f, StandinVetter(f, Par), Par)
<1>1. IsFrame(f)
    BY RunIsFrame
<1>2. Verdicts(f, none) = StandinVetter(f, Par)
    BY DEF Verdicts, CompositeVetter, StandinVetter
<1> HIDE DEF none
<1>3. k \in Left(f, none)
    BY <1>1, <1>2, AppliedTable
<1>4. k \in Passed(f, none)
    BY <1>1, <1>3, PassedNumbered
<1>5. k \in DOMAIN f.cells
    BY <1>4 DEF Passed
<1>6. f.cells[k] = CellOf(t, q, k)
    BY <1>5 DEF Run
<1> QED
    BY <1>1, <1>4, <1>5, <1>6, PassedCells

\* No person is more of a total that leaves than the bound, or, if it is zero,
\* of all that was given to it.
LEMMA TotalIsNobodys ==
    ASSUME Missing \notin Int, NEW t, NEW q, IsQuestion(t, q), Additive(q),
           NEW f, f = Run(t, q, DomainOf),
           NEW k \in TableKeys(Apply(f, StandinVetter(f, Par), Par))
    PROVE  LET c == CheckerFrame(t, q)[k]
           IN  Cardinality(DOMAIN c) >= Par.threshold /\ SharesBounded(c, ShareBound(q))
<1> DEFINE c == GivenBy(t, q, k)
           bound == ShareBound(q)
           cell == f.cells[k]
<1>1. /\ cell = CellOf(t, q, k) /\ cell.donors \in Nat /\ cell.donors >= Par.threshold
      /\ "dominance" \in f.columns => Within(cell.share, DominanceBound(f, Par))
    BY LeftPassed
<1>2. cell.donors = DonorCount(t, q, k) /\ cell.share = Dominance(t, q, k)
    BY <1>1 DEF CellOf
<1>3. q.fn \in {"mean", "sum", "sum_sq", "sum_cube", "sum_quad"}
  <2>1. q.fn \in {"count", "mean", "sum", "sum_sq", "sum_cube", "sum_quad", "corr"}
      BY DEF IsQuestion, Procedure
  <2>2. q.fn \notin {"count", "corr"}
      BY Procedures
  <2> QED
      BY <2>1, <2>2
<1>4. "dominance" \in f.columns /\ f.class = Procedure[q.fn].class
    BY <1>3 DEF Run, Procedure
<1>5. DominanceBound(f, Par) = bound
    BY <1>3, <1>4 DEF DominanceBound, ShareBound, Procedure
<1>6. bound \in Nat
    BY AnswersAssumption DEF ShareBound
<1>7. Within(Dominance(t, q, k), bound)
    BY <1>1, <1>2, <1>4, <1>5
<1>8. /\ DonorCount(t, q, k) >= Par.threshold /\ DonorCount(t, q, k) \in Nat
      /\ Par.threshold \in Nat /\ Par.threshold >= 1
    BY <1>1, <1>2, AnswersAssumption, ReleasesAssumption
<1>9. CheckerFrame(t, q)[k] = c
  <2>1. DonorCount(t, q, k) # 0
      BY <1>8
  <2>2. DonorsOf(t, CountedRows(t, q, k)) # {}
      BY <2>1, FS_EmptySet DEF DonorCount, CountedRows
  <2> QED
      BY <2>2, RowsAreOne
<1>10. Cardinality(DOMAIN c) = DonorCount(t, q, k)
    BY GivenAdds DEF DonorCount, CountedRows
<1>11. SharesBounded(c, bound)
  <2> HIDE DEF bound
  <2> QED
      BY <1>6, <1>7, DominanceBounds
<1> HIDE DEF c
<1> QED
    BY <1>8, <1>9, <1>10, <1>11

\* A correlation that leaves can be computed without any one person.
LEMMA CorrelationIsNobodys ==
    ASSUME Missing \notin Int, NEW t, NEW q, IsQuestion(t, q), q.fn = "corr",
           NEW f, f = Run(t, q, DomainOf),
           NEW k \in TableKeys(Apply(f, StandinVetter(f, Par), Par)),
           NEW d
    PROVE  LET rest == {i \in CountedRows(t, q, k) : t[i].donor # d}
           IN  Cardinality(rest) >= 3 /\ Varies(t, rest, q)
<1> DEFINE ids == CountedRows(t, q, k)
           without(e) == {i \in ids : t[i].donor # e}
           cell == f.cells[k]
<1>1. /\ cell = CellOf(t, q, k) /\ cell.donors \in Nat /\ cell.donors >= Par.threshold
      /\ "influence" \in f.columns => Within(cell.influence, Par.influence)
    BY LeftPassed
<1>2. cell.influence = Influence(t, q, k) /\ cell.donors = DonorCount(t, q, k)
    BY <1>1 DEF CellOf
<1>3. "influence" \in f.columns
    BY DEF Run, Procedure
<1>4. Influence(t, q, k) # Missing
    BY <1>1, <1>2, <1>3 DEF Within
<1>5. /\ Varies(t, ids, q)
      /\ \A e \in DonorsOf(t, ids) : Cardinality(without(e)) >= 3 /\ Varies(t, without(e), q)
    BY <1>4 DEF Influence, CountedRows
<1>6. IsFiniteSet(ids) /\ Cardinality(ids) \in Nat
    BY RowsHaveNumbers, FS_CardinalityType DEF CountedRows
<1> HIDE DEF ids
<1>7. ids # {}
  <2>1. DonorCount(t, q, k) # 0
      BY <1>1, <1>2, AnswersAssumption, ReleasesAssumption
  <2>2. DonorsOf(t, ids) # {}
      BY <2>1, FS_EmptySet DEF DonorCount, CountedRows, ids
  <2> QED
      BY <2>2 DEF DonorsOf
<1>8. CASE d \in DonorsOf(t, ids)
    BY <1>5, <1>8 DEF ids
<1>9. CASE d \notin DonorsOf(t, ids)
  <2>1. without(d) = ids
      BY <1>9 DEF DonorsOf
  <2>2. PICK e \in DonorsOf(t, ids) : TRUE
      BY <1>7 DEF DonorsOf
  <2>3. Cardinality(without(e)) <= Cardinality(ids) /\ Cardinality(without(e)) \in Nat
    <3>1. without(e) \in SUBSET ids
        OBVIOUS
    <3> HIDE DEF without
    <3> QED
        BY <1>6, <3>1, FS_Subset, FS_CardinalityType
  <2>4. Cardinality(without(e)) >= 3
      BY <1>5, <2>2
  <2>5. Cardinality(ids) >= 3
    <3> HIDE DEF without
    <3> QED
        BY <1>6, <2>3, <2>4
  <2>6. Cardinality(without(d)) >= 3 /\ Varies(t, without(d), q)
      BY <1>5, <2>1, <2>5
  <2> QED
      BY <2>6 DEF ids
<1> QED
    BY <1>8, <1>9

\* The answer to any question is sound.
LEMMA AskedAnswersSound == AnswerAsked => AnswersSound
<1> SUFFICES ASSUME AnswerAsked, Is("answer") PROVE AnswersSound
    BY DEF AnswersSound, AnswersAreFrames, OneSetOfRows, NobodysNumber
<1>1. PICK s \in Surveys : \E t \in s.tables, q \in s.questions :
        LET f == Run(t, q, DomainOf) IN
        asked = [about |-> "answer", table |-> t, question |-> q, frame |-> f,
                 applied |-> Apply(f, StandinVetter(f, Par), Par)]
    BY DEF AnswerAsked
<1>2. PICK t \in s.tables, q \in s.questions :
        LET f == Run(t, q, DomainOf) IN
        asked = [about |-> "answer", table |-> t, question |-> q, frame |-> f,
                 applied |-> Apply(f, StandinVetter(f, Par), Par)]
    BY <1>1
<1>3. IsQuestion(t, q) /\ Missing \notin Int
    BY AnswersAssumption, ReleasesAssumption
<1> DEFINE f == Run(t, q, DomainOf)
           a == Apply(f, StandinVetter(f, Par), Par)
<1>4. asked.table = t /\ asked.question = q /\ asked.frame = f /\ asked.applied = a
    BY <1>2
<1>5. DOMAIN f.cells = Groups(t, RowsOf(t, q, Guards(q)), q) /\ \A k \in DOMAIN f.cells : f.cells[k] = CellOf(t, q, k)
    BY DEF Run
<1> HIDE DEF f
<1>6. AnswersAreFrames
    BY <1>3, <1>4, RunIsFrame DEF AnswersAreFrames, f
<1>7. OneSetOfRows
  <2> SUFFICES ASSUME NEW k \in DOMAIN f.cells
               PROVE  LET given == CheckerFrame(t, q)
                          people == IF k \in DOMAIN given THEN DOMAIN given[k] ELSE {}
                      IN  /\ f.cells[k].donors = Cardinality(people)
                          /\ Additive(q) /\ people # {} => Value(t, q, k) = SumFunction(given[k])
      BY <1>4 DEF OneSetOfRows
  <2>1. f.cells[k].donors = DonorCount(t, q, k)
    <3>1. f.cells[k] = CellOf(t, q, k)
        BY <1>5
    <3>2. CellOf(t, q, k).donors = DonorCount(t, q, k)
        BY DEF CellOf
    <3> QED
        BY <3>1, <3>2
  <2> QED
      BY <2>1, <1>3, RowsAreOne
<1>8. NobodysNumber
  <2> SUFFICES ASSUME NEW k \in TableKeys(a)
               PROVE  /\ Additive(q) =>
                            LET c == CheckerFrame(t, q)[k]
                            IN  Cardinality(DOMAIN c) >= Par.threshold /\ SharesBounded(c, ShareBound(q))
                      /\ q.fn = "corr" =>
                            \A d \in DonorsOf(t, DOMAIN t) :
                                LET cell == InCell(t, RowsOf(t, q, Guards(q)), q, k)
                                    rest == {i \in cell : t[i].donor # d}
                                IN  Cardinality(rest) >= 3 /\ Varies(t, rest, q)
      BY <1>4 DEF NobodysNumber, SharesBounded
  <2>1. f = Run(t, q, DomainOf) /\ k \in TableKeys(Apply(f, StandinVetter(f, Par), Par))
      BY DEF f
  <2>2. ASSUME Additive(q)
        PROVE  LET c == CheckerFrame(t, q)[k]
               IN  Cardinality(DOMAIN c) >= Par.threshold /\ SharesBounded(c, ShareBound(q))
      BY <1>3, <2>1, <2>2, TotalIsNobodys
  <2>3. ASSUME q.fn = "corr", NEW d
        PROVE  LET rest == {i \in CountedRows(t, q, k) : t[i].donor # d}
               IN  Cardinality(rest) >= 3 /\ Varies(t, rest, q)
      BY <1>3, <2>1, <2>3, CorrelationIsNobodys
  <2> QED
      BY <2>2, <2>3 DEF CountedRows
<1> QED
    BY <1>6, <1>7, <1>8 DEF AnswersSound

\* Every answer is one of a given question, as the engine and apply make it.
THEOREM AnsweredAlways == Answers => []AnswerAsked
<1>1. Unasked => AnswerAsked
    BY DEF Unasked, AnswerAsked, Is
<1>2. AnswerAsked /\ [AskAnswer]_asked => AnswerAsked'
  <2> SUFFICES ASSUME AnswerAsked, [AskAnswer]_asked PROVE AnswerAsked'
      OBVIOUS
  <2>1. CASE AskAnswer
      BY <2>1 DEF AskAnswer, AnswerAsked
  <2>2. CASE UNCHANGED asked
      BY <2>2 DEF AnswerAsked, Is
  <2> QED
      BY <2>1, <2>2
<1> QED
    BY <1>1, <1>2, PTL DEF Answers

\* Whatever the table, the question and the bounds: the engine answers with a
\* frame, everything in it is about one set of rows, and no number that leaves is
\* one person's.
THEOREM AnswersAreSound == Answers => []AnswersSound
<1>1. AnswerAsked => AnswersSound
    BY AskedAnswersSound
<1> QED
    BY <1>1, AnsweredAlways, PTL

-----------------------------------------------------------------------------
(* Policies *)

\* The sorts of what is written.
LEMMA SortsWritten ==
    ASSUME NEW g \in Writings
    PROVE  /\ g[1] \in {"blank", "number", "whole", "point", "truth", "text"}
           /\ g[1] = "blank" <=> g = Blank
           /\ g[1] \in {"number", "whole", "point"} => g[2] \in Int
           /\ g[1] = "truth" => g[2] \in BOOLEAN
<1>1. CASE g = Blank
    BY <1>1 DEF Blank
<1>2. CASE g \in {"number", "whole", "point"} \X Int
    BY <1>2 DEF Blank
<1>3. CASE g \in {"truth"} \X BOOLEAN
    BY <1>3 DEF Blank
<1>4. CASE g \in {"text"} \X STRING
    BY <1>4 DEF Blank
<1> QED
    BY <1>1, <1>2, <1>3, <1>4 DEF Writings

\* What is written as a number is one, in hundredths.
LEMMA HundredthsWritten ==
    ASSUME NEW g \in Writings, g[1] \in {"number", "whole", "point", "truth"}
    PROVE  /\ Hundredths(g) \in Int
           /\ g[1] = "whole" => Hundredths(g) = 100 * g[2]
           /\ g[1] = "truth" => Hundredths(g) \in {0, 100}
<1>1. CASE g[1] \in {"number", "point"}
    BY <1>1, SortsWritten DEF Hundredths
<1>2. CASE g[1] = "whole"
    BY <1>2, SortsWritten DEF Hundredths
<1>3. CASE g[1] = "truth"
    BY <1>3, SortsWritten DEF Hundredths
<1> QED
    BY <1>1, <1>2, <1>3

\* int() cuts off a fraction and nothing else.
LEMMA TruncatedBy ==
    ASSUME NEW h \in Int
    PROVE  LET t == 100 * Truncated(h) IN
           /\ Truncated(h) \in Int
           /\ IF h >= 0 THEN t \in 0..h /\ h < t + 100 ELSE -t \in 0..(-h) /\ t < h + 100
           /\ \A n \in Int : h = 100 * n => t = h
<1>1. CASE h >= 0
    BY <1>1 DEF Truncated
<1>2. CASE h < 0
  <2>1. Truncated(h) = -((-h) \div 100)
      BY <1>2 DEF Truncated
  <2> DEFINE m == -h  r == m \div 100
  <2>2. r \in Int /\ 100 * r <= m /\ m < 100 * r + 100 /\ r >= 0
      BY <1>2
  <2>3. m \in Int /\ h = -m
      OBVIOUS
  <2>4. Truncated(h) = -r
      BY <2>1
  <2> HIDE DEF r, m
  <2> QED
      BY <1>2, <2>2, <2>3, <2>4
<1> QED
    BY <1>1, <1>2

\* What a dial enforces of what was written for it, and a number for a number.
LEMMA WrittenIsCast ==
    ASSUME NEW g \in Writings, NEW dial \in DOMAIN Defaults, Casts(dial, g)
    PROVE  /\ Enforces(dial, Cast(dial, g), g)
           /\ dial \notin TextDials => Cast(dial, g) \in Int
<1>1. CASE dial \in TextDials
  <2>1. g[1] = "text" => Cast(dial, g) = g[2]
      BY <1>1 DEF Cast, TextDials, ShareDials
  <2> QED
      BY <1>1, <2>1 DEF Enforces
<1>2. CASE dial \in ShareDials
  <2>1. dial \notin TextDials /\ g[1] \in {"number", "whole", "point", "truth"}
      BY <1>2 DEF Casts, TextDials, ShareDials
  <2>2. Cast(dial, g) = Hundredths(g)
      BY <1>2, <2>1 DEF Cast
  <2> QED
      BY <1>2, <2>1, <2>2, HundredthsWritten DEF Enforces
<1>3. CASE dial \notin TextDials \cup ShareDials
  <2> DEFINE h == Hundredths(g)
  <2>1. g[1] \in {"number", "truth", "whole"}
      BY <1>3 DEF Casts
  <2>2. Cast(dial, g) = Truncated(h)
      BY <1>3 DEF Cast
  <2>3. h \in Int /\ (g[1] # "number" => \E n \in Int : h = 100 * n)
    <3>1. CASE g[1] = "number"
        BY <3>1, HundredthsWritten
    <3>2. CASE g[1] = "whole"
        BY <3>2, HundredthsWritten, SortsWritten
    <3>3. CASE g[1] = "truth"
      <4>1. h \in {0, 100} /\ h \in Int
          BY <3>3, HundredthsWritten
      <4>2. 0 = 100 * 0 /\ 100 = 100 * 1
          OBVIOUS
      <4> QED
          BY <4>1, <4>2
    <3> QED
        BY <2>1, <3>1, <3>2, <3>3
  <2> HIDE DEF h
  <2>4. /\ Truncated(h) \in Int
        /\ g[1] # "number" => 100 * Truncated(h) = h
        /\ IF h >= 0 THEN 100 * Truncated(h) \in 0..h /\ h < 100 * Truncated(h) + 100
           ELSE -(100 * Truncated(h)) \in 0..(-h) /\ 100 * Truncated(h) < h + 100
      BY <2>3, TruncatedBy
  <2> QED
      BY <1>3, <2>1, <2>2, <2>4 DEF Enforces, h
<1> QED
    BY <1>1, <1>2, <1>3

\* The value of a dial: the environment's, else the file's, else the vetter that
\* a checker's command implies, else the default.
LEMMA ResolvedDial ==
    ASSUME NEW file, NEW env, IsGiven(file), IsGiven(env), NEW dial \in DOMAIN Defaults
    PROVE  LET p == Resolved(file, env) IN
           /\ dial \in EnvGiven(env) => p[dial] = Cast(dial, env[dial])
           /\ dial \notin EnvGiven(env) /\ dial \in DOMAIN file => p[dial] = Cast(dial, file[dial])
           /\ dial \notin EnvGiven(env) \cup DOMAIN file =>
                 p[dial] = Defaults[dial] \/ dial = "vetter"
           /\ "vetter" \notin EnvGiven(env) \cup DOMAIN file /\ HasCommand(p) =>
                 p.vetter = "standin+external"
<1> DEFINE values == ReadValues(file, env)
           implied == ImpliedVetter(values)
           p == Resolved(file, env)
<1>1. /\ DOMAIN values = EnvGiven(env) \cup DOMAIN file
      /\ \A d \in EnvGiven(env) : values[d] = Cast(d, env[d])
      /\ \A d \in DOMAIN file \ EnvGiven(env) : values[d] = Cast(d, file[d])
    BY DEF ReadValues, FileValues, EnvValues, LaidOver
<1> HIDE DEF values
<1>2. /\ DOMAIN implied \subseteq {"vetter"}
      /\ "vetter" \notin DOMAIN values /\ "checker_cmd" \in DOMAIN values /\ HasCommand(values) =>
            "vetter" \in DOMAIN implied /\ implied["vetter"] = "standin+external"
    BY DEF ImpliedVetter
<1> HIDE DEF implied
<1>3. /\ \A d \in DOMAIN values : p[d] = values[d]
      /\ \A d \in DOMAIN implied \ DOMAIN values : p[d] = implied[d]
      /\ \A d \in DOMAIN Defaults \ (DOMAIN values \cup DOMAIN implied) : p[d] = Defaults[d]
    BY DEF Resolved, LaidOver, values, implied
<1>4. "checker_cmd" \in DOMAIN Defaults /\ Defaults.checker_cmd = ""
    BY DEF Defaults
<1> HIDE DEF p
<1>5. HasCommand(p) => "checker_cmd" \in DOMAIN values /\ HasCommand(values)
    BY <1>2, <1>3, <1>4 DEF HasCommand
<1>6. "vetter" \notin DOMAIN values /\ HasCommand(p) => p.vetter = "standin+external"
    BY <1>2, <1>3, <1>5
<1>7. \/ dial \in DOMAIN values \/ dial = "vetter" \/ p[dial] = Defaults[dial]
    BY <1>2, <1>3
<1> QED
    BY <1>1, <1>3, <1>6, <1>7 DEF p

\* A process that starts has numbers in the dials of numbers.
LEMMA DialsAreNumbers ==
    ASSUME NEW file, NEW env, NEW waived, IsGiven(file), IsGiven(env), Starts(file, env, waived)
    PROVE  LET p == Resolved(file, env) IN
           /\ \A dial \in DOMAIN Defaults \ (TextDials \cup {"moment2_dom_threshold"}) : p[dial] \in Int
           /\ p.moment2_dom_threshold \in Int \cup {Missing}
<1>1. \A dial \in DOMAIN Defaults \ TextDials : Resolved(file, env)[dial] \in Int \cup {Defaults[dial]}
  <2> SUFFICES ASSUME NEW dial \in DOMAIN Defaults \ TextDials
               PROVE  Resolved(file, env)[dial] \in Int \cup {Defaults[dial]}
      OBVIOUS
  <2>1. CASE dial \in EnvGiven(env)
    <3>1. Casts(dial, env[dial]) /\ env[dial] \in Writings
        BY <2>1 DEF Starts, EnvGiven, IsGiven
    <3>2. Cast(dial, env[dial]) \in Int
        BY <3>1, WrittenIsCast
    <3> QED
        BY <2>1, <3>2, ResolvedDial
  <2>2. CASE dial \notin EnvGiven(env) /\ dial \in DOMAIN file
    <3>1. Casts(dial, file[dial]) /\ file[dial] \in Writings
        BY <2>2 DEF Starts, IsGiven
    <3>2. Cast(dial, file[dial]) \in Int
        BY <3>1, WrittenIsCast
    <3> QED
        BY <2>2, <3>2, ResolvedDial
  <2>3. CASE dial \notin EnvGiven(env) \cup DOMAIN file
    <3>1. dial # "vetter"
        BY DEF TextDials
    <3> QED
        BY <2>3, <3>1, ResolvedDial
  <2> QED
      BY <2>1, <2>2, <2>3
<1>2. /\ \A dial \in DOMAIN Defaults \ (TextDials \cup {"moment2_dom_threshold"}) : Defaults[dial] \in Int
      /\ Defaults.moment2_dom_threshold = Missing
      /\ "moment2_dom_threshold" \in DOMAIN Defaults \ TextDials
  <2>1. DOMAIN Defaults =
           {"min_cell_size", "max_output_rows", "query_budget", "differencing_delta", "selection_budget_bits",
            "session_window_hours", "dom_threshold", "influence_threshold", "round_base",
            "moment2_dom_threshold", "response_quantum_ms", "response_ceiling_ms", "vetter", "checker_cmd"}
      BY DEF Defaults
  <2>2. /\ Defaults.min_cell_size \in Int /\ Defaults.max_output_rows \in Int /\ Defaults.query_budget \in Int
        /\ Defaults.differencing_delta \in Int /\ Defaults.selection_budget_bits \in Int
        /\ Defaults.session_window_hours \in Int /\ Defaults.dom_threshold \in Int
        /\ Defaults.influence_threshold \in Int /\ Defaults.round_base \in Int
        /\ Defaults.response_quantum_ms \in Int /\ Defaults.response_ceiling_ms \in Int
        /\ Defaults.moment2_dom_threshold = Missing
      BY DEF Defaults
  <2> QED
      BY <2>1, <2>2 DEF TextDials
<1> QED
    BY <1>1, <1>2

\* The question of a state is a start with what was given, or a call of a client.
PolicyAsked ==
    \/ \E file, env \in Given, waived \in BOOLEAN :
          LET accepted == Starts(file, env, waived) IN
          /\ OnlyTexts(env)
          /\ asked = [about |-> "settings", file |-> file, env |-> env, waived |-> waived, starts |-> accepted,
                      policy |-> IF accepted THEN Resolved(file, env) ELSE Defaults]
    \/ \E ways, scheme, allowed, remote, retries, replies :
          /\ ways \in Namings /\ DOMAIN replies = 1..Tries(retries)
          /\ asked = Call(ways, scheme, allowed, remote, retries, replies)
    \/ ~Is("settings") /\ ~Is("client")

Started(file, env, waived) ==
    /\ IsGiven(file) /\ IsGiven(env) /\ OnlyTexts(env)
    /\ Starts(file, env, waived)
    /\ asked.file = file /\ asked.env = env /\ asked.waived = waived
    /\ asked.policy = Resolved(file, env)

\* A state about a call is about no start.
LEMMA CallsAreCalls ==
    \A ways, scheme, allowed, remote, retries, replies :
        Call(ways, scheme, allowed, remote, retries, replies).about = "client"
BY DEF Call

\* A process that started was given a file and an environment.
LEMMA StartedFromGiven ==
    PolicyAsked /\ Is("settings") /\ asked.starts => \E file, env, waived : Started(file, env, waived)
<1> SUFFICES ASSUME PolicyAsked, Is("settings"), asked.starts
             PROVE  \E file, env, waived : Started(file, env, waived)
    OBVIOUS
<1>1. PICK file \in Given, env \in Given, waived \in BOOLEAN :
          asked = [about |-> "settings", file |-> file, env |-> env, waived |-> waived,
                   starts |-> Starts(file, env, waived),
                   policy |-> IF Starts(file, env, waived) THEN Resolved(file, env) ELSE Defaults] /\ OnlyTexts(env)
  <2>1. \A ways, scheme, allowed, remote, retries, replies :
            asked # Call(ways, scheme, allowed, remote, retries, replies)
    <3>1. asked.about # "client"
        BY DEF Is
    <3> QED
        BY <3>1, CallsAreCalls
  <2> QED
      BY <2>1 DEF PolicyAsked
<1>2. /\ OnlyTexts(env) /\ Starts(file, env, waived) /\ asked.policy = Resolved(file, env)
      /\ asked.file = file /\ asked.env = env /\ asked.waived = waived
    BY <1>1
<1>3. IsGiven(file) /\ IsGiven(env)
    BY PoliciesAssumption
<1> QED
    BY <1>2, <1>3 DEF Started

\* What is enforced is what was written.
LEMMA SetEnforced == PolicyAsked => SetIsEnforced
<1> SUFFICES ASSUME PolicyAsked, Is("settings"), asked.starts, NEW dial \in DOMAIN Defaults
             PROVE  LET p == asked.policy[dial]  told == dial \in EnvGiven(asked.env) IN
                    /\ told => Enforces(dial, p, asked.env[dial])
                    /\ told /\ dial \notin TextDials => asked.env[dial][1] \in {"whole", "point"}
                    /\ ~told /\ dial \in DOMAIN asked.file => Enforces(dial, p, asked.file[dial])
                    /\ ~told /\ dial \notin DOMAIN asked.file => p = Defaults[dial] \/ dial = "vetter"
    BY DEF SetIsEnforced
<1>1. PICK file, env, waived : Started(file, env, waived)
    BY StartedFromGiven
<1>2. /\ IsGiven(file) /\ IsGiven(env) /\ asked.file = file /\ asked.env = env
      /\ asked.policy = Resolved(file, env)
      /\ dial \in DOMAIN file => Casts(dial, file[dial]) /\ file[dial] \in Writings
      /\ dial \in EnvGiven(env) => Casts(dial, env[dial]) /\ env[dial] \in Writings /\ dial \in DOMAIN env
    BY <1>1 DEF Started, Starts, IsGiven, EnvGiven
<1>3. ASSUME dial \in EnvGiven(env)
      PROVE  /\ Enforces(dial, asked.policy[dial], env[dial])
             /\ dial \notin TextDials => env[dial][1] \in {"whole", "point"}
  <2>1. asked.policy[dial] = Cast(dial, env[dial])
      BY <1>2, <1>3, ResolvedDial
  <2>2. env[dial][1] \in {"whole", "point", "text", "blank"}
      BY <1>1, <1>2, <1>3 DEF Started, OnlyTexts
  <2> QED
      BY <1>2, <1>3, <2>1, <2>2, WrittenIsCast DEF Casts
<1>4. ASSUME dial \notin EnvGiven(env), dial \in DOMAIN file
      PROVE  Enforces(dial, asked.policy[dial], file[dial])
  <2>1. asked.policy[dial] = Cast(dial, file[dial])
      BY <1>2, <1>4, ResolvedDial
  <2> QED
      BY <1>2, <1>4, <2>1, WrittenIsCast
<1>5. ASSUME dial \notin EnvGiven(env), dial \notin DOMAIN file
      PROVE  asked.policy[dial] = Defaults[dial] \/ dial = "vetter"
    BY <1>2, <1>5, ResolvedDial
<1> QED
    BY <1>2, <1>3, <1>4, <1>5

\* A checker that was given is consulted.
LEMMA GivenIsConsulted == PolicyAsked => CheckerUsed
<1> SUFFICES ASSUME PolicyAsked, Is("settings"), asked.starts, HasCommand(asked.policy),
                    "vetter" \notin DOMAIN asked.file \cup EnvGiven(asked.env)
             PROVE  asked.policy.vetter = "standin+external"
    BY DEF CheckerUsed
<1>1. PICK file, env, waived : Started(file, env, waived)
    BY StartedFromGiven
<1>2. /\ IsGiven(file) /\ IsGiven(env) /\ asked.file = file /\ asked.env = env
      /\ asked.policy = Resolved(file, env)
    BY <1>1 DEF Started
<1>3. "vetter" \in DOMAIN Defaults
    BY DEF Defaults
<1> QED
    BY <1>2, <1>3, ResolvedDial

\* What of the policy of a started process is a number.
LEMMA NumbersOfPolicy ==
    ASSUME PolicyAsked, Is("settings"), asked.starts
    PROVE  LET p == asked.policy IN
           /\ p.min_cell_size \in Int /\ p.dom_threshold \in Int
           /\ p.response_quantum_ms \in Int /\ p.response_ceiling_ms \in Int
           /\ p.moment2_dom_threshold \in Int \cup {Missing}
           /\ Coherent(p) /\ (MeetsFloors(p) \/ asked.waived)
<1>1. PICK file, env, waived : Started(file, env, waived)
    BY StartedFromGiven
<1>2. /\ IsGiven(file) /\ IsGiven(env) /\ Starts(file, env, waived) /\ asked.waived = waived
      /\ asked.policy = Resolved(file, env)
    BY <1>1 DEF Started
<1>3. /\ \A dial \in DOMAIN Defaults \ (TextDials \cup {"moment2_dom_threshold"}) : asked.policy[dial] \in Int
      /\ asked.policy.moment2_dom_threshold \in Int \cup {Missing}
    BY <1>2, DialsAreNumbers
<1>4. {"min_cell_size", "dom_threshold", "response_quantum_ms", "response_ceiling_ms"}
          \subseteq DOMAIN Defaults \ (TextDials \cup {"moment2_dom_threshold"})
    BY DEF Defaults, TextDials
<1>5. Coherent(asked.policy) /\ (MeetsFloors(asked.policy) \/ asked.waived)
    BY <1>2 DEF Starts
<1> QED
    BY <1>3, <1>4, <1>5

\* The floors reach the rules that withhold cells.
LEMMA FloorsReach == PolicyAsked => FloorsReachCells
<1> SUFFICES ASSUME PolicyAsked, Is("settings"), asked.starts, ~asked.waived,
                    NEW n \in {2, 4, 5}, NEW share \in {50, 51, 80, 81}, NEW class \in {"magnitude", "moment2"}
             PROVE  LET cell == [n |-> n, donors |-> n, share |-> share, influence |-> 0, finite |-> TRUE]
                        frame == [cells |-> [k \in {<<1>>} |-> cell], columns |-> {"n", "n_donors", "value", "dominance"},
                                  domains |-> <<Missing>>, known |-> TRUE, class |-> class]
                    IN  StandinVetter(frame, VettingParameters(asked.policy)).suppress = {} =>
                            n >= 5 /\ share <= IF class = "moment2" THEN 80 ELSE 50
    BY DEF FloorsReachCells
<1> DEFINE p == asked.policy
<1>1. /\ p.min_cell_size \in Int /\ p.min_cell_size >= 5 /\ p.dom_threshold \in 1..50
      /\ p.moment2_dom_threshold = Missing \/ p.moment2_dom_threshold \in 1..80
  <2>1. MeetsFloors(p) /\ p.min_cell_size \in Int
      BY NumbersOfPolicy
  <2> HIDE DEF p
  <2> QED
      BY <2>1 DEF MeetsFloors
<1> DEFINE cell == [n |-> n, donors |-> n, share |-> share, influence |-> 0, finite |-> TRUE]
           frame == [cells |-> [k \in {<<1>>} |-> cell], columns |-> {"n", "n_donors", "value", "dominance"},
                     domains |-> <<Missing>>, known |-> TRUE, class |-> class]
           par == VettingParameters(p)
<1> SUFFICES ASSUME StandinVetter(frame, par).suppress = {}
             PROVE  n >= 5 /\ share <= IF class = "moment2" THEN 80 ELSE 50
    OBVIOUS
<1>2. /\ par.threshold = p.min_cell_size /\ par.dominance = p.dom_threshold
      /\ par.moment2 = p.moment2_dom_threshold
    BY DEF VettingParameters
<1> HIDE DEF par, p
<1>3. Fails("small_cell", frame, par) = {} /\ Fails("dominance", frame, par) = {}
  <2> HIDE DEF frame
  <2>1. UNION {Fails(r, frame, par) : r \in CellRules} = {}
      BY DEF StandinVetter
  <2>2. "small_cell" \in CellRules /\ "dominance" \in CellRules
      BY DEF CellRules
  <2> QED
      BY <2>1, <2>2
<1>4. /\ DOMAIN frame.cells = {<<1>>} /\ frame.cells[<<1>>].n = n /\ frame.cells[<<1>>].share = share
      /\ "n" \in frame.columns /\ "dominance" \in frame.columns /\ frame.class = class
    OBVIOUS
<1> HIDE DEF frame
<1>5. ~(n = Missing \/ n < par.threshold)
    BY <1>3, <1>4 DEF Fails
<1>6. Within(share, DominanceBound(frame, par))
    BY <1>3, <1>4 DEF Fails
<1>7. share <= IF class = "moment2" /\ par.moment2 # Missing THEN par.moment2 ELSE par.dominance
    BY <1>4, <1>6 DEF Within, DominanceBound
<1>8. n >= 5
    BY <1>1, <1>2, <1>5
<1> QED
    BY <1>1, <1>2, <1>7, <1>8

\* The bucket of a number: a quantum of them, from its lower end.
LEMMA BucketOf ==
    ASSUME NEW q \in Nat \ {0}
    PROVE  /\ \A w \in Nat : /\ w \div q \in Nat
                             /\ w < (w \div q + 1) * q /\ (w \div q) * q <= w
           /\ \A w, x \in Nat : x \div q = w \div q <=> x \in ((w \div q) * q)..((w \div q) * q + q - 1)
           /\ \A w, c \in Nat : w < c /\ c % q = 0 => (w \div q + 1) * q <= c
           /\ \A c \in Nat : c % q = 0 => (c \div q + 1) * q = c + q
<1>1. \A w \in Nat : /\ w \div q \in Nat /\ w % q \in 0..(q - 1)
                     /\ w = (w \div q) * q + (w % q)
    OBVIOUS
<1>2. \A a, b \in Nat : a < b => (a + 1) * q <= b * q
  <2> TAKE a, b \in Nat
  <2> HAVE a < b
  <2>1. PICK e \in Nat : b = (a + 1) + e
      BY b - (a + 1) \in Nat
  <2>2. \A x, y \in Nat : (x + y) * q = x * q + y * q
      OBVIOUS
  <2>3. b * q = (a + 1) * q + e * q
      BY <2>1, <2>2
  <2>4. \A x \in Nat : x * q \in Nat
      OBVIOUS
  <2> QED
      BY <2>1, <2>3, <2>4
<1>3. \A a \in Nat : (a + 1) * q = a * q + q /\ a * q \in Nat
    OBVIOUS
<1> DEFINE d(w) == w \div q
           m(w) == d(w) * q
<1>4. \A w \in Nat : d(w) \in Nat /\ m(w) \in Nat /\ m(w) <= w /\ w < m(w) + q
    BY <1>1, <1>3
<1>5. \A w, x \in Nat : d(x) < d(w) => m(x) + q <= m(w)
    BY <1>1, <1>2, <1>3
<1>6. \A c \in Nat : c % q = 0 => m(c) = c
    BY <1>1
<1>7. \A w, x \in Nat : d(x) = d(w) => m(x) = m(w)
    OBVIOUS
<1>8. \A w \in Nat : (d(w) + 1) * q = m(w) + q
    BY <1>3, <1>4
<1> HIDE DEF d, m
<1>9. \A w, x \in Nat : d(x) = d(w) <=> x \in m(w)..(m(w) + q - 1)
  <2> TAKE w, x \in Nat
  <2>1. /\ d(x) \in Nat /\ m(x) \in Nat /\ m(x) <= x /\ x < m(x) + q
        /\ d(w) \in Nat /\ m(w) \in Nat /\ m(w) <= w /\ w < m(w) + q
      BY <1>4
  <2>2. /\ d(x) < d(w) => m(x) + q <= m(w)
        /\ d(w) < d(x) => m(w) + q <= m(x)
        /\ d(x) = d(w) => m(x) = m(w)
      BY <1>5, <1>7
  <2> QED
      BY <2>1, <2>2
<1>10. \A w, c \in Nat : w < c /\ c % q = 0 => m(w) + q <= c
  <2> TAKE w, c \in Nat
  <2> HAVE w < c /\ c % q = 0
  <2>1. m(c) = c
      BY <1>6
  <2>2. c \notin m(w)..(m(w) + q - 1)
    <3>1. CASE d(c) = d(w)
        BY <1>4, <1>7, <2>1, <3>1
    <3>2. CASE d(c) # d(w)
        BY <1>9, <3>2
    <3> QED
        BY <3>1, <3>2
  <2>3. m(w) \in Nat /\ m(w) <= w
      BY <1>4
  <2> QED
      BY <2>2, <2>3
<1>11. /\ \A w \in Nat : w \div q \in Nat /\ w < m(w) + q /\ m(w) <= w
       /\ \A w \in Nat : (w \div q + 1) * q = m(w) + q
       /\ \A w, x \in Nat : x \div q = w \div q <=> x \in m(w)..(m(w) + q - 1)
    BY <1>4, <1>8, <1>9 DEF d
<1>12. \A w \in Nat : m(w) = (w \div q) * q
    BY DEF m, d
<1> HIDE DEF d, m
<1>13. \A c \in Nat : c % q = 0 => m(c) + q = c + q
    BY <1>6
<1> QED
    BY <1>10, <1>11, <1>12, <1>13

\* Each time of answering is a whole bucket's, or the ceiling's.
LEMMA AnswersTellBuckets == PolicyAsked => BucketsEven
<1> DEFINE p == asked.policy  c == p.response_ceiling_ms  q == p.response_quantum_ms
           works == 0..(c + 2 * q)
           answered(w) == AnsweredAt(p, w)
<1> SUFFICES ASSUME PolicyAsked, Is("settings"), asked.starts, q > 0,
                    NEW w \in works
             PROVE  /\ answered(w) > w \/ w >= c
                    /\ w < c => Cardinality({x \in works : answered(x) = answered(w)}) = q
                    /\ w >= c => answered(w) = answered(c)
    BY DEF BucketsEven
<1>1. c \in Nat /\ q \in Nat /\ q > 0 /\ c > 0 /\ c % q = 0
    BY NumbersOfPolicy DEF Coherent
<1>2. /\ \A x \in Nat : x < c => answered(x) = x + ((x \div q + 1) * q - x)
      /\ \A x \in Nat : x >= c => answered(x) = c + ((c \div q + 1) * q - c)
  <2> SUFFICES ASSUME NEW x \in Nat
               PROVE  /\ x < c => answered(x) = x + ((x \div q + 1) * q - x)
                      /\ x >= c => answered(x) = c + ((c \div q + 1) * q - c)
      OBVIOUS
  <2>1. answered(x) = (IF x < c THEN x ELSE c) + SleepToBoundary(IF x < c THEN x ELSE c, q)
      BY DEF AnsweredAt
  <2> HIDE DEF c, q, answered
  <2>2. \A e : SleepToBoundary(e, q) = (e \div q + 1) * q - e
      BY <1>1 DEF SleepToBoundary
  <2>3. ~(x < c /\ x >= c)
      BY <1>1
  <2> QED
      BY <2>1, <2>2, <2>3
<1> HIDE DEF c, q, answered
<1>3. /\ \A x \in Nat : /\ x \div q \in Nat
                        /\ x < (x \div q + 1) * q /\ (x \div q) * q <= x
      /\ \A x, y \in Nat : y \div q = x \div q <=> y \in ((x \div q) * q)..((x \div q) * q + q - 1)
      /\ \A x, b \in Nat : x < b /\ b % q = 0 => (x \div q + 1) * q <= b
      /\ \A b \in Nat : b % q = 0 => (b \div q + 1) * q = b + q
  <2>1. q \in Nat \ {0}
      BY <1>1
  <2> QED
      BY <2>1, BucketOf
<1>4. \A x \in Nat : x >= c => answered(x) = c + q
  <2> TAKE x \in Nat
  <2> HAVE x >= c
  <2>1. (c \div q + 1) * q = c + q
      BY <1>1, <1>3
  <2>2. answered(x) = c + ((c \div q + 1) * q - c)
      BY <1>1, <1>2
  <2> QED
      BY <1>1, <2>1, <2>2
<1>5. \A x \in Nat : x < c => answered(x) = (x \div q + 1) * q
  <2> TAKE x \in Nat
  <2> HAVE x < c
  <2>1. (x \div q + 1) * q \in Nat
      BY <1>1, <1>3
  <2>2. answered(x) = x + ((x \div q + 1) * q - x)
      BY <1>1, <1>2
  <2> QED
      BY <2>1, <2>2
<1>6. w \in Nat
    BY <1>1
<1> HIDE DEF works
<1>7. CASE w >= c
  <2>1. answered(w) = c + q /\ answered(c) = c + q
      BY <1>1, <1>4, <1>6, <1>7
  <2> QED
      BY <1>1, <1>6, <1>7, <2>1
<1>8. CASE w < c
  <2> DEFINE low == (w \div q) * q
  <2>1. answered(w) = (w \div q + 1) * q /\ answered(w) > w /\ answered(w) <= c
    <3>1. answered(w) = (w \div q + 1) * q
        BY <1>5, <1>6, <1>8
    <3>2. w < (w \div q + 1) * q /\ (w \div q + 1) * q <= c
        BY <1>1, <1>3, <1>6, <1>8
    <3> QED
        BY <3>1, <3>2
  <2>2. /\ low \in Nat /\ (w \div q + 1) * q = low + q
        /\ \A x \in Nat : (x \div q + 1) * q = (x \div q) * q + q /\ (x \div q) * q \in Nat
    <3>1. \A m \in Nat : (m + 1) * q = m * q + q /\ m * q \in Nat
        BY <1>1
    <3> QED
        BY <1>3, <1>6, <3>1
  <2>3. \A x \in Nat : x < c => (answered(x) = answered(w) <=> x \in low..(low + q - 1))
    <3> TAKE x \in Nat
    <3> HAVE x < c
    <3>1. answered(x) = (x \div q + 1) * q
        BY <1>5
    <3>2. x \div q \in Nat /\ w \div q \in Nat
        BY <1>3, <1>6
    <3>3. \A a, b \in Nat : (a + 1) * q = (b + 1) * q => a = b
        BY <1>1
    <3>4. answered(x) = answered(w) <=> x \div q = w \div q
        BY <2>1, <3>1, <3>2, <3>3
    <3> QED
        BY <1>3, <1>6, <3>4
  <2>4. \A x \in Nat : x >= c => answered(x) # answered(w) /\ x \notin low..(low + q - 1)
    <3> TAKE x \in Nat
    <3> HAVE x >= c
    <3>1. answered(x) = c + q
        BY <1>4
    <3>2. low + q <= c
        BY <2>1, <2>2
    <3> HIDE DEF low
    <3> QED
        BY <1>1, <2>1, <2>2, <3>1, <3>2
  <2>5. low + q <= c
      BY <2>1, <2>2
  <2> HIDE DEF low
  <2>6. {x \in works : answered(x) = answered(w)} = low..(low + q - 1)
    <3>1. \A x \in works : answered(x) = answered(w) <=> x \in low..(low + q - 1)
        BY <1>1, <2>3, <2>4 DEF works
    <3>2. low..(low + q - 1) \subseteq works
        BY <1>1, <2>2, <2>5 DEF works
    <3> QED
        BY <3>1, <3>2
  <2>7. Cardinality(low..(low + q - 1)) = q
    <3>1. low \in Int /\ low + q - 1 \in Int /\ low <= low + q - 1
        BY <1>1, <2>2
    <3>2. Cardinality(low..(low + q - 1)) = (low + q - 1) - low + 1
        BY <3>1, FS_Interval
    <3> QED
        BY <1>1, <2>2, <3>2
  <2>8. ~(w >= c)
      BY <1>1, <1>6, <1>8
  <2>9. Cardinality({x \in works : answered(x) = answered(w)}) = q
      BY <2>6, <2>7
  <2> QED
      BY <2>1, <2>8, <2>9
<1> QED
    BY <1>1, <1>6, <1>7, <1>8

\* The setting that was ways is the first that is there.
LEMMA FirstNamed ==
    ASSUME NEW ways \in Namings
    PROVE  \E i \in 1..4 : /\ FirstGiven(ways) = ways[i] /\ ways[i] # Unnamed
                           /\ \A k \in 1..(i - 1) : ways[k] = Unnamed
<1> DEFINE given == {i \in DOMAIN ways : ways[i] # Unnamed}  i == Min(given)
<1>1. DOMAIN ways = 1..4 /\ ways[4] # Unnamed
  <2>1. PICK explicit, own, other \in {Unnamed} \cup Hosts : ways = <<explicit, own, other, DefaultHost>>
      BY DEF Namings
  <2>2. DefaultHost # Unnamed
      BY Zenon DEF DefaultHost, Unnamed
  <2> QED
      BY <2>1, <2>2
<1>2. given \subseteq 1..4 /\ given # {} /\ FirstGiven(ways) = ways[i]
    BY <1>1 DEF FirstGiven
<1>3. i \in given /\ \A k \in given : i <= k
  <2>1. given \in SUBSET Nat /\ given # {}
      BY <1>2
  <2> HIDE DEF given
  <2> QED
      BY <2>1, MinIsLeast
<1>4. \A k \in 1..4 : k \in given <=> ways[k] # Unnamed
    BY <1>1
<1> HIDE DEF i, given
<1>5. \A k \in 1..(i - 1) : ways[k] = Unnamed
  <2> TAKE k \in 1..(i - 1)
  <2>1. k \in 1..4 /\ ~(i <= k)
      BY <1>2, <1>3
  <2> QED
      BY <1>3, <1>4, <2>1
<1> QED
    BY <1>2, <1>3, <1>4, <1>5

\* A call reaches no host but the one it was told of.
LEMMA CallInside == PolicyAsked => CallStaysInside
<1> SUFFICES ASSUME PolicyAsked, Is("client")
             PROVE  /\ asked.remote \/ asked.reached \subseteq asked.allowed
                    /\ \A host \in asked.reached : \E i \in 1..4 :
                          host = asked.ways[i] /\ host # Unnamed /\ \A k \in 1..(i - 1) : asked.ways[k] = Unnamed
                    /\ asked.completes => \E i \in DOMAIN asked.replies :
                          asked.replies[i][1] = "answer" /\ \A k \in 1..(i - 1) : asked.replies[k][1] = "busy"
    BY DEF CallStaysInside
<1>1. PICK ways, scheme, allowed, remote, retries, replies :
          /\ ways \in Namings /\ DOMAIN replies = 1..Tries(retries)
          /\ asked = Call(ways, scheme, allowed, remote, retries, replies)
  <2>1. \A file, env, waived, accepted, policy :
            asked # [about |-> "settings", file |-> file, env |-> env, waived |-> waived, starts |-> accepted,
                     policy |-> policy]
      BY DEF Is
  <2> QED
      BY <2>1 DEF PolicyAsked
<1> DEFINE host == FirstGiven(ways)  url == [scheme |-> scheme, host |-> host]
           connects == Connects(url, allowed, remote)
<1>3. /\ asked.ways = ways /\ asked.allowed = allowed /\ asked.remote = remote /\ asked.replies = replies
      /\ asked.reached = IF connects THEN Reached(host, retries, replies) ELSE {}
      /\ asked.completes => Completes(retries, replies)
    BY <1>1 DEF Call
<1>4. connects => remote \/ host \in allowed
    BY DEF Connects
<1>5. Reached(host, retries, replies) \subseteq {host}
    BY DEF Reached, Opened, Range
<1>6. Completes(retries, replies) => \E i \in DOMAIN replies :
          replies[i][1] = "answer" /\ \A k \in 1..(i - 1) : replies[k][1] = "busy"
    BY <1>1 DEF Completes, Attempts
<1>7. \E i \in 1..4 : host = ways[i] /\ host # Unnamed /\ \A k \in 1..(i - 1) : ways[k] = Unnamed
    BY <1>1, FirstNamed
<1> HIDE DEF connects, host
<1> QED
    BY <1>3, <1>4, <1>5, <1>6, <1>7

\* Any start and any client is as it was set to be.
LEMMA PolicyAskedSound == PolicyAsked => PolicySound
BY SetEnforced, GivenIsConsulted, FloorsReach, AnswersTellBuckets, CallInside DEF PolicySound

\* Every state is a start with files and environments of those given, or a client.
THEOREM PolicyAlways == Policies => []PolicyAsked
<1>1. Unasked => PolicyAsked
    BY DEF Unasked, PolicyAsked, Is
<1>2. PolicyAsked /\ [AskPolicy]_asked => PolicyAsked'
  <2> SUFFICES ASSUME PolicyAsked, [AskPolicy]_asked PROVE PolicyAsked'
      OBVIOUS
  <2>1. CASE AskSettings
      BY <2>1 DEF AskSettings, PolicyAsked
  <2>2. CASE AskClient
    <3>1. PICK ways \in Namings, scheme \in {"http", "file"}, allowed \in AllowLists, remote \in BOOLEAN,
               retries \in Retries :
              \E replies \in [1..Tries(retries) -> Replies(Hosts)] :
                  asked' = Call(ways, scheme, allowed, remote, retries, replies)
        BY <2>2 DEF AskClient
    <3>2. PICK replies \in [1..Tries(retries) -> Replies(Hosts)] :
              asked' = Call(ways, scheme, allowed, remote, retries, replies)
        BY <3>1
    <3>3. DOMAIN replies = 1..Tries(retries)
        OBVIOUS
    <3> QED
        BY <3>2, <3>3 DEF PolicyAsked
  <2>3. CASE UNCHANGED asked
      BY <2>3 DEF PolicyAsked, Is
  <2> QED
      BY <2>1, <2>2, <2>3 DEF AskPolicy
<1> QED
    BY <1>1, <1>2, PTL DEF Policies

\* A process that starts enforces what was written, but for fractions the file
\* gives to whole-number dials, with its floors; it tells of the work behind an
\* answer only its bucket; and a call of the model stays inside.
THEOREM PoliciesSound == Policies => []PolicySound
<1>1. PolicyAsked => PolicySound
    BY PolicyAskedSound
<1> QED
    BY <1>1, PolicyAlways, PTL

-----------------------------------------------------------------------------
(* Shadows *)

\* The builds a state may be about.
ShadowAsked ==
    \/ \E b \in Builds : asked = [about |-> "shadow", study |-> b.study, wanted |-> b.wanted]
    \/ ~Is("shadow")

\* A table has a row for each level of each of its columns.
LEMMA RowsForLevels ==
    ASSUME NEW b, IsBuild(b), NEW d, d = b.study, NEW a, a = b.wanted, ~Refused(d, a),
           NEW t \in TableNames(d), NEW c \in d.tables[t], c \in DOMAIN d.domains
    PROVE  /\ RowCount(d, a, t) \in Int
           /\ Cardinality(Range(d.domains[c])) \in Nat
           /\ Cardinality(Range(d.domains[c])) <= RowCount(d, a, t)
<1>1. /\ IsFiniteSet(d.tables[t])
      /\ \A e \in DOMAIN d.domains : d.domains[e] \in Seq(Range(d.domains[e]))
      /\ a.persons \in Int /\ \A u \in DOMAIN a.rows : a.rows[u] \in Int
    BY DEF IsBuild
<1> DEFINE listed == d.tables[t] \cap DOMAIN d.domains
           lengths == {Len(d.domains[e]) : e \in listed}
<1>2. IsFiniteSet({0} \cup lengths) /\ lengths \subseteq Nat
  <2>1. IsFiniteSet(listed)
      BY <1>1, FS_Intersection
  <2>2. IsFiniteSet(lengths)
    <3> DEFINE f == [e \in listed |-> Len(d.domains[e])]
    <3>1. f \in Surjection(listed, lengths)
        BY DEF Surjection
    <3> HIDE DEF f, listed, lengths
    <3> QED
        BY <2>1, <3>1, FS_Surjection
  <2>3. IsFiniteSet({0})
      BY FS_Singleton
  <2>4. lengths \subseteq Nat
      BY <1>1, LenProperties
  <2> QED
      BY <2>2, <2>3, <2>4, FS_Union
<1>3. Widest(d, t) \in Nat /\ Widest(d, t) >= Len(d.domains[c])
  <2>1. Widest(d, t) = Max({0} \cup lengths)
      BY DEF Widest
  <2>2. Len(d.domains[c]) \in lengths
      OBVIOUS
  <2> DEFINE all == {0} \cup lengths  m == Max(all)
  <2>3. all \in SUBSET Int /\ all \subseteq Nat /\ IsFiniteSet(all) /\ all # {} /\ Len(d.domains[c]) \in all
      BY <1>2, <2>2
  <2> HIDE DEF all
  <2>4. m \in all /\ \A y \in all : m >= y
      BY <2>3, MaxIsGreatest
  <2> HIDE DEF m
  <2>5. m \in Nat /\ m >= Len(d.domains[c])
      BY <2>3, <2>4
  <2> QED
      BY <2>1, <2>5 DEF m, all
<1>4. Cardinality(Range(d.domains[c])) \in Nat /\ Cardinality(Range(d.domains[c])) <= Len(d.domains[c])
  <2> DEFINE l == d.domains[c]
  <2>1. l \in Seq(Range(l)) /\ DOMAIN l = 1..Len(l) /\ Len(l) \in Nat
      BY <1>1, LenProperties
  <2>2. IsFiniteSet(1..Len(l)) /\ Cardinality(1..Len(l)) = Len(l)
    <3>1. 1 \in Int /\ Len(l) \in Int
        BY <2>1
    <3>2. IsFiniteSet(1..Len(l)) /\ Cardinality(1..Len(l)) = IF 1 > Len(l) THEN 0 ELSE Len(l) - 1 + 1
        BY <3>1, FS_Interval
    <3> QED
        BY <2>1, <3>2
  <2>3. l \in Surjection(1..Len(l), Range(l))
      BY <2>1 DEF Range, Surjection
  <2> HIDE DEF l
  <2>4. IsFiniteSet(Range(l)) /\ Cardinality(Range(l)) <= Cardinality(1..Len(l))
      BY <2>2, <2>3, FS_Surjection
  <2> QED
      BY <2>2, <2>4, FS_CardinalityType DEF l
<1>5. \A S : S \subseteq Int /\ IsFiniteSet(S) /\ S # {} => Max(S) \in Int /\ \A y \in S : Max(S) >= y
    BY MaxIsGreatest
<1>6. \A x, y, z \in Int : /\ IsFiniteSet({x, y}) /\ Max({x, y}) \in Int /\ Max({x, y}) >= y
                           /\ Max({x, y, z}) \in Int /\ Max({x, y, z}) >= z
  <2> TAKE x, y, z \in Int
  <2>1. IsFiniteSet({x, y}) /\ IsFiniteSet({x, y, z})
    <3>1. IsFiniteSet({x})
        BY FS_Singleton
    <3>2. IsFiniteSet({x} \cup {y})
        BY <3>1, FS_AddElement
    <3>3. IsFiniteSet(({x} \cup {y}) \cup {z})
        BY <3>2, FS_AddElement
    <3>4. {x, y} = {x} \cup {y} /\ {x, y, z} = ({x} \cup {y}) \cup {z}
        OBVIOUS
    <3> QED
        BY <3>2, <3>3, <3>4
  <2>2. {x, y} \subseteq Int /\ {x, y, z} \subseteq Int /\ {x, y} # {} /\ {x, y, z} # {}
      OBVIOUS
  <2> QED
      BY <1>5, <2>1, <2>2
<1>7. RowCount(d, a, t) \in Int /\ RowCount(d, a, t) >= Widest(d, t)
  <2>1. Widest(d, t) \in Int /\ MinEntityRows \in Int /\ a.persons \div EntityRowsPerPerson \in Int
      BY <1>1, <1>3 DEF MinEntityRows, EntityRowsPerPerson
  <2>2. CASE t \in DOMAIN a.rows
      BY <1>1, <1>6, <2>1, <2>2 DEF RowCount
  <2>3. CASE t \notin DOMAIN a.rows /\ d.person \in d.tables[t]
      BY <1>1, <1>6, <2>1, <2>3 DEF RowCount
  <2>4. CASE t \notin DOMAIN a.rows /\ d.person \notin d.tables[t]
      BY <1>6, <2>1, <2>4 DEF RowCount
  <2> QED
      BY <2>2, <2>3, <2>4
<1>8. Len(d.domains[c]) \in Nat
    BY <1>1, LenProperties
<1> QED
    BY <1>3, <1>4, <1>7, <1>8

\* Every level of a factor is drawn.
LEMMA LevelsAreKept == ShadowAsked => LevelsKept
<1> SUFFICES ASSUME ShadowAsked, BuildsUp PROVE LevelsKept
    BY DEF LevelsKept
<1>1. PICK b \in Builds : asked = [about |-> "shadow", study |-> b.study, wanted |-> b.wanted]
    BY DEF ShadowAsked, BuildsUp
<1> DEFINE d == b.study  a == b.wanted
<1>2. asked.study = d /\ asked.wanted = a /\ IsBuild(b) /\ ~Refused(d, a)
    BY <1>1, ShadowsAssumption DEF BuildsUp
<1> HIDE DEF d, a
<1> SUFFICES ASSUME NEW x \in Cells(d), x[2] \notin OwnedKeys(d) \cup {d.person} \cup DOMAIN a.derive
             PROVE  /\ KindOf(d, x[2]) = "cat" => x[2] \in DOMAIN d.domains
                    /\ x[2] \in DOMAIN d.domains => Generated(d, a, x[1], x[2]).must = Range(d.domains[x[2]])
    BY <1>2 DEF LevelsKept
<1>3. x[1] \in TableNames(d) /\ x[2] \in d.tables[x[1]]
    BY DEF Cells
<1>4. ~ColumnRefused(d, a, x[1], x[2])
    BY <1>2 DEF Refused
<1>5. KindOf(d, x[2]) = "cat" => x[2] \in DOMAIN d.domains
    BY <1>4 DEF ColumnRefused
<1>6. ASSUME x[2] \in DOMAIN d.domains
      PROVE  Generated(d, a, x[1], x[2]).must = Range(d.domains[x[2]])
  <2> DEFINE n == RowCount(d, a, x[1])  pool == Range(d.domains[x[2]])
  <2>1. Generated(d, a, x[1], x[2]) = CoverDraw(pool, n)
      BY <1>6 DEF Generated, ColumnValues
  <2>2. n \in Int /\ Cardinality(pool) \in Nat /\ Cardinality(pool) <= n
    <3>1. b.study = d /\ b.wanted = a
        BY DEF d, a
    <3> HIDE DEF d, a
    <3> QED
        BY <1>2, <1>3, <1>6, <3>1, RowsForLevels
  <2> HIDE DEF n, pool
  <2>3. CoverDraw(pool, n).must = pool
      BY <2>2 DEF CoverDraw
  <2> QED
      BY <2>1, <2>3 DEF pool
<1> QED
    BY <1>5, <1>6

\* A key has the owner that every join on it names.
LEMMA OneOwner ==
    ASSUME NEW d, OwnersAgree(d), NEW j \in Joins(d)
    PROVE  j[1] \in OwnedKeys(d) /\ Owner(d, j[1]) = j[2]
<1>1. j[1] \in OwnedKeys(d)
    BY DEF OwnedKeys
<1> DEFINE o == CHOOSE i \in Joins(d) : i[1] = j[1]
<1>2. o \in Joins(d) /\ o[1] = j[1]
    OBVIOUS
<1>3. o = j
    BY <1>2 DEF OwnersAgree
<1>4. Owner(d, j[1]) = o[2]
    BY DEF Owner
<1> QED
    BY <1>1, <1>3, <1>4

\* Every key drawn is one of its owner's.
LEMMA JoinsAlwaysMatch == ShadowAsked => JoinsMatch
<1> SUFFICES ASSUME ShadowAsked, BuildsUp,
                    NEW v \in asked.study.views, NEW j \in v.joins, NEW t, j[1] # asked.study.person
             PROVE  ColumnValues(asked.study, asked.wanted, t, j[1]).can
                        \subseteq ColumnValues(asked.study, asked.wanted, j[2], j[1]).must
    BY DEF JoinsMatch
<1> DEFINE d == asked.study  a == asked.wanted
<1>1. OwnersAgree(d)
    BY DEF BuildsUp, Refused
<1>2. j \in Joins(d)
    BY DEF Joins
<1>3. j[1] \in OwnedKeys(d) /\ Owner(d, j[1]) = j[2]
    BY <1>1, <1>2, OneOwner
<1> HIDE DEF d, a
<1>4. ColumnValues(d, a, j[2], j[1]) = All(KeyPool(d, a, j[1]))
    BY <1>3 DEF ColumnValues, d
<1>5. ColumnValues(d, a, t, j[1]) \in {All(KeyPool(d, a, j[1])), CoverDraw(KeyPool(d, a, j[1]), RowCount(d, a, t))}
    BY <1>3 DEF ColumnValues, d
<1>6. ColumnValues(d, a, t, j[1]).can \subseteq KeyPool(d, a, j[1])
    BY <1>5 DEF All, CoverDraw
<1> QED
    BY <1>4, <1>6 DEF All, d, a

\* The edges of a rule are finitely many numbers.
LEMMA EdgesAreInts ==
    ASSUME NEW b, IsBuild(b), NEW c \in DOMAIN b.study.rules
    PROVE  Edges(b.study, c) \in SUBSET Int /\ IsFiniteSet(Edges(b.study, c))
<1> DEFINE rule == b.study.rules[c]
           f == [op \in DOMAIN rule |-> Range(rule[op])]
           S == {Range(rule[op]) : op \in DOMAIN rule}
<1>1. IsFiniteSet(DOMAIN rule) /\ \A op \in DOMAIN rule : rule[op] \in Seq(Int)
    BY DEF IsBuild
<1>2. \A op \in DOMAIN rule : Range(rule[op]) \subseteq Int /\ IsFiniteSet(Range(rule[op]))
  <2> SUFFICES ASSUME NEW l \in Seq(Int) PROVE Range(l) \subseteq Int /\ IsFiniteSet(Range(l))
      BY <1>1
  <2>1. DOMAIN l = 1..Len(l) /\ Len(l) \in Nat /\ \A i \in 1..Len(l) : l[i] \in Int
      BY LenProperties, ElementOfSeq
  <2>2. IsFiniteSet(1..Len(l))
      BY <2>1, FS_Interval
  <2>3. l \in Surjection(1..Len(l), Range(l))
      BY <2>1 DEF Range, Surjection
  <2>4. IsFiniteSet(Range(l))
      BY <2>2, <2>3, FS_Surjection
  <2> QED
      BY <2>1, <2>4 DEF Range
<1>3. IsFiniteSet(S)
  <2>1. f \in Surjection(DOMAIN rule, S)
      BY DEF Surjection
  <2> HIDE DEF f, S, rule
  <2> QED
      BY <1>1, <2>1, FS_Surjection
<1>4. \A T \in S : IsFiniteSet(T) /\ T \subseteq Int
    BY <1>2
<1>5. Edges(b.study, c) = UNION S
    BY DEF Edges
<1> HIDE DEF S
<1>6. IsFiniteSet(UNION S)
    BY <1>3, <1>4, FS_UNION
<1> QED
    BY <1>4, <1>5, <1>6

\* The bounds of a column are numbers.
LEMMA BoundsAreInts ==
    ASSUME NEW b, IsBuild(b), NEW c
    PROVE  NumericBounds(b.study, b.wanted, c) \in Int \X Int
<1> DEFINE d == b.study  a == b.wanted
<1>1. CASE c \in DOMAIN a.ranges
    BY <1>1 DEF NumericBounds, IsBuild
<1>2. CASE c \notin DOMAIN a.ranges /\ c \in DOMAIN d.rules /\ Edges(d, c) # {}
  <2>1. Edges(d, c) \in SUBSET Int /\ IsFiniteSet(Edges(d, c))
      BY <1>2, EdgesAreInts
  <2>2. Min(Edges(d, c)) \in Int /\ Max(Edges(d, c)) \in Int
      BY <1>2, <2>1, MinOfInts, MaxIsGreatest
  <2>3. NumericBounds(d, a, c) = <<Min(Edges(d, c)), Max(Edges(d, c))>>
      BY <1>2 DEF NumericBounds
  <2> QED
      BY <2>2, <2>3
<1>3. CASE c \notin DOMAIN a.ranges /\ ~(c \in DOMAIN d.rules /\ Edges(d, c) # {})
    BY <1>3 DEF NumericBounds, FallbackRange, Thousand
<1> QED
    BY <1>1, <1>2, <1>3

\* Between bounds no finer than the draws nothing is drawn outside, and what is
\* drawn is no finer either.
LEMMA DrawnOfWhole ==
    ASSUME NEW kind \in {"int", "num"}, NEW b \in Int \X Int, \A i \in 1..2 : b[i] % Grain(kind) = 0,
           NEW v \in Drawn(kind, b)
    PROVE  /\ v[2] \in Int /\ b[1] <= v[2] /\ v[2] <= b[2] /\ v[2] % Grain(kind) = 0
           /\ v \in Numbers(b)
<1> DEFINE low == b[1]  high == b[2]
<1>1. low \in Int /\ high \in Int /\ low % Grain(kind) = 0 /\ high % Grain(kind) = 0
    OBVIOUS
<1> HIDE DEF low, high
<1>2. v[2] \in Int /\ low <= v[2] /\ v[2] <= high /\ v[2] % Grain(kind) = 0 /\ v = <<"num", v[2]>>
  <2>1. CASE kind = "int"
    <3>1. \A n \in Int : n % 1000 = 0 => Cut(n) \in Int /\ n = 1000 * Cut(n)
        BY DEF Cut, Thousand
    <3>2. v \in {"num"} \X {1000 * k : k \in Cut(low)..Cut(high)}
        BY <2>1 DEF Drawn, Thousand, low, high
    <3>3. PICK k \in Cut(low)..Cut(high) : v = <<"num", 1000 * k>>
        BY <3>2
    <3>4. low = 1000 * Cut(low) /\ high = 1000 * Cut(high) /\ Cut(low) \in Int /\ Cut(high) \in Int
        BY <1>1, <2>1, <3>1 DEF Grain, Thousand
    <3>5. k \in Int /\ Cut(low) <= k /\ k <= Cut(high)
        BY <3>4
    <3>6. low <= 1000 * k /\ 1000 * k <= high /\ (1000 * k) % 1000 = 0
        BY <3>4, <3>5
    <3> QED
        BY <2>1, <3>3, <3>5, <3>6 DEF Grain, Thousand
  <2>2. CASE kind = "num"
    <3>1. \A n \in Int : n % 10 = 0 => (n + 4) \div 10 = n \div 10 /\ (n + 5) \div 10 = n \div 10 /\ n = 10 * (n \div 10)
        OBVIOUS
    <3>2. v \in {"num"} \X {10 * k : k \in ((low + 4) \div 10)..((high + 5) \div 10)}
        BY <2>2 DEF Drawn, Cent, low, high
    <3>3. PICK k \in ((low + 4) \div 10)..((high + 5) \div 10) : v = <<"num", 10 * k>>
        BY <3>2
    <3>4. low % 10 = 0 /\ high % 10 = 0
        BY <1>1, <2>2 DEF Grain, Cent
    <3>5. k \in Int /\ low \div 10 <= k /\ k <= high \div 10
        BY <1>1, <3>1, <3>4
    <3>6. low <= 10 * k /\ 10 * k <= high /\ (10 * k) % 10 = 0
        BY <1>1, <3>1, <3>4, <3>5
    <3> QED
        BY <2>2, <3>3, <3>5, <3>6 DEF Grain, Cent
  <2> QED
      BY <2>1, <2>2
<1>3. v \in Numbers(b)
    BY <1>1, <1>2 DEF Numbers, low, high
<1> QED
    BY <1>2, <1>3 DEF low, high

\* Whatever the generator may draw the verification permits.
LEMMA DrawnIsPermitted ==
    ASSUME NEW b, IsBuild(b), NEW d, d = b.study, NEW a, a = b.wanted, ~Refused(d, a), NEW x \in Cells(d),
           \A c \in BaseColumns(d) :
              IsNumber(d, c) => \A i \in 1..2 : NumericBounds(d, a, c)[i] % Grain(KindOf(d, c)) = 0,
           (OwnedKeys(d) \cup {d.person}) \cap DOMAIN d.domains = {},
           \A c \in OwnedKeys(d) \cup {d.person} : KindOf(d, c) \notin {"int", "num", "bool"},
           \A e \in DOMAIN d.domains : d.domains[e] \in Seq(Range(d.domains[e])),
           NEW v \in Generated(d, a, x[1], x[2]).can
    PROVE  Permits(d, a, x[2], v)
<1> DEFINE t == x[1]  c == x[2]  n == RowCount(d, a, t)
<1>1. ~ColumnRefused(d, a, t, c)
    BY DEF Refused
<1>2. CASE c \in DOMAIN a.derive
  <2> DEFINE source == a.derive[c]  drawn == ColumnValues(d, a, t, source)
  <2>1. BandsDeclared(d, t, c, source)
      BY <1>2 DEF Refused
  <2>2. c \in DOMAIN d.domains
      BY <2>1 DEF BandsDeclared
  <2>3. Generated(d, a, t, c) = Banded(d, c, source, drawn)
      BY <1>2 DEF Generated
  <2>4. v \in {Label(d, c, source, w) : w \in drawn.can \ Unbanded(d, c, source, drawn)}
    <3> HIDE DEF drawn, source
    <3> QED
        BY <2>3 DEF Banded
  <2>5. PICK w \in drawn.can \ Unbanded(d, c, source, drawn) : v = Label(d, c, source, w)
      BY <2>4
  <2>6. BandsOf(d, c, source, w) # {}
    <3> HIDE DEF drawn, source
    <3> QED
        BY <2>5 DEF Unbanded
  <2>7. Min(BandsOf(d, c, source, w)) \in DOMAIN d.domains[c]
    <3> DEFINE bands == BandsOf(d, c, source, w)
    <3>1. bands \subseteq DOMAIN d.domains[c]
        BY DEF BandsOf
    <3>2. DOMAIN d.domains[c] \subseteq Nat
        BY <2>2, LenProperties
    <3> HIDE DEF bands
    <3>3. PICK i \in bands : \A k \in bands : i <= k
        BY <2>6, <3>1, <3>2, LeastNumber DEF bands
    <3>4. Min(bands) \in bands
        BY <3>3 DEF Min
    <3> QED
        BY <3>1, <3>4 DEF bands
  <2>8. v \in Range(d.domains[c])
      BY <2>5, <2>7 DEF Label, Range
  <2> QED
      BY <2>2, <2>8 DEF Permits
<1>3. CASE c \notin DOMAIN a.derive
  <2>1. v \in ColumnValues(d, a, t, c).can
      BY <1>3 DEF Generated
  <2>2. CASE c = d.person
    <3>1. c \notin DOMAIN d.domains
        BY <2>2
    <3>2. v \in {Person(i) : i \in 1..a.persons}
        BY <2>1, <2>2 DEF ColumnValues, CoverDraw
    <3> QED
        BY <2>2, <3>1, <3>2 DEF Permits
  <2>3. CASE c # d.person /\ c \in OwnedKeys(d)
    <3>1. c \notin DOMAIN d.domains /\ KindOf(d, c) \notin {"int", "num", "bool"}
        BY <2>3
    <3>2. v \in KeyPool(d, a, c)
        BY <2>1, <2>3 DEF ColumnValues, CoverDraw, All
    <3>3. PICK i : v = Key(c, i)
        BY <3>2 DEF KeyPool
    <3>4. v = Key(c, v[3])
        BY <3>3 DEF Key
    <3> HIDE DEF c
    <3>5. Permits(d, a, c, v) <=> v \in {Key(c, v[3]), Placeholder(c, v[3])}
        BY <2>3, <3>1 DEF Permits
    <3>6. v \in {Key(c, v[3]), Placeholder(c, v[3])}
        BY <3>4
    <3> QED
        BY <3>5, <3>6 DEF c
  <2>4. CASE c # d.person /\ c \notin OwnedKeys(d) /\ c \in DOMAIN d.domains
    <3>1. v \in Range(d.domains[c])
        BY <2>1, <2>4 DEF ColumnValues, CoverDraw
    <3> QED
        BY <2>4, <3>1 DEF Permits
  <2>5. CASE c # d.person /\ c \notin OwnedKeys(d) /\ c \notin DOMAIN d.domains
    <3> DEFINE kind == KindOf(d, c)
    <3>1. kind # "cat"
        BY <1>1, <2>5 DEF ColumnRefused
    <3>2. ColumnValues(d, a, t, c) =
             CASE kind = "bool" -> AnyOf(Booleans, n)
               [] kind \in {"int", "num"} -> AnyOf(Drawn(kind, NumericBounds(d, a, c)), n)
               [] OTHER -> All({Placeholder(c, i) : i \in 1..n})
        BY <2>5 DEF ColumnValues
    <3>3. /\ kind = "bool" => (Permits(d, a, c, v) <=> v \in Booleans)
          /\ kind \in {"int", "num"} => (Permits(d, a, c, v) <=> v \in Numbers(NumericBounds(d, a, c)))
          /\ kind \notin {"bool", "int", "num"} =>
                (Permits(d, a, c, v) <=> v \in {Key(c, v[3]), Placeholder(c, v[3])})
      <4> HIDE DEF c
      <4> QED
          BY <2>5 DEF Permits
    <3>7. c \in BaseColumns(d) /\ (kind \in {"int", "num"} => IsNumber(d, c))
        BY <2>5 DEF Cells, BaseColumns, IsNumber
    <3>8. kind \in {"int", "num"} =>
             /\ NumericBounds(d, a, c) \in Int \X Int
             /\ \A i \in 1..2 : NumericBounds(d, a, c)[i] % Grain(kind) = 0
        BY <3>7, BoundsAreInts
    <3> HIDE DEF kind, c, n
    <3>4. CASE kind = "bool"
      <4>1. v \in Booleans
          BY <2>1, <3>2, <3>4 DEF AnyOf
      <4> QED
          BY <3>3, <3>4, <4>1 DEF c
    <3>5. CASE kind \in {"int", "num"}
      <4>1. v \in Drawn(kind, NumericBounds(d, a, c))
          BY <2>1, <3>2, <3>5 DEF AnyOf
      <4>2. v \in Numbers(NumericBounds(d, a, c))
          BY <3>5, <3>8, <4>1, DrawnOfWhole
      <4> QED
          BY <3>3, <3>5, <4>2 DEF c
    <3>6. CASE kind \notin {"bool", "int", "num"}
      <4>1. v \in {Placeholder(c, i) : i \in 1..n}
          BY <2>1, <3>2, <3>6 DEF All
      <4>2. v = Placeholder(c, v[3])
          BY <4>1 DEF Placeholder
      <4> QED
          BY <3>3, <3>6, <4>2 DEF c
    <3> QED
        BY <3>4, <3>5, <3>6 DEF c
  <2> QED
      BY <2>2, <2>3, <2>4, <2>5
<1> QED
    BY <1>2, <1>3

\* The verification refuses nothing that was generated.
LEMMA VerifierAgrees == ShadowAsked => SelfConsistent
<1> SUFFICES ASSUME ShadowAsked, BuildsUp PROVE SelfConsistent
    BY DEF SelfConsistent
<1>1. PICK b \in Builds : asked = [about |-> "shadow", study |-> b.study, wanted |-> b.wanted]
    BY DEF ShadowAsked, BuildsUp
<1> DEFINE d == b.study  a == b.wanted
<1>2. /\ asked.study = d /\ asked.wanted = a /\ ~Refused(d, a) /\ IsBuild(b) /\ d = b.study /\ a = b.wanted
      /\ \A e \in DOMAIN d.domains : d.domains[e] \in Seq(Range(d.domains[e]))
    BY <1>1, ShadowsAssumption DEF BuildsUp, IsBuild
<1> HIDE DEF d, a
<1> SUFFICES ASSUME (OwnedKeys(d) \cup {d.person}) \cap DOMAIN d.domains = {},
                    \A c \in OwnedKeys(d) \cup {d.person} : KindOf(d, c) \notin {"int", "num", "bool"},
                    \A s \in Shown(d) : s[1] \notin d.identifiers /\ s[2] # d.person,
                    \A c \in BaseColumns(d) :
                       IsNumber(d, c) => \A i \in 1..2 : NumericBounds(d, a, c)[i] % Grain(KindOf(d, c)) = 0
             PROVE  ~MayFailVerification(d, a)
    BY <1>2 DEF SelfConsistent
<1>3. \A x \in Cells(d) : \A v \in Generated(d, a, x[1], x[2]).can : Permits(d, a, x[2], v)
    BY <1>2, DrawnIsPermitted
<1> QED
    BY <1>3 DEF MayFailVerification, CarriesPersons

\* Two multiples of what is drawn for a column are that far apart.
LEMMA MultiplesApart ==
    ASSUME NEW kind \in {"int", "num"}, NEW h \in Int, NEW k \in Int,
           h % Grain(kind) = 0, k % Grain(kind) = 0, h < k
    PROVE  h + Grain(kind) <= k
<1>1. CASE kind = "int"
  <2>1. Grain(kind) = 1000
      BY <1>1 DEF Grain, Thousand
  <2>2. h = 1000 * (h \div 1000) /\ k = 1000 * (k \div 1000) /\ h \div 1000 \in Int /\ k \div 1000 \in Int
      BY <2>1
  <2>3. h \div 1000 < k \div 1000
      BY <2>2
  <2> QED
      BY <2>1, <2>2, <2>3
<1>2. CASE kind = "num"
  <2>1. Grain(kind) = 10
      BY <1>2 DEF Grain, Cent
  <2>2. h = 10 * (h \div 10) /\ k = 10 * (k \div 10) /\ h \div 10 \in Int /\ k \div 10 \in Int
      BY <2>1
  <2>3. h \div 10 < k \div 10
      BY <2>2
  <2> QED
      BY <2>1, <2>2, <2>3
<1> QED
    BY <1>1, <1>2

\* Edges that follow each other in steps of g leave no number between them that
\* is g away from what lies below it.
LEMMA TilesCover ==
    ASSUME NEW low \in Seq(Int), NEW high \in Seq(Int), NEW n \in Nat, n > 0, Len(low) = n, Len(high) = n,
           NEW g \in Int, \A i \in 1..(n - 1) : low[i + 1] = high[i] + g,
           NEW k \in Int, \A i \in 1..n : high[i] < k => high[i] + g <= k, low[1] <= k, k <= high[n]
    PROVE  \E i \in 1..n : low[i] <= k /\ k <= high[i]
<1> DEFINE T == {i \in 1..n : k <= high[i]}
<1>1. T \in SUBSET Nat /\ n \in T
    OBVIOUS
<1>2. PICK m \in T : \A i \in T : m <= i
    BY <1>1, LeastNumber
<1>3. m \in 1..n /\ k <= high[m]
    BY <1>2
<1>4. CASE m = 1
    BY <1>3, <1>4
<1>5. CASE m # 1
  <2>1. m - 1 \in 1..(n - 1) /\ m - 1 \in 1..n /\ (m - 1) + 1 = m
      BY <1>3, <1>5
  <2>2. m - 1 \notin T
      BY <1>2, <1>3, <2>1
  <2>3. high[m - 1] \in Int /\ high[m - 1] < k
      BY <2>1, <2>2
  <2>4. low[m] = high[m - 1] + g
      BY <2>1
  <2>5. high[m - 1] + g <= k
      BY <2>1, <2>3
  <2>6. low[m] <= k
      BY <2>4, <2>5
  <2> QED
      BY <1>3, <2>6
<1> QED
    BY <1>4, <1>5

\* Every number drawn has its band.
LEMMA BandsAlwaysCover == ShadowAsked => BandsCover
<1> SUFFICES ASSUME ShadowAsked, BuildsUp PROVE BandsCover
    BY DEF BandsCover
<1>1. PICK b \in Builds : asked = [about |-> "shadow", study |-> b.study, wanted |-> b.wanted]
    BY DEF ShadowAsked, BuildsUp
<1> DEFINE d == b.study  a == b.wanted
           sources == {a.derive[banded] : banded \in DOMAIN a.derive}
<1>2. /\ asked.study = d /\ asked.wanted = a /\ ~Refused(d, a) /\ IsBuild(b) /\ d = b.study /\ a = b.wanted
      /\ \A e \in DOMAIN d.domains : d.domains[e] \in Seq(Range(d.domains[e]))
      /\ \A e \in DOMAIN d.rules : \A op \in DOMAIN d.rules[e] : d.rules[e][op] \in Seq(Int)
    BY <1>1, ShadowsAssumption DEF BuildsUp, IsBuild
<1> HIDE DEF d, a
<1> SUFFICES ASSUME \A source \in sources :
                        /\ IsNumber(d, source) /\ source \notin DOMAIN a.ranges
                        /\ source \in DOMAIN d.rules => Tile(d, source),
                    NEW x \in Cells(d), x[2] \in DOMAIN a.derive,
                    NEW v \in ColumnValues(d, a, x[1], a.derive[x[2]]).can
             PROVE  BandsOf(d, x[2], a.derive[x[2]], v) # {}
    BY <1>2 DEF BandsCover, MayFallOutside, Unbanded
<1> DEFINE banded == x[2]  source == a.derive[banded]  n == Len(d.domains[banded])
           low == d.rules[source][">="]  high == d.rules[source]["<="]
<1>3. BandsDeclared(d, x[1], banded, source)
    BY <1>2 DEF Refused
<1>4. /\ banded \in DOMAIN d.domains /\ d.domains[banded] # <<>>
      /\ source \in DOMAIN d.rules /\ {">=", "<="} \subseteq DOMAIN d.rules[source]
      /\ Len(low) = n /\ Len(high) = n
    BY <1>3 DEF BandsDeclared
<1> DEFINE kind == KindOf(d, source)  g == Grain(kind)  edges == Edges(d, source)
<1>5. /\ kind \in {"int", "num"}
      /\ source \notin OwnedKeys(d) \cup {d.person} \cup DOMAIN d.domains
      /\ source \notin DOMAIN a.ranges /\ Tile(d, source)
    BY <1>4 DEF IsNumber
<1>6. low \in Seq(Int) /\ high \in Seq(Int)
    BY <1>2, <1>4
<1>7. n \in Nat /\ n > 0 /\ DOMAIN d.domains[banded] = 1..n
    BY <1>2, <1>4, LenProperties, EmptySeq
<1>8. /\ \A edge \in edges : edge % g = 0
      /\ low[1] = Min(edges) /\ high[n] = Max(edges)
      /\ \A i \in 1..(n - 1) : low[i + 1] = high[i] + g
  <2> HIDE DEF source, n
  <2> QED
      BY <1>4, <1>5 DEF Tile
<1>9. /\ edges \in SUBSET Int /\ IsFiniteSet(edges)
      /\ \A i \in 1..n : high[i] \in edges
  <2>1. edges \in SUBSET Int /\ IsFiniteSet(edges)
    <3> HIDE DEF source
    <3> QED
        BY <1>2, <1>4, EdgesAreInts
  <2>2. Range(high) \subseteq edges
    <3> HIDE DEF source
    <3> QED
        BY <1>4 DEF Edges
  <2>3. DOMAIN high = 1..n
      BY <1>4, <1>6, LenProperties
  <2> QED
      BY <2>1, <2>2, <2>3 DEF Range
<1>10. v[2] \in Int /\ low[1] <= v[2] /\ v[2] <= high[n] /\ v[2] % g = 0
  <2> HIDE DEF source, n, g, low, high
  <2>1. ColumnValues(d, a, x[1], source) = AnyOf(Drawn(kind, NumericBounds(d, a, source)), RowCount(d, a, x[1]))
    <3>1. kind # "bool"
        BY <1>5
    <3> QED
        BY <1>5, <3>1 DEF ColumnValues
  <2>2. edges # {}
      BY <1>7, <1>9
  <2> HIDE DEF edges
  <2>3. NumericBounds(d, a, source) = <<Min(edges), Max(edges)>>
      BY <1>4, <1>5, <2>2 DEF NumericBounds, edges
  <2>4. v \in Drawn(kind, <<Min(edges), Max(edges)>>)
    <3>1. v \in ColumnValues(d, a, x[1], source).can
        BY DEF source
    <3> HIDE DEF kind
    <3> QED
        BY <2>1, <2>3, <3>1 DEF AnyOf
  <2>5. Min(edges) \in edges /\ Max(edges) \in edges
      BY <1>9, <2>2, MinOfInts, MaxIsGreatest
  <2> DEFINE b2 == <<Min(edges), Max(edges)>>
  <2>6. b2 \in Int \X Int /\ b2[1] = low[1] /\ b2[2] = high[n] /\ \A i \in 1..2 : b2[i] % Grain(kind) = 0
      BY <1>8, <1>9, <2>5 DEF g
  <2> HIDE DEF b2, kind
  <2>7. v[2] \in Int /\ b2[1] <= v[2] /\ v[2] <= b2[2] /\ v[2] % Grain(kind) = 0
      BY <1>5, <2>4, <2>6, DrawnOfWhole DEF b2
  <2> QED
      BY <2>6, <2>7 DEF g
<1>11. g \in Int /\ \A i \in 1..n : high[i] < v[2] => high[i] + g <= v[2]
  <2> HIDE DEF low, high, n, kind, edges
  <2>1. g \in Int
      BY DEF Grain, Thousand, Cent
  <2> SUFFICES ASSUME NEW i \in 1..n, high[i] < v[2] PROVE high[i] + g <= v[2]
      BY <2>1
  <2>2. high[i] \in Int /\ high[i] % Grain(kind) = 0
      BY <1>8, <1>9
  <2> DEFINE h == high[i]  w == v[2]
  <2>3. h \in Int /\ w \in Int /\ h % Grain(kind) = 0 /\ w % Grain(kind) = 0 /\ h < w
      BY <1>10, <2>2
  <2> HIDE DEF h, w
  <2>4. h + Grain(kind) <= w
      BY <1>5, <2>3, MultiplesApart
  <2> QED
      BY <2>4 DEF h, w
<1> HIDE DEF low, high, n, g
<1>12. \E i \in 1..n : low[i] <= v[2] /\ v[2] <= high[i]
    BY <1>4, <1>6, <1>7, <1>8, <1>10, <1>11, TilesCover
<1>13. BandsOf(d, banded, source, v) = {i \in DOMAIN d.domains[banded] : low[i] <= v[2] /\ v[2] <= high[i]}
    BY DEF BandsOf, low, high
<1> QED
    BY <1>7, <1>12, <1>13

\* The answer to any build is sound.
LEMMA ShadowAskedSound == ShadowAsked => ShadowSound
BY LevelsAreKept, JoinsAlwaysMatch, VerifierAgrees, BandsAlwaysCover DEF ShadowSound

\* Every state is one of the given builds.
THEOREM ShadowAlways == Shadows => []ShadowAsked
<1>1. Unasked => ShadowAsked
    BY DEF Unasked, ShadowAsked, Is
<1>2. ShadowAsked /\ [AskShadow]_asked => ShadowAsked'
    BY DEF AskShadow, ShadowAsked, Is
<1> QED
    BY <1>1, <1>2, PTL DEF Shadows

\* A shadow has the levels, the joins and the bands of its study, and where its
\* bounds are no finer than what is drawn within them, the verification of a
\* build refuses none that the generator made.
THEOREM ShadowsSound == Shadows => []ShadowSound
<1>1. ShadowAsked => ShadowSound
    BY ShadowAskedSound
<1> QED
    BY <1>1, ShadowAlways, PTL

-----------------------------------------------------------------------------
(* Proposals *)

\* What a view of a definition that loads declares.
LEMMA ViewOfLoaded ==
    ASSUME NEW d, Loads(d), NEW n \in DOMAIN d.views, NEW v, v = d.views[n]
    PROVE  /\ v.columns \cap v.unit = {} /\ "donor_id" \notin v.columns
           /\ v.columns \cap (d.identifiers \cup {v.person}) = {}
           /\ DOMAIN v.dims \cup v.measures \subseteq v.columns
           /\ DOMAIN v.filters \cup v.internal \subseteq UnitColumns(v)
           /\ DOMAIN v.dims \cap DOMAIN v.filters = {}
           /\ \A t \in v.times : t \in DOMAIN v.dims
           /\ \A c \in DOMAIN d.rules : RuleLoads(d.rules[c])
BY DEF Loads, ViewLoads

\* The columns a measure reads are measures, or internal.
LEMMA MeasureReads ==
    ASSUME NEW v, NEW m, MeasureFits(v, m)
    PROVE  /\ ColumnsRead(m) \subseteq v.measures \cup v.internal
           /\ ColumnsRead(m) \cap v.internal = {} => ColumnsRead(m) \subseteq v.measures
<1>1. CASE m.fn = "count" /\ {m.column, m.x, m.y} = {NoColumn}
    BY <1>1 DEF ColumnsRead
<1>2. CASE m.x = NoColumn /\ m.y = NoColumn /\ m.column \in v.measures
    BY <1>2 DEF ColumnsRead
<1>3. CASE m.column = NoColumn /\ {m.x, m.y} \subseteq v.measures \cup v.internal
    BY <1>3 DEF ColumnsRead
<1> QED
    BY <1>1, <1>2, <1>3 DEF MeasureFits

\* The columns filtered on are dimensions, or internal.
LEMMA FiltersOn ==
    ASSUME NEW d, NEW v, NEW filters, FiltersFit(d, v, filters)
    PROVE  FilteredOn(filters) \subseteq DOMAIN v.dims \cup DOMAIN v.filters
BY DEF FiltersFit, FilterFits, FilteredOn

\* An accepted query reads what its source has.
LEMMA NamesOfAccepted ==
    ASSUME NEW d, Loads(d), NEW q, Accepts(d, q), NEW v, v = d.views[q.view]
    PROVE  /\ Range(q.by) \cup ColumnsRead(q.measure) \cup FilteredOn(q.filters) \subseteq SourceColumns(d, q)
           /\ Range(q.by) \cap (d.identifiers \cup {v.person, "donor_id"} \cup v.unit) = {}
<1>1. /\ q.view \in DOMAIN d.views /\ Range(q.by) \subseteq DOMAIN v.dims
      /\ FiltersFit(d, v, q.filters) /\ MeasureFits(v, q.measure)
    BY DEF Accepts
<1>2. /\ v.columns \cap v.unit = {} /\ "donor_id" \notin v.columns
      /\ v.columns \cap (d.identifiers \cup {v.person}) = {}
      /\ DOMAIN v.dims \cup v.measures \subseteq v.columns
      /\ DOMAIN v.filters \cup v.internal \subseteq UnitColumns(v)
    BY <1>1, ViewOfLoaded
<1>3. FilteredOn(q.filters) \subseteq DOMAIN v.dims \cup DOMAIN v.filters
    BY <1>1, FiltersOn
<1>4. /\ ColumnsRead(q.measure) \subseteq v.measures \cup v.internal
      /\ ColumnsRead(q.measure) \cap v.internal = {} => ColumnsRead(q.measure) \subseteq v.measures
    BY <1>1, MeasureReads
<1> DEFINE spelled == Range(q.by) \cup ColumnsRead(q.measure) \cup FilteredOn(q.filters)
           inside == FilteredOn(q.filters) \cap DOMAIN v.filters # {} \/ ColumnsRead(q.measure) \cap v.internal # {}
<1>5. SourceColumns(d, q) = IF inside THEN UnitColumns(v) ELSE v.columns
    BY DEF SourceColumns
<1>6. spelled \subseteq UnitColumns(v)
    BY <1>1, <1>2, <1>3, <1>4 DEF UnitColumns
<1>7. ~inside => spelled \subseteq v.columns
    BY <1>1, <1>2, <1>3, <1>4
<1>8. spelled \subseteq SourceColumns(d, q)
    BY <1>5, <1>6, <1>7
<1>9. Range(q.by) \subseteq v.columns
    BY <1>1, <1>2
<1> QED
    BY <1>2, <1>8, <1>9

LEMMA NamesAlwaysResolve ==
    ASSUME NEW d, Loads(d), NEW q, asked = [about |-> "spec", study |-> d, query |-> q]
    PROVE  NamesResolve
<1>1. asked.study = d /\ asked.query = q
    OBVIOUS
<1> QED
    BY <1>1, NamesOfAccepted DEF NamesResolve, TheView

\* A filter on an internal column compares with an edge of its rule.
LEMMA FiltersUseEdges ==
    ASSUME NEW d, NEW v, NEW f, FilterFits(d, v, f), f.column \in DOMAIN v.filters
    PROVE  /\ f.column \in DOMAIN d.rules /\ f.op \in DOMAIN d.rules[f.column]
           /\ f.value \in Range(d.rules[f.column][f.op])
BY DEF FilterFits, FollowsRule

LEMMA BandsStayWhole ==
    ASSUME NEW d, NEW q, asked = [about |-> "spec", study |-> d, query |-> q]
    PROVE  WholeBands
<1> DEFINE v == d.views[q.view]
<1>1. asked.study = d /\ asked.query = q /\ TheView = v
    BY DEF TheView
<1> SUFFICES ASSUME Accepts(d, q), NEW c \in DOMAIN v.filters, NEW x \in Probes, NEW y \in Probes,
                    InOneBand(c, x, y)
             PROVE  x \in Through(c) <=> y \in Through(c)
    BY <1>1 DEF WholeBands
<1>2. FiltersFit(d, v, q.filters)
    BY DEF Accepts
<1> DEFINE Past(z, f) == Meets(z, [f EXCEPT !.value = @[2]])
<1>3. ASSUME NEW i \in DOMAIN q.filters, q.filters[i].column = c
      PROVE  Past(x, q.filters[i]) <=> Past(y, q.filters[i])
  <2> DEFINE f == q.filters[i]
  <2>1. FilterFits(d, v, f)
      BY <1>2 DEF FiltersFit
  <2>2. c \in DOMAIN d.rules /\ f.op \in DOMAIN d.rules[c] /\ f.value \in Range(d.rules[c][f.op])
      BY <1>3, <2>1, FiltersUseEdges
  <2> DEFINE edge == [column |-> c, op |-> f.op, value |-> f.value[2]]
  <2>3. Meets(x, edge) <=> Meets(y, edge)
      BY <1>1, <2>2 DEF InOneBand
  <2>4. \A z : Past(z, f) <=> Meets(z, edge)
      BY DEF Meets
  <2> QED
      BY <2>3, <2>4
<1>4. \A z \in Probes : z \in Through(c) <=> \A i \in DOMAIN q.filters : q.filters[i].column = c => Past(z, q.filters[i])
    BY <1>1 DEF Through
<1> HIDE DEF Past
<1> QED
    BY <1>3, <1>4

\* A pair has two members and no third.
LEMMA PairHasTwo ==
    ASSUME NEW s, IsFiniteSet(s), Cardinality(s) = 2
    PROVE  LET x == CHOOSE x \in s : TRUE  y == CHOOSE y \in s : y # x
           IN  x \in s /\ y \in s /\ x # y /\ s = {x, y}
<1> DEFINE x == CHOOSE x \in s : TRUE  y == CHOOSE y \in s : y # x
<1>1. x \in s
  <2>1. s # {}
      BY FS_EmptySet
  <2> QED
      BY <2>1
<1>2. IsFiniteSet(s \ {x}) /\ Cardinality(s \ {x}) = 1
  <2> HIDE DEF x
  <2>1. IsFiniteSet(s \ {x}) /\ Cardinality(s \ {x}) = Cardinality(s) - 1
      BY <1>1, FS_RemoveElement
  <2> QED
      BY <2>1
<1>3. PICK z : s \ {x} = {z}
    BY <1>2, FS_Singleton
<1>4. \E w \in s : w # x
    BY <1>3
<1>5. y \in s /\ y # x
  <2> HIDE DEF x
  <2> QED
      BY <1>4
<1> HIDE DEF x, y
<1>6. s = {x, y}
    BY <1>1, <1>3, <1>5
<1> QED
    BY <1>1, <1>5, <1>6 DEF x, y

\* Two different things are a pair.
LEMMA TwoMakeAPair ==
    ASSUME NEW x, NEW y, x # y
    PROVE  IsFiniteSet({x, y}) /\ Cardinality({x, y}) = 2
<1>1. IsFiniteSet({x}) /\ Cardinality({x}) = 1
    BY FS_Singleton
<1>2. {x} \cup {y} = {x, y} /\ y \notin {x}
    OBVIOUS
<1>3. IsFiniteSet({x} \cup {y}) /\ Cardinality({x} \cup {y}) = Cardinality({x}) + 1
    BY <1>1, <1>2, FS_AddElement
<1> QED
    BY <1>1, <1>2, <1>3

Totalled == {"mean", "sum", "sum_sq", "sum_cube", "sum_quad"}
PairsOf(v) == {s \in SUBSET (v.measures \cup v.internal) : Cardinality(s) = 2}

LEMMA CorrelationOfPair ==
    ASSUME NEW s, IsFiniteSet(s), Cardinality(s) = 2, NEW c, c = Correlation(s)
    PROVE  c.fn = "corr" /\ c.column = NoColumn /\ c.x # c.y /\ {c.x, c.y} = s
<1> DEFINE x == CHOOSE x \in s : TRUE  y == CHOOSE y \in s : y # x
<1>1. x # y /\ s = {x, y}
    BY PairHasTwo
<1>2. Correlation(s) = [fn |-> "corr", column |-> NoColumn, x |-> x, y |-> y]
    BY DEF Correlation
<1> HIDE DEF x, y
<1> QED
    BY <1>1, <1>2

LEMMA SkeletonIsExact ==
    ASSUME NEW d, IsDefinition(d), NEW q, IsSpec(q),
           asked = [about |-> "spec", study |-> d, query |-> q]
    PROVE  SkeletonExact
<1> SUFFICES ASSUME q.view \in DOMAIN d.views PROVE SkeletonExact
    BY DEF SkeletonExact
<1> DEFINE v == d.views[q.view]  m == q.measure
<1>1. asked.study = d /\ asked.query = q /\ TheView = v
    BY DEF TheView
<1>2. IsFiniteSet(v.measures \cup v.internal)
    BY FS_Union DEF IsDefinition
<1>3. \A s \in PairsOf(v) : IsFiniteSet(s) /\ Cardinality(s) = 2 /\ s \subseteq v.measures \cup v.internal
    BY <1>2, FS_Subset DEF PairsOf
<1> HIDE DEF v, m
<1>4. ASSUME NEW c \in MeasureConfigs(v) PROVE MeasureFits(v, c)
  <2>1. CASE c = Count
      BY <2>1 DEF Count, MeasureOf, MeasureFits
  <2>2. ASSUME NEW fn \in Totalled, NEW k \in v.measures, c = MeasureOf(fn, k)
        PROVE  MeasureFits(v, c)
      BY <2>2 DEF MeasureFits, Totalled, MeasureOf
  <2>3. ASSUME NEW s \in PairsOf(v), c = Correlation(s) PROVE MeasureFits(v, c)
    <3>1. c.fn = "corr" /\ c.column = NoColumn /\ c.x # c.y /\ {c.x, c.y} = s
        BY <1>3, <2>3, CorrelationOfPair
    <3> QED
        BY <1>3, <3>1 DEF MeasureFits
  <2> QED
      BY <2>1, <2>2, <2>3 DEF MeasureConfigs, Totalled, PairsOf
<1>5. ASSUME MeasureFits(v, m) PROVE \E c \in MeasureConfigs(v) : MeasureKey(m) = MeasureKey(c)
  <2>1. CASE m.fn = "count" /\ {m.column, m.x, m.y} = {NoColumn}
    <3>1. MeasureKey(m) = MeasureKey(Count)
        BY <2>1 DEF MeasureKey, Count, MeasureOf
    <3> QED
        BY <3>1 DEF MeasureConfigs, PairsOf
  <2>2. CASE m.fn \in Totalled /\ m.x = NoColumn /\ m.y = NoColumn /\ m.column \in v.measures
    <3> DEFINE c == MeasureOf(m.fn, m.column)
    <3>1. c = [fn |-> m.fn, column |-> m.column, x |-> NoColumn, y |-> NoColumn]
        BY DEF MeasureOf
    <3>2. c \in MeasureConfigs(v)
        BY <2>2 DEF MeasureConfigs, Totalled
    <3> HIDE DEF c
    <3>3. MeasureKey(m) = MeasureKey(c)
        BY <2>2, <3>1 DEF MeasureKey
    <3> QED
        BY <3>2, <3>3
  <2>3. CASE m.fn = "corr" /\ m.column = NoColumn /\ m.x # m.y /\ {m.x, m.y} \subseteq v.measures \cup v.internal
    <3> DEFINE s == {m.x, m.y}
    <3>1. s \in PairsOf(v)
        BY <2>3, TwoMakeAPair DEF PairsOf
    <3>2. Correlation(s) \in MeasureConfigs(v)
        BY <3>1 DEF MeasureConfigs, PairsOf
    <3>3. Correlation(s).fn = "corr" /\ Correlation(s).column = NoColumn /\ {Correlation(s).x, Correlation(s).y} = s
        BY <1>3, <3>1, CorrelationOfPair
    <3>4. MeasureKey(m) = MeasureKey(Correlation(s))
        BY <2>3, <3>3 DEF MeasureKey
    <3> QED
        BY <3>2, <3>4
  <2> QED
      BY <1>5, <2>1, <2>2, <2>3 DEF MeasureFits, Totalled
<1> QED
    BY <1>1, <1>4, <1>5 DEF SkeletonExact, m

-----------------------------------------------------------------------------

LEMMA QuantitiesStayApart ==
    ASSUME NEW d, QuantitiesLoad(d), \A q \in DOMAIN d.quantities : IsShared(d.quantities[q]),
           asked = [about |-> "quantities", study |-> d]
    PROVE  QuantitiesApart
<1>1. asked.study = d
    OBVIOUS
<1> SUFFICES ASSUME NEW m \in Members(d)
             PROVE  /\ Cardinality(QuantityOf(d, m[1], m[2])) = 1
                    /\ \A q \in QuantityOf(d, m[1], m[2]) :
                          {n[2] : n \in {n \in Range(d.quantities[q]) : n[1] = m[1]}} = {m[2]}
    BY <1>1 DEF QuantitiesApart
<1>2. ASSUME NEW q \in DOMAIN d.quantities, NEW k \in Range(d.quantities[q])
      PROVE  \A p \in DOMAIN d.quantities \ {q} : k \notin Range(d.quantities[p])
    BY DEF QuantitiesLoad, Range
<1>3. ASSUME NEW q \in DOMAIN d.quantities, NEW j \in Range(d.quantities[q]), NEW k \in Range(d.quantities[q]),
             j[1] = k[1]
      PROVE  j = k
  <2> DEFINE l == d.quantities[q]
  <2>1. l \in Seq(Range(l)) /\ DOMAIN l = 1..Len(l) /\ Len(l) \in Nat
      BY LenProperties DEF IsShared, IsList
  <2>2. PICK a, b \in DOMAIN l : j = l[a] /\ k = l[b]
      BY DEF Range
  <2>3. \A x \in DOMAIN l : \A y \in 1..(x - 1) : l[y][1] # l[x][1]
      BY DEF QuantitiesLoad
  <2>4. a \in Int /\ b \in Int /\ a >= 1 /\ b >= 1
      BY <2>1
  <2>5. ~(a \in 1..(b - 1)) /\ ~(b \in 1..(a - 1))
      BY <1>3, <2>2, <2>3
  <2>6. a = b
      BY <2>4, <2>5
  <2> QED
      BY <2>2, <2>6
<1>4. PICK q \in DOMAIN d.quantities : m \in Range(d.quantities[q])
    BY DEF Members
<1>5. m = <<m[1], m[2]>>
    BY <1>4 DEF IsShared
<1>6. QuantityOf(d, m[1], m[2]) = {q}
    BY <1>2, <1>4, <1>5 DEF QuantityOf
<1>7. {n[2] : n \in {n \in Range(d.quantities[q]) : n[1] = m[1]}} = {m[2]}
    BY <1>3, <1>4
<1> QED
    BY <1>6, <1>7, FS_Singleton

LEMMA AtMostThree == \A n \in 1..3 : n <= 3
    OBVIOUS

\* One term is one key.
LEMMA OneTerm ==
    ASSUME NEW s, IsList(s), Len(s) = 1
    PROVE  Range(s) = {s[1]} /\ Distinct(s)
<1>1. DOMAIN s = {1}
    BY LenProperties DEF IsList
<1>2. Range(s) = {s[1]}
    BY <1>1 DEF Range
<1> QED
    BY <1>2, FS_Singleton DEF Distinct

\* What a planned query has in common with its model.
LEMMA OverIs ==
    ASSUME NEW m, NEW fn, NEW filters, NEW q, q = Over(m, fn, filters)
    PROVE  /\ q.view = m.view /\ q.by = m.terms /\ q.filters = filters
           /\ fn = "count" => q.measure = Count
           /\ fn # "count" => q.measure = MeasureOf(fn, m.response)
BY DEF Over

\* A query over the terms of a model is accepted if its measure and its
\* filters are.
LEMMA OverAccepted ==
    ASSUME NEW d, NEW m, m.view \in DOMAIN d.views,
           Len(m.terms) <= MaxGroupBy, Distinct(m.terms), Range(m.terms) \subseteq DOMAIN d.views[m.view].dims,
           NEW filters, Len(filters) <= MaxFilters, FiltersFit(d, d.views[m.view], filters),
           NEW fn \in Totalled \cup {"count"}, fn # "count" => m.response \in d.views[m.view].measures
    PROVE  Accepts(d, Over(m, fn, filters))
<1> DEFINE q == Over(m, fn, filters)  v == d.views[m.view]
<1>1. /\ q.view = m.view /\ q.by = m.terms /\ q.filters = filters
      /\ fn = "count" => q.measure = Count
      /\ fn # "count" => q.measure = MeasureOf(fn, m.response)
    BY OverIs
<1>2. MeasureFits(v, q.measure)
  <2>1. CASE fn = "count"
      BY <1>1, <2>1 DEF MeasureFits, Count, MeasureOf
  <2>2. CASE fn # "count"
    <3>1. q.measure = MeasureOf(fn, m.response) /\ fn \in Totalled /\ m.response \in v.measures
        BY <1>1, <2>2
    <3> HIDE DEF q
    <3> QED
        BY <2>2, <3>1 DEF MeasureFits, MeasureOf, Totalled
  <2> QED
      BY <2>1, <2>2
<1> HIDE DEF q
<1>3. Accepts(d, q)
    BY <1>1, <1>2 DEF Accepts
<1> QED
    BY <1>3 DEF q

LEMMA CountAccepted ==
    ASSUME NEW d, NEW m, m.view \in DOMAIN d.views,
           Len(m.terms) <= MaxGroupBy, Distinct(m.terms), Range(m.terms) \subseteq DOMAIN d.views[m.view].dims,
           NEW filters, Len(filters) <= MaxFilters, FiltersFit(d, d.views[m.view], filters)
    PROVE  Accepts(d, Over(m, "count", filters))
BY OverAccepted

\* The moments a model is planned as.
LEMMA MomentsAccepted ==
    ASSUME NEW d, NEW m, m.view \in DOMAIN d.views, NEW v, v = d.views[m.view],
           Len(m.terms) <= MaxGroupBy, Distinct(m.terms), Range(m.terms) \subseteq DOMAIN v.dims,
           Len(m.filters) <= MaxFilters, FiltersFit(d, v, m.filters), m.response \in v.measures,
           NEW fns, \A i \in DOMAIN fns : fns[i] \in Totalled
    PROVE  \A i \in DOMAIN Moments(m, fns) : Accepts(d, Moments(m, fns)[i])
<1>1. ASSUME NEW i \in DOMAIN fns PROVE Accepts(d, Over(m, fns[i], m.filters))
  <2> DEFINE fn == fns[i]
  <2>1. fn \in Totalled /\ (fn # "count" => m.response \in d.views[m.view].measures)
      OBVIOUS
  <2> HIDE DEF fn
  <2>2. Accepts(d, Over(m, fn, m.filters))
      BY <2>1, OverAccepted
  <2> QED
      BY <2>2 DEF fn
<1> QED
    BY <1>1 DEF Moments

\* What all models have in common.
LEMMA FromAccepted ==
    ASSUME NEW d, Loads(d), NEW m, IsModelSpec(m), AcceptsModel(d, m), NEW v, v = d.views[m.view]
    PROVE  /\ m.view \in DOMAIN d.views /\ Len(m.filters) \in Nat /\ Len(m.filters) <= ModelFilters(m)
           /\ Len(m.filters) <= MaxFilters /\ FiltersFit(d, v, m.filters)
           /\ Len(m.terms) \in 1..MaxGroupBy /\ Distinct(m.terms) /\ Range(m.terms) \subseteq DOMAIN v.dims
<1>1. m.view \in DOMAIN d.views /\ Len(m.filters) \in Nat /\ Len(m.filters) <= ModelFilters(m)
    BY LenProperties DEF AcceptsModel, IsModelSpec, IsList
<1>2. Len(m.filters) <= MaxFilters
    BY <1>1 DEF ModelFilters, MaxFilters
<1>3. /\ FiltersFit(d, v, m.filters) /\ Len(m.terms) \in 1..MaxGroupBy
      /\ Distinct(m.terms) /\ Range(m.terms) \subseteq DOMAIN v.dims
  <2>1. CASE m.tool = "glm" /\ GlmAccepts(d, v, m)
      BY <2>1 DEF GlmAccepts, ModelFits, MaxModelTerms
  <2>2. CASE FactorAccepts(d, v, m)
      BY <2>2, OneTerm DEF FactorAccepts, ModelFits, IsModelSpec, MaxGroupBy
  <2>3. CASE SeriesAccepts(d, v, m)
    <3>1. Range(m.terms) = {m.terms[1]} /\ Distinct(m.terms)
        BY <2>3, OneTerm DEF SeriesAccepts, IsModelSpec
    <3>2. m.terms[1] \in DOMAIN v.dims
        BY <1>1, <2>3, ViewOfLoaded DEF SeriesAccepts, SeriesFits
    <3> QED
        BY <2>3, <3>1, <3>2 DEF SeriesAccepts, SeriesFits, MaxGroupBy
  <2> QED
      BY <2>1, <2>2, <2>3 DEF AcceptsModel
<1> QED
    BY <1>1, <1>2, <1>3

\* The predicate of the successes is one that the plain query could have.
LEMMA SuccessFits ==
    ASSUME NEW d, Loads(d), NEW m, m.view \in DOMAIN d.views, NEW v, v = d.views[m.view],
           m.response \in DOMAIN v.dims, v.dims[m.response] = "bool", m.response \notin DOMAIN d.rules,
           IsList(m.filters), FiltersFit(d, v, m.filters), Len(m.filters) < MaxFilters,
           NEW filters, filters = Append(m.filters, Success(m))
    PROVE  Len(filters) <= MaxFilters /\ FiltersFit(d, v, filters)
<1>1. m.response \notin DOMAIN v.filters
    BY ViewOfLoaded
<1>2. FilterFits(d, v, Success(m))
    BY <1>1 DEF FilterFits, Success, ValueFits, FollowsRule, TypeOf, CatOps
<1>3. m.filters \in Seq(Range(m.filters) \cup {Success(m)})
    BY DEF IsList
<1>4. /\ Len(filters) = Len(m.filters) + 1 /\ Len(m.filters) \in Nat
      /\ \A i \in 1..Len(m.filters) : filters[i] = m.filters[i]
      /\ filters[Len(m.filters) + 1] = Success(m)
      /\ DOMAIN filters = 1..(Len(m.filters) + 1) /\ DOMAIN m.filters = 1..Len(m.filters)
    BY <1>3, AppendProperties, LenProperties
<1>5. \A i \in DOMAIN filters : FilterFits(d, v, filters[i])
    BY <1>2, <1>4 DEF FiltersFit
<1> QED
    BY <1>4, <1>5 DEF FiltersFit, MaxFilters

LEMMA PlansAreAccepted ==
    ASSUME NEW d, Loads(d), NEW m, IsModelSpec(m), AcceptsModel(d, m),
           asked = [about |-> "model", study |-> d, model |-> m]
    PROVE  PlansAccepted
<1> DEFINE v == d.views[m.view]
<1>1. asked.study = d /\ asked.model = m
    OBVIOUS
<1> SUFFICES ASSUME Responsible(d, v)
             PROVE  \A i \in DOMAIN PlanAggregates(m) : Accepts(d, PlanAggregates(m)[i])
    BY <1>1 DEF PlansAccepted
<1>2. /\ m.view \in DOMAIN d.views /\ Len(m.filters) \in Nat /\ Len(m.filters) <= ModelFilters(m)
      /\ Len(m.filters) <= MaxFilters /\ FiltersFit(d, v, m.filters)
      /\ Len(m.terms) \in 1..MaxGroupBy /\ Distinct(m.terms) /\ Range(m.terms) \subseteq DOMAIN v.dims
    BY FromAccepted
<1> HIDE DEF v
<1>3. Len(m.terms) <= MaxGroupBy
  <2>1. Len(m.terms) \in 1..3
      BY <1>2 DEF MaxGroupBy
  <2> QED
      BY <2>1, AtMostThree DEF MaxGroupBy
<1>4. ASSUME m.response \in v.measures, NEW fns, \A i \in DOMAIN fns : fns[i] \in Totalled
      PROVE  \A i \in DOMAIN Moments(m, fns) : Accepts(d, Moments(m, fns)[i])
    BY <1>2, <1>3, <1>4, MomentsAccepted DEF v
<1>5. CASE m.tool = "glm" /\ GlmAccepts(d, v, m)
  <2>1. m.family \in Families /\ m.response \in DOMAIN v.responses /\ m.family \in v.responses[m.response]
      BY <1>5 DEF GlmAccepts, ModelFits
  <2>2. PlanAggregates(m) = GlmAggregates(m)
      BY <1>5 DEF PlanAggregates
  <2>3. CASE m.family = "gaussian"
    <3>1. m.response \in v.measures
        BY <2>1, <2>3 DEF Responsible
    <3>2. PlanAggregates(m) = Moments(m, <<"mean", "sum_sq">>)
        BY <2>2, <2>3 DEF GlmAggregates
    <3> QED
        BY <1>4, <3>1, <3>2 DEF Totalled
  <2>4. CASE m.family = "poisson"
    <3>1. m.response \in v.measures
        BY <2>1, <2>4 DEF Responsible
    <3>2. PlanAggregates(m) = Moments(m, <<"sum">>)
        BY <2>2, <2>4 DEF GlmAggregates
    <3> QED
        BY <1>4, <3>1, <3>2 DEF Totalled
  <2>5. CASE m.family = "binomial"
    <3> DEFINE filters == Append(m.filters, Success(m))
    <3>1. PlanAggregates(m) = <<Over(m, "count", m.filters), Over(m, "count", filters)>>
        BY <2>2, <2>5 DEF GlmAggregates
    <3>2. m.response \in DOMAIN v.dims /\ v.dims[m.response] = "bool" /\ m.response \notin DOMAIN d.rules
        BY <2>1, <2>5 DEF Responsible
    <3>3. Len(m.filters) < MaxFilters
        BY <1>2, <1>5 DEF ModelFilters, MaxFilters
    <3>4. Len(filters) <= MaxFilters /\ FiltersFit(d, v, filters)
        BY <1>2, <3>2, <3>3, SuccessFits DEF v, IsModelSpec
    <3> HIDE DEF filters
    <3>5. Accepts(d, Over(m, "count", m.filters))
        BY <1>2, <1>3, CountAccepted DEF v
    <3>6. Accepts(d, Over(m, "count", filters))
        BY <1>2, <1>3, <3>4, CountAccepted DEF v
    <3> QED
        BY <3>1, <3>5, <3>6
  <2> QED
      BY <2>1, <2>3, <2>4, <2>5 DEF Families
<1>6. CASE m.tool \in {"anova", "normality"} /\ FactorAccepts(d, v, m)
  <2>1. m.response \in v.measures
      BY <1>6 DEF FactorAccepts, ModelFits, Responsible
  <2>2. \/ PlanAggregates(m) = Moments(m, <<"mean", "sum_sq">>)
        \/ PlanAggregates(m) = Moments(m, <<"sum", "sum_sq", "sum_cube", "sum_quad">>)
      BY <1>6 DEF PlanAggregates, AnovaAggregates, NormalityAggregates
  <2> QED
      BY <1>4, <2>1, <2>2 DEF Totalled
<1>7. CASE m.tool = "series" /\ SeriesAccepts(d, v, m)
  <2>1. m.response \in v.measures /\ m.family \in {"mean", "sum"}
      BY <1>7 DEF SeriesAccepts, SeriesFits
  <2>2. PlanAggregates(m) = Moments(m, <<m.family>>)
      BY <1>7 DEF PlanAggregates, SeriesAggregates
  <2>3. \A i \in DOMAIN <<m.family>> : <<m.family>>[i] \in Totalled
      BY <2>1 DEF Totalled
  <2> QED
      BY <1>4, <2>1, <2>2, <2>3
<1> QED
    BY <1>5, <1>6, <1>7 DEF AcceptsModel, v

\* An accepted model is one the skeleton lists.
LEMMA ModelsAreListed ==
    ASSUME NEW d, Loads(d), NEW m, IsModelSpec(m), AcceptsModel(d, m),
           asked = [about |-> "model", study |-> d, model |-> m]
    PROVE  ModelsListed
<1> DEFINE v == d.views[m.view]  s == Range(m.terms)
<1>1. asked.study = d /\ asked.model = m
    OBVIOUS
<1>2. Len(m.terms) \in 1..MaxGroupBy /\ Distinct(m.terms) /\ s \subseteq DOMAIN v.dims
    BY FromAccepted
<1> HIDE DEF v
<1>3. CASE m.tool = "glm" /\ GlmAccepts(d, v, m)
  <2>1. m.response \in DOMAIN v.responses /\ m.family \in v.responses[m.response] /\ m.response \notin s
      BY <1>3 DEF GlmAccepts, ModelFits
  <2>2. s \in SUBSET (DOMAIN v.dims \ {m.response}) /\ Cardinality(s) \in 1..MaxModelTerms
      BY <1>2, <2>1 DEF Distinct, MaxModelTerms
  <2> HIDE DEF s
  <2>3. Listed("glm", m.family, m.response, s) \in GlmSkeleton(v)
      BY <2>1, <2>2 DEF GlmSkeleton
  <2> QED
      BY <1>1, <1>3, <2>3 DEF ModelsListed, Skeleton, v, s
<1>4. CASE m.tool \in {"anova", "normality"} /\ FactorAccepts(d, v, m)
  <2>1. m.response \in DOMAIN v.responses /\ "gaussian" \in v.responses[m.response] /\ m.response \notin s
      BY <1>4 DEF FactorAccepts, ModelFits
  <2>2. s = {m.terms[1]}
      BY <1>4, OneTerm DEF FactorAccepts, IsModelSpec
  <2>3. m.terms[1] \in DOMAIN v.dims \ {m.response} /\ m.family = NoColumn
      BY <1>2, <1>4, <2>1, <2>2 DEF IsModelSpec
  <2> HIDE DEF s
  <2>4. {m.terms[1]} \in {{t} : t \in DOMAIN v.dims \ {m.response}}
      BY <2>3
  <2>5. Listed(m.tool, NoColumn, m.response, {m.terms[1]}) \in FactorSkeleton(v)
      BY <1>4, <2>1, <2>4 DEF FactorSkeleton
  <2> QED
      BY <1>1, <2>2, <2>3, <2>5 DEF ModelsListed, Skeleton, v, s
<1>5. CASE m.tool = "series" /\ SeriesAccepts(d, v, m)
  <2>1. /\ m.response \in v.measures /\ m.terms[1] \in v.times /\ m.family \in {"mean", "sum"}
        /\ d.windows[m.terms[1]] = NoDomain \/ d.windows[m.terms[1]] >= MinWindows
      BY <1>5 DEF SeriesAccepts, SeriesFits
  <2>2. s = {m.terms[1]}
      BY <1>5, OneTerm DEF SeriesAccepts, IsModelSpec
  <2> HIDE DEF s
  <2>3. {m.terms[1]} \in {{t} : t \in {t \in v.times : d.windows[t] = NoDomain \/ d.windows[t] >= MinWindows}}
      BY <2>1
  <2>4. Listed("series", m.family, m.response, {m.terms[1]}) \in SeriesSkeleton(d, v)
      BY <2>1, <2>3 DEF SeriesSkeleton
  <2> QED
      BY <1>1, <1>5, <2>2, <2>4 DEF ModelsListed, Skeleton, v, s
<1> QED
    BY <1>3, <1>4, <1>5 DEF AcceptsModel, v

\* What follows the first keyword and precedes a filter is in the clause.
LEMMA InClause ==
    ASSUME NEW r, IsList(r), NEW keywords, NEW i \in DOMAIN r, NEW j \in DOMAIN r, i < j,
           r[i] \in keywords, \A k \in DOMAIN r : k <= j => r[k] \notin FilterTerminators
    PROVE  r[j] \in Range(Clause(r, keywords))
<1> DEFINE opens == {k \in DOMAIN r : r[k] \in keywords}
           start == Min(opens \cup {Len(r)})
           ends == {k \in DOMAIN r : k > start /\ r[k] \in FilterTerminators}
           stop == Min(ends \cup {Len(r) + 1})
<1>1. r \in Seq(Range(r)) /\ DOMAIN r = 1..Len(r) /\ Len(r) \in Nat
    BY LenProperties DEF IsList
<1>2. start \in Nat /\ start <= i
  <2>1. opens \cup {Len(r)} \in SUBSET Nat /\ i \in opens
      BY <1>1
  <2> HIDE DEF opens
  <2> QED
      BY <2>1, MinIsLeast
<1>3. stop \in Nat /\ j < stop /\ stop <= Len(r) + 1
  <2>1. ends \cup {Len(r) + 1} \in SUBSET Nat
      BY <1>1
  <2>2. \A k \in ends \cup {Len(r) + 1} : k > j
    <3> TAKE k \in ends \cup {Len(r) + 1}
    <3>1. k \in Nat /\ j \in Nat /\ j <= Len(r)
        BY <1>1
    <3>2. k \in ends => k > j
        BY <3>1
    <3> HIDE DEF ends
    <3> QED
        BY <1>1, <3>1, <3>2
  <2>3. Len(r) + 1 \in ends \cup {Len(r) + 1}
      OBVIOUS
  <2> HIDE DEF ends
  <2>4. stop \in ends \cup {Len(r) + 1} /\ stop <= Len(r) + 1
      BY <2>1, <2>3, MinIsLeast
  <2> QED
      BY <2>1, <2>2, <2>4
<1>4. Clause(r, keywords) = SubSeq(r, start + 1, stop - 1)
    BY DEF Clause
<1> HIDE DEF start, stop
<1> DEFINE part == SubSeq(r, start + 1, stop - 1)  k == j - start
<1>5. i \in Nat /\ j \in Nat /\ j <= Len(r) /\ i >= 1
    BY <1>1
<1>6. /\ Len(part) = stop - 1 - start /\ DOMAIN part = 1..Len(part)
      /\ \A x \in 1..(stop - 1 - start) : part[x] = r[start + x]
  <2>1. start + 1 \in 1..(Len(r) + 1) /\ stop - 1 \in start..Len(r)
      BY <1>1, <1>2, <1>3, <1>5
  <2> DEFINE lo == start + 1  hi == stop - 1
  <2>2. lo \in Int /\ hi \in Int /\ \A x \in lo..hi : x \in 1..Len(r)
      BY <1>1, <1>2, <1>3, <1>5
  <2>3. /\ part \in Seq(Range(r)) /\ Len(part) = IF lo <= hi THEN hi - lo + 1 ELSE 0
        /\ \A x \in 1..(hi - lo + 1) : part[x] = r[lo + x - 1]
      BY <1>1, <2>1, <2>2, SubSeqProperties
  <2>4. lo <= hi /\ hi - lo + 1 = stop - 1 - start
      BY <1>2, <1>3, <1>5
  <2>5. \A x \in 1..(stop - 1 - start) : lo + x - 1 = start + x
      BY <1>2, <1>3
  <2>6. DOMAIN part = 1..Len(part)
      BY <2>3, LenProperties
  <2> HIDE DEF part, lo, hi
  <2> QED
      BY <2>3, <2>4, <2>5, <2>6
<1>7. k \in 1..(stop - 1 - start) /\ start + k = j
    BY <1>2, <1>3, <1>5
<1> HIDE DEF part, k
<1>8. k \in DOMAIN part /\ part[k] = r[j]
    BY <1>6, <1>7
<1> QED
    BY <1>4, <1>8 DEF part, Range

\* The breakdowns that a request names.
NamedBy(r, keyword) ==
    {j \in DOMAIN r : /\ r[j][1] = "dim" /\ <<"word", keyword>> \in {r[i] : i \in 1..j}
                      /\ {r[i] : i \in 1..j} \cap FilterTerminators = {}}

\* Each of them is in the clause that a gate reads.
LEMMA NamedInClause ==
    ASSUME NEW r, IsList(r), NEW keyword, NEW keywords, <<"word", keyword>> \in keywords,
           NEW j \in NamedBy(r, keyword)
    PROVE  r[j][2] \in DimsMentioned(Clause(r, keywords))
<1>1. DOMAIN r = 1..Len(r) /\ Len(r) \in Nat
    BY LenProperties DEF IsList
<1>2. j \in DOMAIN r /\ r[j][1] = "dim" /\ \A i \in 1..j : r[i] \notin FilterTerminators
    BY DEF NamedBy
<1>3. PICK i \in 1..j : r[i] = <<"word", keyword>>
    BY DEF NamedBy
<1>4. i # j
    BY <1>2, <1>3
<1>5. i \in DOMAIN r /\ i < j
    BY <1>1, <1>2, <1>3, <1>4
<1>6. \A k \in DOMAIN r : k <= j => r[k] \notin FilterTerminators
    BY <1>1, <1>2
<1>7. r[j] \in Range(Clause(r, keywords))
    BY <1>2, <1>3, <1>5, <1>6, InClause
<1> QED
    BY <1>2, <1>7 DEF DimsMentioned, Named

LEMMA NamedAreRead ==
    ASSUME NEW r, IsList(r), NEW keyword, NEW keywords, <<"word", keyword>> \in keywords
    PROVE  /\ {r[j][2] : j \in NamedBy(r, keyword)} \subseteq DimsMentioned(Clause(r, keywords))
           /\ DimsMentioned(r) = {r[j][2] : j \in {j \in DOMAIN r : r[j][1] = "dim"}}
<1>1. {r[j][2] : j \in NamedBy(r, keyword)} \subseteq DimsMentioned(Clause(r, keywords))
    BY NamedInClause
<1>2. DimsMentioned(r) = {r[j][2] : j \in {j \in DOMAIN r : r[j][1] = "dim"}}
    BY DEF DimsMentioned, Named, Range
<1> QED
    BY <1>1, <1>2

LEMMA RequestsAreKept ==
    ASSUME NEW r, IsList(r), ~Literal(r), NEW d,
           \/ \E q : Admits(d, r, q) /\ asked = Worded(r, q.by, "by", {}, {})
           \/ \E m : AdmitsModel(d, r, m) /\ asked = Worded(r, m.terms, "on", {m.response}, d.views[m.view].times)
    PROVE  RequestsKept
<1>1. CASE \E q : Admits(d, r, q) /\ asked = Worded(r, q.by, "by", {}, {})
  <2>1. PICK q : Admits(d, r, q) /\ asked = Worded(r, q.by, "by", {}, {})
      BY <1>1
  <2>2. /\ asked.request = r /\ asked.terms = q.by /\ asked.keyword = "by"
        /\ asked.dropped = {} /\ asked.exempt = {}
      BY <2>1 DEF Worded
  <2>3. <<"word", "by">> \in GroupingKeywords
      BY DEF GroupingKeywords
  <2> DEFINE wanted == DimsMentioned(Clause(r, GroupingKeywords))  none == {}  given == Range(q.by)
  <2>4. wanted # {} => wanted \ none \subseteq given /\ given \subseteq DimsMentioned(r) \cup none
      BY <2>1 DEF Admits, CheckGroupingCoherence, Keeps
  <2>5. NamedBy(r, "by") # {} =>
            /\ {r[j][2] : j \in NamedBy(r, "by")} \ none \subseteq given
            /\ given \ none \subseteq {r[j][2] : j \in {j \in DOMAIN r : r[j][1] = "dim"}}
    <3> DEFINE spelled == {r[j][2] : j \in NamedBy(r, "by")}
    <3>1. spelled \subseteq wanted /\ DimsMentioned(r) = {r[j][2] : j \in {j \in DOMAIN r : r[j][1] = "dim"}}
        BY <2>3, NamedAreRead
    <3>2. NamedBy(r, "by") # {} => spelled # {}
        OBVIOUS
    <3> HIDE DEF wanted, none, given, spelled
    <3>3. spelled # {} => spelled \ none \subseteq given /\ given \ none \subseteq DimsMentioned(r)
        BY <2>4, <3>1
    <3> QED
        BY <3>1, <3>2, <3>3 DEF spelled
  <2> QED
      BY <2>2, <2>5 DEF RequestsKept, NamedBy
<1>2. CASE \E m : AdmitsModel(d, r, m) /\ asked = Worded(r, m.terms, "on", {m.response}, d.views[m.view].times)
  <2>1. PICK m : AdmitsModel(d, r, m) /\ asked = Worded(r, m.terms, "on", {m.response}, d.views[m.view].times)
      BY <1>2
  <2> DEFINE times == d.views[m.view].times
  <2>2. /\ asked.request = r /\ asked.terms = m.terms /\ asked.keyword = "on"
        /\ asked.dropped = {m.response} /\ asked.exempt = times
      BY <2>1 DEF Worded
  <2>3. <<"word", "on">> \in ModelTermKeywords
      BY DEF ModelTermKeywords
  <2> DEFINE wanted == DimsMentioned(Clause(r, ModelTermKeywords))  dropped == {m.response}  given == Range(m.terms)
  <2>4. wanted \ dropped \subseteq given /\ given \subseteq DimsMentioned(r) \cup times
      BY <2>1 DEF AdmitsModel, CheckTermCoherence, Keeps
  <2>5. NamedBy(r, "on") # {} =>
            /\ {r[j][2] : j \in NamedBy(r, "on")} \ dropped \subseteq given
            /\ given \ times \subseteq {r[j][2] : j \in {j \in DOMAIN r : r[j][1] = "dim"}}
    <3> DEFINE spelled == {r[j][2] : j \in NamedBy(r, "on")}
    <3>1. spelled \subseteq wanted /\ DimsMentioned(r) = {r[j][2] : j \in {j \in DOMAIN r : r[j][1] = "dim"}}
        BY <2>3, NamedAreRead
    <3> HIDE DEF wanted, dropped, given, times, spelled
    <3>2. spelled \ dropped \subseteq given /\ given \ times \subseteq DimsMentioned(r)
        BY <2>4, <3>1
    <3> QED
        BY <3>1, <3>2 DEF spelled
  <2> QED
      BY <2>2, <2>5 DEF RequestsKept, NamedBy
<1> QED
    BY <1>1, <1>2

\* The edges of the band that has an age.
BandOf(r, a) == [low |-> Max({b \in r.lower : b <= a}), high |-> Min({e \in r.upper : e >= a})]
BandFrom(r, b) == b..Min({e \in r.upper : e >= b})
AgesOf(r) == Min(r.lower)..Max(r.upper)

\* The edges of a rule are whole numbers, and it has a first and a last.
LEMMA EdgesOf ==
    ASSUME NEW r, IsAgeRule(r)
    PROVE  /\ r.lower \in SUBSET Nat /\ r.upper \in SUBSET Nat /\ IsFiniteSet(r.lower) /\ IsFiniteSet(r.upper)
           /\ r.lower # {} /\ r.upper # {} /\ \A e \in r.upper : e <= 1000
           /\ Min(r.lower) \in r.lower /\ \A b \in r.lower : Min(r.lower) <= b
           /\ Max(r.upper) \in r.upper /\ \A e \in r.upper : e <= Max(r.upper)
           /\ \A b \in r.lower : b <= Max(r.upper)
           /\ \A e \in r.upper : Min(r.lower) <= e
<1> DEFINE oldest == 1000
<1>a. r.lower \in SUBSET Nat /\ IsFiniteSet(r.lower) /\ r.lower # {} /\ r.upper # {} /\ r.upper \in SUBSET (0..oldest)
    BY DEF IsAgeRule
<1>b. oldest \in Int /\ 0 \in Int
    OBVIOUS
<1>1. /\ r.lower \in SUBSET Nat /\ r.upper \in SUBSET Nat /\ IsFiniteSet(r.lower)
      /\ r.lower # {} /\ r.upper # {} /\ \A e \in r.upper : e <= 1000
  <2>1. \A e \in r.upper : e \in 0..oldest
      BY <1>a
  <2>2. \A e \in 0..oldest : e \in Nat /\ e <= oldest
      BY <1>b
  <2> HIDE DEF oldest
  <2>3. r.upper \subseteq Nat /\ \A e \in r.upper : e <= oldest
      BY <2>1, <2>2
  <2> QED
      BY <1>a, <2>3 DEF oldest
<1>2. IsFiniteSet(r.upper)
  <2> HIDE DEF oldest
  <2>1. IsFiniteSet(0..oldest)
      BY <1>b, FS_Interval
  <2> QED
      BY <1>a, <2>1, FS_Subset
<1>3. Min(r.lower) \in r.lower /\ \A b \in r.lower : Min(r.lower) <= b
    BY <1>1, MinIsLeast
<1>4. Min(r.upper) \in r.upper /\ \A e \in r.upper : Min(r.upper) <= e
    BY <1>1, MinIsLeast
<1>5. r.lower \in SUBSET Int /\ r.upper \in SUBSET Int
    BY <1>1
<1>6. Max(r.upper) \in r.upper /\ \A e \in r.upper : Max(r.upper) >= e
    BY <1>1, <1>2, <1>5, MaxIsGreatest
<1>7. Max(r.lower) \in r.lower /\ \A b \in r.lower : Max(r.lower) >= b
    BY <1>1, <1>5, MaxIsGreatest
<1>8. Min(r.lower) <= Min(r.upper) /\ Max(r.lower) <= Max(r.upper)
    BY DEF IsAgeRule
<1>9. \A b \in r.lower : b <= Max(r.upper)
    BY <1>1, <1>6, <1>7, <1>8
<1>10. \A e \in r.upper : Min(r.lower) <= e
    BY <1>1, <1>3, <1>4, <1>8
<1>11. \A e \in r.upper : e <= Max(r.upper)
    BY <1>1, <1>6
<1> QED
    BY <1>1, <1>2, <1>3, <1>6, <1>9, <1>10, <1>11

\* A lower edge has an upper one.
LEMMA HighOf ==
    ASSUME NEW r, IsAgeRule(r), NEW b \in r.lower, NEW h, h = Min({e \in r.upper : e >= b})
    PROVE  h \in r.upper /\ h >= b /\ \A e \in r.upper : e >= b => h <= e
<1>1. r.upper \in SUBSET Nat /\ Max(r.upper) \in r.upper /\ b <= Max(r.upper) /\ b \in Nat
    BY EdgesOf
<1> DEFINE S == {e \in r.upper : e >= b}
<1>2. S \in SUBSET Nat /\ S # {}
    BY <1>1
<1>3. Min(S) \in S /\ \A y \in S : Min(S) <= y
  <2> HIDE DEF S
  <2> QED
      BY <1>2, MinIsLeast
<1> QED
    BY <1>3

\* Every age has one band, between the greatest lower edge that is not above it
\* and the least upper edge that is not below it.
LEMMA OneBand ==
    ASSUME NEW r, IsAgeRule(r), NEW a \in AgesOf(r), NEW b, b = BandOf(r, a).low, NEW e, e = BandOf(r, a).high
    PROVE  /\ b \in r.lower /\ b <= a /\ \A x \in r.lower : x <= a => x <= b
           /\ e \in r.upper /\ a <= e /\ \A x \in r.upper : a <= x => e <= x
           /\ BandFrom(r, b) = b..e
           /\ \A x \in r.lower : a \in BandFrom(r, x) => x = b
<1>1. /\ r.lower \in SUBSET Nat /\ r.upper \in SUBSET Nat /\ IsFiniteSet(r.lower)
      /\ Min(r.lower) \in r.lower /\ \A x \in r.lower : Min(r.lower) <= x
      /\ Max(r.upper) \in r.upper /\ \A x \in r.upper : x <= Max(r.upper)
    BY EdgesOf
<1>2. a \in Int /\ Min(r.lower) <= a /\ a <= Max(r.upper)
    BY <1>1 DEF AgesOf
<1> DEFINE los == {x \in r.lower : x <= a}  his == {x \in r.upper : x >= a}
<1>3. b = Max(los) /\ e = Min(his)
    BY DEF BandOf
<1>4. los \in SUBSET Int /\ IsFiniteSet(los) /\ los # {} /\ his \in SUBSET Nat /\ his # {}
  <2>1. los \subseteq r.lower
      OBVIOUS
  <2>2. IsFiniteSet(los)
    <3> HIDE DEF los
    <3> QED
        BY <1>1, <2>1, FS_Subset
  <2> QED
      BY <1>1, <1>2, <2>2
<1>5. b \in los /\ \A x \in los : b >= x
  <2> HIDE DEF los
  <2> QED
      BY <1>3, <1>4, MaxIsGreatest
<1>6. e \in his /\ \A x \in his : e <= x
  <2> HIDE DEF his
  <2> QED
      BY <1>3, <1>4, MinIsLeast
<1>7. /\ b \in r.lower /\ b \in Nat /\ b <= a /\ \A x \in r.lower : x <= a => x <= b
      /\ e \in r.upper /\ e \in Nat /\ a <= e /\ \A x \in r.upper : a <= x => e <= x
    BY <1>1, <1>2, <1>5, <1>6
<1> HIDE DEF los, his
<1>8. ASSUME NEW x \in r.upper, x >= b PROVE x >= e
  <2>1. x \in Nat
      BY <1>1
  <2>2. CASE x >= a
      BY <1>2, <1>7, <2>1, <2>2
  <2>3. CASE x < a
    <3>1. x # Max(r.upper)
        BY <1>1, <1>2, <2>1, <2>3
    <3>2. x + 1 \in r.lower
        BY <3>1 DEF IsAgeRule
    <3>3. x + 1 <= b
        BY <1>2, <1>7, <2>1, <2>3, <3>2
    <3> QED
        BY <1>7, <1>8, <2>1, <3>3
  <2> QED
      BY <1>2, <2>1, <2>2, <2>3
<1>9. Min({x \in r.upper : x >= b}) = e
  <2> DEFINE h == Min({x \in r.upper : x >= b})
  <2>1. h \in r.upper /\ h >= b /\ \A x \in r.upper : x >= b => h <= x
      BY <1>7, HighOf
  <2> HIDE DEF h
  <2>2. h >= e /\ h <= e /\ h \in Nat
      BY <1>1, <1>2, <1>7, <1>8, <2>1
  <2>3. h = e
      BY <1>7, <2>2
  <2> QED
      BY <2>3 DEF h
<1>10. ASSUME NEW x \in r.lower, a \in BandFrom(r, x) PROVE x = b
  <2> DEFINE h == Min({y \in r.upper : y >= x})
  <2>1. h \in r.upper /\ h >= x /\ \A y \in r.upper : y >= x => h <= y
      BY HighOf
  <2>2. x <= a /\ a <= h /\ x \in Nat
      BY <1>1, <1>10 DEF BandFrom
  <2> HIDE DEF h
  <2>3. x <= b /\ h \in Nat
      BY <1>1, <1>7, <2>1, <2>2
  <2>4. ASSUME x < b PROVE FALSE
    <3>1. b # Min(r.lower)
        BY <1>1, <1>7, <2>2, <2>4
    <3>2. b - 1 \in r.upper
        BY <1>7, <3>1 DEF IsAgeRule
    <3>3. h <= b - 1
        BY <1>7, <2>1, <2>2, <2>4, <3>2
    <3> QED
        BY <1>2, <1>7, <2>2, <2>3, <3>3
  <2> QED
      BY <1>7, <2>2, <2>3, <2>4
<1> QED
    BY <1>7, <1>9, <1>10 DEF BandFrom

\* A band is made of ages.
LEMMA BandsAreAges ==
    ASSUME NEW r, IsAgeRule(r), NEW b \in r.lower
    PROVE  BandFrom(r, b) \subseteq AgesOf(r) /\ b \in BandFrom(r, b)
<1> DEFINE h == Min({e \in r.upper : e >= b})
<1>1. h \in r.upper /\ h >= b
    BY HighOf
<1>2. /\ b \in Nat /\ Min(r.lower) \in Nat /\ Min(r.lower) <= b
      /\ h \in Nat /\ Max(r.upper) \in Nat /\ h <= Max(r.upper)
  <2> HIDE DEF h
  <2> QED
      BY <1>1, EdgesOf
<1> HIDE DEF h
<1>3. BandFrom(r, b) = b..h
    BY DEF BandFrom, h
<1> QED
    BY <1>1, <1>2, <1>3 DEF AgesOf

\* A filter lets an age through.
Lets(a, f) == Meets(a, [f EXCEPT !.value = @[2]])
Kept(r, filters) == {a \in AgesOf(r) : \A i \in DOMAIN filters : Lets(a, filters[i])}
Bands(r) == {BandFrom(r, b) : b \in r.lower}
BandsIn(r, ages) == UNION {b \in Bands(r) : b \subseteq ages}

LEMMA LetsAges ==
    ASSUME NEW a, NEW v
    PROVE  /\ Lets(a, Filter(">=", v)) <=> a >= v
           /\ Lets(a, Filter("<=", v)) <=> a <= v
           /\ Lets(a, Filter(">", v)) <=> a > v
           /\ Lets(a, Filter("<", v)) <=> a < v
<1> DEFINE edge(op) == [Filter(op, v) EXCEPT !.value = @[2]]
<1>1. \A op \in {">=", "<=", ">", "<"} : edge(op).op = op /\ edge(op).value = v
    BY DEF Filter
<1> HIDE DEF edge
<1>2. /\ Meets(a, edge(">=")) <=> a >= v
      /\ Meets(a, edge("<=")) <=> a <= v
      /\ Meets(a, edge(">")) <=> a > v
      /\ Meets(a, edge("<")) <=> a < v
    BY <1>1 DEF Meets
<1> QED
    BY <1>2 DEF Lets, edge

\* All of a list is in a set.
AllIn(S, l) == \A i \in DOMAIN l : l[i] \in S

LEMMA WithinBoth ==
    ASSUME NEW f, NEW g, NEW S
    PROVE  /\ AllIn(S, <<f>> \o <<g>>) <=> f \in S /\ g \in S
           /\ AllIn(S, <<f>> \o <<>>) <=> f \in S
           /\ AllIn(S, <<>> \o <<g>>) <=> g \in S
           /\ AllIn(S, <<>> \o <<>>) /\ <<>> \o <<>> = <<>>
<1> DEFINE x == <<f>>  y == <<g>>  none == <<>>
<1>1. /\ x \in Seq({f, g}) /\ y \in Seq({f, g}) /\ none \in Seq({f, g})
      /\ Len(x) = 1 /\ Len(y) = 1 /\ Len(none) = 0 /\ x[1] = f /\ y[1] = g
    OBVIOUS
<1>2. x \o none = x /\ none \o y = y /\ none \o none = none
    OBVIOUS
<1> HIDE DEF x, y, none
<1>3. AllIn(S, x \o y) <=> f \in S /\ g \in S
  <2> DEFINE l == x \o y
  <2>1. /\ l \in Seq({f, g}) /\ Len(l) = Len(x) + Len(y)
        /\ \A i \in 1..(Len(x) + Len(y)) : l[i] = IF i <= Len(x) THEN x[i] ELSE y[i - Len(x)]
      BY <1>1, ConcatProperties
  <2> HIDE DEF l
  <2>2. Len(l) = 2 /\ DOMAIN l = 1..2
      BY <1>1, <2>1
  <2>3. l[1] = f /\ l[2] = g
      BY <1>1, <2>1
  <2> QED
      BY <2>2, <2>3 DEF AllIn, l
<1>4. AllIn(S, x \o none) <=> f \in S
  <2>1. DOMAIN x = 1..1 /\ x[1] = f
      BY <1>1
  <2> QED
      BY <1>2, <2>1 DEF AllIn
<1>5. AllIn(S, none \o y) <=> g \in S
  <2>1. DOMAIN y = 1..1 /\ y[1] = g
      BY <1>1
  <2> QED
      BY <1>2, <2>1 DEF AllIn
<1>6. AllIn(S, none \o none) /\ none \o none = none
  <2>1. DOMAIN none = 1..0
      BY <1>1
  <2> QED
      BY <1>2, <2>1 DEF AllIn
<1> QED
    BY <1>3, <1>4, <1>5, <1>6 DEF x, y, none

\* Of two filters, those whose tests hold are kept.
LEMMA SomeFilters ==
    ASSUME NEW p \in BOOLEAN, NEW f, NEW q \in BOOLEAN, NEW g, NEW S
    PROVE  /\ AllIn(S, SomeOf(p, f) \o SomeOf(q, g)) <=> (p => f \in S) /\ (q => g \in S)
           /\ ~p /\ ~q => SomeOf(p, f) \o SomeOf(q, g) = <<>>
<1>1. CASE p /\ q
  <2>1. SomeOf(p, f) = <<f>> /\ SomeOf(q, g) = <<g>>
      BY <1>1, Zenon DEF SomeOf
  <2> QED
      BY <1>1, <2>1, WithinBoth, Zenon
<1>2. CASE p /\ ~q
  <2>1. SomeOf(p, f) = <<f>> /\ SomeOf(q, g) = <<>>
      BY <1>2, Zenon DEF SomeOf
  <2> QED
      BY <1>2, <2>1, WithinBoth, Zenon
<1>3. CASE ~p /\ q
  <2>1. SomeOf(p, f) = <<>> /\ SomeOf(q, g) = <<g>>
      BY <1>3, Zenon DEF SomeOf
  <2> QED
      BY <1>3, <2>1, WithinBoth, Zenon
<1>4. CASE ~p /\ ~q
  <2>1. SomeOf(p, f) = <<>> /\ SomeOf(q, g) = <<>>
      BY <1>4, Zenon DEF SomeOf
  <2> QED
      BY <1>4, <2>1, WithinBoth, Zenon
<1> QED
    BY <1>1, <1>2, <1>3, <1>4

LEMMA KeptBySome ==
    ASSUME NEW r, NEW p \in BOOLEAN, NEW x, NEW q \in BOOLEAN, NEW y, NEW a \in AgesOf(r)
    PROVE  a \in Kept(r, SomeOf(p, Filter(">=", x)) \o SomeOf(q, Filter("<=", y)))
               <=> (p => a >= x) /\ (q => a <= y)
<1> DEFINE f == Filter(">=", x)  g == Filter("<=", y)  l == SomeOf(p, f) \o SomeOf(q, g)
           S == {h \in {f, g} \cup Range(l) : Lets(a, h)}
<1>1. a \in Kept(r, l) <=> AllIn(S, l)
    BY DEF Kept, Range, AllIn
<1>2. AllIn(S, l) <=> (p => f \in S) /\ (q => g \in S)
  <2> DEFINE m == l
  <2>1. m = SomeOf(p, f) \o SomeOf(q, g)
      OBVIOUS
  <2> HIDE DEF S, f, g, l, m
  <2>2. AllIn(S, m) <=> (p => f \in S) /\ (q => g \in S)
      BY <2>1, SomeFilters, Zenon
  <2> QED
      BY <2>2, Zenon DEF m
<1>3. (f \in S <=> a >= x) /\ (g \in S <=> a <= y)
  <2>1. (f \in S <=> Lets(a, f)) /\ (g \in S <=> Lets(a, g))
    <3> HIDE DEF f, g, l
    <3> QED
        OBVIOUS
  <2> QED
      BY <2>1, LetsAges
<1>4. a \in Kept(r, l) <=> (p => a >= x) /\ (q => a <= y)
  <2> HIDE DEF S, f, g, l
  <2> QED
      BY <1>1, <1>2, <1>3, Zenon
<1> QED
    BY <1>4, Zenon

\* The filters for an exact age keep the ages of its band.
LEMMA ContainingKeeps ==
    ASSUME NEW r, IsAgeRule(r), NEW v \in AgesOf(r)
    PROVE  Kept(r, ContainingBand(r.lower, r.upper, v)) = UNION {b \in Bands(r) : v \in b}
<1> DEFINE b == BandOf(r, v).low  e == BandOf(r, v).high
<1>1. /\ b \in r.lower /\ b <= v /\ \A x \in r.lower : x <= v => x <= b
      /\ e \in r.upper /\ v <= e /\ \A x \in r.upper : v <= x => e <= x
      /\ BandFrom(r, b) = b..e
      /\ \A x \in r.lower : v \in BandFrom(r, x) => x = b
    BY OneBand
<1>2. /\ r.lower \in SUBSET Nat /\ r.upper \in SUBSET Nat
      /\ Min(r.lower) \in r.lower /\ \A x \in r.lower : Min(r.lower) <= x
      /\ Max(r.upper) \in r.upper /\ \A x \in r.upper : x <= Max(r.upper)
    BY EdgesOf
<1>3. v \in Int
    BY <1>2 DEF AgesOf
<1> DEFINE los == {x \in r.lower : x <= v}  his == {x \in r.upper : x >= v}
           p == los # {} /\ b > Min(r.lower)  q == his # {} /\ e < Max(r.upper)
<1>4. ContainingBand(r.lower, r.upper, v) = SomeOf(p, Filter(">=", b)) \o SomeOf(q, Filter("<=", e))
    BY DEF ContainingBand, BandOf
<1>5. b \in los /\ e \in his /\ b \in Nat /\ e \in Nat
    BY <1>1, <1>2, <1>3
<1> HIDE DEF b, e
<1>6. (p <=> b > Min(r.lower)) /\ (q <=> e < Max(r.upper)) /\ p \in BOOLEAN /\ q \in BOOLEAN
    BY <1>5
<1> HIDE DEF los, his, p, q
<1>7. ASSUME NEW a \in AgesOf(r) PROVE a \in Kept(r, ContainingBand(r.lower, r.upper, v)) <=> a \in b..e
  <2>1. a \in Kept(r, ContainingBand(r.lower, r.upper, v)) <=> (p => a >= b) /\ (q => a <= e)
      BY <1>4, <1>6, KeptBySome
  <2>2. a \in Int /\ a >= Min(r.lower) /\ a <= Max(r.upper) /\ Min(r.lower) \in Nat /\ Max(r.upper) \in Nat
      BY <1>2 DEF AgesOf
  <2>3. b >= Min(r.lower) /\ e <= Max(r.upper)
      BY <1>1, <1>2
  <2>4. (p => a >= b) <=> a >= b
      BY <1>5, <1>6, <2>2, <2>3
  <2>5. (q => a <= e) <=> a <= e
      BY <1>5, <1>6, <2>2, <2>3
  <2> QED
      BY <1>5, <2>1, <2>2, <2>4, <2>5
<1>8. b..e \subseteq AgesOf(r) /\ v \in b..e
  <2>1. b..e \subseteq AgesOf(r)
      BY <1>1, BandsAreAges
  <2> QED
      BY <1>1, <1>3, <1>5, <2>1
<1>9. Kept(r, ContainingBand(r.lower, r.upper, v)) = b..e
  <2>1. Kept(r, ContainingBand(r.lower, r.upper, v)) \subseteq AgesOf(r)
      BY DEF Kept
  <2> QED
      BY <1>7, <1>8, <2>1
<1>10. {x \in Bands(r) : v \in x} = {b..e}
    BY <1>1, <1>8 DEF Bands
<1> QED
    BY <1>9, <1>10

\* The filters for a least age keep the bands that begin there or later.
LEMMA FromKeeps ==
    ASSUME NEW r, IsAgeRule(r), NEW lo \in Int, NEW true \in SUBSET AgesOf(r), \A a \in AgesOf(r) : a \in true <=> a >= lo,
           NEW filters, filters = AgeWindow(r.lower, r.upper, lo, 1000)
    PROVE  IF \E b \in Bands(r) : b \subseteq true
           THEN Kept(r, filters) = BandsIn(r, true)
           ELSE filters = <<>>
<1> DEFINE los == {x \in r.lower : x >= lo}  first == Min(los)  his == {x \in r.upper : x <= 1000}
           p == los # {} /\ first > Min(r.lower)  q == his # {} /\ Max(his) < Max(r.upper)
<1>1. /\ r.lower \in SUBSET Nat /\ r.upper \in SUBSET Nat /\ \A x \in r.upper : x <= 1000
      /\ Min(r.lower) \in r.lower /\ \A x \in r.lower : Min(r.lower) <= x
      /\ Max(r.upper) \in r.upper /\ \A x \in r.upper : x <= Max(r.upper)
    BY EdgesOf
<1>2. filters = SomeOf(p, Filter(">=", first)) \o SomeOf(q, Filter("<=", Max(his)))
    BY DEF AgeWindow
<1>3. his = r.upper
    BY <1>1
<1>4. ~q /\ q \in BOOLEAN /\ p \in BOOLEAN
  <2>1. ~(Max(r.upper) < Max(r.upper))
      BY <1>1
  <2> HIDE DEF his
  <2> QED
      BY <1>3, <2>1
<1>5. ASSUME NEW b \in r.lower PROVE BandFrom(r, b) \subseteq true <=> b \in los
  <2>1. BandFrom(r, b) \subseteq AgesOf(r) /\ b \in BandFrom(r, b) /\ b \in Nat
      BY <1>1, BandsAreAges
  <2>2. \A a \in BandFrom(r, b) : a \in Int /\ a >= b
    <3> DEFINE h == Min({e \in r.upper : e >= b})
    <3>1. h \in Nat
      <4>1. h \in r.upper
          BY HighOf
      <4> HIDE DEF h
      <4> QED
          BY <1>1, <4>1
    <3> HIDE DEF h
    <3>2. BandFrom(r, b) = b..h
        BY DEF BandFrom, h
    <3> QED
        BY <2>1, <3>1, <3>2
  <2>3. b >= lo => \A a \in BandFrom(r, b) : a >= lo
      BY <2>1, <2>2
  <2> QED
      BY <2>1, <2>3
<1> HIDE DEF his, q
<1>6. /\ \A a \in AgesOf(r) : a \in Kept(r, filters) <=> (p => a >= first)
      /\ ~p => filters = <<>>
  <2> DEFINE top == Max(his)
  <2>1. filters = SomeOf(p, Filter(">=", first)) \o SomeOf(q, Filter("<=", top))
      BY <1>2
  <2> HIDE DEF p, first, los, top
  <2> DEFINE l == SomeOf(p, Filter(">=", first)) \o SomeOf(q, Filter("<=", top))
  <2>2. ASSUME NEW a \in AgesOf(r) PROVE a \in Kept(r, filters) <=> (p => a >= first)
    <3>1. a \in Kept(r, l) <=> (p => a >= first) /\ (q => a <= top)
        BY <1>4, KeptBySome, Zenon
    <3> HIDE DEF l
    <3>2. a \in Kept(r, l) <=> (p => a >= first)
        BY <1>4, <3>1, Zenon
    <3>3. filters = l
        BY <2>1 DEF l
    <3> QED
        BY <3>2, <3>3
  <2>3. ~p => filters = <<>>
    <3>1. ~p /\ ~q => l = <<>>
        BY <1>4, SomeFilters, Zenon
    <3> HIDE DEF l
    <3>2. filters = l
        BY <2>1 DEF l
    <3> QED
        BY <1>4, <3>1, <3>2
  <2> QED
      BY <2>2, <2>3
<1>7. CASE los = {}
  <2>1. ~p
      BY <1>7
  <2>2. filters = <<>>
    <3> HIDE DEF p
    <3> QED
        BY <1>6, <2>1, Zenon
  <2>3. ~ \E b \in Bands(r) : b \subseteq true
      BY <1>5, <1>7 DEF Bands
  <2> QED
      BY <2>2, <2>3
<1>8. CASE los # {}
  <2>1. first \in r.lower /\ first >= lo /\ \A x \in r.lower : x >= lo => first <= x
    <3>1. los \in SUBSET Nat
        BY <1>1
    <3>2. first \in los /\ \A x \in los : first <= x
      <4> HIDE DEF los
      <4> QED
          BY <1>8, <3>1, MinIsLeast
    <3> HIDE DEF first
    <3> QED
        BY <3>2
  <2>2. first \in Nat /\ first >= Min(r.lower) /\ (p <=> first > Min(r.lower))
      BY <1>1, <1>8, <2>1
  <2>3. \E b \in Bands(r) : b \subseteq true
    <3>1. first \in los
        BY <2>1
    <3> HIDE DEF first
    <3> QED
        BY <1>5, <2>1, <3>1 DEF Bands
  <2> HIDE DEF first, p
  <2>4. ASSUME NEW a \in AgesOf(r) PROVE a \in Kept(r, filters) <=> a >= first
    <3>1. a \in Kept(r, filters) <=> (p => a >= first)
        BY <1>6, Zenon
    <3>2. a \in Int /\ a >= Min(r.lower) /\ Min(r.lower) \in Nat
        BY <1>1 DEF AgesOf
    <3> QED
        BY <2>2, <3>1, <3>2
  <2>5. ASSUME NEW a \in Kept(r, filters) PROVE a \in BandsIn(r, true)
    <3> DEFINE b == BandOf(r, a).low  e == BandOf(r, a).high
    <3>1. a \in AgesOf(r) /\ a \in Int /\ a >= first
        BY <1>1, <2>4, <2>5 DEF Kept, AgesOf
    <3>2. /\ b \in r.lower /\ b <= a /\ \A x \in r.lower : x <= a => x <= b
          /\ e \in r.upper /\ a <= e /\ BandFrom(r, b) = b..e
        BY <3>1, OneBand
    <3> HIDE DEF b, e
    <3>3. first <= b /\ b \in Nat /\ e \in Nat
        BY <1>1, <2>1, <3>1, <3>2
    <3>4. b \in los
        BY <2>1, <2>2, <3>2, <3>3
    <3>5. a \in BandFrom(r, b)
        BY <3>1, <3>2, <3>3
    <3>6. BandFrom(r, b) \subseteq true /\ BandFrom(r, b) \in Bands(r)
        BY <1>5, <3>2, <3>4 DEF Bands
    <3> QED
        BY <3>5, <3>6 DEF BandsIn
  <2>6. ASSUME NEW a \in BandsIn(r, true) PROVE a \in Kept(r, filters)
    <3>1. PICK b \in r.lower : a \in BandFrom(r, b) /\ BandFrom(r, b) \subseteq true
        BY DEF Bands, BandsIn
    <3>2. b \in los /\ a \in AgesOf(r) /\ a \in Int
        BY <1>1, <1>5, <3>1, BandsAreAges DEF AgesOf
    <3>3. b = BandOf(r, a).low /\ b <= a
        BY <3>1, <3>2, OneBand
    <3>4. first <= b /\ b \in Nat
        BY <1>1, <2>1, <3>2
    <3>5. a >= first
        BY <2>2, <3>2, <3>3, <3>4
    <3> QED
        BY <2>4, <3>2, <3>5
  <2>7. Kept(r, filters) \subseteq BandsIn(r, true)
      BY <2>5
  <2>8. BandsIn(r, true) \subseteq Kept(r, filters)
      BY <2>6
  <2> DEFINE kept == Kept(r, filters)  whole == BandsIn(r, true)
  <2>9. kept = whole
    <3>1. kept \subseteq whole /\ whole \subseteq kept
        BY <2>7, <2>8
    <3> HIDE DEF kept, whole
    <3> QED
        BY <3>1
  <2> QED
      BY <2>3, <2>9
<1> QED
    BY <1>7, <1>8

\* The filters for a greatest age keep the bands that end there or sooner.
LEMMA UpToKeeps ==
    ASSUME NEW r, IsAgeRule(r), NEW hi \in Int, NEW true \in SUBSET AgesOf(r), \A a \in AgesOf(r) : a \in true <=> a <= hi,
           NEW filters, filters = AgeWindow(r.lower, r.upper, 0, hi)
    PROVE  IF \E b \in Bands(r) : b \subseteq true
           THEN Kept(r, filters) = BandsIn(r, true)
           ELSE filters = <<>>
<1> DEFINE los == {x \in r.lower : x >= 0}  his == {x \in r.upper : x <= hi}  last == Max(his)
           p == los # {} /\ Min(los) > Min(r.lower)  q == his # {} /\ last < Max(r.upper)
<1>1. /\ r.lower \in SUBSET Nat /\ r.upper \in SUBSET Nat /\ IsFiniteSet(r.upper)
      /\ Min(r.lower) \in r.lower /\ \A x \in r.lower : Min(r.lower) <= x
      /\ Max(r.upper) \in r.upper /\ \A x \in r.upper : x <= Max(r.upper)
    BY EdgesOf
<1>2. filters = SomeOf(p, Filter(">=", Min(los))) \o SomeOf(q, Filter("<=", last))
    BY DEF AgeWindow
<1>3. los = r.lower
    BY <1>1
<1>4. ~p /\ p \in BOOLEAN /\ q \in BOOLEAN
  <2>1. ~(Min(r.lower) > Min(r.lower))
      BY <1>1
  <2> HIDE DEF los
  <2> QED
      BY <1>3, <2>1
<1>5. ASSUME NEW b \in r.lower, NEW h, h = Min({e \in r.upper : e >= b})
      PROVE  (BandFrom(r, b) \subseteq true <=> h \in his) /\ h \in r.upper /\ h \in BandFrom(r, b)
  <2>1. h \in r.upper /\ h >= b /\ BandFrom(r, b) \subseteq AgesOf(r) /\ BandFrom(r, b) = b..h
      BY <1>5, HighOf, BandsAreAges DEF BandFrom
  <2>2. h \in Nat /\ b \in Nat
      BY <1>1, <2>1
  <2>3. h \in BandFrom(r, b) /\ \A a \in BandFrom(r, b) : a \in Int /\ a <= h
      BY <2>1, <2>2
  <2>4. h <= hi => \A a \in BandFrom(r, b) : a <= hi
      BY <2>2, <2>3
  <2> QED
      BY <2>1, <2>3, <2>4
<1> HIDE DEF los, p
<1>6. CASE his = {}
  <2>1. ~q
      BY <1>6
  <2>2. filters = <<>>
    <3> HIDE DEF q
    <3> QED
        BY <1>2, <1>4, <2>1, SomeFilters, Zenon
  <2>3. ~ \E b \in r.lower : BandFrom(r, b) \subseteq true
    <3> HIDE DEF his
    <3> QED
        BY <1>5, <1>6
  <2> QED
      BY <2>2, <2>3 DEF Bands
<1>7. CASE his # {}
  <2>1. last \in r.upper /\ last <= hi /\ \A x \in r.upper : x <= hi => x <= last
    <3>1. his \in SUBSET Int /\ IsFiniteSet(his)
      <4>1. his \subseteq r.upper
          OBVIOUS
      <4>2. IsFiniteSet(his)
        <5> HIDE DEF his
        <5> QED
            BY <1>1, <4>1, FS_Subset
      <4> QED
          BY <1>1, <4>2
    <3>2. last \in his /\ \A x \in his : last >= x
      <4> HIDE DEF his
      <4> QED
          BY <1>7, <3>1, MaxIsGreatest
    <3> HIDE DEF last
    <3>3. \A x \in his : x <= last
        BY <1>1, <3>2
    <3> QED
        BY <3>2, <3>3
  <2>2. last \in Nat /\ last <= Max(r.upper) /\ (q <=> last < Max(r.upper))
      BY <1>1, <1>7, <2>1
  <2> HIDE DEF last, q
  <2>3. \E b \in Bands(r) : b \subseteq true
    <3> DEFINE b == BandOf(r, last).low  e == BandOf(r, last).high
    <3>1. last \in AgesOf(r)
      <4>1. Min(r.lower) <= last
          BY <2>1, EdgesOf
      <4> QED
          BY <1>1, <2>2, <4>1 DEF AgesOf
    <3>2. /\ b \in r.lower /\ e \in r.upper /\ last <= e /\ \A x \in r.upper : last <= x => e <= x
          /\ BandFrom(r, b) = b..e /\ b <= last
        BY <3>1, OneBand
    <3> HIDE DEF b, e
    <3>3. e = last
        BY <1>1, <2>1, <2>2, <3>2
    <3> DEFINE h == Min({x \in r.upper : x >= b})
    <3>4. h \in r.upper /\ h >= b /\ \A x \in r.upper : x >= b => h <= x
        BY <3>2, HighOf
    <3> HIDE DEF h
    <3>5. h <= last /\ h \in Nat
        BY <1>1, <2>1, <3>2, <3>4
    <3>6. h <= hi
        BY <2>1, <2>2, <3>5
    <3>7. BandFrom(r, b) \subseteq true
        BY <1>5, <3>2, <3>4, <3>6 DEF h
    <3> QED
        BY <3>2, <3>7 DEF Bands
  <2>4. ASSUME NEW a \in AgesOf(r) PROVE a \in Kept(r, filters) <=> a <= last
    <3>1. a \in Kept(r, filters) <=> (q => a <= last)
        BY <1>2, <1>4, KeptBySome, Zenon
    <3>2. a \in Int /\ a <= Max(r.upper) /\ Max(r.upper) \in Nat
        BY <1>1 DEF AgesOf
    <3> QED
        BY <2>2, <3>1, <3>2
  <2>5. ASSUME NEW a \in Kept(r, filters) PROVE a \in BandsIn(r, true)
    <3> DEFINE b == BandOf(r, a).low  e == BandOf(r, a).high
    <3>1. a \in AgesOf(r) /\ a \in Int /\ a <= last
        BY <1>1, <2>4, <2>5 DEF Kept, AgesOf
    <3>2. /\ b \in r.lower /\ b <= a /\ e \in r.upper /\ a <= e /\ \A x \in r.upper : a <= x => e <= x
          /\ BandFrom(r, b) = b..e
        BY <3>1, OneBand
    <3> HIDE DEF b, e
    <3>3. e <= last /\ b \in Nat /\ e \in Nat
        BY <1>1, <2>1, <3>1, <3>2
    <3>4. \A x \in b..e : x \in Int /\ x <= hi
        BY <2>1, <2>2, <3>3
    <3>5. BandFrom(r, b) \subseteq true /\ a \in BandFrom(r, b)
        BY <3>1, <3>2, <3>3, <3>4, BandsAreAges
    <3> QED
        BY <3>2, <3>5 DEF Bands, BandsIn
  <2>6. ASSUME NEW a \in BandsIn(r, true) PROVE a \in Kept(r, filters)
    <3>1. PICK b \in r.lower : a \in BandFrom(r, b) /\ BandFrom(r, b) \subseteq true
        BY DEF Bands, BandsIn
    <3> DEFINE h == Min({x \in r.upper : x >= b})
    <3>2. h \in his /\ BandFrom(r, b) = b..h
        BY <1>5, <3>1 DEF BandFrom
    <3>3. a \in AgesOf(r) /\ a \in Int
        BY <1>1, <3>1, BandsAreAges DEF AgesOf
    <3> HIDE DEF h
    <3>4. h <= last /\ h \in Nat /\ b \in Nat
        BY <1>1, <2>1, <3>2
    <3>5. a <= h
        BY <3>1, <3>2, <3>4
    <3>6. a <= last
        BY <2>2, <3>3, <3>4, <3>5
    <3> QED
        BY <2>4, <3>3, <3>6
  <2>7. Kept(r, filters) \subseteq BandsIn(r, true)
      BY <2>5
  <2>8. BandsIn(r, true) \subseteq Kept(r, filters)
      BY <2>6
  <2> DEFINE kept == Kept(r, filters)  whole == BandsIn(r, true)
  <2>9. kept = whole
    <3>1. kept \subseteq whole /\ whole \subseteq kept
        BY <2>7, <2>8
    <3> HIDE DEF kept, whole
    <3> QED
        BY <3>1
  <2> QED
      BY <2>3, <2>9
<1> QED
    BY <1>6, <1>7

\* The words of an age keep the bands that are of such people alone.
LEMMA AgesAreKept ==
    ASSUME asked.about = "age", IsAgeRule(asked.rule),
           asked.op \in {"<", "<=", ">", ">=", "=="}, asked.age \in Int,
           asked.filters = AgeFilters(asked.rule.lower, asked.rule.upper, asked.op, asked.age)
    PROVE  AgesKept
<1> DEFINE r == asked.rule  op == asked.op  age == asked.age  filters == asked.filters
           true == {a \in AgesOf(r) : Lets(a, Filter(op, age))}
<1>1. /\ IsAgeRule(r) /\ op \in {"<", "<=", ">", ">=", "=="} /\ age \in Int
      /\ filters = AgeFilters(r.lower, r.upper, op, age)
    OBVIOUS
<1> HIDE DEF r, op, age, filters
<1>2. AgesOf(r) \subseteq Int
  <2>1. Min(r.lower) \in Nat /\ Max(r.upper) \in Nat
      BY <1>1, EdgesOf
  <2> QED
      BY <2>1 DEF AgesOf
<1>3. op = "==" /\ age \in AgesOf(r) => Kept(r, filters) = UNION {b \in Bands(r) : age \in b}
    BY <1>1, ContainingKeeps DEF AgeFilters
<1>4. op # "==" =>
          IF \E b \in Bands(r) : b \subseteq true
          THEN Kept(r, filters) = BandsIn(r, true)
          ELSE filters = <<>>
  <2>1. CASE op = ">="
    <3>1. true \in SUBSET AgesOf(r) /\ \A a \in AgesOf(r) : a \in true <=> a >= age
        BY <1>1, <2>1, LetsAges
    <3>2. filters = AgeWindow(r.lower, r.upper, age, 1000)
        BY <1>1, <2>1 DEF AgeFilters
    <3> HIDE DEF filters, true
    <3> QED
        BY <1>1, <3>1, <3>2, FromKeeps
  <2>2. CASE op = ">"
    <3>1. true \in SUBSET AgesOf(r) /\ \A a \in AgesOf(r) : a \in true <=> a >= age + 1
        BY <1>1, <1>2, <2>2, LetsAges
    <3>2. filters = AgeWindow(r.lower, r.upper, age + 1, 1000) /\ age + 1 \in Int
        BY <1>1, <2>2 DEF AgeFilters
    <3> HIDE DEF filters, true
    <3> QED
        BY <1>1, <3>1, <3>2, FromKeeps
  <2>3. CASE op = "<="
    <3>1. true \in SUBSET AgesOf(r) /\ \A a \in AgesOf(r) : a \in true <=> a <= age
        BY <1>1, <2>3, LetsAges
    <3>2. filters = AgeWindow(r.lower, r.upper, 0, age)
        BY <1>1, <2>3 DEF AgeFilters
    <3> HIDE DEF filters, true
    <3> QED
        BY <1>1, <3>1, <3>2, UpToKeeps
  <2>4. CASE op = "<"
    <3>1. true \in SUBSET AgesOf(r) /\ \A a \in AgesOf(r) : a \in true <=> a <= age - 1
        BY <1>1, <1>2, <2>4, LetsAges
    <3>2. filters = AgeWindow(r.lower, r.upper, 0, age - 1) /\ age - 1 \in Int
        BY <1>1, <2>4 DEF AgeFilters
    <3> HIDE DEF filters, true
    <3> QED
        BY <1>1, <3>1, <3>2, UpToKeeps
  <2> QED
      BY <1>1, <2>1, <2>2, <2>3, <2>4
<1> DEFINE bands == {b..Min({e \in r.upper : e >= b}) : b \in r.lower}
<1>5. Bands(r) = bands /\ BandsIn(r, true) = UNION {b \in bands : b \subseteq true}
    BY DEF Bands, BandFrom, BandsIn
<1> DEFINE holds(a, f) == Meets(a, [f EXCEPT !.value = @[2]])
           ages == Min(r.lower)..Max(r.upper)
           kept == {a \in ages : \A i \in DOMAIN filters : holds(a, filters[i])}
<1>6. Kept(r, filters) = kept /\ AgesOf(r) = ages
    BY DEF Kept, Lets, AgesOf
<1>7. true = {a \in ages : holds(a, Filter(op, age))}
    BY DEF Lets, AgesOf
<1> DEFINE answer ==
             CASE op = "=="                                        -> age \in ages => kept = UNION {b \in bands : age \in b}
               [] op # "==" /\ (\E b \in bands : b \subseteq true) -> kept = UNION {b \in bands : b \subseteq true}
               [] OTHER                                            -> filters = <<>>
<1>8. answer
  <2> HIDE DEF filters, true, bands, kept, ages
  <2>1. CASE op = "=="
      BY <1>3, <1>5, <1>6, <2>1
  <2>2. CASE op # "==" /\ (\E b \in bands : b \subseteq true)
      BY <1>4, <1>5, <1>6, <2>2
  <2>3. CASE op # "==" /\ ~ \E b \in bands : b \subseteq true
      BY <1>4, <1>5, <1>6, <2>3
  <2> QED
      BY <2>1, <2>2, <2>3
<1> HIDE DEF true
<1> DEFINE words == {a \in ages : holds(a, Filter(op, age))}
<1>9. (CASE op = "=="                                        -> age \in ages => kept = UNION {b \in bands : age \in b}
         [] op # "==" /\ (\E b \in bands : b \subseteq words) -> kept = UNION {b \in bands : b \subseteq words}
         [] OTHER                                            -> filters = <<>>)
  <2> HIDE DEF kept, bands, words, ages
  <2> QED
      BY <1>7, <1>8 DEF words
<1> HIDE DEF answer
<1> QED
    BY <1>9, Zenon DEF AgesKept, r, op, age, filters

\* What the state of a proposal is: one that was offered, and accepted where
\* its properties are about what is accepted.
ProposalAsked ==
    \/ \E p \in Proposed : \E d, q :
          /\ d \in p.studies /\ Loads(d) /\ q \in p.queries
          /\ asked = [about |-> "spec", study |-> d, query |-> q]
    \/ \E d \in SharedQuantities : QuantitiesLoad(d) /\ asked = [about |-> "quantities", study |-> d]
    \/ \E p \in Proposed : \E d, m :
          /\ d \in p.studies /\ Loads(d) /\ m \in p.models /\ AcceptsModel(d, m)
          /\ asked = [about |-> "model", study |-> d, model |-> m]
    \/ \E p \in Proposed : \E d, r :
          /\ r \in p.requests /\ ~Literal(r)
          /\ \/ \E q : Admits(d, r, q) /\ asked = Worded(r, q.by, "by", {}, {})
             \/ \E m : AdmitsModel(d, r, m) /\ asked = Worded(r, m.terms, "on", {m.response}, d.views[m.view].times)
    \/ \E r \in AgeRules, op \in {"<", "<=", ">", ">=", "=="}, age \in AskedAges :
          asked = [about |-> "age", rule |-> r, op |-> op, age |-> age,
                   filters |-> AgeFilters(r.lower, r.upper, op, age)]
    \/ asked.about \notin {"spec", "quantities", "model", "request", "age"}

LEMMA ProposalAskedSound == ProposalAsked => SpecsSound
<1> SUFFICES ASSUME ProposalAsked PROVE SpecsSound
    OBVIOUS
<1> DEFINE about(x) == asked.about = x
<1>1. ASSUME NEW p \in Proposed, NEW d \in p.studies, Loads(d), NEW q \in p.queries,
             asked = [about |-> "spec", study |-> d, query |-> q]
      PROVE  SpecsSound
  <2>1. IsDefinition(d) /\ IsSpec(q) /\ asked.about = "spec"
      BY <1>1, ProposalsAssumption
  <2>2. NamesResolve /\ WholeBands /\ SkeletonExact
      BY <1>1, <2>1, NamesAlwaysResolve, BandsStayWhole, SkeletonIsExact
  <2>3. QuantitiesApart /\ PlansAccepted /\ ModelsListed /\ RequestsKept /\ AgesKept
      BY <2>1 DEF Is, QuantitiesApart, PlansAccepted, ModelsListed, RequestsKept, AgesKept
  <2> QED
      BY <2>2, <2>3 DEF SpecsSound
<1>2. ASSUME NEW d \in SharedQuantities, QuantitiesLoad(d), asked = [about |-> "quantities", study |-> d]
      PROVE  SpecsSound
  <2>1. (\A q \in DOMAIN d.quantities : IsShared(d.quantities[q])) /\ asked.about = "quantities"
      BY <1>2, ProposalsAssumption
  <2>2. QuantitiesApart
      BY <1>2, <2>1, QuantitiesStayApart
  <2>3. /\ NamesResolve /\ WholeBands /\ SkeletonExact
        /\ PlansAccepted /\ ModelsListed /\ RequestsKept /\ AgesKept
      BY <2>1 DEF Is, NamesResolve, WholeBands, SkeletonExact, PlansAccepted, ModelsListed, RequestsKept, AgesKept
  <2> QED
      BY <2>2, <2>3 DEF SpecsSound
<1>3. ASSUME NEW p \in Proposed, NEW d \in p.studies, Loads(d), NEW m \in p.models, AcceptsModel(d, m),
             asked = [about |-> "model", study |-> d, model |-> m]
      PROVE  SpecsSound
  <2>1. IsModelSpec(m) /\ asked.about = "model"
      BY <1>3, ProposalsAssumption
  <2>2. PlansAccepted /\ ModelsListed
      BY <1>3, <2>1, PlansAreAccepted, ModelsAreListed
  <2>3. NamesResolve /\ WholeBands /\ SkeletonExact /\ QuantitiesApart /\ RequestsKept /\ AgesKept
      BY <2>1 DEF Is, NamesResolve, WholeBands, SkeletonExact, QuantitiesApart, RequestsKept, AgesKept
  <2> QED
      BY <2>2, <2>3 DEF SpecsSound
<1>4. ASSUME NEW p \in Proposed, NEW d, NEW r \in p.requests, ~Literal(r),
             \/ \E q : Admits(d, r, q) /\ asked = Worded(r, q.by, "by", {}, {})
             \/ \E m : AdmitsModel(d, r, m) /\ asked = Worded(r, m.terms, "on", {m.response}, d.views[m.view].times)
      PROVE  SpecsSound
  <2>1. IsList(r) /\ asked.about = "request"
      BY <1>4, ProposalsAssumption DEF Worded
  <2>2. RequestsKept
      BY <1>4, <2>1, RequestsAreKept
  <2>3. /\ NamesResolve /\ WholeBands /\ SkeletonExact /\ QuantitiesApart
        /\ PlansAccepted /\ ModelsListed /\ AgesKept
      BY <2>1 DEF Is, NamesResolve, WholeBands, SkeletonExact, QuantitiesApart, PlansAccepted, ModelsListed, AgesKept
  <2> QED
      BY <2>2, <2>3 DEF SpecsSound
<1>5. ASSUME NEW r \in AgeRules, NEW op \in {"<", "<=", ">", ">=", "=="}, NEW age \in AskedAges,
             asked = [about |-> "age", rule |-> r, op |-> op, age |-> age,
                      filters |-> AgeFilters(r.lower, r.upper, op, age)]
      PROVE  SpecsSound
  <2>1. IsAgeRule(r) /\ age \in Int /\ asked.about = "age"
      BY <1>5, ProposalsAssumption
  <2>2. AgesKept
    <3>1. /\ asked.rule = r /\ asked.op = op /\ asked.age = age
          /\ asked.filters = AgeFilters(r.lower, r.upper, op, age)
        BY <1>5
    <3> QED
        BY <2>1, <3>1, AgesAreKept
  <2>3. /\ NamesResolve /\ WholeBands /\ SkeletonExact /\ QuantitiesApart
        /\ PlansAccepted /\ ModelsListed /\ RequestsKept
      BY <2>1 DEF Is, NamesResolve, WholeBands, SkeletonExact, QuantitiesApart, PlansAccepted, ModelsListed, RequestsKept
  <2> QED
      BY <2>2, <2>3 DEF SpecsSound
<1>6. CASE asked.about \notin {"spec", "quantities", "model", "request", "age"}
    BY <1>6 DEF SpecsSound, Is, NamesResolve, WholeBands, SkeletonExact, QuantitiesApart,
                PlansAccepted, ModelsListed, RequestsKept, AgesKept
<1> QED
    BY <1>1, <1>2, <1>3, <1>4, <1>5, <1>6 DEF ProposalAsked

\* Every state is a proposal that was offered.
THEOREM ProposalsAlways == Proposals => []ProposalAsked
<1>1. Unasked => ProposalAsked
    BY DEF Unasked, ProposalAsked, Is
<1>2. ASSUME ProposalAsked, [AskProposal]_asked PROVE ProposalAsked'
  <2>1. CASE AskSpec
      BY <2>1 DEF AskSpec, ProposalAsked
  <2>2. CASE AskQuantities
      BY <2>2 DEF AskQuantities, ProposalAsked
  <2>3. CASE AskModel
      BY <2>3 DEF AskModel, ProposalAsked
  <2>4. CASE AskRequest
      BY <2>4 DEF AskRequest, ProposalAsked
  <2>5. CASE AskAge
      BY <2>5 DEF AskAge, ProposalAsked
  <2>6. CASE UNCHANGED asked
      BY <1>2, <2>6 DEF ProposalAsked
  <2> QED
      BY <1>2, <2>1, <2>2, <2>3, <2>4, <2>5, <2>6 DEF AskProposal
<1> QED
    BY <1>1, <1>2, PTL DEF Proposals

\* What is accepted, for every definition that loads, names only what is there,
\* cuts people only at the edges of bands, is what is listed, plans only what is
\* itself accepted, and answers the words it was asked in.
THEOREM ProposalsSound == Proposals => []SpecsSound
<1>1. ProposalAsked => SpecsSound
    BY ProposalAskedSound
<1> QED
    BY <1>1, ProposalsAlways, PTL

-----------------------------------------------------------------------------
(* The external checker *)

Steps == {"idle", "acquire", "start", "take", "write", "fill", "read", "readline", "close",
          "drop", "shut", "reap", "compare", "store", "judge", "describe"}

(***************************************************************************)
(* Frames.                                                                 *)
(***************************************************************************)

\* A thread's step is its own.
LEMMA ThreadFrame ==
    ASSUME TypeOK, NEW t \in Threads, Vet(t) \/ Step(t)
    PROVE  \A x \in Threads : x # t =>
               /\ pc'[x] = pc[x] /\ id'[x] = id[x] /\ proc'[x] = proc[x]
               /\ line'[x] = line[x] /\ victim'[x] = victim[x]
               /\ applied'[x] = applied[x] /\ named'[x] = named[x]
<1> USE DEF locals, outcome, Goto
<1>1. CASE Vet(t)
    BY <1>1 DEF TypeOK, Vet
<1>2. CASE Acquire(t) \/ GiveUp(t) \/ Reuse(t) \/ Start(t) \/ Take(t)
    BY <1>2 DEF TypeOK, Acquire, GiveUp, Reuse, Start, Take
<1>3. CASE Write(t) \/ Fill(t) \/ Select(t) \/ Timeout(t) \/ ReadLine(t) \/ ReadEnd(t)
    BY <1>3 DEF TypeOK, Write, Fill, Ask, Select, Timeout, ReadLine, ReadEnd
<1>4. CASE Close(t) \/ Shut(t) \/ Reap(t)
    BY <1>4 DEF TypeOK, Close, Shut, Reap
<1>5. CASE Compare(t) \/ Store(t) \/ Judge(t) \/ Describe(t)
    BY <1>5 DEF TypeOK, Compare, Store, Judge, Describe
<1> QED BY <1>1, <1>2, <1>3, <1>4, <1>5 DEF Step

\* The checker touches no thread and no field of the vetter.
LEMMA CheckerMoves ==
    ASSUME NEW p \in Processes, Answer(p) \/ Chatter(p) \/ Hang(p) \/ Deafen(p) \/ Die(p)
    PROVE  /\ UNCHANGED <<process, starts, version, lock, lastId, pc, id, proc, line,
                          victim, applied, named>>
           /\ alive' \subseteq alive
    BY DEF Answer, Chatter, Hang, Deafen, Die, vetter, pipes, locals, outcome

\* Every step is a thread's, the checker's or nobody's.
LEMMA NextCases ==
    ASSUME [Next]_vars
    PROVE  \/ \E t \in Threads : Vet(t) \/ Step(t)
           \/ \E p \in Processes : Answer(p) \/ Chatter(p) \/ Hang(p) \/ Deafen(p) \/ Die(p)
           \/ UNCHANGED <<process, starts, version, lock, lastId, pc, id, proc, line,
                          victim, alive, closed, hung, deaf, questions, answers, applied, named,
                          chatter>>
    BY DEF Next, vars, vetter, locals, pipes, outcome

(***************************************************************************)
(* Types.                                                                  *)
(***************************************************************************)

LEMMA TypeInit == Init => TypeOK
<1> SUFFICES ASSUME Init PROVE TypeOK
    OBVIOUS
<1>1. NoLine \in Line
    BY DEF NoLine, Line, NoId
<1>2. <<>> \in Seq(Nat) /\ <<>> \in Seq(Line)
    BY EmptySeq
<1>3. /\ pc \in [Threads -> Steps] /\ id \in [Threads -> Nat]
      /\ proc \in [Threads -> Processes \cup {NoProcess}]
      /\ victim \in [Threads -> Processes \cup {NoProcess}]
    BY DEF Init, PerThread, NoId, Steps
<1>4. line \in [Threads -> Line] /\ applied \in [Threads -> Line]
      /\ named \in [Threads -> Versions \cup {NoVersion}]
    BY <1>1 DEF Init, PerThread
<1>5. questions \in [Processes -> Seq(Nat)] /\ answers \in [Processes -> Seq(Line)]
    BY <1>2 DEF Init, PerProcess
<1>6. starts \in 0..(MaxStarts + 1) /\ lastId \in Nat /\ chatter \in Nat
    BY CheckerAssumption DEF Init, NoId
<1>7. /\ process \in Processes \cup {NoProcess} /\ version \in Versions \cup {NoVersion}
      /\ lock \in Threads \cup {NoThread} /\ alive \subseteq Processes
      /\ closed \subseteq Processes /\ hung \subseteq Processes /\ deaf \subseteq Processes
    BY DEF Init
<1> QED BY <1>3, <1>4, <1>5, <1>6, <1>7 DEF TypeOK, Steps

LEMMA TypeNext == TypeOK /\ Exchange /\ [Next]_vars => TypeOK'
<1> SUFFICES ASSUME TypeOK, Exchange, [Next]_vars PROVE TypeOK'
    OBVIOUS
<1> USE DEF vetter, locals, pipes, outcome, Goto, Release
<1>0. NoLine \in Line
    BY DEF NoLine, Line, NoId
<1>1. ASSUME NEW t \in Threads, Vet(t) PROVE TypeOK'
    BY <1>0, <1>1 DEF TypeOK, Vet
<1>2. ASSUME NEW t \in Threads, Acquire(t) \/ GiveUp(t) \/ Reuse(t) \/ Take(t)
      PROVE TypeOK'
    <2>1. CASE Acquire(t) \/ GiveUp(t) \/ Reuse(t)
        BY <2>1 DEF TypeOK, Acquire, GiveUp, Reuse
    <2>2. CASE Take(t)
        <3>1. proc' \in [Threads -> Processes \cup {NoProcess}]
            BY <2>2 DEF TypeOK, Take
        <3>2. lock' \in Threads \cup {NoThread}
              /\ (pc' = [pc EXCEPT ![t] = "idle"] \/ pc' = [pc EXCEPT ![t] = "write"])
            BY <2>2 DEF TypeOK, Take
        <3>3. UNCHANGED <<vetter, lastId, id, line, victim, alive, pipes, outcome, chatter>>
            BY <2>2 DEF Take
        <3> QED BY <3>1, <3>2, <3>3 DEF TypeOK
    <2> QED BY <1>2, <2>1, <2>2
<1>3. ASSUME NEW t \in Threads, Start(t) PROVE TypeOK'
    <2>1. /\ starts' \in 0..(MaxStarts + 1)
          /\ starts' <= MaxStarts => starts' \in Processes
        BY <1>3, CheckerAssumption DEF TypeOK, Start, Processes
    <2>2. /\ process' \in Processes \cup {NoProcess} /\ alive' \subseteq Processes
          /\ (pc' = [pc EXCEPT ![t] = "take"] \/ pc' = [pc EXCEPT ![t] = "close"])
        BY <1>3, <2>1 DEF TypeOK, Start
    <2>3. UNCHANGED <<version, lock, lastId, locals, pipes, outcome, chatter>>
        BY <1>3 DEF Start
    <2> QED BY <2>1, <2>2, <2>3 DEF TypeOK
<1>4. ASSUME NEW t \in Threads, Write(t) \/ Fill(t) PROVE TypeOK'
    <2> DEFINE p == proc[t]
    <2>1. \/ questions' = questions
          \/ p \in alive /\ questions' = [questions EXCEPT ![p] = Append(questions[p], id[t])]
        BY <1>4 DEF Write, Fill, Ask
    <2>2. questions' \in [Processes -> Seq(Nat)]
        <3>1. CASE questions' = questions
            BY <3>1 DEF TypeOK
        <3>2. CASE p \in alive /\ questions' = [questions EXCEPT ![p] = Append(questions[p], id[t])]
            <4>1. p \in Processes /\ questions[p] \in Seq(Nat) /\ id[t] \in Nat
                BY <3>2 DEF TypeOK
            <4>2. Append(questions[p], id[t]) \in Seq(Nat)
                BY <4>1, AppendProperties
            <4> HIDE DEF p
            <4> QED BY <3>2, <4>1, <4>2 DEF TypeOK
        <3> QED BY <2>1, <3>1, <3>2
    <2>3. /\ UNCHANGED <<vetter, lock, lastId, locals, alive, closed, hung, deaf, answers, outcome,
                        chatter>>
          /\ \E step \in {"read", "fill", "close"} : pc' = [pc EXCEPT ![t] = step]
        BY <1>4 DEF Write, Fill, Ask
    <2> QED BY <2>2, <2>3 DEF TypeOK
<1>5. ASSUME NEW t \in Threads, ReadLine(t) PROVE TypeOK'
    <2> DEFINE p == proc[t]
    <2>1. /\ answers[p] # <<>>
          /\ line' = [line EXCEPT ![t] = Head(answers[p])]
          /\ answers' = [answers EXCEPT ![p] = Tail(answers[p])]
          /\ UNCHANGED <<vetter, lastId, id, proc, victim, alive, closed, hung, deaf, questions, outcome,
                        chatter>>
          /\ (lock' = lock \/ lock' = NoThread)
          /\ (pc' = [pc EXCEPT ![t] = "compare"] \/ pc' = [pc EXCEPT ![t] = "close"])
        BY <1>5 DEF ReadLine
    <2>2. p \in Processes
        BY <1>5 DEF ReadLine, Exchange
    <2> HIDE DEF p
    <2>3. answers[p] \in Seq(Line)
        BY <2>2 DEF TypeOK
    <2>4. Head(answers[p]) \in Line /\ Tail(answers[p]) \in Seq(Line)
        BY <2>1, <2>3, HeadTailProperties
    <2>5. line' \in [Threads -> Line]
        BY <2>1, <2>4 DEF TypeOK
    <2>6. answers' \in [Processes -> Seq(Line)]
        BY <2>1, <2>2, <2>4 DEF TypeOK
    <2> QED BY <2>1, <2>5, <2>6 DEF TypeOK
<1>6. ASSUME NEW t \in Threads, Select(t) \/ Timeout(t) \/ ReadEnd(t) PROVE TypeOK'
    BY <1>6 DEF TypeOK, Select, Timeout, ReadEnd
<1>7. ASSUME NEW t \in Threads, Close(t) PROVE TypeOK'
    <2>1. /\ process' = NoProcess /\ victim' = [victim EXCEPT ![t] = process]
          /\ lock' \in {lock, NoThread}
          /\ (pc' = [pc EXCEPT ![t] = "idle"] \/ pc' = [pc EXCEPT ![t] = "shut"])
          /\ UNCHANGED <<starts, version, lastId, id, proc, line, alive, pipes, outcome, chatter>>
        BY <1>7 DEF Close
    <2> QED BY <2>1 DEF TypeOK
<1>8. ASSUME NEW t \in Threads, Shut(t) \/ Reap(t) PROVE TypeOK'
    <2>1. CASE Shut(t)
        <3>1. victim[t] \in Processes
            BY <2>1 DEF Shut, Exchange
        <3> QED BY <2>1, <3>1 DEF TypeOK, Shut
    <2>2. CASE Reap(t)
        BY <2>2 DEF TypeOK, Reap
    <2> QED BY <1>8, <2>1, <2>2
<1>9. ASSUME NEW t \in Threads, Compare(t) \/ Store(t) \/ Judge(t) \/ Describe(t)
      PROVE TypeOK'
    <2>1. CASE Compare(t)
        BY <2>1 DEF TypeOK, Compare
    <2>2. CASE Store(t)
        <3>1. line[t].version \in Versions \cup {NoVersion}
            BY DEF TypeOK, Line
        <3> QED BY <2>2, <3>1 DEF TypeOK, Store
    <2>3. CASE Judge(t)
        <3>1. applied' \in [Threads -> Line]
            BY <2>3 DEF TypeOK, Judge
        <3>2. pc' = [pc EXCEPT ![t] = "idle"] \/ pc' = [pc EXCEPT ![t] = "describe"]
            BY <2>3 DEF Judge
        <3>3. UNCHANGED <<vetter, lock, lastId, locals, alive, pipes, named, chatter>>
            BY <2>3 DEF Judge
        <3> QED BY <3>1, <3>2, <3>3 DEF TypeOK
    <2>4. CASE Describe(t)
        BY <2>4 DEF TypeOK, Describe
    <2> QED BY <1>9, <2>1, <2>2, <2>3, <2>4
<1>10. ASSUME NEW p \in Processes, Answer(p) \/ Chatter(p) PROVE TypeOK'
    <2>1. /\ UNCHANGED <<vetter, lock, lastId, pc, locals, alive, closed, hung, deaf, outcome>>
          /\ chatter' \in Nat
          /\ \/ questions' = questions
             \/ questions[p] # <<>> /\ questions' = [questions EXCEPT ![p] = Tail(questions[p])]
        <3>1. CASE Answer(p)
            BY <3>1 DEF Answer, TypeOK
        <3>2. CASE Chatter(p)
            <4>1. chatter \in Nat /\ chatter' = chatter + 1
                BY <3>2 DEF Chatter, TypeOK
            <4>2. chatter' \in Nat
                BY <4>1
            <4> QED BY <3>2, <4>2 DEF Chatter
        <3> QED BY <1>10, <3>1, <3>2
    <2>2. questions[p] \in Seq(Nat) /\ answers[p] \in Seq(Line)
        BY DEF TypeOK
    <2>3. questions' \in [Processes -> Seq(Nat)]
        <3>1. questions[p] # <<>> => Tail(questions[p]) \in Seq(Nat)
            BY <2>2, HeadTailProperties
        <3> QED BY <2>1, <3>1 DEF TypeOK
    <2>4. PICK l \in Line : answers' = [answers EXCEPT ![p] = Append(answers[p], l)]
        <3>1. CASE Answer(p)
            <4>1. Head(questions[p]) \in Nat
                BY <2>2, <3>1, HeadTailProperties DEF Answer
            <4>2. PICK v \in Versions : Say(p, [id |-> Head(questions[p]), version |-> v])
                BY <3>1 DEF Answer
            <4>3. [id |-> Head(questions[p]), version |-> v] \in Line
                BY <4>1 DEF Line
            <4> QED BY <4>2, <4>3 DEF Say
        <3>2. CASE Chatter(p)
            <4>1. PICK i \in NoId..lastId, v \in Versions : Say(p, [id |-> i, version |-> v])
                BY <3>2 DEF Chatter
            <4>2. [id |-> i, version |-> v] \in Line
                BY DEF Line, NoId, TypeOK
            <4> QED BY <4>1, <4>2 DEF Say
        <3> QED BY <1>10, <3>1, <3>2
    <2>5. answers' \in [Processes -> Seq(Line)]
        <3>1. Append(answers[p], l) \in Seq(Line)
            BY <2>2, AppendProperties
        <3> QED BY <2>4, <3>1 DEF TypeOK
    <2> QED BY <2>1, <2>3, <2>5 DEF TypeOK
<1>11. ASSUME NEW p \in Processes, Hang(p) \/ Deafen(p) \/ Die(p) PROVE TypeOK'
    BY <1>11 DEF TypeOK, Hang, Deafen, Die, pipes
<1>12. CASE UNCHANGED vars
    BY <1>12 DEF TypeOK, vars
<1> QED BY <1>1, <1>2, <1>3, <1>4, <1>5, <1>6, <1>7, <1>8, <1>9, <1>10, <1>11, <1>12
        DEF Next, Step

(***************************************************************************)
(* The exchange.                                                           *)
(***************************************************************************)

\* What a step of a thread does to the thread itself.
LEMMA ThreadMoves ==
    ASSUME TypeOK, NEW t \in Threads, Vet(t) \/ Step(t)
    PROVE  \/ pc[t] = "idle" /\ pc'[t] = "acquire"
           \/ pc[t] = "acquire" /\ pc'[t] \in {"start", "idle"}
           \/ pc[t] = "start" /\ pc'[t] \in {"take", "close"}
           \/ pc[t] = "take" /\ pc'[t] \in {"write", "idle"}
           \/ pc[t] = "write" /\ pc'[t] \in {"read", "fill", "close"}
           \/ pc[t] = "fill" /\ pc'[t] \in {"read", "close"}
           \/ pc[t] = "read" /\ pc'[t] \in {"readline", "close"}
           \/ pc[t] = "readline" /\ pc'[t] \in {"compare", "close"}
           \/ pc[t] \in {"close", "drop"} /\ pc'[t] \in {"shut", "idle"}
           \/ pc[t] = "shut" /\ pc'[t] = "reap"
           \/ pc[t] = "reap" /\ pc'[t] = "idle"
           \/ pc[t] = "compare" /\ pc'[t] \in {"store", "drop"}
           \/ pc[t] = "store" /\ pc'[t] = "judge"
           \/ pc[t] = "judge" /\ pc'[t] \in {"describe", "idle"}
           \/ pc[t] = "describe" /\ pc'[t] = "idle"
<1>0. pc \in [Threads -> Steps]
    BY DEF TypeOK, Steps
<1> USE DEF Goto
<1>1. CASE Vet(t) \/ Acquire(t) \/ GiveUp(t) \/ Reuse(t)
    BY <1>0, <1>1 DEF Vet, Acquire, GiveUp, Reuse
<1>2. CASE Start(t) \/ Take(t)
    BY <1>0, <1>2 DEF Start, Take
<1>3. CASE Write(t) \/ Fill(t) \/ Select(t) \/ Timeout(t) \/ ReadLine(t) \/ ReadEnd(t)
    BY <1>0, <1>3 DEF Write, Fill, Ask, Select, Timeout, ReadLine, ReadEnd
<1>4. CASE Close(t) \/ Shut(t) \/ Reap(t)
    BY <1>0, <1>4 DEF Close, Shut, Reap
<1>5. CASE Compare(t) \/ Store(t) \/ Judge(t) \/ Describe(t)
    BY <1>0, <1>5 DEF Compare, Store, Judge, Describe
<1> QED BY <1>1, <1>2, <1>3, <1>4, <1>5 DEF Step

LEMMA ExchangeNext == TypeOK /\ Exchange /\ [Next]_vars => Exchange'
<1> SUFFICES ASSUME TypeOK, Exchange, [Next]_vars PROVE Exchange'
    OBVIOUS
<1> DEFINE Ex(x) ==
        /\ pc[x] \in Exchanging => lock = x
        /\ pc[x] \in {"write", "fill", "read", "readline"} =>
               /\ proc[x] \in Processes /\ proc[x] <= starts
               /\ process \in {proc[x], NoProcess}
        /\ pc[x] \in {"compare", "store", "judge"} => line[x].id = id[x]
        /\ pc[x] \in {"shut", "reap"} => victim[x] \in Processes
<1>0. /\ process <= starts /\ process \in Int /\ starts \in Int /\ MaxStarts \in Nat
      /\ \A x \in Threads : Ex(x)
    BY CheckerAssumption DEF Exchange, TypeOK, Processes, NoProcess
<1>a. process' <= starts' /\ (\A x \in Threads : Ex(x)') => Exchange'
    BY DEF Exchange
\* The other threads: the lock leaves only its holder's hands.
<1>b. ASSUME NEW t \in Threads, Vet(t) \/ Step(t), NEW x \in Threads, x # t
      PROVE  Ex(x)'
    <2>1. /\ pc'[x] = pc[x] /\ id'[x] = id[x] /\ proc'[x] = proc[x] /\ line'[x] = line[x]
          /\ victim'[x] = victim[x]
        BY <1>b, ThreadFrame
    <2>2. starts <= starts' /\ starts' \in Int
        BY <1>0, <1>b DEF Vet, Step, Acquire, GiveUp, Reuse, Start, Take, Write, Fill, Ask, Select,
                   Timeout, ReadLine, ReadEnd, Close, Shut, Reap, Compare, Store, Judge, Describe, vetter
    <2>3. ASSUME pc[x] \in Exchanging
          PROVE  lock' = x /\ process' \in {process, NoProcess}
        <3>1. lock = x /\ lock # NoThread
            BY <1>0, <2>3, CheckerAssumption
        <3>2. lock # t /\ pc[t] \notin Exchanging
            BY <1>0, <1>b, <3>1
        <3> QED BY <1>b, <3>1, <3>2
                DEF Vet, Step, Acquire, GiveUp, Reuse, Start, Take, Write, Fill, Ask, Select, Timeout, ReadLine,
                    ReadEnd, Close, Shut, Reap, Compare, Store, Judge, Describe, vetter, Release, Exchanging
    <2>4. pc[x] \in {"write", "fill", "read", "readline"} => pc[x] \in Exchanging /\ proc[x] \in Int
        BY <1>0 DEF Exchanging, Processes
    <2> QED BY <1>0, <2>1, <2>2, <2>3, <2>4
<1>1. ASSUME NEW t \in Threads, Vet(t) PROVE Exchange'
    <2>1. Ex(t)'
        BY <1>1 DEF Vet, Goto, Exchanging, TypeOK
    <2> QED BY <1>0, <1>1, <1>a, <1>b, <2>1 DEF Vet, vetter
<1>2. ASSUME NEW t \in Threads, Acquire(t) \/ GiveUp(t) \/ Reuse(t) PROVE Exchange'
    <2>1. Ex(t)'
        BY <1>0, <1>2 DEF Acquire, GiveUp, Reuse, Goto, Exchanging, TypeOK
    <2>2. UNCHANGED <<process, starts>>
        BY <1>2 DEF Acquire, GiveUp, Reuse, vetter
    <2> QED BY <1>0, <1>2, <1>a, <1>b, <2>1, <2>2 DEF Step
<1>3. ASSUME NEW t \in Threads, Start(t) PROVE Exchange'
    <2>1. Ex(t)'
        BY <1>0, <1>3 DEF Start, Goto, Exchanging, TypeOK
    <2>2. process' <= starts'
        BY <1>0, <1>3 DEF Start
    <2> QED BY <1>3, <1>a, <1>b, <2>1, <2>2 DEF Step
<1>4. ASSUME NEW t \in Threads, Take(t) PROVE Exchange'
    <2>1. UNCHANGED <<process, starts>> /\ proc' = [proc EXCEPT ![t] = process]
        BY <1>4 DEF Take, vetter
    <2>2. process \in Processes \cup {NoProcess} /\ proc'[t] = process
        BY <2>1 DEF TypeOK
    <2>3. CASE process = NoProcess
        BY <1>0, <1>4, <1>a, <1>b, <2>1, <2>3 DEF Take, Goto, Exchanging, TypeOK, Step
    <2>4. CASE process # NoProcess
        <3>1. pc'[t] = "write" /\ lock' = lock
            BY <1>4, <2>4 DEF Take, Goto, TypeOK
        <3>2. Ex(t)'
            BY <1>0, <1>4, <2>1, <2>2, <2>4, <3>1 DEF Take, Exchanging
        <3> QED BY <1>0, <1>4, <1>a, <1>b, <2>1, <3>2 DEF Step
    <2> QED BY <2>3, <2>4
<1>5. ASSUME NEW t \in Threads, Write(t) \/ Fill(t) PROVE Exchange'
    <2>1. UNCHANGED <<process, starts, lock, proc>> /\ pc'[t] \in {"read", "fill", "close"}
        BY <1>5 DEF Write, Fill, Ask, vetter, locals, Goto, TypeOK
    <2>2. Ex(t)'
        BY <1>0, <1>5, <2>1 DEF Write, Fill, Exchanging
    <2> QED BY <1>0, <1>5, <1>a, <1>b, <2>1, <2>2 DEF Step
<1>6. ASSUME NEW t \in Threads, ReadLine(t) PROVE Exchange'
    <2>1. /\ UNCHANGED <<process, starts, id>> /\ line'[t] = Head(answers[proc[t]])
          /\ \/ pc'[t] = "compare" /\ Head(answers[proc[t]]).id = id[t]
             \/ pc'[t] = "close" /\ lock' = lock
        BY <1>6 DEF ReadLine, vetter, Goto, TypeOK
    <2>2. Ex(t)'
        BY <1>0, <1>6, <2>1 DEF ReadLine, Exchanging
    <2> QED BY <1>0, <1>6, <1>a, <1>b, <2>1, <2>2 DEF Step
<1>7. ASSUME NEW t \in Threads, Select(t) \/ Timeout(t) \/ ReadEnd(t) PROVE Exchange'
    <2>1. Ex(t)'
        BY <1>0, <1>7 DEF Select, Timeout, ReadEnd, Goto, Exchanging, TypeOK, vetter, locals
    <2> QED BY <1>0, <1>7, <1>a, <1>b, <2>1 DEF Step, Select, Timeout, ReadEnd, vetter, locals
<1>8. ASSUME NEW t \in Threads, Close(t) \/ Shut(t) \/ Reap(t) PROVE Exchange'
    <2>1. pc'[t] \in {"idle", "shut", "reap"}
        BY <1>8 DEF Close, Shut, Reap, Goto, TypeOK
    <2>2. pc'[t] \in {"shut", "reap"} => victim'[t] \in Processes
        <3>1. CASE Close(t)
            BY <3>1 DEF Close, Goto, TypeOK
        <3>2. CASE Shut(t)
            BY <1>0, <3>2 DEF Shut, locals
        <3>3. CASE Reap(t)
            BY <3>3 DEF Reap, Goto, TypeOK
        <3> QED BY <1>8, <3>1, <3>2, <3>3
    <2>3. Ex(t)'
        BY <2>1, <2>2 DEF Exchanging
    <2>4. starts' = starts /\ process' \in {process, NoProcess} /\ 0 <= starts
        BY <1>8 DEF Close, Shut, Reap, vetter, TypeOK
    <2> QED BY <1>0, <1>8, <1>a, <1>b, <2>3, <2>4 DEF Step, NoProcess
<1>9. ASSUME NEW t \in Threads, Compare(t) \/ Store(t) \/ Judge(t) \/ Describe(t)
      PROVE  Exchange'
    <2>1. /\ UNCHANGED <<process, starts, id, line>>
          /\ \/ pc'[t] \in {"store", "judge"} /\ pc[t] \in {"compare", "store"}
             \/ pc'[t] \in {"drop", "describe", "idle"}
        BY <1>9 DEF Compare, Store, Judge, Describe, vetter, locals, Goto, TypeOK
    <2>2. Ex(t)'
        BY <1>0, <2>1 DEF Exchanging
    <2> QED BY <1>0, <1>9, <1>a, <1>b, <2>1, <2>2 DEF Step
<1>10. ASSUME UNCHANGED <<process, starts, lock, pc, id, proc, line, victim>> PROVE Exchange'
    BY <1>10 DEF Exchange
<1>11. ASSUME NEW p \in Processes, Answer(p) \/ Chatter(p) \/ Hang(p) \/ Deafen(p) \/ Die(p) PROVE Exchange'
    BY <1>10, <1>11, CheckerMoves
<1>12. CASE \E t \in Threads : Vet(t) \/ Step(t)
    BY <1>12, <1>1, <1>2, <1>3, <1>4, <1>5, <1>6, <1>7, <1>8, <1>9 DEF Step
<1> QED BY <1>10, <1>11, <1>12, NextCases

\* Whoever exchanges is alone in it.
LEMMA Alone ==
    ASSUME Exchange, NEW t \in Threads, pc[t] \in Exchanging,
           NEW x \in Threads, pc[x] \in Exchanging
    PROVE  x = t
    BY DEF Exchange

(***************************************************************************)
(* The pipe.                                                               *)
(***************************************************************************)

\* Numbers of questions and answers.
LEMMA OnlyAnswer ==
    ASSUME NEW q \in Nat, NEW a \in Nat, q + a = 1, a # 0 PROVE q = 0 /\ a = 1
    OBVIOUS

LEMMA AnswerMoves ==
    ASSUME NEW q \in Nat, NEW a \in Nat, q + a = 1 PROVE (q - 1) + (a + 1) = 1
    OBVIOUS

Waiting == {"read", "readline", "close"}

\* A step that leaves the pipes and the process alone, and takes the thread
\* neither out of an exchange nor into a question.
LEMMA PipeKept ==
    ASSUME TypeOK, PipeOwned, NEW t \in Threads, Vet(t) \/ Step(t),
           UNCHANGED <<process, starts, questions, answers, chatter>>,
           pc[t] \notin Waiting,
           pc'[t] \notin {"write", "fill", "read", "readline"}
    PROVE  PipeOwned'
<1>1. \A x \in Threads : x # t => pc'[x] = pc[x] /\ proc'[x] = proc[x]
    BY ThreadFrame
<1>2. \A p : Quiet(p)' <=> Quiet(p)
    BY DEF Quiet
<1> SUFFICES ASSUME chatter' = 0 PROVE
        /\ \A p \in Processes : p > starts' => Quiet(p)'
        /\ process' # NoProcess => Quiet(process)' \/ \E x \in Threads : pc'[x] \in Waiting
        /\ \A x \in Threads :
            /\ pc'[x] \in {"write", "fill"} => Quiet(proc[x])'
            /\ pc'[x] \in {"read", "readline"} =>
                   Len(questions'[proc'[x]]) + Len(answers'[proc'[x]]) = 1
    BY DEF PipeOwned, Waiting
<1>3. /\ \A p \in Processes : p > starts => Quiet(p)
      /\ process # NoProcess => Quiet(process) \/ \E x \in Threads : pc[x] \in Waiting
      /\ \A x \in Threads :
          /\ pc[x] \in {"write", "fill"} => Quiet(proc[x])
          /\ pc[x] \in {"read", "readline"} => Len(questions[proc[x]]) + Len(answers[proc[x]]) = 1
    BY DEF PipeOwned, Waiting
<1>4. (\E x \in Threads : pc[x] \in Waiting) => \E x \in Threads : pc'[x] \in Waiting
    BY <1>1
<1>5. ASSUME NEW x \in Threads
      PROVE  /\ pc'[x] \in {"write", "fill"} => Quiet(proc[x])'
             /\ pc'[x] \in {"read", "readline"} =>
                    Len(questions'[proc'[x]]) + Len(answers'[proc'[x]]) = 1
    <2>1. CASE x = t
        BY <2>1
    <2>2. CASE x # t
        BY <1>1, <1>3, <2>2 DEF Quiet
    <2> QED BY <2>1, <2>2
<1> QED BY <1>2, <1>3, <1>4, <1>5 DEF Quiet

LEMMA PipeOwnedNext == TypeOK /\ Exchange /\ PipeOwned /\ [Next]_vars => PipeOwned'
<1> SUFFICES ASSUME TypeOK, Exchange, PipeOwned, [Next]_vars PROVE PipeOwned'
    OBVIOUS
<1> DEFINE One(x) == Len(questions[proc[x]]) + Len(answers[proc[x]]) = 1
           Own(x) == /\ pc[x] \in {"write", "fill"} => Quiet(proc[x])
                     /\ pc[x] \in {"read", "readline"} => One(x)
           Fresh == \A p \in Processes : p > starts => Quiet(p)
           Served == process # NoProcess =>
                         Quiet(process) \/ \E x \in Threads : pc[x] \in Waiting
<1>a. (chatter' = 0 => Fresh' /\ Served' /\ \A x \in Threads : Own(x)') => PipeOwned'
    BY DEF PipeOwned, Waiting
<1>b. chatter = 0 => Fresh /\ Served /\ \A x \in Threads : Own(x)
    BY DEF PipeOwned, Waiting
<1>c. process \in Int /\ starts \in Int /\ MaxStarts \in Nat /\ chatter \in Nat
    BY CheckerAssumption DEF TypeOK, Processes, NoProcess
\* The other threads do not exchange while t does.
<1>d. ASSUME NEW t \in Threads, Step(t), pc[t] \in Exchanging, NEW x \in Threads, x # t
      PROVE  pc'[x] \notin Exchanging /\ Own(x)'
    <2>1. pc'[x] = pc[x]
        BY <1>d, ThreadFrame
    <2>2. pc[x] \notin Exchanging
        BY <1>d, Alone
    <2> QED BY <2>1, <2>2 DEF Exchanging
<1>1. ASSUME NEW t \in Threads,
             Vet(t) \/ Acquire(t) \/ GiveUp(t) \/ Reuse(t) \/ Shut(t) \/ Reap(t)
             \/ Compare(t) \/ Store(t) \/ Judge(t) \/ Describe(t)
      PROVE PipeOwned'
    <2>1. UNCHANGED <<process, starts, questions, answers, chatter>>
        BY <1>1 DEF Vet, Acquire, GiveUp, Reuse, Shut, Reap, Compare, Store, Judge, Describe,
                    vetter, pipes
    <2>2. pc[t] \in {"idle", "acquire", "start", "shut", "reap", "compare", "store", "judge",
                    "describe"}
        BY <1>1 DEF Vet, Acquire, GiveUp, Reuse, Shut, Reap, Compare, Store, Judge, Describe
    <2>3. pc'[t] \notin {"write", "fill", "read", "readline"}
        BY <1>1, <2>2, ThreadMoves DEF Step
    <2> QED BY <1>1, <2>1, <2>2, <2>3, PipeKept DEF Step, Waiting
<1>2. ASSUME NEW t \in Threads, Start(t) PROVE PipeOwned'
    <2>1. /\ pc[t] = "start" /\ pc[t] \in Exchanging
          /\ UNCHANGED <<questions, answers, chatter>>
          /\ starts <= starts' /\ starts' \in Int
        BY <1>2, <1>c DEF Start, pipes, Exchanging
    <2>2. \/ process' = starts' /\ starts' > starts /\ starts' \in Processes /\ pc'[t] = "take"
          \/ pc'[t] = "close"
        BY <1>2, <1>c DEF Start, Goto, TypeOK, Processes
    <2> SUFFICES ASSUME chatter' = 0 PROVE Fresh' /\ Served' /\ \A x \in Threads : Own(x)'
        BY <1>a
    <2>3. Fresh
        BY <1>b, <2>1
    <2>4. \A p \in Processes : p \in Int /\ (Quiet(p)' <=> Quiet(p))
        BY <2>1 DEF Quiet, Processes
    <2>5. Fresh'
        BY <2>1, <2>3, <2>4, <1>c
    <2>6. Served'
        BY <2>2, <2>3, <2>4 DEF Waiting
    <2>7. Own(t)'
        BY <2>2
    <2>8. Step(t)
        BY <1>2 DEF Step
    <2> QED BY <1>d, <2>1, <2>5, <2>6, <2>7, <2>8
<1>3. ASSUME NEW t \in Threads, Take(t) PROVE PipeOwned'
    <2>1. /\ pc[t] = "take" /\ pc[t] \in Exchanging
          /\ UNCHANGED <<process, starts, questions, answers, chatter>>
          /\ proc'[t] = process
          /\ pc'[t] = "write" => process # NoProcess
          /\ pc'[t] \in {"write", "idle"}
        BY <1>3 DEF Take, vetter, pipes, Exchanging, Goto, TypeOK
    <2> SUFFICES ASSUME chatter' = 0 PROVE Fresh' /\ Served' /\ \A x \in Threads : Own(x)'
        BY <1>a
    <2>2. process # NoProcess => Quiet(process)
        <3>1. \A x \in Threads : pc[x] \notin Waiting
            BY <2>1, Alone DEF Waiting, Exchanging
        <3> QED BY <1>b, <2>1, <3>1
    <2>3. Fresh' /\ Served'
        BY <1>b, <2>1, <2>2 DEF Quiet
    <2>4. Own(t)'
        BY <2>1, <2>2 DEF Quiet
    <2>5. Step(t)
        BY <1>3 DEF Step
    <2> QED BY <1>d, <2>1, <2>3, <2>4, <2>5
<1>4. ASSUME NEW t \in Threads, Write(t) \/ Fill(t) PROVE PipeOwned'
    <2> DEFINE p == proc[t]
    <2>1. /\ pc[t] \in {"write", "fill"} /\ pc[t] \in Exchanging
          /\ UNCHANGED <<process, starts, proc, answers, chatter>>
          /\ \/ pc'[t] = "read" /\ questions' = [questions EXCEPT ![p] = Append(questions[p], id[t])]
             \/ pc'[t] \in {"fill", "close"} /\ questions' = questions
        BY <1>4 DEF Write, Fill, Ask, vetter, locals, Exchanging, Goto, TypeOK
    <2>2. p \in Processes /\ p <= starts /\ p \in Int
        BY <2>1 DEF Exchange, Processes
    <2>3. questions \in [Processes -> Seq(Nat)] /\ id[t] \in Nat
        BY DEF TypeOK
    <2> SUFFICES ASSUME chatter' = 0 PROVE Fresh' /\ Served' /\ \A x \in Threads : Own(x)'
        BY <1>a
    <2>4. questions[p] = <<>> /\ answers[p] = <<>>
        BY <1>b, <2>1 DEF Quiet
    <2>5. Own(t)'
        <3>1. CASE pc'[t] = "read"
            <4>1. questions'[p] = Append(questions[p], id[t]) /\ answers'[p] = <<>>
                BY <2>1, <2>2, <2>3, <2>4, <3>1
            <4>2. Len(questions'[p]) = 1 /\ Len(answers'[p]) = 0
                BY <2>3, <2>4, <4>1, EmptySeq, AppendProperties
            <4>3. Len(questions'[p]) + Len(answers'[p]) = 1
                BY <4>2
            <4> QED BY <2>1, <3>1, <4>3
        <3>2. CASE pc'[t] # "read"
            BY <2>1, <2>4, <3>2 DEF Quiet
        <3> QED BY <3>1, <3>2
    <2>6. Served'
        <3>1. CASE pc'[t] = "fill"
            <4>1. questions' = questions /\ process \in {p, NoProcess}
                BY <2>1, <3>1 DEF Exchange
            <4> QED BY <2>1, <2>4, <4>1 DEF Quiet
        <3>2. CASE pc'[t] # "fill"
            BY <2>1, <3>2 DEF Waiting
        <3> QED BY <3>1, <3>2
    <2>7. Fresh'
        <3>1. ASSUME NEW q \in Processes, q > starts PROVE Quiet(q)'
            <4>0. q # p
                BY <1>c, <2>2, <3>1 DEF Processes
            <4>1. q # p /\ Quiet(q)
                BY <1>b, <2>1, <3>1, <4>0
            <4>2. questions'[q] = questions[q] /\ answers'[q] = answers[q]
                BY <2>1, <2>3, <4>1
            <4> QED BY <4>1, <4>2 DEF Quiet
        <3> QED BY <2>1, <3>1
    <2>8. Step(t)
        BY <1>4 DEF Step
    <2> QED BY <1>d, <2>1, <2>5, <2>6, <2>7, <2>8
<1>5. ASSUME NEW t \in Threads, Select(t) \/ Timeout(t) \/ ReadEnd(t) PROVE PipeOwned'
    <2>1. /\ pc[t] \in {"read", "readline"} /\ pc[t] \in Exchanging
          /\ UNCHANGED <<process, starts, proc, questions, answers, chatter>>
          /\ pc'[t] \in {"readline", "close"}
        BY <1>5 DEF Select, Timeout, ReadEnd, vetter, locals, pipes, Exchanging, Goto, TypeOK
    <2> SUFFICES ASSUME chatter' = 0 PROVE Fresh' /\ Served' /\ \A x \in Threads : Own(x)'
        BY <1>a
    <2>2. Fresh' /\ Own(t)'
        BY <1>b, <2>1 DEF Quiet
    <2>3. Served'
        BY <2>1 DEF Waiting
    <2>4. Step(t)
        BY <1>5 DEF Step
    <2> QED BY <1>d, <2>1, <2>2, <2>3, <2>4
<1>6. ASSUME NEW t \in Threads, ReadLine(t) PROVE PipeOwned'
    <2> DEFINE p == proc[t]
    <2>1. /\ pc[t] = "readline" /\ pc[t] \in Exchanging
          /\ UNCHANGED <<process, starts, proc, questions, chatter>>
          /\ answers[p] # <<>> /\ answers' = [answers EXCEPT ![p] = Tail(answers[p])]
          /\ pc'[t] \in {"compare", "close"}
        BY <1>6 DEF ReadLine, vetter, Exchanging, Goto, TypeOK
    <2>2. /\ p \in Processes /\ p <= starts /\ p \in Int
          /\ process \in {p, NoProcess}
        BY <2>1 DEF Exchange, Processes
    <2>3. questions[p] \in Seq(Nat) /\ answers[p] \in Seq(Line)
          /\ answers \in [Processes -> Seq(Line)]
        BY <2>2 DEF TypeOK
    <2> SUFFICES ASSUME chatter' = 0 PROVE Fresh' /\ Served' /\ \A x \in Threads : Own(x)'
        BY <1>a
    <2>4. Len(questions[p]) + Len(answers[p]) = 1
        BY <1>b, <2>1
    <2>5. Quiet(p)'
        <3>1. Len(questions[p]) \in Nat /\ Len(answers[p]) \in Nat /\ Len(answers[p]) # 0
            BY <2>1, <2>3, LenProperties, EmptySeq
        <3>2. Len(questions[p]) = 0 /\ Len(answers[p]) = 1
            BY <2>4, <3>1, OnlyAnswer
        <3>3. questions[p] = <<>>
            BY <2>3, <3>2, EmptySeq
        <3>4. Tail(answers[p]) \in Seq(Line) /\ Len(Tail(answers[p])) = 0
            BY <2>1, <2>3, <3>2, HeadTailProperties
        <3>5. Tail(answers[p]) = <<>>
            BY <3>4, EmptySeq
        <3>6. answers'[p] = <<>>
            BY <2>1, <2>2, <2>3, <3>5
        <3> QED BY <2>1, <3>3, <3>6 DEF Quiet
    <2>6. Served'
        BY <2>1, <2>2, <2>5
    <2>7. Fresh'
        <3>1. ASSUME NEW q \in Processes, q > starts PROVE Quiet(q)'
            BY <1>b, <1>c, <2>1, <2>2, <2>3, <3>1 DEF Quiet, Processes
        <3> QED BY <2>1, <3>1
    <2>8. Own(t)' /\ Step(t)
        BY <1>6, <2>1 DEF Step
    <2> QED BY <1>d, <2>1, <2>6, <2>7, <2>8
<1>7. ASSUME NEW t \in Threads, Close(t) PROVE PipeOwned'
    <2>1. /\ UNCHANGED <<starts, proc, questions, answers, chatter>> /\ process' = NoProcess
          /\ pc'[t] \in {"idle", "shut"}
        BY <1>7 DEF Close, pipes, Goto, TypeOK
    <2>2. Step(t)
        BY <1>7 DEF Step
    <2>3. \A x \in Threads : x # t => pc'[x] = pc[x]
        BY <2>2, ThreadFrame
    <2> SUFFICES ASSUME chatter' = 0 PROVE Fresh' /\ Served' /\ \A x \in Threads : Own(x)'
        BY <1>a
    <2>4. ASSUME NEW x \in Threads PROVE Own(x)'
        <3>1. Own(x)
            BY <1>b, <2>1
        <3>2. pc'[x] = pc[x] \/ pc'[x] \in {"idle", "shut"}
            BY <2>1, <2>3
        <3> QED BY <2>1, <3>1, <3>2 DEF Quiet
    <2>5. Fresh' /\ Served'
        BY <1>b, <2>1 DEF Quiet
    <2> QED BY <2>4, <2>5
<1>8. ASSUME NEW p \in Processes, Answer(p) PROVE PipeOwned'
    <2>1. /\ UNCHANGED <<process, starts, pc, proc, chatter>> /\ questions[p] # <<>>
          /\ questions' = [questions EXCEPT ![p] = Tail(questions[p])]
        BY <1>8 DEF Answer, vetter, locals
    <2>2. PICK v \in Versions :
              answers' = [answers EXCEPT ![p] =
                              Append(answers[p], [id |-> Head(questions[p]), version |-> v])]
        BY <1>8 DEF Answer, Say
    <2>3. /\ questions[p] \in Seq(Nat) /\ answers[p] \in Seq(Line)
          /\ questions \in [Processes -> Seq(Nat)] /\ answers \in [Processes -> Seq(Line)]
        BY DEF TypeOK
    <2> DEFINE l == [id |-> Head(questions[p]), version |-> v]
    <2>4. l \in Line
        <3>1. Head(questions[p]) \in Nat
            BY <2>1, <2>3, HeadTailProperties
        <3> QED BY <3>1 DEF Line
    <2> HIDE DEF l
    <2>5. /\ Len(questions'[p]) = Len(questions[p]) - 1 /\ Len(answers'[p]) = Len(answers[p]) + 1
          /\ Len(questions[p]) \in Nat /\ Len(answers[p]) \in Nat
        <3>1. questions'[p] = Tail(questions[p]) /\ answers'[p] = Append(answers[p], l)
            BY <2>1, <2>2, <2>3 DEF l
        <3>2. /\ Len(Tail(questions[p])) = Len(questions[p]) - 1
              /\ Len(questions[p]) \in Nat /\ Len(answers[p]) \in Nat
            BY <2>1, <2>3, HeadTailProperties, LenProperties
        <3>3. Len(Append(answers[p], l)) = Len(answers[p]) + 1
            BY <2>3, <2>4, AppendProperties
        <3> QED BY <3>1, <3>2, <3>3
    <2>6. \A q \in Processes : q # p => questions'[q] = questions[q] /\ answers'[q] = answers[q]
        BY <2>1, <2>2, <2>3
    <2>7. ~Quiet(p)
        BY <2>1 DEF Quiet
    <2> SUFFICES ASSUME chatter' = 0 PROVE Fresh' /\ Served' /\ \A x \in Threads : Own(x)'
        BY <1>a
    <2>8. Fresh /\ Served /\ \A x \in Threads : Own(x)
        BY <1>b, <2>1
    <2>9. Fresh'
        BY <2>1, <2>6, <2>7, <2>8 DEF Quiet
    <2>10. Served'
        <3>1. CASE Quiet(process) /\ process # NoProcess
            <4>1. process # p /\ process \in Processes
                BY <2>7, <3>1 DEF TypeOK
            <4> QED BY <2>1, <2>6, <3>1, <4>1 DEF Quiet
        <3>2. CASE \E x \in Threads : pc[x] \in Waiting
            BY <2>1, <3>2
        <3> QED BY <2>1, <2>8, <3>1, <3>2
    <2>11. ASSUME NEW x \in Threads PROVE Own(x)'
        <3>1. pc[x] \in {"write", "fill", "read", "readline"} => proc[x] \in Processes
            BY DEF Exchange
        <3>2. Own(x)
            BY <2>8
        <3>3. CASE pc[x] \in {"write", "fill"}
            <4>1. Quiet(proc[x]) /\ proc[x] # p /\ proc[x] \in Processes
                BY <2>7, <3>1, <3>2, <3>3
            <4> QED BY <2>1, <2>6, <3>3, <4>1 DEF Quiet
        <3>4. CASE pc[x] \in {"read", "readline"} /\ proc[x] = p
            <4>1. Len(questions[p]) + Len(answers[p]) = 1
                BY <3>2, <3>4
            <4>2. (Len(questions[p]) - 1) + (Len(answers[p]) + 1) = 1
                BY <2>5, <4>1, AnswerMoves
            <4>3. Len(questions'[p]) + Len(answers'[p]) = 1
                BY <2>5, <4>2
            <4> QED BY <2>1, <3>4, <4>3
        <3>5. CASE pc[x] \in {"read", "readline"} /\ proc[x] # p
            BY <2>1, <2>6, <3>1, <3>2, <3>5
        <3> QED BY <2>1, <3>3, <3>4, <3>5
    <2> QED BY <2>9, <2>10, <2>11
<1>9. ASSUME NEW p \in Processes, Chatter(p) PROVE PipeOwned'
    <2>1. chatter' = chatter + 1
        BY <1>9 DEF Chatter
    <2>2. chatter' # 0
        BY <1>c, <2>1
    <2> QED BY <1>a, <2>2
<1>10. ASSUME UNCHANGED <<process, starts, pc, proc, questions, answers, chatter>> PROVE PipeOwned'
    BY <1>10 DEF PipeOwned, Quiet
<1>11. ASSUME NEW p \in Processes, Hang(p) \/ Deafen(p) \/ Die(p)
       PROVE  PipeOwned'
    BY <1>10, <1>11 DEF Hang, Deafen, Die, vetter, locals, pipes
<1>12. CASE \E t \in Threads : Vet(t) \/ Step(t)
    BY <1>12, <1>1, <1>2, <1>3, <1>4, <1>5, <1>6, <1>7 DEF Step
<1> QED BY <1>8, <1>9, <1>10, <1>11, <1>12, NextCases

(***************************************************************************)
(* Verdicts, processes and versions.                                       *)
(***************************************************************************)

LEMMA VerdictsNext == TypeOK /\ Exchange /\ VerdictsAreOwn /\ [Next]_vars => VerdictsAreOwn'
<1> SUFFICES ASSUME TypeOK, Exchange, VerdictsAreOwn, [Next]_vars PROVE VerdictsAreOwn'
    OBVIOUS
<1>1. ASSUME NEW t \in Threads, Vet(t) \/ Step(t) PROVE VerdictsAreOwn'
    <2>1. \A x \in Threads : x # t => applied'[x] = applied[x] /\ id'[x] = id[x]
        BY <1>1, ThreadFrame
    <2>2. \/ applied'[t] = NoLine
          \/ applied'[t] = line[t] /\ pc[t] = "judge" /\ id'[t] = id[t]
          \/ applied'[t] = applied[t] /\ id'[t] = id[t]
        <3>1. CASE Vet(t)
            BY <3>1 DEF Vet, TypeOK
        <3>2. CASE Judge(t)
            BY <3>2 DEF Judge, locals, TypeOK
        <3>3. CASE Step(t) /\ ~Judge(t)
            BY <3>3 DEF Step, Acquire, GiveUp, Reuse, Start, Take, Write, Fill, Ask, Select, Timeout,
                        ReadLine, ReadEnd, Close, Shut, Reap, Compare, Store, Describe, locals,
                        outcome
        <3> QED BY <1>1, <3>1, <3>2, <3>3
    <2>3. pc[t] = "judge" => line[t].id = id[t]
        BY DEF Exchange
    <2>4. ASSUME NEW x \in Threads, applied'[x] # NoLine PROVE applied'[x].id = id'[x]
        BY <2>1, <2>2, <2>3, <2>4 DEF VerdictsAreOwn
    <2> QED BY <2>4 DEF VerdictsAreOwn
<1>2. ASSUME UNCHANGED <<applied, id>> PROVE VerdictsAreOwn'
    BY <1>2 DEF VerdictsAreOwn
<1> QED BY <1>1, <1>2, NextCases, CheckerMoves

LEMMA NoOrphanNext == TypeOK /\ NoOrphan /\ [Next]_vars => NoOrphan'
<1> SUFFICES ASSUME TypeOK, NoOrphan, [Next]_vars PROVE NoOrphan'
    OBVIOUS
<1> DEFINE Reaped(p) == \E x \in Threads : pc[x] \in {"shut", "reap"} /\ victim[x] = p
<1>1. \A p \in alive : p = process \/ Reaped(p)
    BY DEF NoOrphan
<1>2. (\A p \in alive' : p = process' \/ Reaped(p)') => NoOrphan'
    BY DEF NoOrphan
<1>3. ASSUME NEW t \in Threads, Vet(t) \/ Step(t), NEW p,
             Reaped(p), pc[t] \notin {"shut", "reap"} \/ victim[t] # p
      PROVE  Reaped(p)'
    BY <1>3, ThreadFrame
<1>4. ASSUME NEW t \in Threads, Start(t) PROVE NoOrphan'
    <2>1. /\ pc[t] = "start" /\ process \notin alive
          /\ \/ process' = starts' /\ alive' = alive \cup {starts'}
             \/ process' = process /\ alive' = alive
        BY <1>4 DEF Start
    <2>2. Step(t)
        BY <1>4 DEF Step
    <2> QED BY <1>1, <1>2, <1>3, <2>1, <2>2
<1>5. ASSUME NEW t \in Threads, Close(t) PROVE NoOrphan'
    <2>1. /\ pc[t] \in {"close", "drop"} /\ alive' = alive /\ victim'[t] = process
          /\ process # NoProcess => pc'[t] = "shut"
        BY <1>5 DEF Close, Goto, TypeOK
    <2>2. Step(t)
        BY <1>5 DEF Step
    <2>3. NoProcess \notin alive
        BY DEF TypeOK, Processes, NoProcess
    <2> QED BY <1>1, <1>2, <1>3, <2>1, <2>2, <2>3
<1>6. ASSUME NEW t \in Threads, Reap(t) PROVE NoOrphan'
    <2>1. alive' = alive \ {victim[t]} /\ process' = process
        BY <1>6 DEF Reap, vetter
    <2>2. Step(t)
        BY <1>6 DEF Step
    <2> QED BY <1>1, <1>2, <1>3, <2>1, <2>2
<1>10. ASSUME NEW t \in Threads, Shut(t) PROVE NoOrphan'
    <2>1. UNCHANGED <<process, alive>> /\ pc[t] = "shut" /\ pc'[t] = "reap" /\ victim'[t] = victim[t]
        BY <1>10 DEF Shut, vetter, locals, Goto, TypeOK
    <2>2. Step(t)
        BY <1>10 DEF Step
    <2>3. ASSUME NEW p, Reaped(p) PROVE Reaped(p)'
        <3>1. CASE victim[t] = p
            BY <2>1, <3>1
        <3>2. CASE victim[t] # p
            BY <1>3, <2>2, <2>3, <3>2
        <3> QED BY <3>1, <3>2
    <2> QED BY <1>1, <1>2, <2>1, <2>3
<1>7. ASSUME NEW t \in Threads, Vet(t) \/ Step(t), ~Start(t), ~Close(t), ~Shut(t), ~Reap(t)
      PROVE  NoOrphan'
    <2>1. UNCHANGED <<process, alive>> /\ pc[t] \notin {"shut", "reap"}
        BY <1>7 DEF Vet, Step, Acquire, GiveUp, Reuse, Take, Write, Fill, Ask, Select, Timeout, ReadLine,
                    ReadEnd, Compare, Store, Judge, Describe, vetter
    <2> QED BY <1>1, <1>2, <1>3, <1>7, <2>1
<1>8. ASSUME UNCHANGED <<process, pc, victim>>, alive' \subseteq alive PROVE NoOrphan'
    BY <1>8 DEF NoOrphan
<1>9. CASE \E t \in Threads : Vet(t) \/ Step(t)
    BY <1>9, <1>4, <1>5, <1>6, <1>7, <1>10
<1> QED BY <1>8, <1>9, NextCases, CheckerMoves

LEMMA SettlesNext ==
    TypeOK /\ [Next]_vars => [Settled => Settled' /\ version' = version]_vars
<1> SUFFICES ASSUME TypeOK, [Next]_vars, Settled PROVE Settled' /\ version' = version
    OBVIOUS
<1>1. ASSUME NEW t \in Threads, Vet(t) \/ Step(t) PROVE Settled' /\ version' = version
    <2>1. \A x \in Threads : x # t => pc'[x] = pc[x] /\ line'[x] = line[x]
        BY <1>1, ThreadFrame
    <2>2. version' = version \/ (pc[t] = "store" /\ version' = line[t].version)
        BY <1>1 DEF Vet, Step, Acquire, GiveUp, Reuse, Start, Take, Write, Fill, Ask, Select, Timeout,
                    ReadLine, ReadEnd, Close, Shut, Reap, Compare, Store, Judge, Describe, vetter
    <2>3. version' = version
        BY <2>2 DEF Settled
    <2>4. ASSUME pc'[t] = "store" PROVE line'[t].version = version
        <3>1. pc[t] = "compare"
            BY <1>1, <2>4, ThreadMoves
        <3>2. Compare(t)
            BY <1>1, <3>1 DEF Vet, Step, Acquire, GiveUp, Reuse, Start, Take, Write, Fill, Ask, Select,
                              Timeout, ReadLine, ReadEnd, Close, Shut, Reap, Store, Judge, Describe
        <3>3. line' = line /\ version \in {NoVersion, line[t].version}
            BY <2>4, <3>2 DEF Compare, Goto, locals, TypeOK
        <3> QED BY <3>3 DEF Settled
    <2> QED BY <2>1, <2>3, <2>4 DEF Settled
<1>2. ASSUME UNCHANGED <<version, pc, line>> PROVE Settled' /\ version' = version
    BY <1>2 DEF Settled
<1> QED BY <1>1, <1>2, NextCases, CheckerMoves

-----------------------------------------------------------------------------
(***************************************************************************)
(* The theorems.                                                           *)
(***************************************************************************)

LEMMA InvInit == Init => CheckerInv
<1> SUFFICES ASSUME Init PROVE CheckerInv
    OBVIOUS
<1>1. /\ \A t \in Threads : pc[t] = "idle" /\ applied[t] = NoLine
      /\ \A p \in Processes : questions[p] = <<>> /\ answers[p] = <<>>
      /\ process = NoProcess /\ starts = 0 /\ alive = {}
    BY DEF Init, PerThread, PerProcess
<1>2. Exchange
    BY <1>1 DEF Exchange, Exchanging, NoProcess
<1>3. PipeOwned
    BY <1>1 DEF PipeOwned, Quiet
<1> QED BY <1>1, <1>2, <1>3 DEF CheckerInv, VerdictsAreOwn, NoOrphan

\* The two together are inductive.
THEOREM CheckerInductive == Spec => [](TypeOK /\ CheckerInv)
<1>1. Init => TypeOK /\ CheckerInv
    BY TypeInit, InvInit
<1>2. TypeOK /\ CheckerInv /\ [Next]_vars => TypeOK' /\ CheckerInv'
    BY TypeNext, ExchangeNext, PipeOwnedNext, VerdictsNext, NoOrphanNext DEF CheckerInv
<1> QED BY <1>1, <1>2, PTL DEF Spec

\* Every variable keeps its type.
THEOREM CheckerTypeCorrect == Spec => []TypeOK
BY CheckerInductive, PTL

\* What _ask relies on at each step holds.
THEOREM CheckerCorrect == Spec => []CheckerInv
BY CheckerInductive, PTL

\* No table is decided by the answer to another table's question.
THEOREM OwnVerdicts == Spec => []VerdictsAreOwn
<1>1. CheckerInv => VerdictsAreOwn
    BY DEF CheckerInv
<1> QED BY <1>1, CheckerCorrect, PTL

\* Every question finds a pipe without questions and answers.
THEOREM QuietExchanges == Spec => []QuietPipe
<1>1. CheckerInv => QuietPipe
    BY DEF CheckerInv, PipeOwned, QuietPipe
<1> QED BY <1>1, CheckerCorrect, PTL

\* No checker process is left that no request will stop.
THEOREM NoOrphanProcess == Spec => []NoOrphan
<1>1. CheckerInv => NoOrphan
    BY DEF CheckerInv
<1> QED BY <1>1, CheckerCorrect, PTL

\* A settled version stands.
THEOREM VersionStands == Spec => VersionSettles
BY CheckerTypeCorrect, SettlesNext, PTL DEF Spec, VersionSettles

\* All of it, at every step.
THEOREM CheckerConsistent == Spec => []Consistent
<1>1. TypeOK /\ CheckerInv /\ QuietPipe => Consistent
    BY DEF Consistent
<1> QED BY <1>1, CheckerInductive, QuietExchanges, PTL

=============================================================================
