--------------------------- MODULE Commands_proofs ---------------------------
(***************************************************************************)
(* Proofs about three parts that MCCommands composes, for every value of   *)
(* their constants: the queries of the event index (IndexReader), the      *)
(* security posture told from the audit events (Posture), and the shell    *)
(* command that the sandbox hooks wrap and take apart (SandboxGuard).      *)
(***************************************************************************)
EXTENDS IndexReader, Posture, SandboxGuard, FiniteSetTheorems, SequenceTheorems, TLAPS
-----------------------------------------------------------------------------
(* Helpers                                                                 *)

\* A set of natural numbers has a least one.
LEMMA LeastOf ==
    ASSUME NEW T, T \subseteq Nat, T # {}
    PROVE  \E v \in T : \A u \in T : v <= u
<1>1. PICK v \in T : \A u \in T : ~ (<<u, v>> \in OpToRel(<, Nat))
  BY NatLessThanWellFounded, WFMin, Zenon
<1>2. \A u \in T : ~ (u < v)
  BY <1>1 DEF OpToRel
<1>. QED
  BY <1>2

\* A set of numbers up to a bound has a greatest one.
LEMMA GreatestOf ==
    ASSUME NEW n \in Nat, NEW S, S \subseteq 0 .. n, S # {}
    PROVE  Max(S) \in S /\ \A y \in S : y <= Max(S)
<1>. DEFINE T == {n - x : x \in S}
<1>1. T \subseteq Nat /\ T # {}
  <2>1. \A x \in S : x \in 0 .. n /\ n - x \in Nat
    OBVIOUS
  <2>. QED
    BY <2>1
<1>2. PICK v \in T : \A u \in T : v <= u
  BY <1>1, LeastOf
<1>3. PICK x \in S : v = n - x
  BY <1>2
<1>4. \A y \in S : x >= y
  <2>1. SUFFICES ASSUME NEW y \in S PROVE x >= y
    OBVIOUS
  <2>2. v <= n - y
    BY <1>2
  <2>. QED
    BY <1>3, <2>2
<1>5. \E m \in S : \A y \in S : m >= y
  BY <1>4
<1>6. Max(S) \in S /\ \A y \in S : Max(S) >= y
  BY <1>5, Zenon DEF Max
<1>. QED
  BY <1>6

\* The least of two numbers.
LEMMA MinOfTwo ==
    ASSUME NEW m \in Nat, NEW n \in Nat
    PROVE  Min({m, n}) = IF m <= n THEN m ELSE n
<1>1. \E x \in {m, n} : \A y \in {m, n} : x =< y
  OBVIOUS
<1>. QED
  BY <1>1 DEF Min

\* The greatest of two.
LEMMA MaxOfTwo ==
    ASSUME NEW m \in Int, NEW n \in Int
    PROVE  Max({m, n}) = IF m >= n THEN m ELSE n
<1>1. \E x \in {m, n} : \A y \in {m, n} : x >= y
  OBVIOUS
<1>. QED
  BY <1>1 DEF Max

\* What holds at 0, and at each number if it holds at the one before.
LEMMA UpTo ==
    ASSUME NEW n \in Nat, NEW T, 0 \in T, \A k \in 1 .. n : k - 1 \in T => k \in T
    PROVE  \A k \in 0 .. n : k \in T
<1>. DEFINE F == {k \in 0 .. n : k \notin T}
<1>1. SUFFICES ASSUME F # {} PROVE FALSE
  OBVIOUS
<1>2. PICK v \in F : \A u \in F : v <= u
  <2>1. F \subseteq Nat
    OBVIOUS
  <2>. HIDE DEF F
  <2>. QED
    BY <1>1, <2>1, LeastOf
<1>3. v - 1 \in 0 .. n /\ v - 1 \notin F
  BY <1>2
<1>. QED
  BY <1>2, <1>3

\* What holds at n, and at each number if it holds at the one behind.
LEMMA DownFrom ==
    ASSUME NEW n \in Nat, NEW T, n \in T, \A k \in 1 .. n : k \in T => k - 1 \in T
    PROVE  \A k \in 0 .. n : k \in T
<1>. DEFINE F == {d \in 0 .. n : n - d \notin T}
<1>1. SUFFICES ASSUME F # {} PROVE FALSE
  <2>1. \A k \in 0 .. n : n - k \in 0 .. n /\ n - (n - k) = k
    OBVIOUS
  <2>. QED
    BY <2>1
<1>2. PICK v \in F : \A u \in F : v <= u
  <2>1. F \subseteq Nat
    OBVIOUS
  <2>. HIDE DEF F
  <2>. QED
    BY <1>1, <2>1, LeastOf
<1>3. v - 1 \in 0 .. n /\ v - 1 \notin F
  <2>1. n - 0 = n
    OBVIOUS
  <2>2. v # 0
    BY <1>2, <2>1
  <2>. QED
    BY <1>2, <2>2
<1>4. n - (v - 1) \in T /\ n - (v - 1) \in 1 .. n /\ n - (v - 1) - 1 = n - v
  BY <1>2, <1>3
<1>. QED
  BY <1>2, <1>4

\* Steps st of values in V, and the function that takes n of them from v; the
\* lemma says that there is one.
Steps(V, n, st) == \A k \in 1 .. n, u \in V : st[k][u] \in V

Iteration(V, v, n, st, f) ==
    /\ f \in [0 .. n -> V]
    /\ f[0] = v /\ \A k \in 1 .. n : f[k] = st[k][f[k - 1]]

LEMMA Iterated ==
    ASSUME NEW V, NEW v \in V, NEW n \in Nat, NEW st, Steps(V, n, st)
    PROVE  \E f : Iteration(V, v, n, st, f)
<1>. DEFINE Good(m, f) == f[0] = v /\ \A k \in 1 .. m : f[k] = st[k][f[k - 1]]
            T == {m \in 0 .. n : \E f \in [0 .. m -> V] : Good(m, f)}
<1>1. 0 \in T
  <2>. DEFINE f == [k \in 0 .. 0 |-> v]
  <2>1. f \in [0 .. 0 -> V] /\ Good(0, f)
    OBVIOUS
  <2>. HIDE DEF f, Good
  <2>. QED
    BY <2>1
<1>2. ASSUME NEW m \in 1 .. n, m - 1 \in T PROVE m \in T
  <2>1. PICK f \in [0 .. m - 1 -> V] : Good(m - 1, f)
    BY <1>2
  <2>. DEFINE g == [k \in 0 .. m |-> IF k = m THEN st[m][f[m - 1]] ELSE f[k]]
  <2>2. g \in [0 .. m -> V]
    <3>1. f[m - 1] \in V /\ st[m][f[m - 1]] \in V
      BY DEF Steps
    <3>2. \A k \in 0 .. m : k # m => k \in 0 .. m - 1
      OBVIOUS
    <3>. QED
      BY <3>1, <3>2
  <2>3. g[0] = v
    BY <2>1
  <2>4. ASSUME NEW k \in 1 .. m PROVE g[k] = st[k][g[k - 1]]
    <3>1. k - 1 \in 0 .. m /\ k - 1 # m /\ g[k - 1] = f[k - 1]
      OBVIOUS
    <3>2. CASE k = m
      BY <3>1, <3>2
    <3>3. CASE k # m
      <4>1. k \in 1 .. m - 1 /\ g[k] = f[k]
        BY <3>3
      <4>. QED
        BY <2>1, <3>1, <4>1
    <3>. QED
      BY <3>2, <3>3
  <2>. HIDE DEF g
  <2>5. Good(m, g)
    BY <2>3, <2>4
  <2>. HIDE DEF Good
  <2>. QED
    BY <2>2, <2>5
<1>3. n \in T
  <2>. HIDE DEF T
  <2>1. \A k \in 0 .. n : k \in T
    BY <1>1, <1>2, UpTo
  <2>. QED
    BY <2>1
<1>. QED
  BY <1>3 DEF Iteration
-----------------------------------------------------------------------------
(* Sizes of finite sets                                                    *)

\* without one element
LEMMA SizeOfRest ==
    ASSUME NEW S, NEW x \in S, IsFiniteSet(S)
    PROVE  /\ IsFiniteSet(S \ {x}) /\ Cardinality(S \ {x}) = Cardinality(S) - 1
           /\ Cardinality(S) \in Nat \ {0}
<1>1. Cardinality(S) \in Nat /\ Cardinality(S) # 0
  BY FS_CardinalityType, FS_EmptySet
<1>. QED
  BY <1>1, FS_RemoveElement

\* of two sets that have nothing in common
LEMMA SizeOfUnion ==
    ASSUME NEW S, NEW T, IsFiniteSet(S), IsFiniteSet(T), S \cap T = {}
    PROVE  IsFiniteSet(S \cup T) /\ Cardinality(S \cup T) = Cardinality(S) + Cardinality(T)
<1>1. Cardinality(S) \in Nat /\ Cardinality(T) \in Nat /\ Cardinality(S \cap T) = 0
  BY FS_CardinalityType, FS_EmptySet
<1>2. IsFiniteSet(S \cup T)
  BY FS_Union, Zenon
<1>3. Cardinality(S \cup T) = Cardinality(S) + Cardinality(T) - Cardinality(S \cap T)
  BY FS_Union, Zenon
<1>. QED
  BY <1>1, <1>2, <1>3
-----------------------------------------------------------------------------
(* The index reader: ORDER BY timestamp_epoch DESC                         *)

\* the rows newer than r, and a list from the newest row on
Above(rows, r) == {x \in rows : x > r}

Descending(s) == \A i, j \in DOMAIN s : i < j => s[i] > s[j]

\* A set of times can be sorted: its least element goes last.
LEMMA CanBeSorted ==
    ASSUME NEW R, R \subseteq Nat, IsFiniteSet(R)
    PROVE  \E s \in [1 .. Cardinality(R) -> R] : Descending(s)
<1>. DEFINE Sortable(X) == \E s \in [1 .. Cardinality(X) -> X] : Descending(s)
            T == {n \in Nat : \E X \in SUBSET Nat :
                     IsFiniteSet(X) /\ Cardinality(X) = n /\ ~Sortable(X)}
<1>1. SUFFICES ASSUME T # {} PROVE FALSE
  <2>1. Cardinality(R) \in Nat
    BY FS_CardinalityType
  <2>. QED
    BY <2>1
<1>2. PICK n \in T : \A k \in T : n <= k
  BY <1>1, LeastOf
<1>3. PICK X \in SUBSET Nat : IsFiniteSet(X) /\ Cardinality(X) = n /\ ~Sortable(X)
  BY <1>2
<1>4. n \in Nat
  BY <1>2
<1>5. X # {}
  <2>1. SUFFICES ASSUME X = {} PROVE FALSE
    OBVIOUS
  <2>2. Cardinality(X) = 0
    BY <2>1, FS_EmptySet
  <2>3. [i \in 1 .. 0 |-> i] \in [1 .. Cardinality(X) -> X]
    BY <2>2
  <2>4. Descending([i \in 1 .. 0 |-> i])
    BY DEF Descending
  <2>. QED
    BY <1>3, <2>3, <2>4
<1>6. PICK m \in X : \A x \in X : m <= x
  BY <1>5, LeastOf
<1>7. n # 0
  BY <1>3, <1>5, FS_EmptySet
<1>. DEFINE Y == X \ {m}
<1>8. IsFiniteSet(Y) /\ Cardinality(Y) = n - 1
  BY <1>3, <1>6, FS_RemoveElement
<1>9. Sortable(Y)
  <2>1. n - 1 \in Nat /\ n - 1 \notin T
    BY <1>2, <1>4, <1>7
  <2>. QED
    BY <1>8, <2>1
<1>10. PICK s \in [1 .. n - 1 -> Y] : Descending(s)
  BY <1>8, <1>9
<1>. DEFINE t == [i \in 1 .. n |-> IF i = n THEN m ELSE s[i]]
<1>11. t \in [1 .. n -> X]
  BY <1>4, <1>6, <1>10
<1>12. Descending(t)
  <2>1. SUFFICES ASSUME NEW i \in 1 .. n, NEW j \in 1 .. n, i < j PROVE t[i] > t[j]
    BY DEF Descending
  <2>2. i \in 1 .. n - 1 /\ s[i] \in Y
    BY <1>4, <1>10, <2>1
  <2>3. CASE j = n
    <3>1. t[j] = m /\ t[i] = s[i]
      BY <1>4, <2>1, <2>3
    <3>2. s[i] \in Nat /\ m \in Nat /\ m <= s[i] /\ s[i] # m
      BY <1>6, <2>2
    <3>. QED
      BY <3>1, <3>2
  <2>4. CASE j # n
    BY <1>4, <1>10, <2>1, <2>2, <2>4 DEF Descending
  <2>. QED
    BY <2>3, <2>4
<1>. QED
  BY <1>3, <1>11, <1>12

\* The rows of a query are all the rows that match, each once, and behind a
\* row's place are as many newer ones as its place says.
LEMMA NewestFirstFacts ==
    ASSUME NEW R, R \subseteq Nat, IsFiniteSet(R)
    PROVE  /\ Cardinality(R) \in Nat
           /\ NewestFirst(R) \in [1 .. Cardinality(R) -> R]
           /\ NewestFirst(R) \in Seq(R) /\ Len(NewestFirst(R)) = Cardinality(R)
           /\ \A r \in R : \E k \in 1 .. Cardinality(R) :
                 /\ r = NewestFirst(R)[k]
                 /\ Cardinality(Above(R, r)) = k - 1
<1>. DEFINE n == Cardinality(R)
            s == NewestFirst(R)
<1>1. n \in Nat
  BY FS_CardinalityType
<1>2. s \in [1 .. n -> R] /\ \A i, j \in 1 .. n : i < j => s[i] > s[j]
  <2>1. \E t \in [1 .. n -> R] : \A i, j \in DOMAIN t : i < j => t[i] > t[j]
    BY CanBeSorted DEF Descending
  <2>2. s \in [1 .. n -> R] /\ \A i, j \in DOMAIN s : i < j => s[i] > s[j]
    BY <2>1 DEF NewestFirst
  <2>. QED
    BY <2>2
<1>. HIDE DEF n, s
<1>3. s \in Seq(R) /\ Len(s) = n
  BY <1>1, <1>2
<1>4. s \in Injection(1 .. n, R)
  <2>1. \A i, j \in 1 .. n : s[i] = s[j] => i = j
    <3>1. SUFFICES ASSUME NEW i \in 1 .. n, NEW j \in 1 .. n, s[i] = s[j], i # j PROVE FALSE
      OBVIOUS
    <3>2. s[i] \in Nat
      BY <1>2, <3>1
    <3>3. i < j \/ j < i
      BY <3>1
    <3>. QED
      BY <1>2, <3>1, <3>2, <3>3
  <2>. QED
    BY <1>2, <2>1 DEF Injection, IsInjective
<1>5. s \in Surjection(1 .. n, R)
  <2>1. Cardinality(1 .. n) = n
    BY <1>1, FS_Interval
  <2>. QED
    BY <1>4, <2>1, FS_Injection DEF n
<1>6. ASSUME NEW r \in R
      PROVE  \E k \in 1 .. n : r = s[k] /\ Cardinality(Above(R, r)) = k - 1
  <2>1. PICK k \in 1 .. n : r = s[k]
    BY <1>5 DEF Surjection
  <2>. DEFINE N == {x \in R : x > r}
              f == [i \in 1 .. k - 1 |-> s[i]]
  <2>2. f \in [1 .. k - 1 -> N]
    BY <1>1, <1>2, <2>1
  <2>3. \A i, j \in 1 .. k - 1 : f[i] = f[j] => i = j
    BY <1>1, <1>4, <2>1 DEF Injection, IsInjective
  <2>4. \A x \in N : \E i \in 1 .. k - 1 : f[i] = x
    <3>1. SUFFICES ASSUME NEW x \in N PROVE \E i \in 1 .. k - 1 : f[i] = x
      OBVIOUS
    <3>2. PICK i \in 1 .. n : x = s[i]
      BY <1>5 DEF Surjection
    <3>3. i < k
      <4>1. SUFFICES ASSUME i >= k PROVE FALSE
        BY <1>1
      <4>2. i = k \/ s[k] > s[i]
        BY <1>1, <1>2, <4>1
      <4>3. x \in Nat /\ r \in Nat /\ x > r
        OBVIOUS
      <4>. QED
        BY <2>1, <3>2, <4>2, <4>3
    <3>. QED
      BY <1>1, <3>2, <3>3
  <2>5. f \in Bijection(1 .. k - 1, N)
    BY <2>2, <2>3, <2>4 DEF Bijection, Injection, Surjection, IsInjective
  <2>. HIDE DEF f, N
  <2>6. k - 1 \in Nat
    BY <1>1, <2>1
  <2>7. Cardinality(N) = k - 1
    <3>1. ExistsBijection(1 .. k - 1, N)
      BY <2>5, Zenon DEF ExistsBijection
    <3>. QED
      BY <2>6, <3>1, FS_CountingElements
  <2>. USE DEF N
  <2>. QED
    BY <2>1, <2>7 DEF Above
<1>. QED
  BY <1>1, <1>2, <1>3, <1>6 DEF n, s
-----------------------------------------------------------------------------
(* The index reader: pages                                                 *)

\* the rows a query is about
Matching == Where(view, asked)

Newer(e) == Above(Matching, e)

\* Until a list has been read to its end: an event that was there all the
\* time is on a page that was read, or has so many newer ones that match
\* that it is not on one of them yet.
ReaderInv ==
    /\ view \subseteq Events /\ cutoff \in Nat
    /\ offset \in Nat
    /\ lasting \subseteq Matching
    /\ offset > 0 => \A e \in lasting : e \in seen \/ Cardinality(Newer(e)) >= offset

\* its conjuncts for one event of the index
LEMMA MatchingFacts ==
    ASSUME view \subseteq Events, NEW f
    PROVE  /\ Where(view, f) \subseteq Events /\ Where(view, f) \subseteq Nat
           /\ IsFiniteSet(Where(view, f))
           /\ Cardinality(Where(view, f)) \in Nat
           /\ Cardinality(Where(view, f)) <= Cardinality(Events)
           /\ Cardinality(Events) \in Nat
<1>1. Where(view, f) \subseteq Events
  BY DEF Where
<1>. QED
  BY <1>1, ReaderAssumption, FS_Subset, FS_CardinalityType

\* A page of one row, at any offset.
LEMMA PageOfOne ==
    ASSUME view \subseteq Events, NEW o \in Nat
    PROVE  LET n == Cardinality(Matching)
               p == Query(asked, 1, o)
           IN  /\ o < n => p # <<>> /\ Range(p) = {NewestFirst(Matching)[o + 1]}
               /\ o >= n => p = <<>>
<1>. DEFINE n == Cardinality(Matching)
            s == NewestFirst(Matching)
            p == Query(asked, 1, o)
<1>1. n \in Nat /\ s \in Seq(Matching) /\ Len(s) = n
  BY MatchingFacts, NewestFirstFacts DEF Matching
<1>2. p = SubSeq(s, o + 1, Min({o + 1, n}))
  BY <1>1 DEF Query, Matching
<1>3. Min({o + 1, n}) = IF o + 1 <= n THEN o + 1 ELSE n
  BY <1>1, MinOfTwo
<1>. HIDE DEF n, s, p
<1>4. ASSUME o < n PROVE p # <<>> /\ Range(p) = {s[o + 1]}
  <2>1. p = SubSeq(s, o + 1, o + 1)
    BY <1>1, <1>2, <1>3, <1>4
  <2>2. \A i \in o + 1 .. o + 1 : s[i] \in Matching
    BY <1>1, <1>4
  <2>3. Len(p) = 1 /\ p \in Seq(Matching) /\ p[1] = s[o + 1]
    BY <2>1, <2>2, SubSeqProperties, o + 1 \in Int
  <2>. QED
    BY <2>3 DEF Range
<1>5. ASSUME o >= n PROVE p = <<>>
  BY <1>1, <1>2, <1>3, <1>5, SubSeqEmpty
<1>. QED
  BY <1>4, <1>5 DEF n, s, p

\* An event that matches is on the pages up to its place among them.
LEMMA PlaceOf ==
    ASSUME view \subseteq Events, NEW e \in Matching
    PROVE  /\ Cardinality(Newer(e)) \in Nat
           /\ Cardinality(Newer(e)) < Cardinality(Matching)
           /\ e = NewestFirst(Matching)[Cardinality(Newer(e)) + 1]
<1>0. Matching \subseteq Nat /\ IsFiniteSet(Matching)
  BY MatchingFacts DEF Matching
<1>1. PICK k \in 1 .. Cardinality(Matching) :
          e = NewestFirst(Matching)[k] /\ Cardinality(Newer(e)) = k - 1
  BY <1>0, NewestFirstFacts DEF Newer
<1>2. Cardinality(Newer(e)) = k - 1 /\ Cardinality(Matching) \in Nat /\ k \in 1 .. Cardinality(Matching)
  BY <1>1, MatchingFacts DEF Matching
<1>3. k \in Nat /\ 1 <= k /\ k <= Cardinality(Matching)
  BY <1>2
<1>4. Cardinality(Newer(e)) + 1 = k
  BY <1>2, <1>3
<1>5. Cardinality(Newer(e)) \in Nat /\ Cardinality(Newer(e)) < Cardinality(Matching)
  BY <1>2, <1>3
<1>. QED
  BY <1>1, <1>4, <1>5

\* ReaderInv is inductive.
LEMMA ReaderInvInit == ReaderInit => ReaderInv
  BY DEF ReaderInit, ViewInit, ReaderInv

LEMMA ReaderInvNext == ReaderInv /\ [ReaderNext]_readerVars => ReaderInv'
<1>. SUFFICES ASSUME ReaderInv, [ReaderNext]_readerVars PROVE ReaderInv'
  OBVIOUS
<1>. USE DEF index, pages, readerVars
<1>1. /\ view \subseteq Events /\ cutoff \in Nat /\ offset \in Nat /\ lasting \subseteq Matching
      /\ offset > 0 => \A e \in lasting : e \in seen \/ Cardinality(Newer(e)) >= offset
  BY DEF ReaderInv
<1>2. CASE Begin
  <2>1. Matching' = Matching /\ (\A e : Newer(e)' = Newer(e))
    BY <1>2 DEF Begin, Matching, Newer, Above
  <2>2. ASSUME NEW e \in Matching
        PROVE  e \in seen' \/ Cardinality(Newer(e)) >= 1
    <3>1. /\ Cardinality(Newer(e)) \in Nat /\ Cardinality(Matching) \in Nat
          /\ Cardinality(Newer(e)) < Cardinality(Matching)
          /\ e = NewestFirst(Matching)[Cardinality(Newer(e)) + 1]
      BY <1>1, <2>2, PlaceOf, MatchingFacts DEF Matching
    <3>2. 0 < Cardinality(Matching)
      BY <3>1
    <3>3. Range(Query(asked, 1, 0)) = {NewestFirst(Matching)[0 + 1]}
      BY <1>1, <3>2, PageOfOne
    <3>. QED
      BY <1>2, <3>1, <3>3 DEF Begin
  <2>3. lasting' = Matching /\ offset' = 1
    BY <1>2 DEF Begin, Matching
  <2>4. view' \subseteq Events /\ cutoff' \in Nat
    BY <1>1, <1>2 DEF Begin
  <2>. QED
    BY <2>1, <2>2, <2>3, <2>4 DEF ReaderInv
<1>3. CASE More
  <2>1. Matching' = Matching /\ (\A e : Newer(e)' = Newer(e))
    BY <1>3 DEF More, Matching, Newer, Above
  <2>2. ASSUME NEW e \in lasting
        PROVE  e \in seen' \/ Cardinality(Newer(e)) >= offset + 1
    <3>1. /\ Cardinality(Newer(e)) \in Nat /\ Cardinality(Matching) \in Nat
          /\ Cardinality(Newer(e)) < Cardinality(Matching)
          /\ e = NewestFirst(Matching)[Cardinality(Newer(e)) + 1]
      BY <1>1, <2>2, PlaceOf, MatchingFacts DEF Matching
    <3>2. CASE e \in seen
      BY <1>3, <3>2 DEF More
    <3>3. CASE Cardinality(Newer(e)) = offset
      <4>1. Range(Query(asked, 1, offset)) = {e}
        BY <1>1, <3>1, <3>3, PageOfOne
      <4>. QED
        BY <1>3, <4>1 DEF More
    <3>4. CASE Cardinality(Newer(e)) > offset
      BY <1>1, <3>1, <3>4
    <3>. QED
      BY <1>1, <1>3, <3>1, <3>2, <3>3, <3>4 DEF More
  <2>3. lasting' = lasting /\ offset' = offset + 1 /\ view' \subseteq Events /\ cutoff' \in Nat
    BY <1>1, <1>3 DEF More
  <2>. QED
    BY <1>1, <2>1, <2>2, <2>3 DEF ReaderInv
<1>4. CASE End
  <2>1. Matching' = Matching
    BY <1>4 DEF End, Matching
  <2>. QED
    BY <1>1, <1>4, <2>1 DEF ReaderInv, End
<1>5. CASE (Damage \/ Rebuild) /\ lasting' = {} /\ UNCHANGED <<asked, offset, seen>>
  BY <1>1, <1>5 DEF ReaderInv, Damage, Rebuild, Lose
<1>6. ASSUME Add \/ Expire \/ Prune, lasting' = lasting \cap view', UNCHANGED <<asked, offset, seen>>
      PROVE  ReaderInv'
  <2>1. view' \subseteq Events /\ cutoff' \in Nat
    BY <1>1, <1>6, ReaderAssumption DEF Add, Expire, Prune
  <2>2. lasting' \subseteq Matching'
    BY <1>1, <1>6 DEF Matching, Where
  <2>3. ASSUME NEW e \in lasting' PROVE Newer(e) \subseteq Newer(e)'
    <3>1. \A r \in view : r > e => r \in view'
      <4>1. CASE Add
        BY <4>1 DEF Add
      <4>2. CASE Expire
        BY <4>2 DEF Expire
      <4>3. CASE Prune
        <5>1. e \in Nat /\ e > cutoff
          BY <1>6, <1>1, <2>1, <2>3, <4>3, ReaderAssumption DEF Prune
        <5>2. \A r \in view : r \in Nat
          BY <1>1, ReaderAssumption
        <5>3. \A r \in view : r > e => r > cutoff
          BY <1>1, <5>1, <5>2
        <5>. QED
          BY <4>3, <5>3 DEF Prune
      <4>. QED
        BY <1>6, <4>1, <4>2, <4>3
    <3>. QED
      BY <1>6, <3>1 DEF Newer, Above, Matching, Where
  <2>4. ASSUME NEW e \in lasting' PROVE Cardinality(Newer(e)) <= Cardinality(Newer(e)')
    <3>1. Newer(e)' \subseteq Events
      BY <2>1 DEF Newer, Above, Matching, Where
    <3>2. IsFiniteSet(Newer(e)')
      BY <3>1, ReaderAssumption, FS_Subset
    <3>. QED
      BY <2>3, <2>4, <3>2, FS_Subset
  <2>5. ASSUME NEW e \in lasting'
        PROVE  Cardinality(Newer(e)) \in Nat /\ Cardinality(Newer(e)') \in Nat
    <3>1. Newer(e)' \subseteq Events /\ Newer(e) \subseteq Events
      BY <1>1, <2>1 DEF Newer, Above, Matching, Where
    <3>. QED
      BY <3>1, ReaderAssumption, FS_Subset, FS_CardinalityType
  <2>6. ASSUME offset' > 0, NEW e \in lasting' PROVE e \in seen' \/ Cardinality(Newer(e)') >= offset'
    <3>1. e \in seen \/ Cardinality(Newer(e)) >= offset
      BY <1>1, <1>6, <2>6
    <3>. QED
      BY <1>1, <1>6, <2>4, <2>5, <2>6, <3>1
  <2>7. offset' \in Nat
    BY <1>1, <1>6
  <2>. QED
    BY <2>1, <2>2, <2>6, <2>7 DEF ReaderInv
<1>7. CASE UNCHANGED readerVars
  BY <1>1, <1>7 DEF ReaderInv, Matching, Newer, Above
<1>. QED
  BY <1>2, <1>3, <1>4, <1>5, <1>6, <1>7 DEF ReaderNext, Index

LEMMA ReaderInvariant == ReaderSpec => []ReaderInv
<1>. QED
  BY ReaderInvInit, ReaderInvNext, PTL DEF ReaderSpec

\* A list that is read to its end page by page has shown every event that was
\* in the index from its first page on, however many others were inserted and
\* pruned between the pages.
THEOREM PagesAreComplete == ReaderSpec => PagingMissesNothing
<1>1. ReaderInv /\ End => lasting \subseteq seen
  <2>1. SUFFICES ASSUME ReaderInv, End, NEW e \in lasting, e \notin seen PROVE FALSE
    OBVIOUS
  <2>2. view \subseteq Events /\ offset \in Nat /\ e \in Matching /\ Cardinality(Newer(e)) >= offset
    BY <2>1 DEF ReaderInv, End
  <2>3. /\ Cardinality(Newer(e)) \in Nat /\ Cardinality(Matching) \in Nat
        /\ Cardinality(Newer(e)) < Cardinality(Matching)
    BY <2>2, PlaceOf, MatchingFacts DEF Matching
  <2>4. offset < Cardinality(Matching)
    BY <2>2, <2>3
  <2>. QED
    BY <2>1, <2>2, <2>4, PageOfOne DEF End
<1>2. ReaderInv /\ [ReaderNext]_readerVars => [End => lasting \subseteq seen]_readerVars
  BY <1>1
<1>. QED
  BY <1>2, ReaderInvariant, PTL DEF ReaderSpec, PagingMissesNothing
-----------------------------------------------------------------------------
(* The index reader: counts                                                *)

\* Adding up the groups of count_by in any order gives the number of rows:
\* for every set of categories, the sum over it is the number of rows that
\* belong to one of them.
LEMMA GroupsAddUp ==
    ASSUME NEW R, IsFiniteSet(R)
    PROVE  FoldFunction(+, 0, Groups(R)) = Cardinality(R)
<1>. DEFINE G == Groups(R)
            D == {Category[e] : e \in R}
            In(c) == {e \in R : Category[e] \in c}
            Pick(c) == CHOOSE x \in c : TRUE
            Sums(f) == f = [c \in SUBSET D |-> IF c = {} THEN 0 ELSE G[Pick(c)] + f[c \ {Pick(c)}]]
            g == [c \in SUBSET D |-> Cardinality(In(c))]
            h == CHOOSE f : Sums(f)
<1>1. \A c : IsFiniteSet(In(c)) /\ Cardinality(In(c)) \in Nat
  BY FS_Subset, FS_CardinalityType
<1>2. G = [x \in D |-> Cardinality(In({x}))]
  <2>1. \A x : {e \in R : Category[e] = x} = In({x})
    OBVIOUS
  <2>. QED
    BY <2>1 DEF Groups
<1>3. FoldFunction(+, 0, G) = h[D]
  <2>1. DOMAIN G = D
    BY <1>2
  <2>. HIDE DEF G, D
  <2>. QED
    BY <2>1 DEF FoldFunction, FoldFunctionOnSet, MapThenFoldSet
<1>. HIDE DEF G
<1>4. \A c : c # {} => Pick(c) \in c
  OBVIOUS
<1>. HIDE DEF Pick
<1>5. Sums(g)
  <2>1. ASSUME NEW c \in SUBSET D, c # {}
        PROVE  g[c] = G[Pick(c)] + g[c \ {Pick(c)}]
    <3>. DEFINE x == Pick(c)
    <3>1. x \in c /\ x \in D /\ c \ {x} \in SUBSET D
      BY <1>4, <2>1
    <3>2. In(c) = In({x}) \cup In(c \ {x}) /\ In({x}) \cap In(c \ {x}) = {}
      BY <3>1
    <3>3. Cardinality(In(c)) = Cardinality(In({x})) + Cardinality(In(c \ {x}))
      <4>. HIDE DEF In
      <4>. QED
        BY <1>1, <3>2, SizeOfUnion
    <3>4. G[x] = Cardinality(In({x}))
      BY <1>2, <3>1
    <3>. QED
      BY <2>1, <3>1, <3>3, <3>4
  <2>2. g[{}] = 0
    BY FS_EmptySet
  <2>. HIDE DEF g, D
  <2>3. \A c \in SUBSET D : g[c] = IF c = {} THEN 0 ELSE G[Pick(c)] + g[c \ {Pick(c)}]
    BY <2>1, <2>2
  <2>4. g = [c \in SUBSET D |-> g[c]]
    BY DEF g
  <2>. QED
    BY <2>3, <2>4
<1>6. Sums(h)
  <2>. HIDE DEF Sums
  <2>. QED
    BY <1>5
<1>7. IsFiniteSet(D)
  <2>. DEFINE f == [e \in R |-> Category[e]]
  <2>1. f \in Surjection(R, D)
    BY DEF Surjection
  <2>. QED
    BY <2>1, FS_Surjection
<1>. HIDE DEF g, h, D
<1>8. ASSUME NEW c \in SUBSET D PROVE h[c] = g[c]
  <2>. DEFINE T == {n \in Nat : \E b \in SUBSET D : Cardinality(b) = n /\ h[b] # g[b]}
  <2>1. SUFFICES ASSUME T # {} PROVE FALSE
    BY <1>7, <1>8, FS_Subset, FS_CardinalityType
  <2>2. PICK n \in T : \A k \in T : n <= k
    BY <2>1, LeastOf
  <2>3. PICK b \in SUBSET D : Cardinality(b) = n /\ h[b] # g[b]
    BY <2>2
  <2>4. b # {}
    BY <1>5, <1>6, <2>3
  <2>. DEFINE x == Pick(b)
  <2>5. x \in b /\ b \ {x} \in SUBSET D
    BY <1>4, <2>3, <2>4
  <2>6. n - 1 \in Nat /\ Cardinality(b \ {x}) = n - 1
    <3>1. IsFiniteSet(b)
      BY <1>7, <2>3, FS_Subset
    <3>2. \A y \in b : Cardinality(b \ {y}) = Cardinality(b) - 1 /\ Cardinality(b) \in Nat \ {0}
      BY <3>1, SizeOfRest
    <3>. HIDE DEF x
    <3>. QED
      BY <2>3, <2>5, <3>2
  <2>7. h[b \ {x}] = g[b \ {x}]
    <3>1. n - 1 \notin T
      BY <2>2, <2>6
    <3>. QED
      BY <2>5, <2>6, <3>1
  <2>8. h[b] = G[x] + h[b \ {x}] /\ g[b] = G[x] + g[b \ {x}]
    BY <1>5, <1>6, <2>3, <2>4
  <2>. QED
    BY <2>3, <2>7, <2>8
<1>9. g[D] = Cardinality(R)
  <2>1. In(D) = R
    BY DEF D
  <2>. QED
    BY <2>1 DEF g
<1>. QED
  BY <1>3, <1>8, <1>9 DEF G

\* count is the length of the list that query gives from the same offset, and
\* the groups of count_by add up to the count, whatever rows its offset skips.
THEOREM CountsAgree == ReaderSpec => []QueriesAgree
<1>1. ReaderInv => QueriesAgree
  <2>1. SUFFICES ASSUME view \subseteq Events, NEW from \in 0 .. Cardinality(Events)
                 PROVE  /\ Len(Query(asked, Cardinality(Events), from)) = Count(asked, from)
                        /\ \A by \in CountBy(asked, from) :
                               FoldFunction(+, 0, by) = Count(Times(asked), from)
    BY DEF ReaderInv, QueriesAgree
  <2>2. Len(Query(asked, Cardinality(Events), from)) = Count(asked, from)
    <3>. DEFINE n == Cardinality(Matching)
                N == Cardinality(Events)
                s == NewestFirst(Matching)
                p == Query(asked, N, from)
    <3>1. /\ n \in Nat /\ N \in Nat /\ n <= N
          /\ Matching \subseteq Nat /\ IsFiniteSet(Matching)
      BY <2>1, MatchingFacts DEF Matching
    <3>2. s \in Seq(Matching) /\ Len(s) = n
      BY <3>1, NewestFirstFacts
    <3>3. p = SubSeq(s, from + 1, Min({from + N, n}))
      BY <3>2 DEF Query, Matching
    <3>. HIDE DEF n, N, s, p
    <3>4. from \in Nat
      BY <2>1, <3>1 DEF N
    <3>5. Min({from + N, n}) = n
      BY <3>1, <3>4, MinOfTwo
    <3>6. Len(p) = IF from + 1 <= n THEN n - from ELSE 0
      <4>1. from + 1 \in Int /\ n \in Int /\ \A i \in from + 1 .. n : s[i] \in Matching
        BY <3>1, <3>2, <3>4
      <4>2. Len(SubSeq(s, from + 1, n)) = IF from + 1 <= n THEN n - (from + 1) + 1 ELSE 0
        BY <4>1, SubSeqProperties
      <4>. QED
        BY <3>1, <3>3, <3>4, <3>5, <4>2
    <3>7. Count(asked, from) = IF 0 >= n - from THEN 0 ELSE n - from
      BY <3>1, <3>4, MaxOfTwo DEF Count, n, Matching
    <3>. QED
      BY <3>1, <3>4, <3>6, <3>7 DEF N, p
  <2>3. ASSUME NEW by \in CountBy(asked, from)
        PROVE  FoldFunction(+, 0, by) = Count(Times(asked), from)
    <3>1. PICK r \in SUBSET Where(view, Times(asked)) :
              Cardinality(r) = Count(Times(asked), from) /\ by = Groups(r)
      BY <2>3 DEF CountBy
    <3>2. IsFiniteSet(r)
      BY <2>1, MatchingFacts, FS_Subset
    <3>. QED
      BY <3>1, <3>2, GroupsAddUp
  <2>. QED
    BY <2>2, <2>3
<1>. QED
  BY <1>1, ReaderInvariant, PTL
-----------------------------------------------------------------------------
(* The posture: what is in the log                                         *)

\* of one skill, in the answer of check
Statuses == {"pass", "none", "drifted", "warn", "deny", "tampered", "error"}

\* An event of each category, as the backends leave it there.
Shape(e) ==
    /\ e # Nothing
    /\ e.category = "hardening" =>
          \/ e.result = "succeeded" /\ "failures" \in DOMAIN e.data
          \/ e.result = "failed" /\ e.data = Nothing
    /\ e.category = "asset_verify" =>
          /\ e.result = "succeeded"
          /\ e.data # Nothing => /\ "failed" \in DOMAIN e.data /\ e.data.failed \in Nat
                                 /\ e.exit = 0 <=> e.data.failed = 0
          /\ e.data = Nothing => "failed" \notin DOMAIN e.data
    /\ e.category = "prompt_scan" => e.result = "succeeded" \/ DOMAIN e.data = {}
    /\ e.category = "skill_ledger" =>
          /\ e.result = "succeeded"
          /\ "status" \in DOMAIN e.data <=> (Get(e, "command", "") = "check" /\ e.request # Nothing)
          /\ "status" \in DOMAIN e.data => e.request \in LedgerSkills /\ e.data.status \in Statuses

\* the invariant of the log, which is inductive
LogInv ==
    /\ log \in Seq(Range(log))
    /\ \A i \in DOMAIN log : Shape(log[i])

\* the last place of a set of places in the log
LEMMA LogPlaces ==
    ASSUME LogInv
    PROVE  /\ Len(log) \in Nat /\ DOMAIN log = 1 .. Len(log)
           /\ \A S : S \subseteq DOMAIN log /\ S # {} => Max(S) \in S /\ \A y \in S : y <= Max(S)
<1>1. Len(log) \in Nat /\ DOMAIN log = 1 .. Len(log)
  BY LenProperties DEF LogInv
<1>. QED
  BY <1>1, GreatestOf

LEMMA IsSequence ==
    ASSUME NEW S, NEW s \in Seq(S)
    PROVE  s \in Seq(Range(s))
<1>1. s \in [1 .. Len(s) -> Range(s)] /\ Len(s) \in Nat
  BY LenProperties DEF Range
<1>. QED
  BY <1>1

\* Every command ends in one event, of post_action or of on_error.
LEMMA InvokeKeeps ==
    ASSUME LogInv, NEW action, NEW request, NEW answer, Invoke(action, request, answer),
           answer.raised => Shape(OnError(action, request)),
           ~answer.raised => Shape(PostAction(action, request, answer))
    PROVE  LogInv'
<1>. DEFINE e == IF answer.raised THEN OnError(action, request)
                 ELSE PostAction(action, request, answer)
<1>1. log' = Append(log, e) /\ Shape(e)
  BY DEF Invoke
<1>. HIDE DEF e
<1>2. log \in Seq(Range(log) \cup {e})
  BY SeqMonotonic DEF LogInv
<1>3. /\ log' \in Seq(Range(log) \cup {e})
      /\ DOMAIN log' = 1 .. Len(log) + 1 /\ Len(log) \in Nat /\ DOMAIN log = 1 .. Len(log)
      /\ \A i \in 1 .. Len(log) : log'[i] = log[i]
      /\ log'[Len(log) + 1] = e
  BY <1>1, <1>2, AppendProperties, LenProperties
<1>4. log' \in Seq(Range(log'))
  BY <1>3, IsSequence
<1>5. ASSUME NEW i \in DOMAIN log' PROVE Shape(log'[i])
  <2>1. CASE i = Len(log) + 1
    BY <1>1, <1>3, <2>1
  <2>2. CASE i # Len(log) + 1
    <3>1. i \in DOMAIN log /\ log'[i] = log[i]
      BY <1>3, <1>5, <2>2
    <3>. QED
      BY <3>1 DEF LogInv
  <2>. QED
    BY <2>1, <2>2
<1>. QED
  BY <1>4, <1>5 DEF LogInv

LEMMA EventFacts ==
    ASSUME NEW action, NEW request, NEW answer, NEW result
    PROVE  LET e == Event(action, request, answer, result)
           IN  /\ e # Nothing
               /\ e.category = CategoryOf(action) /\ e.request = request /\ e.result = result
               /\ e.data = answer.data /\ e.exit = answer.exit
<1>. DEFINE e == Event(action, request, answer, result)
<1>1. "category" \in DOMAIN e
  BY DEF Event
<1>2. DOMAIN Nothing = {}
  BY DEF Nothing
<1>3. e # Nothing
  BY <1>1, <1>2
<1>. QED
  BY <1>3 DEF Event

LEMMA AnswerFacts ==
    ASSUME NEW success \in BOOLEAN, NEW data
    PROVE  /\ ~Answer(success, data).raised
           /\ Answer(success, data).data = data
           /\ Answer(success, data).exit = 0 <=> success
           /\ Raised.raised /\ Raised.data = Nothing
  BY DEF Answer, Raised

\* What each backend's answers leave in the log has its shape.
LEMMA HardenKeeps ==
    ASSUME LogInv, NEW mode, NEW success \in BOOLEAN, NEW data, "failures" \in DOMAIN data,
           \/ Invoke("harden", mode, Answer(success, data))
           \/ Invoke("harden", mode, Raised)
    PROVE  LogInv'
<1>. DEFINE e == PostAction("harden", mode, Answer(success, data))
            f == OnError("harden", mode)
<1>1. e.category = "hardening" /\ e # Nothing /\ e.result = "succeeded" /\ e.data = data
  BY EventFacts, AnswerFacts DEF PostAction, CategoryOf
<1>2. Shape(e)
  <2>. HIDE DEF e
  <2>. QED
    BY <1>1 DEF Shape
<1>3. f.category = "hardening" /\ f # Nothing /\ f.result = "failed" /\ f.data = Nothing
  BY EventFacts, AnswerFacts DEF OnError, CategoryOf
<1>4. Shape(f)
  <2>. HIDE DEF f
  <2>. QED
    BY <1>3 DEF Shape
<1>5. CASE Invoke("harden", mode, Answer(success, data))
  BY <1>2, <1>5, AnswerFacts, InvokeKeeps
<1>6. CASE Invoke("harden", mode, Raised)
  BY <1>4, <1>6, AnswerFacts, InvokeKeeps
<1>. QED
  BY <1>5, <1>6

LEMMA VerifyKeeps ==
    ASSUME LogInv, NEW skill, NEW answer, Invoke("verify", skill, answer),
           ~answer.raised,
           \/ answer.data = Nothing
           \/ /\ answer.data # Nothing /\ "failed" \in DOMAIN answer.data
              /\ answer.data.failed \in Nat
              /\ answer.exit = 0 <=> answer.data.failed = 0
    PROVE  LogInv'
<1>. DEFINE e == PostAction("verify", skill, answer)
<1>1. /\ e.category = "asset_verify" /\ e # Nothing /\ e.result = "succeeded"
      /\ e.data = answer.data /\ e.exit = answer.exit
  BY EventFacts DEF PostAction, CategoryOf
<1>2. DOMAIN Nothing = {}
  BY DEF Nothing
<1>3. Shape(e)
  <2>. HIDE DEF e, Nothing
  <2>. QED
    BY <1>1, <1>2 DEF Shape
<1>. QED
  BY <1>3, InvokeKeeps

LEMMA PromptKeeps ==
    ASSUME LogInv, NEW answer, Invoke("prompt_scan", Nothing, answer),
           answer.raised => answer.data = Nothing
    PROVE  LogInv'
<1>1. DOMAIN Nothing = {}
  BY DEF Nothing
<1>2. ASSUME NEW e, e.category = "prompt_scan", e # Nothing,
             e.result = "succeeded" \/ DOMAIN e.data = {}
      PROVE  Shape(e)
  BY <1>2 DEF Shape
<1>3. Shape(PostAction("prompt_scan", Nothing, answer))
  BY <1>2, EventFacts DEF PostAction, CategoryOf
<1>4. answer.raised => Shape(OnError("prompt_scan", Nothing))
  BY <1>1, <1>2, EventFacts DEF OnError, CategoryOf, Raised
<1>. QED
  BY <1>3, <1>4, InvokeKeeps

LEMMA OthersKeep ==
    ASSUME LogInv, NEW action \in {"code_scan", "sandbox_prehook"}, NEW answer,
           Invoke(action, Nothing, answer)
    PROVE  LogInv'
<1>1. ASSUME NEW e, e.category \in {"code_scan", "sandbox"}, e # Nothing
      PROVE  Shape(e)
  BY <1>1 DEF Shape
<1>2. CategoryOf(action) \in {"code_scan", "sandbox"}
  BY DEF CategoryOf
<1>3. Shape(PostAction(action, Nothing, answer)) /\ Shape(OnError(action, Nothing))
  BY <1>1, <1>2, EventFacts DEF PostAction, OnError
<1>. QED
  BY <1>3, InvokeKeeps

LEMMA LedgerKeeps ==
    ASSUME LogInv, NEW request, NEW success \in BOOLEAN, NEW data,
           Invoke("skill_ledger", request, Answer(success, data)),
           "status" \in DOMAIN data
             <=> ("command" \in DOMAIN data /\ data.command = "check" /\ request # Nothing),
           "status" \in DOMAIN data => request \in LedgerSkills /\ data.status \in Statuses
    PROVE  LogInv'
<1>. DEFINE e == PostAction("skill_ledger", request, Answer(success, data))
<1>1. /\ e.category = "skill_ledger" /\ e # Nothing /\ e.result = "succeeded"
      /\ e.data = data /\ e.request = request
  BY EventFacts, AnswerFacts DEF PostAction, CategoryOf
<1>2. Shape(e)
  <2>. HIDE DEF e
  <2>. QED
    BY <1>1 DEF Shape, Get
<1>. QED
  BY <1>2, AnswerFacts, InvokeKeeps

\* LogInv is inductive.
LEMMA LogInvNext == LogInv /\ [MiddlewareNext]_log => LogInv'
<1>. SUFFICES ASSUME LogInv, [MiddlewareNext]_log PROVE LogInv'
  OBVIOUS
<1>1. CASE Harden
  <2>1. PICK args \in {{}, {"--scan"}, {"--reinforce"}, {"--reinforce", "--dry-run"}, {"--help"}} :
            LET mode == ModeOf(IF args = {"--help"} THEN args ELSE WithDefaultArgs(args))
            IN  \/ Invoke("harden", mode, Raised)
                \/ Invoke("harden", mode, Answer(FALSE, Unparsed(mode)))
                \/ mode = "none" /\ Invoke("harden", mode, Answer(TRUE, Unparsed(mode)))
                \/ /\ mode # "none"
                   /\ \E failing \in 0 .. Rules :
                         \E fixed \in 0 .. IF mode = "reinforce" THEN failing ELSE 0,
                            manual \in 0 .. Rules - failing :
                            \E out \in Output(mode, failing, fixed, manual) :
                               Invoke("harden", mode,
                                      Answer(failing = fixed, ParseOutput(mode, out)))
    BY <1>1 DEF Harden
  <2>. DEFINE mode == ModeOf(IF args = {"--help"} THEN args ELSE WithDefaultArgs(args))
  <2>. HIDE DEF mode
  <2>2. "failures" \in DOMAIN Unparsed(mode)
    BY DEF Unparsed
  <2>3. \A out : "failures" \in DOMAIN ParseOutput(mode, out)
    BY DEF ParseOutput
  <2>4. \/ Invoke("harden", mode, Raised)
        \/ \E b \in BOOLEAN : Invoke("harden", mode, Answer(b, Unparsed(mode)))
        \/ \E b \in BOOLEAN : \E out :
               Invoke("harden", mode, Answer(b, ParseOutput(mode, out)))
    BY <2>1 DEF mode
  <2>. QED
    BY <2>2, <2>3, <2>4, HardenKeeps
<1>2. CASE Verify
  <2>1. PICK asset \in [Assets -> AssetStates], keys \in TrustedKeys,
             gpg \in BOOLEAN, configured \in BOOLEAN :
          LET refused(those) == {s \in those : ~VerifySkill(asset[s], keys, gpg)}
              counted(those) == [passed |-> Cardinality(those \ refused(those)),
                                 failed |-> Cardinality(refused(those))]
              run(skill, those) ==
                  IF \/ keys = "missing"
                     \/ skill = Nothing /\ ~configured
                     \/ skill # Nothing /\ refused(those) # {}
                  THEN Answer(FALSE, Nothing)
                  ELSE Answer(refused(those) = {}, counted(those))
          IN  \/ Invoke("verify", Nothing, run(Nothing, Assets))
              \/ \E s \in Assets : Invoke("verify", s, run(s, {s}))
    BY <1>2 DEF Verify
  <2>. DEFINE refused(those) == {s \in those : ~VerifySkill(asset[s], keys, gpg)}
              counted(those) == [passed |-> Cardinality(those \ refused(those)),
                                 failed |-> Cardinality(refused(those))]
  <2>2. ASSUME NEW those, IsFiniteSet(those)
        PROVE  LET answer == Answer(refused(those) = {}, counted(those))
               IN  /\ ~answer.raised /\ answer.data # Nothing
                   /\ "failed" \in DOMAIN answer.data /\ answer.data.failed \in Nat
                   /\ answer.exit = 0 <=> answer.data.failed = 0
    <3>1. IsFiniteSet(refused(those))
      BY <2>2, FS_Subset
    <3>2. Cardinality(refused(those)) \in Nat /\ (Cardinality(refused(those)) = 0 <=> refused(those) = {})
      <4>. HIDE DEF refused
      <4>. QED
        BY <3>1, FS_CardinalityType, FS_EmptySet
    <3>. HIDE DEF refused
    <3>. DEFINE data == counted(those)
                answer == Answer(refused(those) = {}, data)
    <3>3. /\ "failed" \in DOMAIN data /\ data.failed = Cardinality(refused(those))
          /\ data # Nothing
      <4>1. DOMAIN Nothing = {}
        BY DEF Nothing
      <4>. QED
        BY <4>1
    <3>. HIDE DEF data
    <3>4. ~answer.raised /\ answer.data = data /\ (answer.exit = 0 <=> refused(those) = {})
      BY AnswerFacts
    <3>. QED
      BY <3>2, <3>3, <3>4 DEF data
  <2>. HIDE DEF refused, counted
  <2>3. ~Answer(FALSE, Nothing).raised /\ Answer(FALSE, Nothing).data = Nothing
    BY AnswerFacts
  <2>4. \E skill, those :
           /\ IsFiniteSet(those)
           /\ \/ Invoke("verify", skill, Answer(FALSE, Nothing))
              \/ Invoke("verify", skill, Answer(refused(those) = {}, counted(those)))
    <3>1. CASE \E s \in Assets :
                  \/ Invoke("verify", s, Answer(FALSE, Nothing))
                  \/ Invoke("verify", s, Answer(refused({s}) = {}, counted({s})))
      BY <3>1, FS_Singleton
    <3>2. CASE \/ Invoke("verify", Nothing, Answer(FALSE, Nothing))
               \/ Invoke("verify", Nothing, Answer(refused(Assets) = {}, counted(Assets)))
      BY <3>2, MiddlewareAssumption
    <3>. QED
      BY <2>1, <3>1, <3>2 DEF refused, counted
  <2>. QED
    BY <2>2, <2>3, <2>4, VerifyKeeps
<1>3. CASE PromptScan
  <2>1. PICK answer : /\ Invoke("prompt_scan", Nothing, answer)
                      /\ answer.raised => answer.data = Nothing
    BY <1>3, AnswerFacts DEF PromptScan
  <2>. QED
    BY <2>1, PromptKeeps
<1>4. CASE CodeScan \/ LogSandbox
  <2>1. \/ \E answer : Invoke("code_scan", Nothing, answer)
        \/ \E answer : Invoke("sandbox_prehook", Nothing, answer)
    BY <1>4 DEF CodeScan, LogSandbox
  <2>. QED
    BY <2>1, OthersKeep
<1>5. CASE Ledger
  <2>1. ASSUME NEW s \in LedgerSkills, NEW status \in Statuses, LedgerCheck(s, status)
        PROVE  LogInv'
    <3>. DEFINE data == [command |-> "check", status |-> status]
    <3>1. /\ "status" \in DOMAIN data /\ "command" \in DOMAIN data
          /\ data.command = "check" /\ data.status \in Statuses
      OBVIOUS
    <3>2. PICK b \in BOOLEAN : Invoke("skill_ledger", s, Answer(b, data))
      BY <2>1 DEF LedgerCheck
    <3>3. s # Nothing
      BY MiddlewareAssumption
    <3>. HIDE DEF data
    <3>. QED
      BY <3>1, <3>2, <3>3, LedgerKeeps
  <2>2. ASSUME NEW s \in LedgerSkills, LedgerCertify(s, "pass")
        PROVE  LogInv'
    <3>. DEFINE data == [command |-> "certify", scanStatus |-> "pass"]
    <3>1. "status" \notin DOMAIN data /\ data.command = "certify"
      OBVIOUS
    <3>2. Invoke("skill_ledger", s, Answer(TRUE, data))
      BY <2>2 DEF LedgerCertify
    <3>. HIDE DEF data
    <3>. QED
      BY <3>1, <3>2, LedgerKeeps
  <2>3. ASSUME NEW s, Invoke("skill_ledger", s, Answer(FALSE, Nothing))
        PROVE  LogInv'
    <3>1. DOMAIN Nothing = {}
      BY DEF Nothing
    <3>. QED
      BY <2>3, <3>1, LedgerKeeps
  <2>4. ASSUME NEW critical \in BOOLEAN, LedgerCheckAll(critical)
        PROVE  LogInv'
    <3>. DEFINE data == [command |-> "check", results |-> critical]
    <3>1. "status" \notin DOMAIN data
      OBVIOUS
    <3>2. PICK b \in BOOLEAN : Invoke("skill_ledger", Nothing, Answer(b, data))
      BY <2>4 DEF LedgerCheckAll
    <3>. HIDE DEF data
    <3>. QED
      BY <3>1, <3>2, LedgerKeeps
  <2>. QED
    BY <1>5, <2>1, <2>2, <2>3, <2>4 DEF Ledger, Statuses
<1>6. CASE Age
  <2>1. /\ log' \in Seq(Range(log)) /\ Len(log') = Len(log) - 1 /\ Len(log) \in Nat
        /\ \A i \in 1 .. Len(log') : log'[i] = log[i + 1]
    BY <1>6, HeadTailProperties, LenProperties DEF Age, LogInv
  <2>2. DOMAIN log' = 1 .. Len(log') /\ DOMAIN log = 1 .. Len(log)
    BY <2>1, LenProperties DEF LogInv
  <2>3. ASSUME NEW i \in DOMAIN log' PROVE Shape(log'[i])
    <3>1. i + 1 \in DOMAIN log /\ log'[i] = log[i + 1]
      BY <2>1, <2>2
    <3>. QED
      BY <3>1 DEF LogInv
  <2>4. log' \in Seq(Range(log'))
    BY <2>1, IsSequence
  <2>. QED
    BY <2>3, <2>4 DEF LogInv
<1>7. CASE UNCHANGED log
  BY <1>7 DEF LogInv
<1>. QED
  BY <1>1, <1>2, <1>3, <1>4, <1>5, <1>6, <1>7 DEF MiddlewareNext

LEMMA LogInvariant == MiddlewareSpec => []LogInv
<1>1. MiddlewareInit => LogInv
  BY DEF MiddlewareInit, LogInv
<1>. QED
  BY <1>1, LogInvNext, PTL DEF MiddlewareSpec
-----------------------------------------------------------------------------
(* The posture: the summary                                                *)

\* What the user was told of each command is what the summary reads in the log.
LEMMA HardeningToldSame ==
    ASSUME LogInv
    PROVE  LET harden == Newest(LAMBDA e : e.category = "hardening")
           IN  /\ HardeningCalls
                    <=> ~(harden = Nothing \/ (harden.data # Nothing /\ harden.data.failures = {}))
               /\ HardeningCalls
                    <=> Of("hardening") # {}
                        /\ (Get(Latest(Of("hardening")), "failures", {}) # {}
                            \/ Latest(Of("hardening")).result = "failed")
               /\ Of("hardening") # {} => Max(Of("hardening")) \in DOMAIN log
<1>. DEFINE H == Of("hardening")
            harden == Newest(LAMBDA e : e.category = "hardening")
<1>1. H = {i \in DOMAIN log : log[i].category = "hardening"}
  BY DEF Of
<1>2. harden = IF H = {} THEN Nothing ELSE log[Max(H)]
  BY <1>1 DEF Newest
<1>3. H # {} => Max(H) \in H
  BY <1>1, LogPlaces
<1>4. H # {} => /\ log[Max(H)] # Nothing
                /\ \/ /\ log[Max(H)].result = "succeeded" /\ log[Max(H)].data # Nothing
                      /\ "failures" \in DOMAIN log[Max(H)].data
                   \/ /\ log[Max(H)].result = "failed" /\ log[Max(H)].data = Nothing
                      /\ "failures" \notin DOMAIN log[Max(H)].data
  <2>1. DOMAIN Nothing = {}
    BY DEF Nothing
  <2>. QED
    BY <1>1, <1>3, <2>1 DEF LogInv, Shape
<1>5. HardeningCalls <=> H # {} /\ (log[Max(H)].result = "failed" \/ Get(log[Max(H)], "failures", {}) # {})
  BY DEF HardeningCalls, Latest
<1>. HIDE DEF H, harden
<1>. QED
  BY <1>1, <1>2, <1>3, <1>4, <1>5 DEF Get, H, harden, Latest

LEMMA VerifyToldSame ==
    ASSUME LogInv
    PROVE  LET verify == Newest(LAMBDA e : e.category = "asset_verify" /\ e.request = Nothing)
           IN  VerifyCalls <=> ~(verify = Nothing \/ verify.data = Nothing \/ verify.exit = 0)
<1>. DEFINE V == FullVerifies
            verify == Newest(LAMBDA e : e.category = "asset_verify" /\ e.request = Nothing)
<1>1. V = {i \in DOMAIN log : log[i].category = "asset_verify" /\ log[i].request = Nothing}
  BY DEF FullVerifies, Of
<1>2. verify = IF V = {} THEN Nothing ELSE log[Max(V)]
  BY <1>1 DEF Newest
<1>3. V # {} => Max(V) \in V
  BY <1>1, LogPlaces
<1>. DEFINE e == log[Max(V)]
<1>4. V # {} => /\ e # Nothing /\ e.result = "succeeded"
                /\ e.data # Nothing => /\ "failed" \in DOMAIN e.data /\ e.data.failed \in Nat
                                       /\ e.exit = 0 <=> e.data.failed = 0
                /\ e.data = Nothing => "failed" \notin DOMAIN e.data
  BY <1>1, <1>3 DEF LogInv, Shape
<1>5. VerifyCalls <=> V # {} /\ (e.result = "failed" \/ Get(e, "failed", 0) > 0)
  BY DEF VerifyCalls, VerificationCalls, Latest
<1>. HIDE DEF V, verify, e
<1>6. verify = IF V = {} THEN Nothing ELSE e
  BY <1>2 DEF e
<1>. QED
  BY <1>4, <1>5, <1>6 DEF Get, verify

LEMMA PromptToldSame ==
    ASSUME LogInv
    PROVE  PromptCalls <=> ~ \A i \in DOMAIN log : log[i].category = "prompt_scan"
                                => Get(log[i], "verdict", "none") # "deny"
<1>1. \A i \in DOMAIN log : log[i].category = "prompt_scan"
          => log[i].result = "succeeded" \/ DOMAIN log[i].data = {}
  BY DEF LogInv, Shape
<1>. QED
  BY <1>1 DEF PromptCalls, Ran, Of, Get

LEMMA LedgerToldSame ==
    ASSUME LogInv
    PROVE  LET checked(s) == Newest(LAMBDA e : e.category = "skill_ledger" /\ e.request = s
                                              /\ "status" \in DOMAIN e.data)
           IN  LedgerCalls <=> ~ \A s \in LedgerSkills :
                  checked(s) = Nothing \/ checked(s).data.status \notin {"tampered", "deny"}
<1>. DEFINE checked(s) == Newest(LAMBDA e : e.category = "skill_ledger" /\ e.request = s
                                            /\ "status" \in DOMAIN e.data)
            C(s) == {i \in Checks : log[i].request = s}
<1>1. \A i \in DOMAIN log : log[i].category = "skill_ledger" =>
         /\ log[i].result = "succeeded"
         /\ "status" \in DOMAIN log[i].data
              <=> (Get(log[i], "command", "") = "check" /\ log[i].request # Nothing)
  BY DEF LogInv, Shape
<1>2. Checks = {i \in DOMAIN log : log[i].category = "skill_ledger" /\ "status" \in DOMAIN log[i].data}
  BY <1>1 DEF Checks, Ran, Subcommand, Of
<1>3. \A i \in Checks : /\ log[i].request \in LedgerSkills /\ log[i].data.status \in Statuses
                        /\ log[i] # Nothing
  BY <1>2 DEF LogInv, Shape
<1>4. ASSUME NEW s PROVE checked(s) = IF C(s) = {} THEN Nothing ELSE log[Max(C(s))]
  <2>1. C(s) = {i \in DOMAIN log : log[i].category = "skill_ledger" /\ log[i].request = s
                                    /\ "status" \in DOMAIN log[i].data}
    BY <1>2
  <2>. HIDE DEF C
  <2>. QED
    BY <2>1 DEF Newest
<1>5. ASSUME NEW s, C(s) # {} PROVE Max(C(s)) \in C(s) /\ \A y \in C(s) : y <= Max(C(s))
  <2>1. C(s) \subseteq DOMAIN log
    BY <1>2
  <2>. HIDE DEF C
  <2>. QED
    BY <1>5, <2>1, LogPlaces
<1>. DEFINE Bad(s) == C(s) # {} /\ log[Max(C(s))].data.status \in {"tampered", "deny"}
<1>6. ASSUME NEW s \in LedgerSkills
      PROVE  Bad(s) <=> ~(checked(s) = Nothing
                          \/ checked(s).data.status \notin {"tampered", "deny"})
  <2>1. C(s) # {} => log[Max(C(s))] # Nothing /\ log[Max(C(s))].data.status \in Statuses
    BY <1>3, <1>5
  <2>. HIDE DEF C, checked
  <2>. QED
    BY <1>4, <2>1 DEF Statuses
<1>. HIDE DEF checked
<1>7. ASSUME NEW l \in LatestStatuses, l.status \in {"tampered", "deny"}
      PROVE  \E s \in LedgerSkills : Bad(s)
  <2>1. PICK i \in Checks : /\ \A j \in Checks : log[j].request = log[i].request => j <= i
                            /\ l.status = log[i].data.status
    BY <1>7 DEF LatestStatuses
  <2>. DEFINE s == log[i].request
  <2>2. i \in C(s) /\ \A j \in C(s) : j <= i
    BY <2>1
  <2>3. Max(C(s)) = i
    <3>1. Max(C(s)) \in C(s) /\ i <= Max(C(s))
      BY <1>5, <2>2
    <3>2. Max(C(s)) \in Nat /\ i \in Nat
      BY <1>2, <2>1, <3>1, LogPlaces
    <3>. QED
      BY <2>2, <3>1, <3>2
  <2>. QED
    BY <1>3, <1>7, <2>1, <2>2, <2>3
<1>8. ASSUME NEW s \in LedgerSkills, Bad(s)
      PROVE  \E l \in LatestStatuses : l.status \in {"tampered", "deny"}
  <2>. DEFINE i == Max(C(s))
              l == [skill |-> log[i].request, status |-> log[i].data.status]
  <2>1. i \in C(s) /\ \A j \in C(s) : j <= i
    BY <1>5, <1>8
  <2>2. i \in Checks /\ \A j \in Checks : log[j].request = log[i].request => j <= i
    BY <2>1
  <2>. HIDE DEF i
  <2>3. l \in LatestStatuses
    BY <2>2 DEF LatestStatuses
  <2>4. l.status \in {"tampered", "deny"}
    BY <1>8 DEF i
  <2>. QED
    BY <2>3, <2>4
<1>9. LedgerCalls <=> \E s \in LedgerSkills : Bad(s)
  BY <1>7, <1>8 DEF LedgerCalls
<1>. HIDE DEF Bad
<1>. QED
  BY <1>6, <1>9 DEF checked

\* The summary says good exactly if nothing that calls for attention was the
\* last word told to the user of a command: a hardening run that raised or
\* listed a rule, shipped skills that failed, a prompt that was denied, a
\* skill of the ledger that was denied or tampered with.
THEOREM PostureTold == MiddlewareSpec => []PostureAsTold
<1>1. LogInv => PostureAsTold
  <2>1. LogInv => (Posture = "good"
                     <=> ~HardeningCalls /\ ~VerifyCalls /\ ~PromptCalls /\ ~LedgerCalls)
    BY DEF Posture
  <2>. QED
    BY <2>1, HardeningToldSame, VerifyToldSame, PromptToldSame, LedgerToldSame DEF PostureAsTold
<1>. QED
  BY <1>1, LogInvariant, PTL

\* A hardening run that raised is counted by the footer.
LEMMA FailureCounts ==
    ASSUME LogInv, Of("hardening") # {}, Latest(Of("hardening")).result = "failed"
    PROVE  Footer.failed > 0
<1>. DEFINE i == Max(Of("hardening"))
            n == Len(log)
            R == Ran(DOMAIN log)
            T == (1 .. n) \ {i}
<1>1. i \in 1 .. n /\ log[i].result = "failed" /\ n \in Nat
  BY HardeningToldSame, LogPlaces DEF Latest
<1>2. R \subseteq T
  BY <1>1, LogPlaces DEF Ran
<1>3. Footer.failed = n - Cardinality(R)
  BY DEF Footer
<1>. HIDE DEF i, n, R
<1>4. IsFiniteSet(1 .. n) /\ Cardinality(1 .. n) = n
  BY <1>1, FS_Interval
<1>5. IsFiniteSet(T) /\ Cardinality(T) = n - 1
  BY <1>1, <1>4, SizeOfRest
<1>. HIDE DEF T
<1>6. Cardinality(R) <= Cardinality(T) /\ IsFiniteSet(R)
  BY <1>2, <1>5, FS_Subset
<1>7. Cardinality(R) \in Nat
  BY <1>6, FS_CardinalityType
<1>. QED
  BY <1>1, <1>3, <1>5, <1>6, <1>7

\* The section of the ledger finds the checks that the posture finds.
LEMMA PerSkillSame ==
    ASSUME LogInv, NEW t
    PROVE  {s \in DOMAIN LatestPerSkill : LatestPerSkill[s].data.status = t} # {}
             <=> \E l \in LatestStatuses : l.status = t
<1>. DEFINE C(s) == {i \in Checks : log[i].request = s}
<1>1. Checks \subseteq DOMAIN log
  BY DEF Checks, Ran, Subcommand, Of
<1>2. ASSUME NEW s, C(s) # {} PROVE Max(C(s)) \in C(s) /\ \A y \in C(s) : y <= Max(C(s))
  <2>1. C(s) \subseteq DOMAIN log
    BY <1>1
  <2>. HIDE DEF C
  <2>. QED
    BY <1>2, <2>1, LogPlaces
<1>3. /\ DOMAIN LatestPerSkill = {log[i].request : i \in Checks}
      /\ \A s \in DOMAIN LatestPerSkill : LatestPerSkill[s] = log[Max(C(s))]
  BY DEF LatestPerSkill, Latest
<1>4. ASSUME NEW s \in DOMAIN LatestPerSkill, LatestPerSkill[s].data.status = t
      PROVE  \E l \in LatestStatuses : l.status = t
  <2>. DEFINE i == Max(C(s))
              l == [skill |-> log[i].request, status |-> log[i].data.status]
  <2>1. C(s) # {}
    BY <1>3
  <2>2. i \in Checks /\ \A j \in Checks : log[j].request = log[i].request => j <= i
    BY <1>2, <2>1
  <2>3. log[i].data.status = t
    BY <1>3, <1>4
  <2>. HIDE DEF i
  <2>4. l \in LatestStatuses
    BY <2>2 DEF LatestStatuses
  <2>. QED
    BY <2>3, <2>4
<1>5. ASSUME NEW l \in LatestStatuses, l.status = t
      PROVE  \E s \in DOMAIN LatestPerSkill : LatestPerSkill[s].data.status = t
  <2>1. PICK i \in Checks : /\ \A j \in Checks : log[j].request = log[i].request => j <= i
                            /\ log[i].data.status = t
    BY <1>5 DEF LatestStatuses
  <2>. DEFINE s == log[i].request
  <2>2. i \in C(s) /\ \A j \in C(s) : j <= i
    BY <2>1
  <2>3. Max(C(s)) = i
    <3>1. Max(C(s)) \in C(s) /\ i <= Max(C(s))
      BY <1>2, <2>2
    <3>2. Max(C(s)) \in Nat /\ i \in Nat
      BY <1>1, <2>1, <3>1, LogPlaces
    <3>. QED
      BY <2>2, <3>1, <3>2
  <2>. QED
    BY <1>3, <2>1, <2>3
<1>. QED
  BY <1>4, <1>5

\* What the sections and suggestions raise an alarm about is what the posture
\* is made of.
THEOREM AlarmsAreThePosture == MiddlewareSpec => []AlarmsAgree
<1>1. LogInv => AlarmsAgree
  <2>. SUFFICES ASSUME LogInv PROVE AlarmsAgree
    OBVIOUS
  <2>. DEFINE told(t) == \E l \in LatestStatuses : l.status = t
  <2>1. LedgerCalls <=> told("tampered") \/ told("deny")
    BY DEF LedgerCalls
  <2>2. /\ "tampered" \in Suggestions <=> told("tampered")
        /\ "reinforce" \in Suggestions => HardeningCalls
        /\ HardeningCalls => "reinforce" \in Suggestions \/ Footer.failed > 0
    BY HardeningToldSame, FailureCounts DEF Suggestions
  <2>3. /\ LedgerSection.tampered # {} <=> told("tampered")
        /\ LedgerSection.denied # {} <=> told("deny")
    BY PerSkillSame DEF LedgerSection
  <2>4. "deny" \in DOMAIN Counts(Of("prompt_scan"), "verdict") <=> PromptCalls
    BY DEF Counts, PromptCalls, Get
  <2>5. /\ Summary.posture = Posture /\ Summary.footer.suggested = Suggestions
        /\ Summary.footer.failed = Footer.failed
        /\ Summary.ledger = LedgerSection
        /\ Summary.prompts.verdicts = Counts(Of("prompt_scan"), "verdict")
    BY DEF Summary, Footer, ScanSection
  <2>6. Posture = "attention" <=> HardeningCalls \/ VerifyCalls \/ PromptCalls \/ LedgerCalls
    BY DEF Posture
  <2>. HIDE DEF told
  <2>. QED
    BY <2>1, <2>2, <2>3, <2>4, <2>5, <2>6 DEF AlarmsAgree
<1>. QED
  BY <1>1, LogInvariant, PTL
-----------------------------------------------------------------------------
(* The sandbox hooks: build_sandbox_command escapes quotes                 *)

\* what a character becomes
Piece(c) == IF c = Q THEN Escaped ELSE <<c>>

LEMMA PieceFacts ==
    ASSUME NEW c \in Chars
    PROVE  /\ Piece(c) \in Seq(Chars)
           /\ Len(Piece(c)) = IF c = Q THEN 4 ELSE 1
           /\ c # Q => Piece(c)[1] = c
           /\ c = Q => /\ Piece(c)[1] = Q /\ Piece(c)[2] = B
                       /\ Piece(c)[3] = Q /\ Piece(c)[4] = Q
<1>1. Escaped \in Seq(Chars) /\ Len(Escaped) = 4
  BY DEF Escaped, Chars
<1>2. <<c>> \in Seq(Chars) /\ Len(<<c>>) = 1 /\ <<c>>[1] = c
  OBVIOUS
<1>3. Escaped[1] = Q /\ Escaped[2] = B /\ Escaped[3] = Q /\ Escaped[4] = Q
  BY DEF Escaped
<1>. QED
  BY <1>1, <1>2, <1>3 DEF Piece

\* The escaped text is the pieces of its characters one after the other.
LEMMA EscapeIsFlat ==
    ASSUME NEW t \in Seq(Chars)
    PROVE  \E E \in [0 .. Len(t) -> Seq(Chars)] :
              /\ E[0] = <<>> /\ \A k \in 1 .. Len(t) : E[k] = E[k - 1] \o Piece(t[k])
              /\ Escape(t) = E[Len(t)]
<1>. DEFINE n == Len(t)
            seqs == [i \in 1 .. n |-> Piece(t[i])]
            st == [k \in 1 .. n |-> [u \in Seq(Chars) |-> u \o Piece(t[k])]]
<1>0. n \in Nat /\ \A k \in 1 .. n : t[k] \in Chars /\ Piece(t[k]) \in Seq(Chars)
  BY LenProperties, ElementOfSeq, PieceFacts
<1>1. st \in [1 .. n -> [Seq(Chars) -> Seq(Chars)]]
  BY <1>0, ConcatProperties
<1>2. <<>> \in Seq(Chars)
  OBVIOUS
<1>3. PICK E \in [0 .. n -> Seq(Chars)] :
          E[0] = <<>> /\ \A k \in 1 .. n : E[k] = st[k][E[k - 1]]
  <2>. DEFINE V == Seq(Chars)
              v == <<>>
  <2>1. n \in Nat /\ v \in V /\ Steps(V, n, st)
    BY <1>0, <1>1 DEF Steps
  <2>. HIDE DEF st, n, V, v
  <2>2. \E E : Iteration(V, v, n, st, E)
    BY <2>1, Iterated
  <2>. QED
    BY <2>2 DEF V, v, Iteration
<1>4. \A k \in 1 .. n : E[k] = E[k - 1] \o Piece(t[k])
  <2>1. ASSUME NEW k \in 1 .. n PROVE E[k] = E[k - 1] \o Piece(t[k])
    <3>1. k - 1 \in 0 .. n /\ E[k - 1] \in Seq(Chars)
      BY <1>0
    <3>. QED
      BY <1>3, <3>1
  <2>. QED
    BY <2>1
<1>. HIDE DEF st
<1>5. Escape(t) = FlattenSeq(seqs) /\ Len(seqs) = n
  BY <1>0 DEF Escape, Piece
<1>6. Escape(t) = E[n]
  <2>1. CASE n = 0
    BY <1>3, <1>5, <2>1 DEF FlattenSeq
  <2>2. CASE n # 0
    <3>. DEFINE Flat(f) == f = [i \in 1 .. n |-> IF i = 1 THEN seqs[i] ELSE f[i - 1] \o seqs[i]]
                h == CHOOSE f : Flat(f)
                g == [i \in 1 .. n |-> E[i]]
                T == {k \in 0 .. n : k > 0 => h[k] = E[k]}
    <3>1. Escape(t) = h[n]
      <4>. HIDE DEF seqs
      <4>. QED
        BY <1>5, <2>2 DEF FlattenSeq
    <3>2. ASSUME NEW i \in 1 .. n
          PROVE  E[i] = IF i = 1 THEN seqs[i] ELSE E[i - 1] \o seqs[i]
      <4>1. i = 1 => E[i] = <<>> \o seqs[i]
        <5>1. i = 1 => i - 1 = 0 /\ seqs[i] = Piece(t[i])
          OBVIOUS
        <5>. HIDE DEF seqs
        <5>. QED
          BY <1>3, <1>4, <5>1
      <4>2. seqs[i] \in Seq(Chars)
        BY <1>0
      <4>3. <<>> \o seqs[i] = seqs[i]
        BY <4>2, ConcatEmptySeq
      <4>. QED
        BY <1>4, <4>1, <4>3
    <3>3. Flat(g)
      <4>1. \A i \in 1 .. n : i # 1 => i - 1 \in 1 .. n
        BY <1>0
      <4>. HIDE DEF seqs
      <4>. QED
        BY <3>2, <4>1
    <3>4. Flat(h)
      <4>. HIDE DEF Flat
      <4>. QED
        BY <3>3
    <3>. HIDE DEF h
    <3>. HIDE DEF seqs, n
    <3>5. ASSUME NEW k \in 1 .. n, k - 1 \in T PROVE k \in T
      <4>1. h[k] = IF k = 1 THEN seqs[k] ELSE h[k - 1] \o seqs[k]
        BY <3>4
      <4>2. k # 1 => h[k - 1] = E[k - 1]
        BY <1>0, <3>5
      <4>3. k \in 0 .. n
        BY <1>0
      <4>. QED
        BY <3>2, <4>1, <4>2, <4>3
    <3>6. 0 \in T
      BY <1>0
    <3>7. n \in T
      <4>1. \A k \in 1 .. n : k - 1 \in T => k \in T
        BY <3>5
      <4>2. n \in Nat
        BY <1>0
      <4>. HIDE DEF T
      <4>3. \A k \in 0 .. n : k \in T
        BY <3>6, <4>1, <4>2, UpTo
      <4>. QED
        BY <4>2, <4>3
    <3>. QED
      BY <1>0, <2>2, <3>1, <3>7
  <2>. QED
    BY <2>1, <2>2
<1>. QED
  BY <1>3, <1>4, <1>6

\* Where the characters of a text are in the escaped text: the first k of
\* them end at Z[k].
Places(t, Z) ==
    LET s == Escape(t)
    IN  /\ Z \in [0 .. Len(t) -> Nat] /\ Z[0] = 0 /\ Z[Len(t)] = Len(s)
        /\ \A k \in 1 .. Len(t) :
              /\ Z[k] <= Len(s)
              /\ t[k] # Q => Z[k] = Z[k - 1] + 1 /\ s[Z[k - 1] + 1] = t[k]
              /\ t[k] = Q => /\ Z[k] = Z[k - 1] + 4
                             /\ s[Z[k - 1] + 1] = Q /\ s[Z[k - 1] + 2] = B
                             /\ s[Z[k - 1] + 3] = Q /\ s[Z[k - 1] + 4] = Q

LEMMA EscapePlaces ==
    ASSUME NEW t \in Seq(Chars)
    PROVE  Escape(t) \in Seq(Chars) /\ \E Z : Places(t, Z)
<1>. DEFINE n == Len(t)
            s == Escape(t)
<1>0. n \in Nat /\ \A k \in 1 .. n : t[k] \in Chars
  BY LenProperties, ElementOfSeq
<1>1. PICK E \in [0 .. n -> Seq(Chars)] :
          E[0] = <<>> /\ (\A k \in 1 .. n : E[k] = E[k - 1] \o Piece(t[k])) /\ s = E[n]
  BY EscapeIsFlat
<1>. HIDE DEF n, s
<1>2. s \in Seq(Chars) /\ \A k \in 0 .. n : E[k] \in Seq(Chars) /\ Len(E[k]) \in Nat
  BY <1>0, <1>1, LenProperties
<1>b. \A k \in 1 .. n : k \in 0 .. n /\ k - 1 \in 0 .. n
  BY <1>0
<1>3. ASSUME NEW k \in 1 .. n
      PROVE  LET p == Piece(t[k])
             IN  /\ Len(E[k]) = Len(E[k - 1]) + Len(p) /\ Len(p) \in Nat
                 /\ \A j \in 1 .. Len(E[k - 1]) : E[k][j] = E[k - 1][j]
                 /\ \A j \in 1 .. Len(p) : E[k][Len(E[k - 1]) + j] = p[j]
  <2>. DEFINE p == Piece(t[k])
              u == E[k - 1]
  <2>1. u \in Seq(Chars) /\ p \in Seq(Chars) /\ E[k] = u \o p
    <3>1. u \in Seq(Chars) /\ E[k] = u \o p
      BY <1>1, <1>b
    <3>2. p \in Seq(Chars)
      BY <1>0, PieceFacts
    <3>. QED
      BY <3>1, <3>2
  <2>. HIDE DEF p, u
  <2>2. Len(u) \in Nat /\ Len(p) \in Nat
    BY <2>1, LenProperties
  <2>3. /\ Len(E[k]) = Len(u) + Len(p)
        /\ \A j \in 1 .. Len(u) + Len(p) : E[k][j] = IF j <= Len(u) THEN u[j] ELSE p[j - Len(u)]
    BY <2>1, ConcatProperties
  <2>4. \A j \in 1 .. Len(u) : E[k][j] = u[j]
    BY <2>2, <2>3
  <2>5. ASSUME NEW j \in 1 .. Len(p) PROVE E[k][Len(u) + j] = p[j]
    <3>1. Len(u) + j \in 1 .. Len(u) + Len(p) /\ ~(Len(u) + j <= Len(u)) /\ Len(u) + j - Len(u) = j
      BY <2>2
    <3>. QED
      BY <2>3, <3>1
  <2>. QED
    BY <2>2, <2>3, <2>4, <2>5 DEF p, u
<1>. DEFINE T == {k \in 0 .. n : /\ Len(E[k]) <= Len(s)
                                 /\ \A j \in 1 .. Len(E[k]) : s[j] = E[k][j]}
<1>4. \A k \in 0 .. n : k \in T
  <2>1. n \in T
    BY <1>0, <1>1, <1>2
  <2>2. ASSUME NEW k \in 1 .. n, k \in T PROVE k - 1 \in T
    <3>1. Len(E[k]) \in Nat /\ Len(E[k - 1]) \in Nat /\ Len(E[k - 1]) <= Len(E[k])
      <4>1. Len(E[k]) \in Nat /\ Len(E[k - 1]) \in Nat
        BY <1>2, <1>b
      <4>2. \E m \in Nat : Len(E[k]) = Len(E[k - 1]) + m
        BY <1>3
      <4>. QED
        BY <4>1, <4>2
    <3>2. \A j \in 1 .. Len(E[k - 1]) : s[j] = E[k - 1][j]
      <4>1. \A j \in 1 .. Len(E[k - 1]) : E[k][j] = E[k - 1][j]
        BY <1>3
      <4>2. \A j \in 1 .. Len(E[k - 1]) : j \in 1 .. Len(E[k])
        BY <3>1
      <4>. QED
        BY <2>2, <4>1, <4>2
    <3>3. Len(E[k - 1]) <= Len(s)
      <4>1. Len(s) \in Nat
        BY <1>0, <1>1, <1>2
      <4>. QED
        BY <2>2, <3>1, <4>1
    <3>. QED
      BY <1>b, <3>2, <3>3
  <2>3. n \in Nat
    BY <1>0
  <2>. HIDE DEF T
  <2>. QED
    BY <2>1, <2>2, <2>3, DownFrom
<1>. DEFINE Z == [k \in 0 .. n |-> Len(E[k])]
<1>5. Z \in [0 .. n -> Nat] /\ Z[0] = 0 /\ Z[n] = Len(s)
  BY <1>0, <1>1, <1>2
<1>6. ASSUME NEW k \in 1 .. n
      PROVE  /\ Z[k] <= Len(s)
             /\ t[k] # Q => Z[k] = Z[k - 1] + 1 /\ s[Z[k - 1] + 1] = t[k]
             /\ t[k] = Q => /\ Z[k] = Z[k - 1] + 4
                            /\ s[Z[k - 1] + 1] = Q /\ s[Z[k - 1] + 2] = B
                            /\ s[Z[k - 1] + 3] = Q /\ s[Z[k - 1] + 4] = Q
  <2>. DEFINE p == Piece(t[k])
              z == Len(E[k - 1])
  <2>1. /\ Z[k - 1] = z /\ z \in Nat /\ Z[k] = z + Len(p) /\ Z[k] = Len(E[k]) /\ Len(p) \in Nat
        /\ \A j \in 1 .. Len(p) : E[k][z + j] = p[j]
    <3>1. Z[k - 1] = z /\ z \in Nat /\ Z[k] = Len(E[k])
      BY <1>2, <1>b
    <3>2. /\ Len(E[k]) = z + Len(p) /\ Len(p) \in Nat
          /\ \A j \in 1 .. Len(p) : E[k][z + j] = p[j]
      BY <1>3
    <3>. QED
      BY <3>1, <3>2
  <2>2. k \in T
    BY <1>4
  <2>3. /\ Len(p) = IF t[k] = Q THEN 4 ELSE 1
        /\ t[k] # Q => p[1] = t[k]
        /\ t[k] = Q => p[1] = Q /\ p[2] = B /\ p[3] = Q /\ p[4] = Q
    BY <1>0, PieceFacts
  <2>. HIDE DEF p, z, Z
  <2>4. \A j \in 1 .. Len(p) : s[z + j] = p[j]
    <3>1. \A j \in 1 .. Len(p) : z + j \in 1 .. Len(E[k])
      BY <2>1
    <3>. QED
      BY <2>1, <2>2, <3>1
  <2>5. Z[k] <= Len(s)
    BY <2>1, <2>2
  <2>. HIDE DEF T
  <2>6. CASE t[k] = Q
    <3>1. 1 \in 1 .. Len(p) /\ 2 \in 1 .. Len(p) /\ 3 \in 1 .. Len(p) /\ 4 \in 1 .. Len(p)
      BY <2>3, <2>6
    <3>. QED
      BY <2>1, <2>3, <2>4, <2>5, <2>6, <3>1
  <2>7. CASE t[k] # Q
    <3>1. 1 \in 1 .. Len(p)
      BY <2>3, <2>7
    <3>. QED
      BY <2>1, <2>3, <2>4, <2>5, <2>7, <3>1
  <2>. QED
    BY <2>6, <2>7
<1>7. Places(t, Z)
  <2>. HIDE DEF Z
  <2>. QED
    BY <1>5, <1>6 DEF Places, n, s
<1>. QED
  BY <1>2, <1>7 DEF s

\* the places go up
LEMMA PlacesFacts ==
    ASSUME NEW t \in Seq(Chars), NEW Z, Places(t, Z)
    PROVE  /\ Len(t) \in Nat /\ Len(Escape(t)) \in Nat
           /\ Z[0] = 0 /\ Z[Len(t)] = Len(Escape(t))
           /\ \A k \in 0 .. Len(t) : Z[k] \in Nat
           /\ \A k \in 1 .. Len(t) :
                 /\ k - 1 \in 0 .. Len(t) /\ Z[k - 1] \in Nat /\ Z[k] \in Nat
                 /\ Z[k - 1] < Z[k] /\ Z[k] <= Len(Escape(t))
<1>0. Len(t) \in Nat /\ Len(Escape(t)) \in Nat
  BY LenProperties, EscapePlaces
<1>. DEFINE n == Len(t)
            L == Len(Escape(t))
<1>1. /\ Z \in [0 .. n -> Nat] /\ Z[0] = 0 /\ Z[n] = L
      /\ \A k \in 1 .. n : Z[k] <= L /\ (Z[k] = Z[k - 1] + 1 \/ Z[k] = Z[k - 1] + 4)
  BY DEF Places
<1>. HIDE DEF n, L
<1>2. \A k \in 0 .. n : Z[k] \in Nat
  BY <1>1
<1>3. \A k \in 1 .. n : k \in 0 .. n /\ k - 1 \in 0 .. n
  BY <1>0 DEF n
<1>4. ASSUME NEW k \in 1 .. n
      PROVE  /\ k - 1 \in 0 .. n /\ Z[k - 1] \in Nat /\ Z[k] \in Nat
             /\ Z[k - 1] < Z[k] /\ Z[k] <= L
  <2>1. Z[k - 1] \in Nat /\ Z[k] \in Nat
    BY <1>2, <1>3
  <2>2. Z[k] <= L /\ (Z[k] = Z[k - 1] + 1 \/ Z[k] = Z[k - 1] + 4)
    BY <1>1
  <2>. QED
    BY <1>3, <2>1, <2>2
<1>. QED
  BY <1>0, <1>1, <1>2, <1>4 DEF n, L
-----------------------------------------------------------------------------
(* The sandbox hooks: the failure handler puts them back                   *)

\* The text that is left at place i, from what is left further on.
Unescaped(s, f, i) ==
    IF i > Len(s) THEN <<>>
    ELSE IF IsEscaped(s, i) THEN <<Q>> \o f[i + 4] ELSE <<s[i]>> \o f[i + 1]

\* Unescape is what remains from place 1 on.
LEMMA UnescapeRule ==
    ASSUME NEW s \in Seq(Chars)
    PROVE  \E f : /\ Unescape(s) = f[1]
                  /\ \A i \in 1 .. Len(s) + 1 : f[i] = Unescaped(s, f, i)
<1>. DEFINE L == Len(s)
            Good(k, f) == \A i \in k + 1 .. L + 1 : f[i] = Unescaped(s, f, i)
            T == {k \in 0 .. L : \E f : Good(k, f)}
<1>0. L \in Nat
  BY LenProperties
<1>1. \A i \in 1 .. L : IsEscaped(s, i) => i + 4 \in 1 .. L + 1
  BY <1>0 DEF IsEscaped
<1>2. L \in T
  <2>. DEFINE g == [i \in 1 .. L + 1 |-> <<>>]
  <2>1. ASSUME NEW i \in L + 1 .. L + 1 PROVE g[i] = Unescaped(s, g, i)
    <3>1. i \in 1 .. L + 1 /\ i > L
      BY <1>0
    <3>. QED
      BY <3>1 DEF Unescaped
  <2>2. Good(L, g)
    BY <2>1
  <2>. HIDE DEF Good
  <2>. QED
    BY <1>0, <2>2
<1>3. ASSUME NEW k \in 1 .. L, k \in T PROVE k - 1 \in T
  <2>1. PICK f : Good(k, f)
    BY <1>3
  <2>. DEFINE g == [i \in k .. L + 1 |-> IF i = k THEN Unescaped(s, f, k) ELSE f[i]]
  <2>2. \A i \in k + 1 .. L + 1 : g[i] = f[i]
    BY <1>0
  <2>3. \A i \in k .. L : i + 1 \in k + 1 .. L + 1 /\ (IsEscaped(s, i) => i + 4 \in k + 1 .. L + 1)
    BY <1>0, <1>1
  <2>4. g[k] = Unescaped(s, f, k)
    BY <1>0
  <2>. HIDE DEF g
  <2>5. ASSUME NEW i \in k .. L + 1 PROVE Unescaped(s, g, i) = Unescaped(s, f, i)
    <3>1. CASE i > L
      BY <3>1 DEF Unescaped
    <3>2. CASE ~(i > L)
      <4>1. i \in k .. L
        BY <1>0, <3>2
      <4>. QED
        BY <2>2, <2>3, <4>1 DEF Unescaped
    <3>. QED
      BY <3>1, <3>2
  <2>6. ASSUME NEW i \in k .. L + 1 PROVE g[i] = Unescaped(s, g, i)
    <3>1. CASE i = k
      BY <2>4, <2>5, <3>1
    <3>2. CASE i # k
      <4>1. i \in k + 1 .. L + 1
        BY <1>0, <3>2
      <4>. QED
        BY <2>1, <2>2, <2>5, <4>1
    <3>. QED
      BY <3>1, <3>2
  <2>7. Good(k - 1, g)
    <3>1. k - 1 + 1 = k
      OBVIOUS
    <3>. QED
      BY <2>6, <3>1
  <2>. HIDE DEF Good
  <2>. QED
    BY <1>0, <2>7
<1>4. 0 \in T
  <2>. HIDE DEF T
  <2>1. \A k \in 0 .. L : k \in T
    BY <1>0, <1>2, <1>3, DownFrom
  <2>. QED
    BY <1>0, <2>1
<1>5. PICK f : Good(0, f)
  BY <1>4
<1>. DEFINE Rule(h) == h = [i \in 1 .. L + 1 |-> Unescaped(s, h, i)]
            g == [i \in 1 .. L + 1 |-> f[i]]
            h == CHOOSE x : Rule(x)
<1>6. Rule(g)
  <2>1. \A i \in 1 .. L : i + 1 \in 1 .. L + 1
    BY <1>0
  <2>2. ASSUME NEW i \in 1 .. L + 1 PROVE Unescaped(s, g, i) = f[i]
    <3>1. f[i] = Unescaped(s, f, i)
      BY <1>5
    <3>2. CASE i > L
      BY <3>1, <3>2 DEF Unescaped
    <3>3. CASE ~(i > L)
      <4>1. i \in 1 .. L
        BY <1>0, <3>3
      <4>2. g[i + 1] = f[i + 1] /\ (IsEscaped(s, i) => g[i + 4] = f[i + 4])
        BY <1>1, <2>1, <4>1
      <4>. HIDE DEF g
      <4>. QED
        BY <3>1, <4>2 DEF Unescaped
    <3>. QED
      BY <3>2, <3>3
  <2>. QED
    BY <2>2
<1>7. Rule(h)
  <2>. HIDE DEF Rule
  <2>. QED
    BY <1>6
<1>8. Unescape(s) = h[1]
  BY DEF Unescape, Unescaped
<1>. HIDE DEF h
<1>9. \A i \in 1 .. L + 1 : h[i] = Unescaped(s, h, i)
  BY <1>7
<1>. QED
  BY <1>8, <1>9

LEMMA IsEscapedMeans ==
    ASSUME NEW s \in Seq(Chars), NEW i \in 1 .. Len(s)
    PROVE  IsEscaped(s, i) <=> /\ i + 3 <= Len(s) /\ s[i] = Q
                               /\ s[i + 1] = B /\ s[i + 2] = Q /\ s[i + 3] = Q
<1>0. Len(s) \in Nat
  BY LenProperties
<1>1. SUFFICES ASSUME i + 3 <= Len(s)
               PROVE  SubSeq(s, i, i + 3) = Escaped
                        <=> s[i] = Q /\ s[i + 1] = B /\ s[i + 2] = Q /\ s[i + 3] = Q
  BY DEF IsEscaped
<1>. DEFINE u == SubSeq(s, i, i + 3)
<1>2. /\ u \in Seq(Chars) /\ Len(u) = 4
      /\ u[1] = s[i] /\ u[2] = s[i + 1] /\ u[3] = s[i + 2] /\ u[4] = s[i + 3]
  <2>1. \A j \in i .. i + 3 : s[j] \in Chars
    BY <1>0, <1>1, ElementOfSeq
  <2>2. /\ u \in Seq(Chars)
        /\ Len(u) = IF i <= i + 3 THEN i + 3 - i + 1 ELSE 0
        /\ \A j \in 1 .. i + 3 - i + 1 : u[j] = s[i + j - 1]
    BY <2>1, SubSeqProperties, i \in Int, i + 3 \in Int
  <2>. HIDE DEF u
  <2>. QED
    BY <1>0, <2>2
<1>. HIDE DEF u
<1>3. /\ Escaped \in Seq(Chars) /\ Len(Escaped) = 4
      /\ Escaped[1] = Q /\ Escaped[2] = B /\ Escaped[3] = Q /\ Escaped[4] = Q
  BY DEF Escaped, Chars
<1>4. u = Escaped <=> \A j \in 1 .. 4 : u[j] = Escaped[j]
  BY <1>2, <1>3, SeqEqual
<1>5. (\A j \in 1 .. 4 : u[j] = Escaped[j])
         <=> u[1] = Q /\ u[2] = B /\ u[3] = Q /\ u[4] = Q
  BY <1>3
<1>. QED
  BY <1>2, <1>4, <1>5 DEF u

\* Unescape undoes Escape, whatever backslashes and quotes the text has: from
\* the places of the text's characters, the last one first.
LEMMA EscapeUndone ==
    ASSUME NEW t \in Seq(Chars)
    PROVE  Unescape(Escape(t)) = t
<1>. DEFINE n == Len(t)
            s == Escape(t)
<1>0. n \in Nat /\ s \in Seq(Chars) /\ Len(s) \in Nat
  BY LenProperties, EscapePlaces
<1>1. PICK Z : Places(t, Z)
  BY EscapePlaces
<1>2. PICK f : Unescape(s) = f[1] /\ \A i \in 1 .. Len(s) + 1 : f[i] = Unescaped(s, f, i)
  BY <1>0, UnescapeRule
<1>3. /\ Z[0] = 0 /\ Z[n] = Len(s)
      /\ \A k \in 1 .. n : /\ k - 1 \in 0 .. n /\ Z[k - 1] \in Nat /\ Z[k] \in Nat
                           /\ Z[k - 1] < Z[k] /\ Z[k] <= Len(s)
  BY <1>1, PlacesFacts
<1>4. ASSUME NEW k \in 1 .. n
      PROVE  /\ t[k] # Q => Z[k] = Z[k - 1] + 1 /\ s[Z[k - 1] + 1] = t[k]
             /\ t[k] = Q => /\ Z[k] = Z[k - 1] + 4
                            /\ s[Z[k - 1] + 1] = Q /\ s[Z[k - 1] + 2] = B
                            /\ s[Z[k - 1] + 3] = Q /\ s[Z[k - 1] + 4] = Q
  BY <1>1 DEF Places
<1>. HIDE DEF s, n
<1>. DEFINE T == {k \in 0 .. n : f[Z[k] + 1] = SubSeq(t, k + 1, n)}
<1>5. n \in T
  <2>1. f[Len(s) + 1] = <<>>
    <3>1. Len(s) + 1 \in 1 .. Len(s) + 1 /\ Len(s) + 1 > Len(s)
      BY <1>0
    <3>. QED
      BY <1>2, <3>1 DEF Unescaped
  <2>2. SubSeq(t, n + 1, n) = <<>>
    BY <1>0, SubSeqEmpty
  <2>3. n \in 0 .. n
    BY <1>0
  <2>4. Z[n] + 1 = Len(s) + 1
    BY <1>3
  <2>. QED
    BY <2>1, <2>2, <2>3, <2>4
<1>6. ASSUME NEW k \in 1 .. n, k \in T PROVE k - 1 \in T
  <2>. DEFINE i == Z[k - 1] + 1
  <2>0. Len(s) \in Nat /\ Z[k - 1] \in Nat /\ Z[k] \in Nat /\ Z[k - 1] < Z[k] /\ Z[k] <= Len(s)
    BY <1>0, <1>3
  <2>1. i \in 1 .. Len(s)
    BY <2>0
  <2>2. i \in 1 .. Len(s) + 1 /\ ~(i > Len(s))
    BY <1>0, <2>1
  <2>3. SubSeq(t, k, n) = <<t[k]>> \o SubSeq(t, k + 1, n)
    <3>1. k \in 1 .. Len(t) /\ n \in k .. Len(t)
      BY <1>0 DEF n
    <3>. QED
      BY <3>1, SubSeqRecursiveFirst
  <2>4. f[i] = SubSeq(t, k, n)
    <3>1. CASE t[k] = Q
      <4>1. /\ Z[k] = Z[k - 1] + 4 /\ s[Z[k - 1] + 1] = Q /\ s[Z[k - 1] + 2] = B
            /\ s[Z[k - 1] + 3] = Q /\ s[Z[k - 1] + 4] = Q
        BY <1>4, <3>1
      <4>2. /\ i + 3 <= Len(s) /\ s[i] = Q /\ s[i + 1] = B /\ s[i + 2] = Q /\ s[i + 3] = Q
            /\ i + 4 = Z[k] + 1
        <5>1. i + 1 = Z[k - 1] + 2 /\ i + 2 = Z[k - 1] + 3 /\ i + 3 = Z[k - 1] + 4
          BY <2>0
        <5>2. Z[k] = Z[k - 1] + 4
          BY <4>1
        <5>3. i + 3 <= Len(s) /\ i + 4 = Z[k] + 1
          BY <2>0, <5>2
        <5>. QED
          BY <4>1, <5>1, <5>3
      <4>3. IsEscaped(s, i)
        BY <1>0, <2>1, <4>2, IsEscapedMeans
      <4>. HIDE DEF i
      <4>4. f[i] = <<Q>> \o f[i + 4]
        BY <1>2, <2>2, <4>3 DEF Unescaped
      <4>. QED
        BY <1>6, <2>3, <3>1, <4>2, <4>4
    <3>2. CASE t[k] # Q
      <4>1. Z[k] = Z[k - 1] + 1 /\ s[i] = t[k]
        BY <1>4, <3>2
      <4>2. i + 1 = Z[k] + 1
        BY <2>0, <4>1
      <4>3. ~IsEscaped(s, i)
        BY <1>0, <2>1, <3>2, <4>1, IsEscapedMeans
      <4>. HIDE DEF i
      <4>4. f[i] = <<s[i]>> \o f[i + 1]
        BY <1>2, <2>2, <4>3 DEF Unescaped
      <4>. QED
        BY <1>6, <2>3, <4>1, <4>2, <4>4
    <3>. QED
      BY <3>1, <3>2
  <2>5. k - 1 \in 0 .. n /\ k - 1 + 1 = k
    BY <1>0
  <2>. QED
    BY <2>4, <2>5
<1>7. 0 \in T
  <2>1. n \in Nat
    BY <1>0
  <2>. HIDE DEF T
  <2>2. \A k \in 0 .. n : k \in T
    BY <1>5, <1>6, <2>1, DownFrom
  <2>. QED
    BY <2>1, <2>2
<1>8. f[1] = SubSeq(t, 1, n)
  BY <1>3, <1>7
<1>9. SubSeq(t, 1, n) = t
  BY SubSeqFull DEF n
<1>. QED
  BY <1>2, <1>8, <1>9 DEF s
-----------------------------------------------------------------------------
(* The sandbox hooks: what _SANDBOX_CMD_RE captures                        *)

\* The first k characters of the text are taken in by whole steps of the
\* pattern, and no run of backslashes is left half taken.
EvenRun(t, k) ==
    \A i \in 1 .. k + 1 :
        (\A m \in i .. k : t[m] = B) /\ (i = 1 \/ t[i - 1] # B) => \E q \in Nat : k + 1 - i = 2 * q

\* A character that is no backslash ends every run, and two more backslashes
\* leave a run even.
LEMMA NoRun ==
    ASSUME NEW t, NEW k \in Nat, k > 0, t[k] # B
    PROVE  EvenRun(t, k)
<1>1. SUFFICES ASSUME NEW i \in 1 .. k + 1, \A m \in i .. k : t[m] = B
               PROVE  \E q \in Nat : k + 1 - i = 2 * q
  BY DEF EvenRun
<1>2. i <= k => k \in i .. k
  BY <1>1
<1>3. i = k + 1
  BY <1>1, <1>2
<1>4. k + 1 - i = 2 * 0
  BY <1>3
<1>. QED
  BY <1>4

LEMMA TwoMore ==
    ASSUME NEW t, NEW k \in Nat, EvenRun(t, k), t[k + 1] = B
    PROVE  EvenRun(t, k + 2)
<1>1. SUFFICES ASSUME NEW i \in 1 .. k + 3, \A m \in i .. k + 2 : t[m] = B, i = 1 \/ t[i - 1] # B
               PROVE  \E q \in Nat : k + 3 - i = 2 * q
  <2>1. k + 2 + 1 = k + 3
    OBVIOUS
  <2>. QED
    BY <2>1 DEF EvenRun
<1>2. CASE i = k + 3
  <2>1. k + 3 - i = 2 * 0
    BY <1>2
  <2>. QED
    BY <2>1
<1>3. CASE i = k + 2
  <2>1. i # 1 /\ i - 1 = k + 1
    BY <1>3
  <2>. QED
    BY <1>1, <2>1
<1>4. CASE i \in 1 .. k + 1
  <2>1. \A m \in i .. k : t[m] = B
    BY <1>1
  <2>2. PICK q \in Nat : k + 1 - i = 2 * q
    BY <1>1, <1>4, <2>1 DEF EvenRun
  <2>3. k + 3 - i = 2 * (q + 1) /\ q + 1 \in Nat
    BY <1>4, <2>2
  <2>. QED
    BY <2>3
<1>. QED
  BY <1>1, <1>2, <1>3, <1>4

\* A run that would be left half taken makes the text one that is misread.
LEMMA OddRun ==
    ASSUME NEW t \in Seq(Chars), NEW k \in 0 .. Len(t), k < Len(t), EvenRun(t, k),
           t[k + 1] = B, k + 1 = Len(t) \/ t[k + 2] = Q
    PROVE  Misread(t)
<1>0. Len(t) \in Nat /\ k \in Nat
  BY LenProperties
<1>. DEFINE S == {i \in 1 .. k + 1 : \A m \in i .. k + 1 : t[m] = B}
<1>1. PICK i \in S : \A u \in S : i <= u
  <2>1. k + 1 \in S
    BY <1>0
  <2>2. S \subseteq Nat
    BY <1>0
  <2>. HIDE DEF S
  <2>3. S # {}
    BY <2>1
  <2>. QED
    BY <2>2, <2>3, LeastOf
<1>2. i = 1 \/ t[i - 1] # B
  <2>1. SUFFICES ASSUME i # 1, t[i - 1] = B PROVE FALSE
    OBVIOUS
  <2>2. i - 1 \in 1 .. k + 1
    BY <1>0, <2>1
  <2>3. \A m \in i - 1 .. k + 1 : t[m] = B
    <3>1. \A m \in i - 1 .. k + 1 : m = i - 1 \/ m \in i .. k + 1
      BY <1>0
    <3>. QED
      BY <2>1, <3>1
  <2>4. i <= i - 1
    BY <1>1, <2>2, <2>3
  <2>. QED
    BY <2>2, <2>4
<1>3. \A m \in i .. k + 1 : t[m] = B
  OBVIOUS
<1>4. PICK q \in Nat : k + 1 - i = 2 * q
  <2>1. \A m \in i .. k : t[m] = B
    BY <1>0, <1>3
  <2>. QED
    BY <1>2, <2>1 DEF EvenRun
<1>5. (k + 1 - i) % 2 = 0
  BY <1>4
<1>6. i \in 1 .. Len(t) /\ k + 1 \in i .. Len(t) /\ k + 1 + 1 = k + 2
  BY <1>0
<1>. HIDE DEF S
<1>. QED
  BY <1>2, <1>3, <1>5, <1>6 DEF Misread

\* The places after the steps of the pattern, and those of them with a quote.
Ends(s, at) == {i \in {at[k] : k \in 0 .. Len(s)} : i \in 1 .. Len(s) /\ s[i] = Q}

\* Captured is the text before the last quote among them.
LEMMA CapturedRule ==
    ASSUME NEW s \in Seq(Chars)
    PROVE  \E at : /\ at[0] = 1 /\ \A k \in 1 .. Len(s) : at[k] = After(s, at[k - 1])
                   /\ Closings(s) = Ends(s, at)
                   /\ Captured(s) = SubSeq(s, 1, Max(Ends(s, at)) - 1)
<1>. DEFINE N == Len(s)
            Goes(a) == a = [k \in 0 .. Len(s) |-> IF k = 0 THEN 1 ELSE After(s, a[k - 1])]
            at == CHOOSE a : Goes(a)
<1>0. N \in Nat
  BY LenProperties
<1>1. Closings(s) = Ends(s, at) /\ Captured(s) = SubSeq(s, 1, Max(Ends(s, at)) - 1)
  <2>1. Closings(s) = Ends(s, at)
    BY DEF Closings, Ends
  <2>. QED
    BY <2>1 DEF Captured
<1>2. Goes(at)
  <2>. DEFINE st == [k \in 1 .. N |-> [u \in Nat |-> After(s, u)]]
              one == 1
              V == Nat
  <2>1. \A u \in Nat : After(s, u) \in Nat
    BY <1>0 DEF After
  <2>. HIDE DEF N
  <2>2. N \in Nat /\ one \in V /\ Steps(V, N, st)
    BY <1>0, <2>1 DEF Steps
  <2>3. \A k \in 1 .. N, u \in V : st[k][u] = After(s, u)
    OBVIOUS
  <2>. HIDE DEF st, one, V
  <2>5. PICK a : Iteration(V, one, N, st, a)
    BY <2>2, Iterated
  <2>6. a \in [0 .. N -> V] /\ a[0] = 1 /\ \A k \in 1 .. N : a[k] = st[k][a[k - 1]]
    BY <2>5 DEF Iteration, one
  <2>7. ASSUME NEW k \in 0 .. N
        PROVE  a[k] = IF k = 0 THEN 1 ELSE After(s, a[k - 1])
    <3>1. CASE k = 0
      BY <2>6, <3>1
    <3>2. CASE k # 0
      <4>1. k \in 1 .. N /\ k - 1 \in 0 .. N
        BY <2>2, <3>2
      <4>. QED
        BY <2>3, <2>6, <3>2, <4>1
    <3>. QED
      BY <3>1, <3>2
  <2>8. Goes(a)
    BY <2>6, <2>7 DEF N
  <2>. HIDE DEF Goes
  <2>. QED
    BY <2>8
<1>. HIDE DEF at
<1>3. \A k \in 0 .. N : at[k] = IF k = 0 THEN 1 ELSE After(s, at[k - 1])
  BY <1>2
<1>4. 0 \in 0 .. N /\ \A k \in 1 .. N : k \in 0 .. N /\ k # 0
  BY <1>0
<1>5. at[0] = 1 /\ \A k \in 1 .. N : at[k] = After(s, at[k - 1])
  BY <1>3, <1>4
<1>. QED
  BY <1>1, <1>5

\* A text that is not misread is captured whole, up to the quote that ends it.
LEMMA CapturedWhole ==
    ASSUME NEW t \in Seq(Chars), ~Misread(t)
    PROVE  /\ Closings(Append(Escape(t), Q)) # {}
           /\ Captured(Append(Escape(t), Q)) = Escape(t)
<1>. DEFINE n == Len(t)
            e == Escape(t)
            L == Len(e)
            s == Append(e, Q)
<1>0. n \in Nat /\ e \in Seq(Chars) /\ L \in Nat
  BY LenProperties, EscapePlaces
<1>1. PICK Z : Places(t, Z)
  BY EscapePlaces
<1>2. /\ Z[0] = 0 /\ Z[n] = L /\ \A k \in 0 .. n : Z[k] \in Nat
      /\ \A k \in 1 .. n : /\ k - 1 \in 0 .. n /\ Z[k - 1] \in Nat /\ Z[k] \in Nat
                           /\ Z[k - 1] < Z[k] /\ Z[k] <= L
  BY <1>1, PlacesFacts
<1>3. ASSUME NEW k \in 1 .. n
      PROVE  /\ t[k] # Q => Z[k] = Z[k - 1] + 1 /\ e[Z[k - 1] + 1] = t[k]
             /\ t[k] = Q => /\ Z[k] = Z[k - 1] + 4
                            /\ e[Z[k - 1] + 1] = Q /\ e[Z[k - 1] + 2] = B
                            /\ e[Z[k - 1] + 3] = Q /\ e[Z[k - 1] + 4] = Q
  BY <1>1 DEF Places
<1>4. /\ s \in Seq(Chars) /\ Len(s) = L + 1 /\ s[L + 1] = Q
      /\ \A i \in 1 .. L : s[i] = e[i]
  BY <1>0, Q \in Chars, AppendProperties DEF Chars
<1>. HIDE DEF n, e, L
<1>. HIDE DEF s
<1>5. PICK at : /\ at[0] = 1 /\ \A k \in 1 .. Len(s) : at[k] = After(s, at[k - 1])
                /\ Closings(s) = Ends(s, at)
                /\ Captured(s) = SubSeq(s, 1, Max(Ends(s, at)) - 1)
  BY <1>4, CapturedRule
<1>7. at[0] = 1 /\ \A k \in 1 .. L + 1 : at[k] = After(s, at[k - 1])
  BY <1>4, <1>5
<1>. DEFINE ends == Ends(s, at)
<1>. DEFINE Reached(k) == \E m \in 0 .. Z[k] : at[m] = Z[k] + 1
            V == {k \in 0 .. n : Reached(k) /\ EvenRun(t, k)}
<1>8. 0 \in V
  <2>1. EvenRun(t, 0)
    <3>1. SUFFICES ASSUME NEW i \in 1 .. 0 + 1 PROVE \E q \in Nat : 0 + 1 - i = 2 * q
      BY DEF EvenRun
    <3>2. 0 + 1 - i = 2 * 0
      OBVIOUS
    <3>. QED
      BY <3>2
  <2>2. Reached(0)
    BY <1>2, <1>7
  <2>. HIDE DEF Reached
  <2>. QED
    BY <1>0, <2>1, <2>2
\* a step of the pattern
<1>9. ASSUME NEW k \in 0 .. n, k < n, Reached(k), NEW j \in 1 .. n, k < j, Z[k] < Z[j],
             After(s, Z[k] + 1) = Z[j] + 1
      PROVE  Reached(j)
  <2>1. PICK m \in 0 .. Z[k] : at[m] = Z[k] + 1
    BY <1>9
  <2>2. Z[k] \in Nat /\ Z[j] \in Nat /\ Z[j] <= L
    BY <1>2
  <2>3. m + 1 \in 1 .. L + 1 /\ m + 1 \in 0 .. Z[j] /\ m + 1 - 1 = m
    BY <1>0, <1>9, <2>2
  <2>4. at[m + 1] = Z[j] + 1
    BY <1>7, <1>9, <2>1, <2>3
  <2>. QED
    BY <2>3, <2>4
<1>10. PICK g \in V : \A u \in V : u <= g
  <2>1. V # {} /\ V \subseteq 0 .. n
    BY <1>8
  <2>. HIDE DEF V
  <2>. QED
    BY <1>0, <2>1, GreatestOf
<1>11. g = n
  <2>1. SUFFICES ASSUME g < n PROVE FALSE
    BY <1>0
  <2>. DEFINE p == Z[g] + 1
  <2>2. /\ g \in Nat /\ g + 1 \in 1 .. n /\ g + 1 - 1 = g
        /\ Z[g] \in Nat /\ Z[g + 1] \in Nat /\ Z[g] < Z[g + 1] /\ Z[g + 1] <= L
    BY <1>0, <1>2, <2>1
  <2>3. p \in 1 .. L /\ p \in 1 .. Len(s) /\ s[p] = e[p] /\ p < Len(s) /\ p # 0 /\ ~(p > Len(s))
    BY <1>0, <1>4, <2>2
  <2>4. t[g + 1] \in Chars
    BY <1>0, <2>2, ElementOfSeq DEF n
  <2>5. Reached(g) /\ EvenRun(t, g)
    OBVIOUS
  <2>. HIDE DEF Reached
  <2>6. CASE t[g + 1] = Q
    <3>1. /\ Z[g + 1] = Z[g] + 4
          /\ e[Z[g] + 1] = Q /\ e[Z[g] + 2] = B /\ e[Z[g] + 3] = Q /\ e[Z[g] + 4] = Q
      BY <1>3, <2>2, <2>6
    <3>2. /\ Z[g] + 2 \in 1 .. L /\ Z[g] + 3 \in 1 .. L /\ Z[g] + 4 \in 1 .. L
          /\ p + 1 = Z[g] + 2 /\ p + 2 = Z[g] + 3 /\ p + 3 = Z[g] + 4 /\ p + 3 <= Len(s)
          /\ p + 4 = Z[g + 1] + 1
      <4>1. /\ Z[g] \in Nat /\ L \in Nat /\ Z[g + 1] = Z[g] + 4 /\ Z[g + 1] <= L
            /\ Len(s) = L + 1
        BY <1>0, <1>4, <2>2, <3>1
      <4>2. Z[g] + 4 <= L
        BY <4>1
      <4>3. /\ Z[g] + 2 \in 1 .. L /\ Z[g] + 3 \in 1 .. L /\ Z[g] + 4 \in 1 .. L
            /\ p + 3 <= L + 1
        BY <4>1, <4>2
      <4>4. p + 1 = Z[g] + 2 /\ p + 2 = Z[g] + 3 /\ p + 3 = Z[g] + 4 /\ p + 4 = Z[g] + 4 + 1
        BY <4>1
      <4>. HIDE DEF p
      <4>. QED
        BY <4>1, <4>3, <4>4
    <3>3. s[p] = Q /\ s[p + 1] = B /\ s[p + 2] = Q /\ s[p + 3] = Q
      <4>1. s[Z[g] + 2] = B /\ s[Z[g] + 3] = Q /\ s[Z[g] + 4] = Q
        BY <1>4, <3>1, <3>2
      <4>2. s[p] = Q
        BY <2>3, <3>1
      <4>. HIDE DEF p
      <4>. QED
        BY <3>2, <4>1, <4>2
    <3>4. IsEscaped(s, p)
      BY <1>4, <2>3, <3>2, <3>3, IsEscapedMeans
    <3>. HIDE DEF p
    <3>5. After(s, p) = p + 4
      BY <2>3, <3>3, <3>4 DEF After, Q, B
    <3>6. Reached(g + 1)
      BY <1>9, <2>1, <2>2, <2>5, <3>2, <3>5 DEF p
    <3>7. EvenRun(t, g + 1)
      BY <2>2, <2>6, NoRun DEF Q, B
    <3>8. g + 1 \in V
      BY <2>2, <3>6, <3>7
    <3>. HIDE DEF V
    <3>. QED
      BY <1>10, <2>2, <3>8
  <2>7. CASE t[g + 1] # Q /\ t[g + 1] # B
    <3>1. Z[g + 1] = Z[g] + 1 /\ s[p] = t[g + 1]
      BY <1>3, <2>2, <2>3, <2>7
    <3>2. p + 1 = Z[g + 1] + 1
      BY <2>2, <3>1
    <3>. HIDE DEF p
    <3>5. After(s, p) = p + 1
      BY <2>3, <2>7, <3>1 DEF After
    <3>6. Reached(g + 1)
      BY <1>9, <2>1, <2>2, <2>5, <3>2, <3>5 DEF p
    <3>7. EvenRun(t, g + 1)
      BY <2>2, <2>7, NoRun
    <3>8. g + 1 \in V
      BY <2>2, <3>6, <3>7
    <3>. HIDE DEF V
    <3>. QED
      BY <1>10, <2>2, <3>8
  <2>8. CASE t[g + 1] = B
    <3>0. ~(g + 1 = n \/ t[g + 2] = Q)
      BY <2>1, <2>5, <2>8, OddRun DEF n
    <3>1. g + 2 \in 1 .. n /\ g + 2 - 1 = g + 1 /\ t[g + 2] # Q /\ g < g + 2
      BY <1>0, <2>1, <2>2, <3>0
    <3>2. Z[g + 1] = Z[g] + 1 /\ s[p] = B /\ Z[g + 2] = Z[g + 1] + 1
      BY <1>3, <2>2, <2>3, <2>8, <3>1 DEF Q, B
    <3>3. p + 2 = Z[g + 2] + 1 /\ Z[g] < Z[g + 2]
      <4>1. Z[g + 1] = Z[g] + 1 /\ Z[g + 2] = Z[g + 1] + 1
        BY <3>2
      <4>. QED
        BY <2>2, <4>1
    <3>. HIDE DEF p
    <3>5. After(s, p) = p + 2
      BY <2>3, <3>2 DEF After, Q, B
    <3>6. Reached(g + 2)
      BY <1>9, <2>1, <2>5, <3>1, <3>3, <3>5 DEF p
    <3>7. EvenRun(t, g + 2)
      BY <2>2, <2>5, <2>8, TwoMore
    <3>8. g + 2 \in V
      BY <3>1, <3>6, <3>7
    <3>. HIDE DEF V
    <3>. QED
      BY <1>10, <2>2, <3>1, <3>8
  <2>. QED
    BY <2>6, <2>7, <2>8
<1>12. L + 1 \in ends
  <2>1. PICK m \in 0 .. L : at[m] = L + 1
    BY <1>2, <1>11
  <2>2. m \in 0 .. Len(s) /\ L + 1 \in 1 .. Len(s)
    BY <1>0, <1>4
  <2>. QED
    BY <1>4, <2>1, <2>2 DEF Ends
<1>13. Max(ends) = L + 1
  <2>1. ends \subseteq 0 .. L + 1 /\ ends # {} /\ L + 1 \in Nat
    BY <1>0, <1>4, <1>12 DEF Ends
  <2>. HIDE DEF ends
  <2>. DEFINE N == L + 1
              M == Max(ends)
  <2>2. N \in Nat /\ ends \subseteq 0 .. N /\ ends # {} /\ N \in ends
    BY <1>12, <2>1
  <2>. HIDE DEF N
  <2>3. M \in ends /\ \A y \in ends : y <= M
    BY <2>2, GreatestOf
  <2>. HIDE DEF M
  <2>4. M = N
    BY <2>2, <2>3
  <2>. QED
    BY <2>4 DEF M, N
<1>14. Captured(s) = SubSeq(s, 1, L)
  <2>1. Max(ends) - 1 = L
    BY <1>0, <1>13
  <2>. QED
    BY <1>5, <2>1
<1>15. SubSeq(s, 1, L) = e
  <2>. DEFINE u == SubSeq(s, 1, L)
  <2>1. \A j \in 1 .. L : s[j] \in Chars
    BY <1>0, <1>4, ElementOfSeq
  <2>2. u \in Seq(Chars) /\ Len(u) = (IF 1 <= L THEN L - 1 + 1 ELSE 0)
        /\ \A j \in 1 .. L - 1 + 1 : u[j] = s[1 + j - 1]
    BY <1>0, <2>1, SubSeqProperties, 1 \in Int, L \in Int
  <2>. HIDE DEF u
  <2>3. Len(u) = Len(e) /\ \A j \in 1 .. Len(u) : u[j] = e[j]
    BY <1>0, <1>4, <2>2 DEF L
  <2>. QED
    BY <1>0, <2>2, <2>3, SeqEqual DEF u
<1>16. Closings(s) # {}
  BY <1>5, <1>12
<1>. QED
  BY <1>14, <1>15, <1>16 DEF s, e

\* The failure handler gets back the text that bash -c was given, of whatever
\* length, unless it is one that is misread.
THEOREM TextComesBack ==
    \A t \in Seq(Chars) : ~Misread(t) => Unescape(Captured(Append(Escape(t), Q))) = t
  BY CapturedWhole, EscapeUndone
-----------------------------------------------------------------------------
(* The sandbox hooks: the command                                          *)

LEMMA BoundedIsSeq ==
    ASSUME NEW S, NEW m \in Nat, NEW u \in BoundedSeq(S, m)
    PROVE  u \in Seq(S)
  BY DEF BoundedSeq, SeqOf

\* the commands of the agent
LEMMA ShellFacts ==
    ASSUME NEW c \in ShellCommands
    PROVE  /\ c = [sudo |-> c.sudo, options |-> c.options, text |-> c.text, marks |-> c.marks]
           /\ c.sudo \in BOOLEAN /\ c.options \in Seq(SudoOptions)
           /\ c.text \in Seq(Chars) /\ c.text # <<>>
<1>1. /\ c = [sudo |-> c.sudo, options |-> c.options, text |-> c.text, marks |-> c.marks]
      /\ c.sudo \in BOOLEAN /\ c.options \in BoundedSeq(SudoOptions, MaxOptions)
      /\ c.text \in BoundedSeq(Chars, MaxText) /\ c.text # <<>>
  BY DEF ShellCommands
<1>. QED
  BY <1>1, BoundedIsSeq, GuardAssumption DEF GuardAssumption

\* Options in the order of the pattern go with sudo.
LEMMA OrderLeavesNothing ==
    ASSUME NEW options \in Seq(SudoOptions), InOrder(options)
    PROVE  Rest(options) = <<>>
<1>. DEFINE n == Len(options)
            matched == {k \in 0 .. n : InOrder(SubSeq(options, 1, k))}
            m == Max(matched)
<1>1. n \in Nat
  BY LenProperties
<1>2. n \in matched
  <2>1. SubSeq(options, 1, n) = options
    BY SubSeqFull
  <2>2. n \in 0 .. n
    BY <1>1
  <2>. QED
    BY <2>1, <2>2
<1>3. matched \subseteq 0 .. n /\ matched # {}
  BY <1>2
<1>4. Rest(options) = SubSeq(options, m + 1, n)
  BY DEF Rest
<1>. HIDE DEF n, matched
<1>5. m \in matched /\ \A k \in matched : k <= m
  BY <1>1, <1>3, GreatestOf
<1>. HIDE DEF m
<1>6. m = n
  BY <1>1, <1>2, <1>3, <1>5
<1>7. SubSeq(options, n + 1, n) = <<>>
  BY <1>1, SubSeqEmpty
<1>. QED
  BY <1>4, <1>6, <1>7

LEMMA StripKeeps ==
    ASSUME NEW c \in ShellCommands, HadSudo(c) => InOrder(c.options)
    PROVE  StripSudo(c) \in {c, [c EXCEPT !.sudo = FALSE, !.options = <<>>]}
<1>1. CASE HadSudo(c)
  <2>1. Rest(c.options) = <<>>
    BY <1>1, ShellFacts, OrderLeavesNothing
  <2>. QED
    BY <1>1, <2>1 DEF StripSudo
<1>2. CASE ~HadSudo(c)
  BY <1>2 DEF StripSudo
<1>. QED
  BY <1>1, <1>2

\* What the failure handler finds in the sandbox's command line, unless the
\* text is misread.
LEMMA ExtractFinds ==
    ASSUME NEW c \in ShellCommands, NEW p, HadSudo(c) \/ ~Misread(c.text)
    PROVE  Extract([Build(c) EXCEPT !.policy = p]) = c
<1>. DEFINE l == [Build(c) EXCEPT !.policy = p]
            found == Unescape(Captured(Append(Escape(StripSudo(c).text), Q)))
<1>1. /\ l.restore = IF HadSudo(c) THEN c ELSE NoCommand
      /\ l.inner = StripSudo(c) /\ l.body = Append(Escape(StripSudo(c).text), Q)
  BY DEF Build
<1>. HIDE DEF l
<1>2. CASE HadSudo(c)
  <2>1. c # NoCommand
    BY <1>2 DEF HadSudo, NoCommand
  <2>. QED
    BY <1>1, <1>2, <2>1 DEF Extract, l
<1>3. CASE ~HadSudo(c)
  <2>1. StripSudo(c) = c
    BY <1>3 DEF StripSudo
  <2>2. /\ c = [sudo |-> c.sudo, options |-> c.options, text |-> c.text, marks |-> c.marks]
        /\ c.text \in Seq(Chars)
    BY ShellFacts
  <2>3. Closings(l.body) # {} /\ found = c.text
    BY <1>1, <1>3, <2>1, <2>2, CapturedWhole, EscapeUndone
  <2>. HIDE DEF found
  <2>4. Extract(l) = [c EXCEPT !.text = found]
    BY <1>1, <1>3, <2>1, <2>3 DEF Extract, found
  <2>5. [c EXCEPT !.text = found] = c
    BY <2>2, <2>3
  <2>. QED
    BY <2>4, <2>5 DEF l
<1>. QED
  BY <1>2, <1>3

\* the invariant of the hooks, which is inductive
GuardInv ==
    /\ handled = "none" => runs = <<>> /\ ~failed /\ offered = NoCommand
    /\ handled # "none" => shell \in ShellCommands
    /\ handled = "allow" => runs \in {<<shell>>, <<StripSudo(shell)>>}
    /\ handled = "sandbox" => \E p : runs = <<[Build(shell) EXCEPT !.policy = p]>>
    /\ handled \notin {"allow", "sandbox"} => runs = <<>>
    /\ failed => handled = "sandbox"
    /\ offered # NoCommand => failed /\ offered = Extract(runs[1])

LEMMA GuardInvInit == GuardInit => GuardInv
  BY DEF GuardInit, GuardInv

LEMMA GuardInvNext == GuardInv /\ [GuardNext]_guardVars => GuardInv'
<1>. SUFFICES ASSUME GuardInv, [GuardNext]_guardVars PROVE GuardInv'
  OBVIOUS
<1>1. CASE Ask
  <2>1. handled = "none" /\ shell' \in ShellCommands /\ ~failed' /\ offered' = NoCommand
    BY <1>1 DEF Ask, GuardInv
  <2>2. CASE handled' = "block" /\ runs' = <<>>
    BY <2>1, <2>2 DEF GuardInv
  <2>3. CASE handled' = "sandbox" /\ \E p : runs' = <<[Build(shell') EXCEPT !.policy = p]>>
    BY <2>1, <2>3 DEF GuardInv
  <2>4. CASE handled' = "allow" /\ runs' \in {<<shell'>>, <<StripSudo(shell')>>}
    BY <2>1, <2>4 DEF GuardInv
  <2>. QED
    BY <1>1, <2>2, <2>3, <2>4 DEF Ask
<1>2. CASE Fail
  BY <1>2 DEF Fail, GuardInv
<1>3. CASE HandleFailure
  <2>1. /\ failed /\ offered' \in {NoCommand, Extract(runs[1])}
        /\ UNCHANGED <<shell, root, handled, runs, failed, logged>>
    BY <1>3 DEF HandleFailure
  <2>. QED
    BY <2>1 DEF GuardInv
<1>4. CASE NextCommand
  BY <1>4 DEF NextCommand, GuardInv
<1>5. CASE UNCHANGED guardVars
  BY <1>5 DEF guardVars, GuardInv
<1>. QED
  BY <1>1, <1>2, <1>3, <1>4, <1>5 DEF GuardNext

LEMMA GuardInvKept == GuardInv => CommandKept
<1>. SUFFICES ASSUME GuardInv PROVE CommandKept
  OBVIOUS
<1>. DEFINE inner == IF handled = "sandbox" THEN runs[1].inner ELSE runs[1]
<1>1. ASSUME runs # <<>>, HadSudo(shell) => InOrder(shell.options)
      PROVE  inner \in {shell, [shell EXCEPT !.sudo = FALSE, !.options = <<>>]}
  <2>1. shell \in ShellCommands /\ handled \in {"allow", "sandbox"}
    BY <1>1 DEF GuardInv
  <2>2. StripSudo(shell) \in {shell, [shell EXCEPT !.sudo = FALSE, !.options = <<>>]}
    BY <1>1, <2>1, StripKeeps
  <2>3. inner \in {shell, StripSudo(shell)}
    <3>1. CASE handled = "allow"
      BY <3>1 DEF GuardInv
    <3>2. CASE handled = "sandbox"
      <4>1. PICK p : runs = <<[Build(shell) EXCEPT !.policy = p]>>
        BY <3>2 DEF GuardInv
      <4>2. runs[1].inner = StripSudo(shell)
        BY <4>1 DEF Build
      <4>. QED
        BY <3>2, <4>2
    <3>. QED
      BY <2>1, <3>1, <3>2
  <2>. QED
    BY <2>2, <2>3
<1>2. ASSUME offered # NoCommand, HadSudo(shell) \/ ~Misread(shell.text)
      PROVE  offered = shell
  <2>1. /\ failed /\ handled = "sandbox" /\ shell \in ShellCommands
        /\ offered = Extract(runs[1])
    BY <1>2 DEF GuardInv
  <2>2. PICK p : runs = <<[Build(shell) EXCEPT !.policy = p]>>
    BY <2>1 DEF GuardInv
  <2>3. runs[1] = [Build(shell) EXCEPT !.policy = p]
    BY <2>2
  <2>. QED
    BY <1>2, <2>1, <2>3, ExtractFinds
<1>. QED
  BY <1>1, <1>2 DEF CommandKept

\* What runs is the user's command with or without sudo and its options, and
\* what is offered after a failure in the sandbox is the whole command, but
\* for options that are out of order and texts that are misread.
THEOREM CommandIsKept == GuardSpec => []CommandKept
<1>1. GuardSpec => []GuardInv
  BY GuardInvInit, GuardInvNext, PTL DEF GuardSpec
<1>. QED
  BY <1>1, GuardInvKept, PTL
=============================================================================
