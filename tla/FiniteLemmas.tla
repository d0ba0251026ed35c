---------------------------- MODULE FiniteLemmas ----------------------------
(***************************************************************************)
(* Least, greatest and fresh elements of finite sets, finite sets in an    *)
(* order of keys, and sums over finite sets: what the choices and folds    *)
(* that the services' min, max, "next number", ORDER BY and sum become     *)
(* really give.                                                            *)
(***************************************************************************)
EXTENDS Integers, FiniteSetsExt, FiniteSetTheorems, TLAPS

-----------------------------------------------------------------------------
(* Least and greatest elements of finite sets. *)

\* A finite nonempty set has an element with the least value.
LEMMA LeastExists ==
    ASSUME NEW D, IsFiniteSet(D), D # {}, NEW f, \A x \in D : f[x] \in Int
    PROVE  \E p \in D : \A q \in D : f[p] <= f[q]
<1> DEFINE Good(A) == \E p \in A : \A q \in A : f[p] <= f[q]
           Bad == {A \in FiniteSubsetsOf(D) : A # {} /\ ~Good(A)}
<1>1. Bad = {}
  <2> SUFFICES ASSUME Bad # {} PROVE FALSE
    OBVIOUS
  <2>1. Bad \subseteq FiniteSubsetsOf(D)
    OBVIOUS
  <2>2. \E A \in Bad : \A B \in Bad : ~ (<<B, A>> \in StrictSubsetOrdering(D))
    <3> HIDE DEF Bad
    <3> QED BY <2>1, FS_StrictSubsetOrderingWellFounded, WFMin
  <2>3. PICK A \in Bad : \A B \in Bad : ~ (<<B, A>> \in StrictSubsetOrdering(D))
    BY <2>2
  <2>4. A \subseteq D /\ IsFiniteSet(A) /\ A # {} /\ ~Good(A)
    BY DEF FiniteSubsetsOf
  <2>5. PICK a \in A : TRUE
    BY <2>4
  <2> DEFINE B == A \ {a}
  <2>6. IsFiniteSet(B)
    BY <2>4, FS_RemoveElement
  <2>7. B \in FiniteSubsetsOf(D) /\ <<B, A>> \in StrictSubsetOrdering(D)
    BY <2>4, <2>5, <2>6 DEF FiniteSubsetsOf, StrictSubsetOrdering
  <2>8. B = {} \/ Good(B)
    BY <2>3, <2>7
  <2>9. CASE B = {}
    <3>1. A = {a}
      BY <2>5, <2>9
    <3>2. f[a] \in Int
      BY <2>4, <2>5
    <3> QED BY <3>1, <3>2, <2>4
  <2>10. CASE Good(B)
    <3>1. PICK b \in B : \A q \in B : f[b] <= f[q]
      BY <2>10
    <3>2. f[a] \in Int /\ f[b] \in Int /\ \A q \in A : f[q] \in Int
      BY <2>4, <2>5
    <3>3. CASE f[a] <= f[b]
      <4>1. \A q \in A : f[a] <= f[q]
        BY <3>1, <3>2, <3>3
      <4> QED BY <4>1, <2>4, <2>5
    <3>4. CASE f[b] <= f[a]
      <4>1. \A q \in A : f[b] <= f[q]
        BY <3>1, <3>2, <3>4
      <4> QED BY <4>1, <2>4
    <3> QED BY <3>2, <3>3, <3>4
  <2> QED BY <2>8, <2>9, <2>10
<1>2. D \in FiniteSubsetsOf(D)
  BY DEF FiniteSubsetsOf
<1> QED BY <1>1, <1>2

\* Max is the greatest element of a finite nonempty set of integers.
LEMMA MaxIsGreatest ==
    ASSUME NEW S \in SUBSET Int, IsFiniteSet(S), S # {}
    PROVE  Max(S) \in S /\ \A x \in S : x <= Max(S)
<1> DEFINE f == [x \in S |-> -x]
<1>1. \A x \in S : f[x] \in Int
  OBVIOUS
<1>2. \E p \in S : \A q \in S : f[p] <= f[q]
  <2> HIDE DEF f
  <2> QED BY <1>1, LeastExists
<1>3. \E p \in S : \A q \in S : p >= q
  BY <1>2
<1> QED BY <1>3 DEF Max

\* Min is the least element of a finite nonempty set of integers.
LEMMA MinIsLeast ==
    ASSUME NEW S \in SUBSET Int, IsFiniteSet(S), S # {}
    PROVE  Min(S) \in S /\ \A x \in S : Min(S) <= x
<1> DEFINE f == [x \in S |-> x]
<1>1. \A x \in S : f[x] \in Int
  OBVIOUS
<1>2. \E p \in S : \A q \in S : f[p] <= f[q]
  <2> HIDE DEF f
  <2> QED BY <1>1, LeastExists
<1> QED BY <1>2 DEF Min

\* So a fresh key is positive and new.
LEMMA FreshKeys ==
    ASSUME NEW S \in SUBSET Nat, IsFiniteSet(S)
    PROVE  Max(S \cup {0}) + 1 \in Nat \ {0} /\ Max(S \cup {0}) + 1 \notin S
<1> DEFINE T == S \cup {0}
<1>1. IsFiniteSet(T) /\ T \in SUBSET Int /\ T # {} /\ T \subseteq Nat /\ S \subseteq T
  BY FS_AddElement
<1>2. Max(T) \in T /\ \A x \in T : x <= Max(T)
  <2> HIDE DEF T
  <2> QED BY <1>1, MaxIsGreatest
<1> DEFINE m == Max(T)
<1>3. m \in Nat /\ \A x \in S : x <= m
  <2> HIDE DEF T
  <2> QED BY <1>1, <1>2
<1> HIDE DEF m
<1>4. m + 1 \in Nat \ {0} /\ m + 1 \notin S
  BY <1>3
<1> QED BY <1>4 DEF m

-----------------------------------------------------------------------------
(* Finite sets in an order of keys. *)

\* Keys that tell the elements of S apart, S listed in their order, and a list that has
\* every element once.
TellApart(key, S) ==
    (\A x \in S : key[x] \in Int) /\ \A x, y \in S : key[x] = key[y] => x = y
Sorted(f, key, S) ==
    /\ f \in [1..Cardinality(S) -> S]
    /\ \A i, j \in 1..Cardinality(S) : i < j => key[f[i]] < key[f[j]]
EachOnce(f, S) ==
    /\ \A i, j \in 1..Cardinality(S) : f[i] = f[j] => i = j
    /\ \A x \in S : \E i \in 1..Cardinality(S) : f[i] = x

\* A finite set can be listed in the order of keys that tell its elements apart.
LEMMA SortedExists ==
    ASSUME NEW S, NEW key, IsFiniteSet(S), TellApart(key, S)
    PROVE  \E f : Sorted(f, key, S)
<1> DEFINE Good(A) == \E f : Sorted(f, key, A)
           Bad == {A \in FiniteSubsetsOf(S) : ~Good(A)}
<1>1. Bad = {}
  <2> SUFFICES ASSUME Bad # {} PROVE FALSE
    OBVIOUS
  <2>1. Bad \subseteq FiniteSubsetsOf(S)
    OBVIOUS
  <2>2. \E A \in Bad : \A B \in Bad : ~ (<<B, A>> \in StrictSubsetOrdering(S))
    <3> HIDE DEF Bad
    <3> QED BY <2>1, FS_StrictSubsetOrderingWellFounded, WFMin
  <2>3. PICK A \in Bad : \A B \in Bad : ~ (<<B, A>> \in StrictSubsetOrdering(S))
    BY <2>2
  <2>4. A \in SUBSET S /\ IsFiniteSet(A) /\ ~Good(A)
    BY DEF FiniteSubsetsOf
  <2>5. A # {}
    <3> SUFFICES ASSUME A = {} PROVE FALSE
      OBVIOUS
    <3>1. Cardinality(A) = 0 /\ 1..0 = {}
      BY FS_EmptySet
    <3>2. [i \in 1..0 |-> 0] \in [1..Cardinality(A) -> A]
      BY <3>1
    <3>3. Sorted([i \in 1..0 |-> 0], key, A)
      BY <3>1, <3>2 DEF Sorted
    <3> QED BY <3>3, <2>4
  <2>6. PICK m \in A : \A x \in A : key[x] <= key[m]
    <3> DEFINE back == [x \in A |-> -key[x]]
    <3>1. \A x \in A : key[x] \in Int /\ back[x] \in Int /\ back[x] = -key[x]
      BY <2>4 DEF TellApart
    <3> HIDE DEF back
    <3>2. \E p \in A : \A q \in A : back[p] <= back[q]
      BY <2>4, <2>5, <3>1, LeastExists
    <3>3. PICK p \in A : \A q \in A : back[p] <= back[q]
      BY <3>2
    <3>4. \A q \in A : key[q] <= key[p]
      <4> SUFFICES ASSUME NEW q \in A PROVE key[q] <= key[p]
        OBVIOUS
      <4>1. -key[p] <= -key[q] /\ key[p] \in Int /\ key[q] \in Int
        BY <3>1, <3>3
      <4> QED BY <4>1
    <3> QED BY <3>4
  <2> DEFINE B == A \ {m}
             n == Cardinality(B)
  <2>7. IsFiniteSet(B) /\ Cardinality(A) = n + 1 /\ n \in Nat
    <3>1. IsFiniteSet(B) /\ n = Cardinality(A) - 1
      BY <2>4, <2>6, FS_RemoveElement
    <3> QED BY <3>1, <2>4, FS_CardinalityType
  <2>8. B \in FiniteSubsetsOf(S) /\ <<B, A>> \in StrictSubsetOrdering(S)
    BY <2>4, <2>6, <2>7 DEF FiniteSubsetsOf, StrictSubsetOrdering
  <2>9. Good(B)
    BY <2>3, <2>8
  <2>10. PICK f : /\ f \in [1..n -> B]
                    /\ \A i, j \in 1..n : i < j => key[f[i]] < key[f[j]]
    BY <2>9 DEF Sorted
  <2> DEFINE g == [i \in 1..(n + 1) |-> IF i <= n THEN f[i] ELSE m]
  <2> HIDE DEF n
  <2>11. \A i \in 1..n : f[i] \in A /\ key[f[i]] < key[m]
    <3>1. \A x \in B : x \in A /\ key[x] < key[m]
      <4> SUFFICES ASSUME NEW x \in B PROVE x \in A /\ key[x] < key[m]
        OBVIOUS
      <4>1. x \in S /\ m \in S /\ x # m /\ key[x] <= key[m] /\ key[x] \in Int /\ key[m] \in Int
        BY <2>4, <2>6 DEF TellApart
      <4>2. key[x] # key[m]
        BY <4>1 DEF TellApart
      <4> QED BY <4>1, <4>2
    <3>2. \A i \in 1..n : f[i] \in B
      BY <2>10
    <3> HIDE DEF B
    <3> QED BY <3>1, <3>2
  <2>12. g \in [1..(n + 1) -> A]
    BY <2>6, <2>7, <2>11
  <2>13. ASSUME NEW i \in 1..(n + 1), NEW j \in 1..(n + 1), i < j
         PROVE  key[g[i]] < key[g[j]]
    <3>1. i \in 1..n /\ g[i] = f[i] /\ (j \in 1..n \/ j = n + 1)
      BY <2>7, <2>13
    <3>2. CASE j \in 1..n
      <4>1. g[j] = f[j]
        BY <2>7, <3>2
      <4> QED BY <2>10, <2>13, <3>1, <3>2, <4>1
    <3>3. CASE j = n + 1
      <4>1. g[j] = m
        BY <2>7, <3>3
      <4> QED BY <2>11, <3>1, <4>1
    <3> QED BY <3>1, <3>2, <3>3
  <2> HIDE DEF g
  <2>14. Sorted(g, key, A)
    BY <2>7, <2>12, <2>13 DEF Sorted
  <2> QED BY <2>4, <2>14
<1>2. S \in FiniteSubsetsOf(S)
  BY DEF FiniteSubsetsOf
<1> QED BY <1>1, <1>2

\* Such a list has every element once.
LEMMA SortedCovers ==
    ASSUME NEW S, NEW key, NEW f, IsFiniteSet(S), TellApart(key, S), Sorted(f, key, S)
    PROVE  EachOnce(f, S)
<1> DEFINE n == Cardinality(S)
<1>1. n \in Nat
  BY FS_CardinalityType
<1>2. IsFiniteSet(1..n) /\ Cardinality(1..n) = n
  <2> HIDE DEF n
  <2>1. 1 \in Int /\ n \in Int
    BY <1>1
  <2>2. IsFiniteSet(1..n) /\ Cardinality(1..n) = IF 1 > n THEN 0 ELSE n - 1 + 1
    BY <2>1, FS_Interval
  <2> QED BY <2>2, <1>1
<1>3. \A i, j \in 1..n : f[i] = f[j] => i = j
  <2>1. \A i \in 1..n : key[f[i]] \in Int
    BY DEF Sorted, TellApart
  <2> HIDE DEF n
  <2> SUFFICES ASSUME NEW i \in 1..n, NEW j \in 1..n, f[i] = f[j], i # j PROVE FALSE
    OBVIOUS
  <2>2. i < j \/ j < i
    BY <1>1
  <2>3. key[f[i]] < key[f[j]] \/ key[f[j]] < key[f[i]]
    BY <2>2 DEF Sorted, n
  <2> QED BY <2>1, <2>3
<1>4. f \in Injection(1..n, S)
  BY <1>3 DEF Injection, IsInjective, Sorted
<1>5. f \in Surjection(1..n, S)
  <2> HIDE DEF n
  <2> QED BY <1>2, <1>4, FS_Injection DEF n
<1> QED BY <1>3, <1>5 DEF Surjection, EachOnce

\* And there is no other.
LEMMA SortedOnce ==
    ASSUME NEW S, NEW key, NEW f, NEW g, IsFiniteSet(S), TellApart(key, S),
           Sorted(f, key, S), Sorted(g, key, S)
    PROVE  f = g
<1> DEFINE n == Cardinality(S)
           Bad == {i \in 1..n : f[i] # g[i]}
<1>1. n \in Nat
  BY FS_CardinalityType
<1>2. /\ \A x \in S : \E i \in 1..n : f[i] = x
      /\ \A x \in S : \E i \in 1..n : g[i] = x
  <2>1. EachOnce(f, S) /\ EachOnce(g, S)
    BY SortedCovers
  <2> QED BY <2>1 DEF EachOnce
<1>3. /\ \A i \in 1..n : f[i] \in S /\ g[i] \in S
      /\ \A i, j \in 1..n : i < j => key[f[i]] < key[f[j]] /\ key[g[i]] < key[g[j]]
      /\ \A x \in S : key[x] \in Int
  BY DEF Sorted, TellApart
<1> HIDE DEF n
<1>4. Bad = {}
  <2> SUFFICES ASSUME Bad # {} PROVE FALSE
    OBVIOUS
  <2>1. IsFiniteSet(Bad) /\ Bad \in SUBSET Int /\ Bad \subseteq 1..n
    <3>1. IsFiniteSet(1..n)
      BY <1>1, FS_Interval
    <3>2. Bad \subseteq 1..n
      OBVIOUS
    <3>3. 1..n \subseteq Int
      BY <1>1
    <3> HIDE DEF Bad
    <3>4. IsFiniteSet(Bad)
      BY <3>1, <3>2, FS_Subset
    <3> QED BY <3>2, <3>3, <3>4
  <2>2. Min(Bad) \in Bad /\ \A i \in Bad : Min(Bad) <= i
    <3> HIDE DEF Bad
    <3> QED BY <2>1, MinIsLeast
  <2> DEFINE i == Min(Bad)
  <2>3. i \in 1..n /\ f[i] # g[i]
    BY <2>2
  <2>4. \A k \in 1..n : k < i => f[k] = g[k]
    <3> SUFFICES ASSUME NEW k \in 1..n, k < i, k \in Bad PROVE FALSE
      OBVIOUS
    <3>1. i <= k
      BY <2>2
    <3> HIDE DEF i
    <3> QED BY <1>1, <2>3, <3>1
  <2> HIDE DEF i, Bad
  <2>5. PICK k \in 1..n : g[k] = f[i]
    BY <1>2, <1>3, <2>3
  <2>6. PICK l \in 1..n : f[l] = g[i]
    BY <1>2, <1>3, <2>3
  <2>7. i < k
    <3>1. ~(k < i)
      <4> SUFFICES ASSUME k < i PROVE FALSE
        OBVIOUS
      <4>1. f[k] = f[i] /\ key[f[k]] < key[f[i]] /\ key[f[i]] \in Int
        BY <1>3, <2>3, <2>4, <2>5
      <4> QED BY <4>1
    <3>2. k # i
      BY <2>3, <2>5
    <3> QED BY <1>1, <2>3, <3>1, <3>2
  <2>8. i < l
    <3>1. ~(l < i)
      <4> SUFFICES ASSUME l < i PROVE FALSE
        OBVIOUS
      <4>1. g[l] = g[i] /\ key[g[l]] < key[g[i]] /\ key[g[i]] \in Int
        BY <1>3, <2>3, <2>4, <2>6
      <4> QED BY <4>1
    <3>2. l # i
      BY <2>3, <2>6
    <3> QED BY <1>1, <2>3, <3>1, <3>2
  <2>9. key[g[i]] < key[f[i]] /\ key[f[i]] < key[g[i]] /\ key[g[i]] \in Int /\ key[f[i]] \in Int
    BY <1>3, <2>3, <2>5, <2>6, <2>7, <2>8
  <2> QED BY <2>9
<1>5. f \in [1..n -> S] /\ g \in [1..n -> S]
  BY DEF n, Sorted
<1>6. \A i \in 1..n : f[i] = g[i]
  BY <1>4
<1>7. f = [i \in 1..n |-> f[i]] /\ g = [i \in 1..n |-> g[i]]
  BY <1>5
<1>8. [i \in 1..n |-> f[i]] = [i \in 1..n |-> g[i]]
  BY <1>6
<1> QED BY <1>7, <1>8

-----------------------------------------------------------------------------
(* Finite sets of integers in order. *)

Rising(f, n) == \A i, j \in 1..n : i < j => f[i] < f[j]

\* A finite set of integers can be listed in increasing order.
LEMMA RisingExists ==
    ASSUME NEW S \in SUBSET Int, IsFiniteSet(S)
    PROVE  \E f \in [1..Cardinality(S) -> S] : Rising(f, Cardinality(S))
<1> DEFINE key == [x \in S |-> x]
<1>1. TellApart(key, S)
  BY DEF TellApart
<1>2. \E f : Sorted(f, key, S)
  <2> HIDE DEF key
  <2> QED BY <1>1, SortedExists
<1>3. \A f : Sorted(f, key, S) => f \in [1..Cardinality(S) -> S] /\ Rising(f, Cardinality(S))
  BY DEF Sorted, Rising
<1> QED BY <1>2, <1>3

\* Such a list has every element once.
LEMMA RisingCovers ==
    ASSUME NEW S \in SUBSET Int, IsFiniteSet(S),
           NEW f \in [1..Cardinality(S) -> S], Rising(f, Cardinality(S))
    PROVE  /\ \A i, j \in 1..Cardinality(S) : f[i] = f[j] => i = j
           /\ \A x \in S : \E i \in 1..Cardinality(S) : f[i] = x
<1> DEFINE key == [x \in S |-> x]
<1>1. TellApart(key, S)
  BY DEF TellApart
<1>2. Sorted(f, key, S)
  BY DEF Sorted, Rising
<1>3. EachOnce(f, S)
  <2> HIDE DEF key
  <2> QED BY <1>1, <1>2, SortedCovers
<1> QED BY <1>3 DEF EachOnce

-----------------------------------------------------------------------------
(* Sums over finite sets. *)

\* One element's g, and what is counted in h for the others: how MapThenSumSet adds
\* up.
SumStep(g, h, s) == IF s = {} THEN 0
                    ELSE LET x == CHOOSE x \in s : TRUE IN g[x] + h[s \ {x}]

IsSum(g, h, S) == h = [s \in SUBSET S |-> SumStep(g, h, s)]

SumsTo(g, S, n) == (\E h : IsSum(g, h, S)) /\ \A h : IsSum(g, h, S) => h[S] = n

\* f counts nothing for no element, and for some what it counts for all but one and
\* the g of that one.
CountsUp(g, f, S) ==
    f[{}] = 0 /\ \A A \in SUBSET S : \A x \in A : f[A] = g[x] + f[A \ {x}]

\* Then it is a sum.
LEMMA SumExists ==
    ASSUME NEW S, NEW g, NEW f, CountsUp(g, f, S)
    PROVE  \E h : IsSum(g, h, S)
<1> DEFINE h == [s \in SUBSET S |-> f[s]]
<1>1. ASSUME NEW s \in SUBSET S PROVE f[s] = SumStep(g, h, s)
  <2>1. CASE s = {}
    BY <2>1 DEF SumStep, CountsUp
  <2>2. CASE s # {}
    <3> DEFINE x == CHOOSE x \in s : TRUE
    <3>1. x \in s /\ s \ {x} \in SUBSET S
      BY <2>2
    <3>2. h[s \ {x}] = f[s \ {x}]
      BY <3>1
    <3> QED BY <2>2, <3>1, <3>2 DEF SumStep, CountsUp
  <2> QED BY <2>1, <2>2
<1>2. IsSum(g, h, S)
  BY <1>1 DEF IsSum
<1> QED BY <1>2

\* On a finite set there is no other sum.
LEMMA SumIsTheSum ==
    ASSUME NEW S, NEW g, NEW f, NEW h, IsFiniteSet(S), CountsUp(g, f, S), IsSum(g, h, S)
    PROVE  h[S] = f[S]
<1> DEFINE Bad == {A \in FiniteSubsetsOf(S) : h[A] # f[A]}
<1>1. Bad = {}
  <2> SUFFICES ASSUME Bad # {} PROVE FALSE
    OBVIOUS
  <2>1. Bad \subseteq FiniteSubsetsOf(S)
    OBVIOUS
  <2>2. \E A \in Bad : \A B \in Bad : ~ (<<B, A>> \in StrictSubsetOrdering(S))
    <3> HIDE DEF Bad
    <3> QED BY <2>1, FS_StrictSubsetOrderingWellFounded, WFMin
  <2>3. PICK A \in Bad : \A B \in Bad : ~ (<<B, A>> \in StrictSubsetOrdering(S))
    BY <2>2
  <2>4. A \in SUBSET S /\ h[A] # f[A]
    BY DEF FiniteSubsetsOf
  <2>5. h[A] = SumStep(g, h, A)
    BY <2>4 DEF IsSum
  <2>6. A # {}
    BY <2>4, <2>5 DEF SumStep, CountsUp
  <2> DEFINE x == CHOOSE x \in A : TRUE
             rest == A \ {x}
  <2>7. x \in A /\ rest \in SUBSET S
    BY <2>4, <2>6
  <2>8. rest \in FiniteSubsetsOf(S) /\ <<rest, A>> \in StrictSubsetOrdering(S)
    <3>1. IsFiniteSet(rest)
      BY <2>7, FS_Subset
    <3> QED BY <2>4, <2>7, <3>1 DEF FiniteSubsetsOf, StrictSubsetOrdering
  <2>9. h[rest] = f[rest]
    BY <2>3, <2>8
  <2>10. h[A] = g[x] + h[rest]
    BY <2>5, <2>6 DEF SumStep
  <2>11. f[A] = g[x] + f[rest]
    BY <2>4, <2>7 DEF CountsUp
  <2> QED BY <2>4, <2>9, <2>10, <2>11
<1>2. S \in FiniteSubsetsOf(S)
  BY DEF FiniteSubsetsOf
<1> QED BY <1>1, <1>2

\* The sum of g over S.
LEMMA SumOfValues ==
    ASSUME NEW S, NEW g, NEW f, IsFiniteSet(S), CountsUp(g, f, S)
    PROVE  MapThenSumSet(LAMBDA i : g[i], S) = f[S]
<1> DEFINE iter == CHOOSE h : h = [s \in SUBSET S |-> SumStep(g, h, s)]
<1>1. MapThenSumSet(LAMBDA i : g[i], S) = iter[S]
  BY DEF MapThenSumSet, MapThenFoldSet, SumStep
<1>2. \E h : h = [s \in SUBSET S |-> SumStep(g, h, s)]
  <2>1. \E h : IsSum(g, h, S)
    BY SumExists
  <2> QED BY <2>1 DEF IsSum
<1>3. IsSum(g, iter, S)
  BY <1>2 DEF IsSum
<1> HIDE DEF iter
<1>4. iter[S] = f[S]
  BY <1>3, SumIsTheSum
<1> QED BY <1>1, <1>4

\* The sum of the `used' of the elements of S.
LEMMA SumOfUsed ==
    ASSUME NEW S, IsFiniteSet(S), NEW f,
           f[{}] = 0,
           \A A \in SUBSET S : \A x \in A : f[A] = x.used + f[A \ {x}]
    PROVE  MapThenSumSet(LAMBDA line : line.used, S) = f[S]
<1> DEFINE Step(h, s) == IF s = {} THEN 0
                         ELSE LET x == CHOOSE x \in s : TRUE IN x.used + h[s \ {x}]
           iter == CHOOSE h : h = [s \in SUBSET S |-> Step(h, s)]
           g == [x \in S |-> x.used]
<1>1. MapThenSumSet(LAMBDA line : line.used, S) = iter[S]
  BY DEF MapThenSumSet, MapThenFoldSet
<1>2. ASSUME NEW h, NEW s \in SUBSET S PROVE SumStep(g, h, s) = Step(h, s)
  <2>1. CASE s = {}
    BY <2>1 DEF SumStep
  <2>2. CASE s # {}
    <3>1. (CHOOSE x \in s : TRUE) \in S
      BY <2>2
    <3> QED BY <2>2, <3>1 DEF SumStep
  <2> QED BY <2>1, <2>2
<1>3. CountsUp(g, f, S)
  BY DEF CountsUp
<1> HIDE DEF g
<1>4. \E h : IsSum(g, h, S)
  BY <1>3, SumExists
<1>5. ASSUME NEW h PROVE IsSum(g, h, S) <=> h = [s \in SUBSET S |-> Step(h, s)]
  <2> HIDE DEF Step
  <2>1. [s \in SUBSET S |-> SumStep(g, h, s)] = [s \in SUBSET S |-> Step(h, s)]
    BY ONLY <1>2, SMTT(30)
  <2> QED BY <2>1, ZenonT(40) DEF IsSum
<1>6. IsSum(g, iter, S)
  <2>1. PICK h : h = [s \in SUBSET S |-> Step(h, s)]
    <3> HIDE DEF Step
    <3> QED BY ONLY <1>4, <1>5, ZenonT(40)
  <2>2. iter = [s \in SUBSET S |-> Step(iter, s)]
    <3> HIDE DEF Step
    <3> QED BY ONLY <2>1, ZenonT(40) DEF iter
  <2> QED BY ONLY <1>5, <2>2, ZenonT(40)
<1> HIDE DEF iter
<1>7. iter[S] = f[S]
  BY <1>3, <1>6, SumIsTheSum
<1> QED BY <1>1, <1>7

\* Of the things D, those of the owners A.
OwnedBy(A, D, owner) == {d \in D : owner[d] \in A}

\* How many each owner has adds up to how many the owners have together.
LEMMA CountsAddUp ==
    ASSUME NEW S, NEW D, NEW owner, NEW g, IsFiniteSet(S), IsFiniteSet(D),
           \A x \in S : g[x] = Cardinality(OwnedBy({x}, D, owner))
    PROVE  SumsTo(g, S, Cardinality(OwnedBy(S, D, owner)))
<1> DEFINE Of(A) == OwnedBy(A, D, owner)
           f == [A \in SUBSET S |-> Cardinality(Of(A))]
<1>1. f[{}] = 0
  <2>1. Of({}) = {}
    BY DEF OwnedBy
  <2>2. Cardinality(Of({})) = 0
    BY <2>1, FS_EmptySet
  <2> QED BY <2>2
<1>2. ASSUME NEW A \in SUBSET S, NEW x \in A PROVE f[A] = g[x] + f[A \ {x}]
  <2> DEFINE his == Of({x})
             others == Of(A \ {x})
             all == Of(A)
  <2>1. his \subseteq D /\ others \subseteq D /\ his \cap others = {} /\ his \cup others = all
    BY DEF OwnedBy
  <2>2. f[A] = Cardinality(all) /\ f[A \ {x}] = Cardinality(others) /\ g[x] = Cardinality(his)
    OBVIOUS
  <2> HIDE DEF his, others, all, f
  <2>3. IsFiniteSet(his) /\ IsFiniteSet(others)
    BY <2>1, FS_Subset
  <2>4. Cardinality(his \cup others) = Cardinality(his) + Cardinality(others) - Cardinality(his \cap others)
    BY <2>3, FS_Union
  <2>5. Cardinality(his) \in Nat /\ Cardinality(others) \in Nat /\ Cardinality(his \cap others) = 0
    BY <2>1, <2>3, FS_CardinalityType, FS_EmptySet
  <2>6. Cardinality(his \cup others) = Cardinality(his) + Cardinality(others)
    BY <2>4, <2>5
  <2> QED BY <2>1, <2>2, <2>6
<1>3. f[S] = Cardinality(Of(S))
  OBVIOUS
<1> HIDE DEF f, Of
<1>4. CountsUp(g, f, S)
  BY <1>1, <1>2 DEF CountsUp
<1>5. \E h : IsSum(g, h, S)
  BY <1>4, SumExists
<1>6. ASSUME NEW h, IsSum(g, h, S)
      PROVE  h[S] = f[S]
  BY <1>4, <1>6, SumIsTheSum
<1> QED BY <1>3, <1>5, <1>6 DEF Of, SumsTo
=============================================================================
