---------------------------- MODULE AnswerProofs ----------------------------
(***************************************************************************)
(* The rows of a query, for databases and statements of any size: the      *)
(* pointers of the join stay inside their arrays, get_next_record leaves   *)
(* out no combination of rows, recs holds the row of each combination that *)
(* meets the condition, merge_agr leaves a record for each group with its  *)
(* sums and counts, the answer is sorted as ORDER BY says, and nothing but *)
(* what Harmless excludes ends the process.                                *)
(*                                                                         *)
(* The first argument is about the combinations alone: they are ordered,   *)
(* there are finitely many of them, and moving a pointer leads to the next *)
(* one, so what has been visited is always what comes before the pointers. *)
(* The second follows the values of the rows that were kept: none of them  *)
(* is the end of the process, and merging a group makes no such value of   *)
(* them as long as its columns do not divide.                              *)
(* The third is about qsort: cmp orders values of one kind, so a sorted    *)
(* sequence has its records where their rank says, and equal ones side by  *)
(* side.  With this the fourth follows merge_agr from group to group, each *)
(* a stretch of the sequence, and the way next leads through them.         *)
(***************************************************************************)
EXTENDS Answer, TLAPS, FiniteSetTheorems, SequenceTheorems, WellFoundedInduction

Arrays(a) ==
  /\ \E n \in Nat : DOMAIN a = 1 .. n
  /\ \A i \in DOMAIN a : Len(a[i]) \in Nat

-----------------------------------------------------------------------------
\* A set of numbers has a least member.
LEMMA Least ==
  ASSUME NEW T, T \subseteq Nat, T # {} PROVE \E m \in T : \A x \in T : m <= x
<1>1. PICK m \in T : \A x \in T : ~ (<<x, m>> \in OpToRel(<, Nat))
  BY NatLessThanWellFounded, WFMin
<1>2. \A x \in T : ~ (x < m)
  BY <1>1 DEF OpToRel
<1> QED BY <1>2

\* What a combination is: a position in each array.
LEMMA ComboType ==
  ASSUME NEW a, Arrays(a), NEW t \in Combos(a)
  PROVE  /\ DOMAIN t = DOMAIN a
         /\ \A i \in DOMAIN a : /\ t[i] \in Nat /\ 1 <= t[i]
                                /\ i \in Digits(a) => t[i] <= Len(a[i])
                                /\ i \notin Digits(a) => t[i] = 1
<1>1. PICK n \in Nat : DOMAIN a = 1 .. n
  BY DEF Arrays
<1>2. DOMAIN t = DOMAIN a
  BY DEF Combos
<1>3. ASSUME NEW i \in DOMAIN a
      PROVE  /\ t[i] \in Nat /\ 1 <= t[i]
             /\ i \in Digits(a) => t[i] <= Len(a[i])
             /\ i \notin Digits(a) => t[i] = 1
  <2>1. Len(a[i]) \in Nat
    BY DEF Arrays
  <2>2. t[i] \in IF i \in Digits(a) THEN 1 .. Len(a[i]) ELSE {1}
    BY DEF Combos
  <2> QED BY <2>1, <2>2
<1> QED BY <1>2, <1>3

\* Two combinations are ordered, by the first table whose rows differ.
LEMMA PrecedesTotal ==
  ASSUME NEW a, Arrays(a), NEW s \in Combos(a), NEW t \in Combos(a), s # t
  PROVE  Precedes(s, t) \/ Precedes(t, s)
<1>1. PICK n \in Nat : DOMAIN a = 1 .. n
  BY DEF Arrays
<1>2. /\ DOMAIN s = 1 .. n /\ DOMAIN t = 1 .. n
      /\ \A i \in 1 .. n : s[i] \in Nat /\ t[i] \in Nat
  BY <1>1, ComboType
<1> DEFINE D == {i \in 1 .. n : s[i] # t[i]}
<1>3. D # {}
  <2>1. s \in [1 .. n -> Nat] /\ t \in [1 .. n -> Nat]
    <3>1. s = [i \in DOMAIN s |-> s[i]] /\ t = [i \in DOMAIN t |-> t[i]]
      BY DEF Combos
    <3> QED BY <1>2, <3>1
  <2> QED BY <2>1
<1>4. PICK m \in D : \A x \in D : m <= x
  <2>1. D \subseteq Nat
    OBVIOUS
  <2> HIDE DEF D
  <2> QED BY <1>3, <2>1, Least
<1>5. \A j \in 1 .. m - 1 : s[j] = t[j]
  BY <1>4
<1>6. s[m] < t[m] \/ t[m] < s[m]
  BY <1>2, <1>4
<1> QED BY <1>2, <1>4, <1>5, <1>6 DEF Precedes

LEMMA PrecedesOrder ==
  ASSUME NEW a, Arrays(a), NEW s \in Combos(a), NEW t \in Combos(a), NEW u \in Combos(a)
  PROVE  /\ ~ Precedes(s, s)
         /\ Precedes(s, t) /\ Precedes(t, u) => Precedes(s, u)
<1>1. PICK n \in Nat : DOMAIN a = 1 .. n
  BY DEF Arrays
<1>2. /\ DOMAIN s = 1 .. n /\ DOMAIN t = 1 .. n
      /\ \A i \in 1 .. n : s[i] \in Nat /\ t[i] \in Nat /\ u[i] \in Nat
  BY <1>1, ComboType
<1>3. ~ Precedes(s, s)
  BY <1>2 DEF Precedes
<1>4. ASSUME Precedes(s, t), Precedes(t, u)
      PROVE  Precedes(s, u)
  <2>1. PICK i \in 1 .. n : s[i] < t[i] /\ \A j \in 1 .. i - 1 : s[j] = t[j]
    BY <1>2, <1>4 DEF Precedes
  <2>2. PICK k \in 1 .. n : t[k] < u[k] /\ \A j \in 1 .. k - 1 : t[j] = u[j]
    BY <1>2, <1>4 DEF Precedes
  <2>3. CASE i < k
    <3>1. s[i] < u[i] /\ \A j \in 1 .. i - 1 : s[j] = u[j]
      BY <1>2, <2>1, <2>2, <2>3
    <3> QED BY <1>2, <3>1 DEF Precedes
  <2>4. CASE k <= i
    <3>1. s[k] < u[k]
      <4>1. k = i \/ k \in 1 .. i - 1
        BY <2>4
      <4> QED BY <1>2, <2>1, <2>2, <4>1
    <3>2. \A j \in 1 .. k - 1 : s[j] = u[j]
      BY <2>1, <2>2, <2>4
    <3> QED BY <1>2, <3>1, <3>2 DEF Precedes
  <2> QED BY <2>3, <2>4
<1> QED BY <1>3, <1>4

\* There are finitely many functions between finite sets.
LEMMA FunctionsFinite ==
  ASSUME NEW S, NEW T, IsFiniteSet(S), IsFiniteSet(T)
  PROVE  IsFiniteSet([S -> T])
<1> DEFINE W == S \X T
           g == [f \in [S -> T] |-> {<<x, f[x]>> : x \in S}]
<1>1. IsFiniteSet(W)
  BY FS_Product
<1>2. ASSUME NEW f \in [S -> T]
      PROVE  {<<x, f[x]>> : x \in S} \in SUBSET W
  OBVIOUS
<1> HIDE DEF W
<1>3. IsFiniteSet(SUBSET W)
  BY <1>1, FS_SUBSET
<1>4. g \in [[S -> T] -> SUBSET W]
  BY <1>2
<1>5. ASSUME NEW e \in [S -> T], NEW f \in [S -> T], g[e] = g[f]
      PROVE  e = f
  <2>1. ASSUME NEW x \in S
        PROVE  e[x] = f[x]
    <3>1. <<x, e[x]>> \in {<<y, f[y]>> : y \in S}
      BY <1>5
    <3> QED BY <3>1
  <2> QED BY <2>1
<1>6. g \in Injection([S -> T], SUBSET W)
  BY <1>4, <1>5 DEF Injection, IsInjective
<1> QED BY <1>3, <1>6, FS_Injection

\* So there are finitely many combinations.
LEMMA CombosFinite ==
  ASSUME NEW a, Arrays(a)
  PROVE  IsFiniteSet(Combos(a))
<1>1. PICK n \in Nat : DOMAIN a = 1 .. n
  BY DEF Arrays
<1> DEFINE reached == [i \in DOMAIN a |-> IF i \in Digits(a) THEN 1 .. Len(a[i]) ELSE {1}]
           R == {reached[i] : i \in DOMAIN a}
           U == UNION R
<1>2. IsFiniteSet(DOMAIN a)
  BY <1>1, FS_Interval
<1>3. \A T \in R : IsFiniteSet(T)
  <2>1. ASSUME NEW i \in DOMAIN a
        PROVE  IsFiniteSet(reached[i])
    <3>1. IsFiniteSet({1})
      BY FS_Singleton
    <3>2. Len(a[i]) \in Int /\ 1 \in Int
      BY DEF Arrays
    <3>3. IsFiniteSet(1 .. Len(a[i]))
      BY <3>2, FS_Interval
    <3> QED BY <3>1, <3>3
  <2> QED BY <2>1
<1>4. IsFiniteSet(R)
  <2> DEFINE f == [i \in DOMAIN a |-> reached[i]]
  <2>1. f \in Surjection(DOMAIN a, R)
    BY DEF Surjection
  <2> QED BY <1>2, <2>1, FS_Surjection
<1>5. IsFiniteSet(U)
  BY <1>3, <1>4, FS_UNION
<1>6. Combos(a) \in SUBSET [DOMAIN a -> U]
  BY DEF Combos
<1>7. IsFiniteSet([DOMAIN a -> U])
  BY <1>2, <1>5, FunctionsFinite
<1> QED BY <1>6, <1>7, FS_Subset

-----------------------------------------------------------------------------
\* The loop begins with the first combination.
LEMMA FirstCombo ==
  ASSUME NEW a, Arrays(a)
  PROVE  /\ [i \in DOMAIN a |-> 1] \in Combos(a)
         /\ Before(Combos(a), [i \in DOMAIN a |-> 1]) = {}
<1> DEFINE p == [i \in DOMAIN a |-> 1]
           reached == [i \in DOMAIN a |-> IF i \in Digits(a) THEN 1 .. Len(a[i]) ELSE {1}]
<1>1. ASSUME NEW i \in DOMAIN a
      PROVE  1 \in reached[i]
  <2>1. CASE i \in Digits(a)
    <3>1. DOMAIN a \subseteq Nat
      BY DEF Arrays
    <3>2. Len(a[i]) # 0 /\ Len(a[i]) \in Nat
      BY <2>1, <3>1 DEF Digits, Arrays
    <3> QED BY <2>1, <3>2
  <2>2. CASE i \notin Digits(a)
    BY <2>2
  <2> QED BY <2>1, <2>2
<1>2. p \in Combos(a)
  <2>1. p \in [DOMAIN a -> UNION {reached[i] : i \in DOMAIN a}]
    BY <1>1
  <2> QED BY <1>1, <2>1 DEF Combos
<1>3. ASSUME NEW t \in Combos(a), Precedes(t, p)
      PROVE  FALSE
  <2>1. PICK i \in DOMAIN t : t[i] < p[i]
    BY <1>3 DEF Precedes
  <2>2. i \in DOMAIN a /\ t[i] \in Nat /\ 1 <= t[i]
    BY ComboType
  <2> QED BY <2>1, <2>2
<1> QED BY <1>2, <1>3 DEF Before

\* Whatever comes after a combination has a pointer that can still move on.
LEMMA MoreBehind ==
  ASSUME NEW a, Arrays(a), NEW p \in Combos(a), NEW t \in Combos(a),
         NEW x \in DOMAIN a, p[x] < t[x]
  PROVE  x \in Digits(a) /\ x \in HasMore(a, p)
<1>1. /\ p[x] \in Nat /\ 1 <= p[x] /\ t[x] \in Nat
      /\ x \in Digits(a) => t[x] <= Len(a[x])
      /\ x \notin Digits(a) => t[x] = 1
  BY ComboType
<1>2. Len(a[x]) \in Nat
  BY DEF Arrays
<1>3. x \in Digits(a)
  BY <1>1
<1> QED BY <1>1, <1>2, <1>3 DEF HasMore

\* When the last pointer that can move on has a row behind it, moving it and
\* resetting those behind it gives a combination,
LEMMA MovedCombo ==
  ASSUME NEW a, Arrays(a), NEW p \in Combos(a),
         NEW i \in HasMore(a, p), \A j \in HasMore(a, p) : j <= i,
         Len(a[i]) # 0
  PROVE  Moved(p, i) \in Combos(a)
<1> DEFINE m == Moved(p, i)
           reached == [k \in DOMAIN a |-> IF k \in Digits(a) THEN 1 .. Len(a[k]) ELSE {1}]
<1>1. PICK n \in Nat : DOMAIN a = 1 .. n
  BY DEF Arrays
<1>2. /\ DOMAIN p = 1 .. n /\ i \in 1 .. n
      /\ \A k \in 1 .. n : /\ p[k] \in Nat /\ 1 <= p[k] /\ Len(a[k]) \in Nat
                           /\ p[k] \in reached[k]
  <2>1. i \in 1 .. n
    BY <1>1 DEF HasMore
  <2>2. \A k \in 1 .. n : p[k] \in reached[k]
    BY <1>1 DEF Combos
  <2> QED BY <1>1, <2>1, <2>2, ComboType DEF Arrays
<1>3. m = [k \in 1 .. n |-> IF k < i THEN p[k] ELSE IF k = i THEN p[k] + 1 ELSE 1]
  BY <1>2 DEF Moved
<1> HIDE DEF m
<1>4. \A j \in i .. n : Len(a[j]) # 0
  <2>1. ASSUME NEW j \in i .. n, Len(a[j]) = 0
        PROVE  FALSE
    <3>1. j \in HasMore(a, p)
      BY <1>1, <1>2, <2>1 DEF HasMore
    <3>2. j = i
      BY <1>2, <3>1
    <3> QED BY <2>1, <3>2
  <2> QED BY <2>1
<1>5. \A k \in i .. n : k \in Digits(a)
  BY <1>1, <1>2, <1>4 DEF Digits
<1>6. ASSUME NEW k \in 1 .. n
      PROVE  m[k] \in reached[k]
  <2>1. CASE k < i
    <3>1. m[k] = p[k]
      BY <1>3, <2>1
    <3> QED BY <1>2, <3>1
  <2>2. CASE k = i
    <3>1. m[k] = p[i] + 1
      BY <1>3, <2>2
    <3>2. p[i] < Len(a[i])
      BY <1>4, <1>2 DEF HasMore
    <3>3. k \in Digits(a)
      BY <1>2, <1>5, <2>2
    <3> QED BY <1>1, <1>2, <2>2, <3>1, <3>2, <3>3
  <2>3. CASE k > i
    <3>1. m[k] = 1
      BY <1>2, <1>3, <2>3
    <3>2. k \in Digits(a) /\ Len(a[k]) # 0
      BY <1>2, <1>4, <1>5, <2>3
    <3> QED BY <1>1, <1>2, <3>1, <3>2
  <2> QED BY <1>2, <2>1, <2>2, <2>3
<1>7. m \in [DOMAIN a -> UNION {reached[k] : k \in DOMAIN a}]
  <2>1. DOMAIN m = 1 .. n /\ m = [k \in 1 .. n |-> m[k]]
    BY <1>3
  <2> HIDE DEF reached
  <2> QED BY <1>1, <1>6, <2>1
<1>8. m \in Combos(a)
  BY <1>1, <1>6, <1>7 DEF Combos
<1> QED BY <1>8 DEF m

\* and nothing lies between the two.
LEMMA NothingBetween ==
  ASSUME NEW a, Arrays(a), NEW p \in Combos(a),
         NEW i \in HasMore(a, p), \A j \in HasMore(a, p) : j <= i,
         Len(a[i]) # 0
  PROVE  /\ Precedes(p, Moved(p, i))
         /\ \A t \in Combos(a) : ~ (Precedes(p, t) /\ Precedes(t, Moved(p, i)))
<1> DEFINE m == Moved(p, i)
<1>1. PICK n \in Nat : DOMAIN a = 1 .. n
  BY DEF Arrays
<1>2. DOMAIN p = 1 .. n /\ i \in 1 .. n /\ \A k \in 1 .. n : p[k] \in Nat
  BY <1>1, ComboType DEF HasMore
<1>3. \A k \in 1 .. n : /\ k < i => m[k] = p[k]
                        /\ k = i => m[k] = p[k] + 1
                        /\ k > i => m[k] = 1
  BY <1>1, <1>2 DEF Moved
<1> HIDE DEF m
<1>4. Precedes(p, m)
  <2>1. p[i] < m[i]
    BY <1>2, <1>3
  <2>2. \A j \in 1 .. i - 1 : p[j] = m[j]
    BY <1>2, <1>3
  <2> QED BY <1>2, <2>1, <2>2 DEF Precedes
<1>5. ASSUME NEW t \in Combos(a), Precedes(p, t), Precedes(t, m)
      PROVE  FALSE
  <2>1. DOMAIN t = 1 .. n /\ \A k \in 1 .. n : t[k] \in Nat /\ 1 <= t[k]
    BY <1>1, ComboType
  <2>2. PICK x \in 1 .. n : p[x] < t[x] /\ \A j \in 1 .. x - 1 : p[j] = t[j]
    BY <1>2, <1>5 DEF Precedes
  <2>3. PICK y \in 1 .. n : t[y] < m[y] /\ \A j \in 1 .. y - 1 : t[j] = m[j]
    BY <1>5, <2>1 DEF Precedes
  <2>4. x <= i
    <3>1. x \in HasMore(a, p)
      BY <1>1, <2>2, MoreBehind
    <3> QED BY <3>1
  <2>5. CASE y < x
    <3>1. t[y] = p[y] /\ m[y] = p[y]
      BY <1>2, <1>3, <2>2, <2>4, <2>5
    <3> QED BY <1>2, <2>3, <3>1
  <2>6. CASE y = x
    <3>1. CASE x < i
      BY <1>2, <1>3, <2>1, <2>2, <2>3, <2>6, <3>1
    <3>2. CASE x = i
      BY <1>2, <1>3, <2>1, <2>2, <2>3, <2>6, <3>2
    <3> QED BY <1>2, <2>4, <3>1, <3>2
  <2>7. CASE y > x
    <3>1. t[x] = m[x]
      BY <2>3, <2>7
    <3>2. x = i
      BY <1>2, <1>3, <2>2, <2>4, <3>1
    <3>3. m[y] = 1
      BY <1>3, <2>7, <3>2
    <3> QED BY <2>1, <2>3, <3>3
  <2> QED BY <2>5, <2>6, <2>7
<1> QED BY <1>4, <1>5 DEF m

\* So what has been visited grows by one combination.
LEMMA MovedAdds ==
  ASSUME NEW a, Arrays(a), NEW p \in Combos(a),
         NEW i \in HasMore(a, p), \A j \in HasMore(a, p) : j <= i,
         Len(a[i]) # 0
  PROVE  Before(Combos(a), Moved(p, i)) = Before(Combos(a), p) \cup {p}
<1> DEFINE m == Moved(p, i)
<1>1. m \in Combos(a) /\ Precedes(p, m)
  BY MovedCombo, NothingBetween
<1>2. \A t \in Combos(a) : ~ (Precedes(p, t) /\ Precedes(t, m))
  BY NothingBetween
<1> HIDE DEF m
<1>3. ASSUME NEW t \in Combos(a)
      PROVE  Precedes(t, m) <=> Precedes(t, p) \/ t = p
  <2>1. Precedes(t, p) => Precedes(t, m)
    BY <1>1, PrecedesOrder
  <2>2. Precedes(t, m) => Precedes(t, p) \/ t = p
    BY <1>2, PrecedesTotal
  <2> QED BY <1>1, <2>1, <2>2
<1>4. Before(Combos(a), m) = Before(Combos(a), p) \cup {p}
  BY <1>3 DEF Before
<1> QED BY <1>4 DEF m

\* When no pointer can move on, or the last that can has no row behind it,
\* every combination has been visited.
LEMMA LastCombo ==
  ASSUME NEW a, Arrays(a), NEW p \in Combos(a),
         \A i \in HasMore(a, p) :
           Len(a[i]) # 0 => \E j \in HasMore(a, p) : i < j /\ Len(a[j]) = 0
  PROVE  /\ Before(Combos(a), p) \cup {p} = Combos(a)
         /\ Digits(a) = DOMAIN a <=> HasMore(a, p) = {}
<1>1. PICK n \in Nat : DOMAIN a = 1 .. n
  BY DEF Arrays
<1>2. \A x \in Digits(a) : x \notin HasMore(a, p)
  <2>1. ASSUME NEW x \in Digits(a), x \in HasMore(a, p)
        PROVE  FALSE
    <3>1. x \in 1 .. n /\ \A j \in 1 .. n : j >= x => Len(a[j]) # 0
      BY <1>1 DEF Digits
    <3>2. PICK j \in HasMore(a, p) : x < j /\ Len(a[j]) = 0
      BY <2>1, <3>1
    <3>3. j \in 1 .. n
      BY <1>1 DEF HasMore
    <3> QED BY <3>1, <3>2, <3>3
  <2> QED BY <2>1
<1>3. ASSUME NEW t \in Combos(a)
      PROVE  t = p \/ Precedes(t, p)
  <2>1. ASSUME Precedes(p, t)
        PROVE  FALSE
    <3>1. PICK x \in DOMAIN p : p[x] < t[x]
      BY <2>1 DEF Precedes
    <3>2. x \in DOMAIN a
      BY ComboType
    <3>3. x \in Digits(a) /\ x \in HasMore(a, p)
      BY <3>1, <3>2, MoreBehind
    <3> QED BY <1>2, <3>3
  <2> QED BY <2>1, PrecedesTotal
<1>4. ASSUME HasMore(a, p) = {}
      PROVE  Digits(a) = DOMAIN a
  BY <1>4 DEF HasMore, Digits
<1>5. ASSUME Digits(a) = DOMAIN a
      PROVE  HasMore(a, p) = {}
  <2>1. \A i \in HasMore(a, p) : i \in DOMAIN a
    BY DEF HasMore
  <2> QED BY <1>2, <1>5, <2>1
<1> QED BY <1>3, <1>4, <1>5 DEF Before

-----------------------------------------------------------------------------
\* the members of a set with n - 1 others before them
AtPlace(S, n) == {s \in S : Cardinality(Before(S, s)) = n - 1}

LEMMA InOrderAt ==
  ASSUME NEW S, NEW n \in 1 .. Cardinality(S)
  PROVE  InOrder(S)[n] = CHOOSE t \in AtPlace(S, n) : TRUE
BY DEF InOrder, AtPlace

\* The members of a set keep their places when one is added behind them.
LEMMA InOrderMore ==
  ASSUME NEW a, Arrays(a), NEW K \in SUBSET Combos(a), NEW p \in Combos(a),
         \A t \in K : Precedes(t, p)
  PROVE  /\ p \notin K
         /\ Cardinality(K) \in Nat
         /\ Cardinality(K \cup {p}) = Cardinality(K) + 1
         /\ \A n \in 1 .. Cardinality(K) : InOrder(K \cup {p})[n] = InOrder(K)[n]
         /\ InOrder(K \cup {p})[Cardinality(K) + 1] = p
<1> DEFINE c == Cardinality(K)
           N == K \cup {p}
<1>1. p \notin K
  BY PrecedesOrder
<1>2. IsFiniteSet(K)
  BY CombosFinite, FS_Subset
<1>3. c \in Nat /\ Cardinality(N) = c + 1
  BY <1>1, <1>2, FS_CardinalityType, FS_AddElement
<1>4. ASSUME NEW t \in K
      PROVE  /\ Before(N, t) = Before(K, t)
             /\ Cardinality(Before(K, t)) \in Nat
             /\ Cardinality(Before(K, t)) < c
  <2>1. Precedes(t, p)
    OBVIOUS
  <2>2. ~ Precedes(p, t) /\ ~ Precedes(t, t)
    BY <2>1, PrecedesOrder
  <2>3. Before(N, t) = Before(K, t)
    BY <2>2 DEF Before
  <2>4. Before(K, t) \in SUBSET (K \ {t})
    BY <2>2 DEF Before
  <2>5. IsFiniteSet(K \ {t}) /\ Cardinality(K \ {t}) = c - 1
    BY <1>2, FS_RemoveElement
  <2>6. IsFiniteSet(Before(K, t)) /\ Cardinality(Before(K, t)) <= c - 1
    BY <2>4, <2>5, FS_Subset
  <2>7. Cardinality(Before(K, t)) \in Nat
    BY <2>6, FS_CardinalityType
  <2> QED BY <1>3, <2>3, <2>6, <2>7
<1>5. Before(N, p) = K
  BY PrecedesOrder DEF Before
<1> HIDE DEF c, N
<1>6. ASSUME NEW n \in 1 .. c
      PROVE  InOrder(N)[n] = InOrder(K)[n]
  <2>1. AtPlace(N, n) = AtPlace(K, n)
    <3>1. \A t \in K : Cardinality(Before(N, t)) = Cardinality(Before(K, t))
      BY <1>4
    <3>2. Cardinality(Before(N, p)) # n - 1
      BY <1>3, <1>5 DEF c
    <3> QED BY <3>1, <3>2 DEF AtPlace, N
  <2>2. n \in 1 .. Cardinality(N) /\ n \in 1 .. Cardinality(K)
    BY <1>3 DEF c
  <2> QED BY <2>1, <2>2, InOrderAt
<1>7. InOrder(N)[c + 1] = p
  <2>1. AtPlace(N, c + 1) = {p}
    <3>1. \A t \in K : Cardinality(Before(N, t)) # c
      BY <1>3, <1>4
    <3>2. Cardinality(Before(N, p)) = c
      BY <1>5 DEF c
    <3>3. (c + 1) - 1 = c
      BY <1>3
    <3>4. \A t \in N : Cardinality(Before(N, t)) = (c + 1) - 1 <=> t = p
      <4>1. \A t \in N : t \in K \/ t = p
        BY DEF N
      <4> QED BY <3>1, <3>2, <3>3, <4>1
    <3>5. p \in N
      BY DEF N
    <3> QED BY <3>4, <3>5 DEF AtPlace
  <2>2. c + 1 \in 1 .. Cardinality(N)
    BY <1>3
  <2>3. InOrder(N)[c + 1] = CHOOSE t \in AtPlace(N, c + 1) : TRUE
    BY <2>2, InOrderAt
  <2> QED BY <2>1, <2>3
<1> QED BY <1>1, <1>3, <1>6, <1>7 DEF c, N

-----------------------------------------------------------------------------
\* The arrays of a statement, and what a pass over one combination gives.
Arr(d, s) == load_record(d, From(s))

Seen(d, s, o, t) ==
  Visit(s, s, SubRun(d, s, o), o, load_item(From(s), Arr(d, s), t))

Rec(d, s, o, t) == [item |-> Seen(d, s, o, t).row, next |-> 0]

KeptOf(d, s, o, B) == {t \in B : Seen(d, s, o, t).verdict = "row"}

Clean(d, s, o, B) == \A t \in B : Seen(d, s, o, t).verdict \notin {"error", "trap"}

\* r holds the rows of the combinations K, in their order.
RowsOf(d, s, o, K, r) ==
  /\ \A n \in 1 .. Cardinality(K) : InOrder(K)[n] \in K
  /\ r = [n \in 1 .. Cardinality(K) |-> Rec(d, s, o, InOrder(K)[n])]

Collected(d, s, o, B, r) ==
  /\ Clean(d, s, o, B)
  /\ RowsOf(d, s, o, KeptOf(d, s, o, B), r)
  /\ Cardinality(KeptOf(d, s, o, B)) < RECS_INITIAL_LENGTH

\* Rows are as many as combinations, and no row more is kept than is seen.
LEMMA RowsLen ==
  ASSUME NEW d, NEW s, NEW o, NEW K, NEW r, RowsOf(d, s, o, K, r),
         Cardinality(K) \in Nat
  PROVE  /\ r \in Seq({Rec(d, s, o, t) : t \in K})
         /\ Len(r) = Cardinality(K)
         /\ \A n \in 1 .. Cardinality(K) : r[n] = Rec(d, s, o, InOrder(K)[n])
<1> DEFINE c == Cardinality(K)
           S == {Rec(d, s, o, t) : t \in K}
<1>1. \A n \in 1 .. c : InOrder(K)[n] \in K
  BY DEF RowsOf
<1>2. r = [n \in 1 .. c |-> Rec(d, s, o, InOrder(K)[n])]
  BY DEF RowsOf
<1>3. \A n \in 1 .. c : r[n] \in S /\ r[n] = Rec(d, s, o, InOrder(K)[n])
  BY <1>1, <1>2
<1>4. r \in [1 .. c -> S]
  BY <1>2, <1>3
<1> HIDE DEF S, c
<1>5. c \in Nat
  BY DEF c
<1>6. r \in Seq(S) /\ Len(r) = c
  BY <1>4, <1>5
<1> QED BY <1>3, <1>6 DEF S, c

\* Adding a combination behind them adds its row behind theirs.
LEMMA RowsMore ==
  ASSUME NEW d, NEW s, NEW o, NEW r, Arrays(Arr(d, s)),
         NEW K \in SUBSET Combos(Arr(d, s)), NEW p \in Combos(Arr(d, s)),
         \A t \in K : Precedes(t, p), RowsOf(d, s, o, K, r)
  PROVE  RowsOf(d, s, o, K \cup {p}, Append(r, Rec(d, s, o, p)))
<1> DEFINE c == Cardinality(K)
           N == K \cup {p}
           S == {Rec(d, s, o, t) : t \in N}
           g == [n \in 1 .. c + 1 |-> Rec(d, s, o, InOrder(N)[n])]
           z == Append(r, Rec(d, s, o, p))
<1>1. /\ c \in Nat /\ Cardinality(N) = c + 1
      /\ \A n \in 1 .. c : InOrder(N)[n] = InOrder(K)[n]
      /\ InOrder(N)[c + 1] = p
  BY InOrderMore
<1>2. /\ r \in Seq({Rec(d, s, o, t) : t \in K}) /\ Len(r) = c
      /\ \A n \in 1 .. c : r[n] = Rec(d, s, o, InOrder(K)[n])
  <2>1. Cardinality(K) \in Nat
    BY <1>1
  <2>2. r \in Seq({Rec(d, s, o, t) : t \in K})
    BY <2>1, RowsLen, Zenon
  <2>3. Len(r) = c
    BY <2>1, RowsLen, Zenon
  <2>4. \A n \in 1 .. c : r[n] = Rec(d, s, o, InOrder(K)[n])
    BY DEF RowsOf
  <2> QED BY <2>2, <2>3, <2>4
<1>3. \A n \in 1 .. c : InOrder(K)[n] \in K
  BY DEF RowsOf
<1>4. \A n \in 1 .. c + 1 : InOrder(N)[n] \in N
  <2>1. \A n \in 1 .. c + 1 : n \in 1 .. c \/ n = c + 1
    BY <1>1
  <2> QED BY <1>1, <1>3, <2>1
<1>5. r \in Seq(S) /\ Rec(d, s, o, p) \in S
  <2>1. {Rec(d, s, o, t) : t \in K} \subseteq S
    OBVIOUS
  <2>2. \A n \in 1 .. Len(r) : r[n] \in S
    BY <1>2, <1>3
  <2> HIDE DEF S
  <2>3. r \in Seq(S)
    BY <1>2, <2>2
  <2> QED BY <2>3 DEF S
<1>6. g \in [1 .. c + 1 -> S]
  BY <1>4
<1> HIDE DEF S, N, c
<1>7. /\ z \in Seq(S) /\ Len(z) = c + 1
      /\ z[c + 1] = Rec(d, s, o, p)
      /\ \A n \in 1 .. c : z[n] = r[n]
  BY <1>2, <1>5, AppendProperties
<1>8. \A n \in 1 .. c + 1 : z[n] = g[n]
  <2>1. \A n \in 1 .. c + 1 : n \in 1 .. c \/ n = c + 1
    BY <1>1
  <2> HIDE DEF z
  <2> QED BY <1>1, <1>2, <1>7, <2>1
<1>9. g \in Seq(S) /\ Len(g) = c + 1
  <2> HIDE DEF g
  <2> QED BY <1>1, <1>6
<1> HIDE DEF g, z
<1>10. z = g
  BY <1>7, <1>8, <1>9, SeqEqual
<1> QED BY <1>1, <1>4, <1>10 DEF RowsOf, g, z, N, c

-----------------------------------------------------------------------------
\* Ended in parts.
Stops(v) == {t \in DOMAIN v : v[t].verdict \in {"error", "trap"}}
Keeps(v) == {t \in DOMAIN v : v[t].verdict = "row" /\ Before(Stops(v), t) = {}}

StatusOf(d, f, a, v) ==
  IF Overflows(d, f, a) \/ Cardinality(Keeps(v)) >= RECS_INITIAL_LENGTH THEN "trap"
  ELSE IF Stops(v) # {}
  THEN v[CHOOSE t \in {x \in Stops(v) : Before(Stops(v), x) = {}} : TRUE].verdict
  ELSE IF Digits(a) # DOMAIN a THEN "trap"
  ELSE "done"

RowsIn(v, K) == [n \in DOMAIN InOrder(K) |-> v[InOrder(K)[n]].row]

LEMMA EndedParts ==
  ASSUME NEW d, NEW f, NEW a, NEW v
  PROVE  /\ Ended(d, f, a, v).status = StatusOf(d, f, a, v)
         /\ Ended(d, f, a, v).rows = RowsIn(v, Keeps(v))
BY DEF Ended, Stops, Keeps, StatusOf, RowsIn

Outcome(d, s, o) == Run(d, s, s, SubRun(d, s, o), o)

Visits(d, s, o) == [t \in Combos(Arr(d, s)) |-> Seen(d, s, o, t)]

LEMMA WholeEnds ==
  ASSUME NEW d, NEW s, NEW o
  PROVE  Outcome(d, s, o) = Ended(d, From(s), Arr(d, s), Visits(d, s, o))
BY DEF Outcome, Run, Arr, Visits, Seen

ItemsOf(r) == [k \in 1 .. Len(r) |-> r[k].item]

\* A loop that came to its end without an error: Whole has its rows.
LEMMA WholeDone ==
  ASSUME NEW d, NEW s, NEW o, NEW r, Arrays(Arr(d, s)),
         ~ Overflows(d, From(s), Arr(d, s)), Digits(Arr(d, s)) = DOMAIN Arr(d, s),
         Collected(d, s, o, Combos(Arr(d, s)), r)
  PROVE  /\ Outcome(d, s, o).status = "done"
         /\ ItemsOf(r) = Outcome(d, s, o).rows
<1> DEFINE v == Visits(d, s, o)
           K == KeptOf(d, s, o, Combos(Arr(d, s)))
           c == Cardinality(K)
<1>1. Stops(v) = {}
  BY DEF Visits, Stops, Collected, Clean
<1>2. Keeps(v) = K
  <2>1. \A t : Before({}, t) = {}
    BY DEF Before
  <2> QED BY <1>1, <2>1 DEF Keeps, Visits, KeptOf
<1>3. K \in SUBSET Combos(Arr(d, s))
  BY DEF KeptOf
<1>4. c \in Nat
  <2> HIDE DEF K
  <2>1. IsFiniteSet(K)
    BY <1>3, CombosFinite, FS_Subset
  <2> QED BY <2>1, FS_CardinalityType
<1>5. RowsOf(d, s, o, K, r) /\ c < RECS_INITIAL_LENGTH
  BY DEF Collected
<1>6. \A n \in 1 .. c : /\ InOrder(K)[n] \in K
                        /\ r[n] = Rec(d, s, o, InOrder(K)[n])
  BY <1>5 DEF RowsOf
<1>7. Len(r) = c
  <2> HIDE DEF K
  <2> QED BY <1>4, <1>5, RowsLen, Zenon
<1>8. \A t \in K : v[t] = Seen(d, s, o, t)
  BY <1>3 DEF Visits
<1> HIDE DEF v, K
<1>9. Outcome(d, s, o).status = "done"
  <2>1. ~ (c >= RECS_INITIAL_LENGTH)
    BY <1>4, <1>5, LengthAssumption
  <2>2. Outcome(d, s, o) = Ended(d, From(s), Arr(d, s), v)
    BY WholeEnds DEF v
  <2>3. Outcome(d, s, o).status = StatusOf(d, From(s), Arr(d, s), v)
    BY <2>2, EndedParts, Zenon
  <2> QED BY <1>1, <1>2, <2>1, <2>3 DEF StatusOf
<1>10. DOMAIN InOrder(K) = 1 .. c
  BY DEF InOrder
<1>11. Outcome(d, s, o).rows = [n \in 1 .. c |-> v[InOrder(K)[n]].row]
  <2>1. Outcome(d, s, o) = Ended(d, From(s), Arr(d, s), v)
    BY WholeEnds DEF v
  <2>2. Outcome(d, s, o).rows = RowsIn(v, K)
    BY <1>2, <2>1, EndedParts, Zenon
  <2> QED BY <1>10, <2>2 DEF RowsIn
<1>12. \A n \in 1 .. c : r[n].item = v[InOrder(K)[n]].row
  <2> SUFFICES ASSUME NEW n \in 1 .. c
               PROVE  r[n].item = v[InOrder(K)[n]].row
    OBVIOUS
  <2>1. InOrder(K)[n] \in K /\ r[n] = Rec(d, s, o, InOrder(K)[n])
    BY <1>6
  <2>2. r[n].item = Seen(d, s, o, InOrder(K)[n]).row
    BY <2>1 DEF Rec
  <2>3. v[InOrder(K)[n]] = Seen(d, s, o, InOrder(K)[n])
    BY <1>8, <2>1
  <2> QED BY <2>2, <2>3
<1> QED BY <1>7, <1>9, <1>11, <1>12 DEF ItemsOf

\* A combination that ends the loop: Whole ends there as well.
LEMMA WholeStops ==
  ASSUME NEW d, NEW s, NEW o, NEW r, Arrays(Arr(d, s)),
         ~ Overflows(d, From(s), Arr(d, s)), NEW p \in Combos(Arr(d, s)),
         Collected(d, s, o, Before(Combos(Arr(d, s)), p), r),
         Seen(d, s, o, p).verdict \in {"error", "trap"}
  PROVE  Outcome(d, s, o).status = Seen(d, s, o, p).verdict
<1> DEFINE a == Arr(d, s)
           v == Visits(d, s, o)
           B == Before(Combos(a), p)
           K == KeptOf(d, s, o, B)
<1>1. \A t \in Combos(a) : v[t] = Seen(d, s, o, t)
  BY DEF Visits
<1>2. DOMAIN v = Combos(a)
  BY DEF Visits
<1>3. p \in Stops(v) /\ Stops(v) \subseteq Combos(a)
  BY <1>1, <1>2 DEF Stops
<1>4. \A t \in Stops(v) : ~ Precedes(t, p)
  <2>1. \A t \in B : Seen(d, s, o, t).verdict \notin {"error", "trap"}
    BY DEF Collected, Clean
  <2> QED BY <1>1, <1>2, <2>1 DEF Stops, Before
<1> HIDE DEF v, a
<1>5. ASSUME NEW t \in Combos(a)
      PROVE  /\ Before(Stops(v), t) = {} <=> ~ Precedes(p, t)
  <2>1. ASSUME NEW u \in Stops(v), Precedes(u, t)
        PROVE  Precedes(p, t)
    <3>1. u = p \/ Precedes(p, u)
      BY <1>3, <1>4, PrecedesTotal DEF a
    <3> QED BY <1>3, <2>1, <3>1, PrecedesOrder DEF a
  <2> QED BY <1>3, <2>1 DEF Before
<1>6. {x \in Stops(v) : Before(Stops(v), x) = {}} = {p}
  <2>1. ~ Precedes(p, p)
    BY PrecedesOrder DEF a
  <2>2. \A x \in Stops(v) : ~ Precedes(p, x) => x = p
    BY <1>3, <1>4, PrecedesTotal DEF a
  <2> QED BY <1>3, <1>5, <2>1, <2>2
<1>7. Keeps(v) = K
  <2>1. ASSUME NEW t \in Combos(a), v[t].verdict = "row"
        PROVE  ~ Precedes(p, t) <=> Precedes(t, p)
    <3>1. t # p
      BY <1>1, <2>1
    <3>2. ~ (Precedes(t, p) /\ Precedes(p, t))
      BY PrecedesOrder DEF a
    <3> QED BY <3>1, <3>2, PrecedesTotal DEF a
  <2> QED BY <1>1, <1>2, <1>5, <2>1 DEF Keeps, KeptOf, Before
<1>8. ~ (Cardinality(K) >= RECS_INITIAL_LENGTH)
  <2>1. Cardinality(K) \in Nat
    <3>1. K \in SUBSET Combos(a)
      BY DEF KeptOf, Before
    <3> HIDE DEF K
    <3>2. IsFiniteSet(K)
      BY <3>1, CombosFinite, FS_Subset DEF a
    <3> QED BY <3>2, FS_CardinalityType
  <2>2. Cardinality(K) < RECS_INITIAL_LENGTH
    BY DEF Collected, a
  <2> QED BY <2>1, <2>2, LengthAssumption
<1> HIDE DEF K
<1>9. Outcome(d, s, o).status = v[CHOOSE t \in {p} : TRUE].verdict
  <2>1. Outcome(d, s, o) = Ended(d, From(s), a, v)
    BY WholeEnds DEF v, a
  <2>2. Outcome(d, s, o).status = StatusOf(d, From(s), a, v)
    BY <2>1, EndedParts, Zenon
  <2>3. ~ Overflows(d, From(s), a)
    BY DEF a
  <2> QED BY <1>3, <1>6, <1>7, <1>8, <2>2, <2>3 DEF StatusOf
<1>10. (CHOOSE t \in {p} : TRUE) = p
  OBVIOUS
<1> QED BY <1>1, <1>9, <1>10 DEF a

-----------------------------------------------------------------------------
\* What one more combination makes of the rows collected.
LEMMA CollectedMore ==
  ASSUME NEW d, NEW s, NEW o, NEW r, Arrays(Arr(d, s)),
         NEW p \in Combos(Arr(d, s)),
         Collected(d, s, o, Before(Combos(Arr(d, s)), p), r)
  PROVE  /\ Seen(d, s, o, p).verdict = "out" =>
              Collected(d, s, o, Before(Combos(Arr(d, s)), p) \cup {p}, r)
         /\ Seen(d, s, o, p).verdict = "row" /\ ~ Full(Len(r)) =>
              Collected(d, s, o, Before(Combos(Arr(d, s)), p) \cup {p},
                        Append(r, Rec(d, s, o, p)))
<1> DEFINE B == Before(Combos(Arr(d, s)), p)
           K == KeptOf(d, s, o, B)
<1>1. K \in SUBSET Combos(Arr(d, s)) /\ \A t \in K : Precedes(t, p)
  BY DEF KeptOf, Before
<1>2. Clean(d, s, o, B) /\ RowsOf(d, s, o, K, r) /\ Cardinality(K) < RECS_INITIAL_LENGTH
  BY DEF Collected
<1> HIDE DEF B
<1>3. ASSUME Seen(d, s, o, p).verdict = "out"
      PROVE  Collected(d, s, o, B \cup {p}, r)
  <2>1. KeptOf(d, s, o, B \cup {p}) = K
    BY <1>3 DEF KeptOf
  <2>2. Clean(d, s, o, B \cup {p})
    BY <1>2, <1>3 DEF Clean
  <2> HIDE DEF K
  <2> QED BY <1>2, <2>1, <2>2 DEF Collected
<1>4. ASSUME Seen(d, s, o, p).verdict = "row", ~ Full(Len(r))
      PROVE  Collected(d, s, o, B \cup {p}, Append(r, Rec(d, s, o, p)))
  <2>1. KeptOf(d, s, o, B \cup {p}) = K \cup {p}
    BY <1>4 DEF KeptOf
  <2>2. Clean(d, s, o, B \cup {p})
    BY <1>2, <1>4 DEF Clean
  <2> HIDE DEF K
  <2>3. RowsOf(d, s, o, K \cup {p}, Append(r, Rec(d, s, o, p)))
    BY <1>1, <1>2, RowsMore
  <2>4. Cardinality(K) \in Nat /\ Cardinality(K \cup {p}) = Cardinality(K) + 1
    BY <1>1, InOrderMore
  <2>5. Len(r) = Cardinality(K)
    <3>1. RowsOf(d, s, o, K, r) /\ Cardinality(K) \in Nat
      BY <1>2, <2>4
    <3> QED BY <3>1, RowsLen, Zenon
  <2>6. Cardinality(K \cup {p}) < RECS_INITIAL_LENGTH
    BY <1>4, <2>4, <2>5, LengthAssumption DEF Full
  <2> QED BY <2>1, <2>2, <2>3, <2>6 DEF Collected
<1> QED BY <1>3, <1>4 DEF B

\* Nothing has been collected before the first combination.
LEMMA CollectedNone ==
  ASSUME NEW d, NEW s, NEW o
  PROVE  Collected(d, s, o, {}, <<>>)
<1>1. KeptOf(d, s, o, {}) = {}
  BY DEF KeptOf
<1>2. Cardinality({}) = 0
  BY FS_EmptySet
<1>3. RowsOf(d, s, o, {}, <<>>)
  <2>1. 1 .. Cardinality({}) = {}
    BY <1>2
  <2>2. <<>> = [n \in 1 .. Cardinality({}) |-> Rec(d, s, o, InOrder({})[n])]
    BY <2>1
  <2> QED BY <2>1, <2>2 DEF RowsOf
<1>4. 0 < RECS_INITIAL_LENGTH
  BY LengthAssumption
<1> QED BY <1>1, <1>2, <1>3, <1>4 DEF Collected, Clean

-----------------------------------------------------------------------------
\* The arrays of a statement have an end each.
LEMMA LoadedArrays ==
  ASSUME NEW d \in Databases, NEW s \in Queries
  PROVE  Arrays(Arr(d, s)) /\ DOMAIN Arr(d, s) = 1 .. Len(From(s))
<1> DEFINE f == From(s)
<1>1. Len(f) \in Nat /\ \A i \in 1 .. Len(f) : f[i].table \in Tables
  BY QueriesAssumption
<1>2. DOMAIN Arr(d, s) = 1 .. Len(f)
  BY DEF Arr, load_record
<1>3. ASSUME NEW i \in 1 .. Len(f)
      PROVE  Len(Arr(d, s)[i]) \in Nat
  <2>1. Arr(d, s)[i] = <<>> \/ Arr(d, s)[i] = Linked(d, f[i].table)
    BY DEF Arr, load_record
  <2>2. CASE Arr(d, s)[i] = <<>>
    BY <2>2
  <2>3. CASE Arr(d, s)[i] = Linked(d, f[i].table)
    <3>1. Len(Linked(d, f[i].table)) \in Nat
      BY <1>1, DatabaseAssumption
    <3> QED BY <2>3, <3>1
  <2> QED BY <2>1, <2>2, <2>3
<1> QED BY <1>1, <1>2, <1>3 DEF Arrays

\* While rows are visited: the arrays are those of the statement, the pointers
\* a combination of their rows, and what was collected are the rows of the
\* combinations before it, which were all judged without an error.
Scanning ==
  /\ q \in Queries
  /\ arr = Arr(db, q)
  /\ ~ Overflows(db, From(q), arr)
  /\ pos \in Combos(arr)
  /\ sub \in {NoRows, SubRun(db, q, ocol_cnt)}
  /\ Collected(db, q, ocol_cnt, Before(Combos(arr), pos), recs)

IInv == /\ db \in Databases
        /\ pc = "scan" => Scanning
        /\ RowsExact

LEMMA WholeIs == Whole = Outcome(db, q, ocol_cnt)
BY DEF Whole, Outcome

\* The loop begins.
LEMMA BeginScans ==
  ASSUME NEW s \in Queries, Begin(s), db \in Databases, pc' = "scan"
  PROVE  Scanning'
<1>1. /\ q' = s /\ db' = db /\ sub' = NoRows /\ recs' = <<>>
      /\ arr' = Arr(db, s) /\ pos' = [i \in 1 .. Len(From(s)) |-> 1]
      /\ ~ Overflows(db, From(s), Arr(db, s))
  BY DEF Begin, Arr
<1>2. Arrays(Arr(db, s)) /\ DOMAIN Arr(db, s) = 1 .. Len(From(s))
  BY LoadedArrays
<1>3. pos' \in Combos(arr') /\ Before(Combos(arr'), pos') = {}
  BY <1>1, <1>2, FirstCombo
<1>4. Collected(db', q', ocol_cnt', {}, recs')
  BY <1>1, CollectedNone
<1> QED BY <1>1, <1>3, <1>4 DEF Scanning

\* One pass of the loop, by what becomes of the record.
LEMMA ScanPasses ==
  ASSUME Scanning, Scan
  PROVE  /\ UNCHANGED <<db, q, arr, ocol_cnt>>
         /\ sub' = SubRun(db, q, ocol_cnt)
         /\ Pass(Seen(db, q, ocol_cnt, pos))
<1>1. UNCHANGED <<db, q, arr, ocol_cnt>>
  BY DEF Scan
<1>2. sub' = SubRun(db, q, ocol_cnt)
  BY DEF Scan, Scanning
<1>3. Pass(Visit(q, q, sub', ocol_cnt, load_item(From(q), arr, pos)))
  BY DEF Scan
<1>4. Visit(q, q, sub', ocol_cnt, load_item(From(q), arr, pos)) = Seen(db, q, ocol_cnt, pos)
  BY <1>2 DEF Seen, Scanning
<1> QED BY <1>1, <1>2, <1>3, <1>4

\* Moving on, to the next combination or behind the last.
LEMMA MovesOn ==
  ASSUME Scanning, db \in Databases, get_next_record
  PROVE  \/ /\ pc' = pc
            /\ \E i \in HasMore(arr, pos) :
                 /\ \A j \in HasMore(arr, pos) : j <= i
                 /\ Len(arr[i]) # 0
                 /\ pos' = Moved(pos, i)
            /\ pos' \in Combos(arr)
            /\ Before(Combos(arr), pos') = Before(Combos(arr), pos) \cup {pos}
         \/ /\ pc' = "scanned" \/ pc' = "crashed"
            /\ pc' = "scanned" <=> Digits(arr) = DOMAIN arr
            /\ Before(Combos(arr), pos) \cup {pos} = Combos(arr)
<1>1. Arrays(arr) /\ pos \in Combos(arr)
  BY LoadedArrays DEF Scanning
<1>2. CASE HasMore(arr, pos) = {} /\ pc' = "scanned"
  BY <1>1, <1>2, LastCombo
<1>3. ASSUME NEW i \in HasMore(arr, pos), \A j \in HasMore(arr, pos) : j <= i,
             Len(arr[i]) = 0, pc' = "crashed"
      PROVE  /\ Digits(arr) # DOMAIN arr
             /\ Before(Combos(arr), pos) \cup {pos} = Combos(arr)
  <2>1. \A j \in HasMore(arr, pos) :
          Len(arr[j]) # 0 => \E k \in HasMore(arr, pos) : j < k /\ Len(arr[k]) = 0
    <3>1. HasMore(arr, pos) \subseteq Nat
      BY <1>1 DEF HasMore, Arrays
    <3> QED BY <1>3, <3>1
  <2> QED BY <1>1, <1>3, <2>1, LastCombo
<1>4. ASSUME NEW i \in HasMore(arr, pos), \A j \in HasMore(arr, pos) : j <= i,
             Len(arr[i]) # 0, pos' = Moved(pos, i)
      PROVE  /\ pos' \in Combos(arr)
             /\ Before(Combos(arr), pos') = Before(Combos(arr), pos) \cup {pos}
  BY <1>1, <1>4, MovedCombo, MovedAdds
<1>5. CASE \E i \in HasMore(arr, pos) :
          /\ \A j \in HasMore(arr, pos) : j <= i
          /\ IF Len(arr[i]) = 0 THEN pc' = "crashed" /\ UNCHANGED pos
             ELSE pos' = Moved(pos, i) /\ UNCHANGED pc
  BY <1>3, <1>4, <1>5
<1> QED BY <1>2, <1>5 DEF get_next_record

\* What a pass does to the invariant and to the promise.
LEMMA ScanKeeps ==
  ASSUME IInv, Scan
  PROVE  IInv'
<1>1. pc = "scan" /\ Scanning /\ db \in Databases
  BY DEF IInv, Scan
<1>2. /\ db' = db /\ q' = q /\ arr' = arr /\ ocol_cnt' = ocol_cnt
      /\ sub' = SubRun(db, q, ocol_cnt)
      /\ Pass(Seen(db, q, ocol_cnt, pos))
  BY <1>1, ScanPasses
<1>3. /\ arr = Arr(db, q) /\ Arrays(Arr(db, q)) /\ pos \in Combos(Arr(db, q))
      /\ ~ Overflows(db, From(q), Arr(db, q))
      /\ Collected(db, q, ocol_cnt, Before(Combos(Arr(db, q)), pos), recs)
  BY <1>1, LoadedArrays DEF Scanning
<1>4. Whole' = Outcome(db, q, ocol_cnt)
  BY <1>2 DEF Whole, Outcome
<1>5. CASE pc' = "crashed"
  BY <1>1, <1>2, <1>5 DEF IInv, RowsExact
<1>6. CASE /\ Seen(db, q, ocol_cnt, pos).verdict = "error"
           /\ pc' = "idle"
  <2>1. Outcome(db, q, ocol_cnt).status = "error"
    BY <1>3, <1>6, WholeStops
  <2> QED BY <1>1, <1>2, <1>4, <1>6, <2>1 DEF IInv, RowsExact
<1>7. CASE /\ Seen(db, q, ocol_cnt, pos).verdict \in {"out", "row"}
           /\ Seen(db, q, ocol_cnt, pos).verdict = "row" => ~ Full(Len(recs))
           /\ recs' = IF Seen(db, q, ocol_cnt, pos).verdict = "row"
                      THEN Append(recs, Rec(db, q, ocol_cnt, pos)) ELSE recs
           /\ get_next_record
  <2>1. Collected(db, q, ocol_cnt, Before(Combos(Arr(db, q)), pos) \cup {pos}, recs')
    <3>1. CASE Seen(db, q, ocol_cnt, pos).verdict = "out"
      BY <1>3, <1>7, <3>1, CollectedMore
    <3>2. CASE Seen(db, q, ocol_cnt, pos).verdict = "row"
      BY <1>3, <1>7, <3>2, CollectedMore
    <3> QED BY <1>7, <3>1, <3>2
  <2>2. CASE /\ pc' = "scan"
             /\ pos' \in Combos(arr)
             /\ Before(Combos(arr), pos') = Before(Combos(arr), pos) \cup {pos}
    <3>1. Scanning'
      BY <1>1, <1>2, <1>3, <2>1, <2>2 DEF Scanning
    <3> QED BY <1>1, <1>2, <2>2, <3>1 DEF IInv, RowsExact
  <2>3. CASE /\ pc' = "scanned"
             /\ Digits(arr) = DOMAIN arr
             /\ Before(Combos(arr), pos) \cup {pos} = Combos(arr)
    <3>1. /\ Outcome(db, q, ocol_cnt).status = "done"
          /\ ItemsOf(recs') = Outcome(db, q, ocol_cnt).rows
      <4>1. Collected(db, q, ocol_cnt, Combos(Arr(db, q)), recs')
        BY <1>3, <2>1, <2>3
      <4>2. Digits(Arr(db, q)) = DOMAIN Arr(db, q)
        BY <1>3, <2>3
      <4> QED BY <1>3, <4>1, <4>2, WholeDone, Zenon
    <3> QED BY <1>1, <1>2, <1>4, <2>3, <3>1 DEF IInv, RowsExact, ItemsOf
  <2> QED BY <1>1, <1>5, <1>7, <2>2, <2>3, MovesOn
<1> QED BY <1>2, <1>5, <1>6, <1>7 DEF Pass, Rec

-----------------------------------------------------------------------------
\* Once a statement is past its rows it does not come back to them.
LEMMA NoWayBack ==
  ASSUME Sort \/ Merge \/ MergeLast \/ Collect
  PROVE  /\ pc # "scan" /\ pc' \notin {"scan", "scanned"} /\ db' = db
         /\ pc' = "idle" => reply'.status = "success"
<1>1. CASE Sort
  BY <1>1 DEF Sort
<1>2. CASE Merge
  BY <1>2 DEF Merge, CloseGroup
<1>3. CASE MergeLast
  BY <1>3 DEF MergeLast, CloseGroup
<1>4. CASE Collect
  <2>1. pc = "collect" /\ db' = db
    BY <1>4, Zenon DEF Collect
  <2>2. CASE Unsortable
    <3>1. pc' = "crashed"
      BY <1>4, <2>2, Zenon DEF Collect
    <3> QED BY <2>1, <3>1
  <2>3. CASE ~ Unsortable
    <3>1. PICK rows : \/ pc' = "crashed"
                      \/ pc' = "idle" /\ reply' = [status |-> "success", rows |-> Shown(rows)]
      BY <1>4, <2>3, Zenon DEF Collect
    <3>2. CASE pc' = "crashed"
      BY <2>1, <3>2
    <3>3. CASE pc' = "idle" /\ reply' = [status |-> "success", rows |-> Shown(rows)]
      <4>1. reply'.status = "success"
        BY <3>3
      <4> QED BY <2>1, <3>3, <4>1
    <3> QED BY <3>1, <3>2, <3>3
  <2> QED BY <2>2, <2>3
<1> QED BY <1>1, <1>2, <1>3, <1>4

LEMMA InitInv == Init => IInv
BY DEF Init, SelectInit, IInv, RowsExact, NoReply

LEMMA StepInv == IInv /\ [Next]_vars => IInv'
<1> SUFFICES ASSUME IInv, [Next]_vars
             PROVE  IInv'
  OBVIOUS
<1>1. CASE Write
  BY <1>1 DEF IInv, Write, RowsExact, NoReply
<1>2. ASSUME NEW s \in Queries, Begin(s)
      PROVE  IInv'
  <2>1. db' = db /\ db \in Databases /\ pc' \in {"scan", "crashed"}
    BY <1>2 DEF Begin, IInv
  <2>2. pc' = "scan" => Scanning'
    BY <1>2, <2>1, BeginScans
  <2> QED BY <2>1, <2>2 DEF IInv, RowsExact
<1>3. CASE Scan
  BY <1>3, ScanKeeps
<1>4. CASE Sort \/ Merge \/ MergeLast \/ Collect
  BY <1>4, NoWayBack DEF IInv, RowsExact
<1>5. CASE Restart
  BY <1>5 DEF IInv, Restart, RowsExact, NoReply
<1>6. CASE UNCHANGED vars
  <2>1. UNCHANGED <<db, q, pc, arr, pos, sub, recs, ocol_cnt, reply>>
    BY <1>6 DEF vars
  <2>2. Whole' = Whole
    BY <2>1, WholeIs DEF Whole
  <2>3. Scanning' = Scanning
    BY <2>1 DEF Scanning
  <2> QED BY <2>1, <2>2, <2>3 DEF IInv, RowsExact
<1> QED BY <1>1, <1>2, <1>3, <1>4, <1>5, <1>6 DEF Next, Thread

LEMMA Invariance == Spec => []IInv
<1>1. Spec => Init /\ [][Next]_vars
  BY DEF Spec
<1> QED BY <1>1, InitInv, StepInv, PTL

-----------------------------------------------------------------------------
\* While the rows of a query are visited, the pointer of every table is inside
\* the array load_data filled, whatever the database and the statement
\* (get_next_record, load_item).
THEOREM PointersStayInside == Spec => []PointersInside
<1>1. ASSUME IInv, pc = "scan"
      PROVE  PointersInside
  <2>1. Arrays(arr) /\ pos \in Combos(arr)
    BY <1>1, LoadedArrays DEF IInv, Scanning
  <2>2. ASSUME NEW i \in DOMAIN arr
        PROVE  pos[i] \in 1 .. Len(arr[i]) \/ (Len(arr[i]) = 0 /\ pos[i] = 1)
    <3>1. /\ pos[i] \in Nat /\ 1 <= pos[i]
          /\ i \in Digits(arr) => pos[i] <= Len(arr[i])
          /\ i \notin Digits(arr) => pos[i] = 1
      BY <2>1, ComboType
    <3>2. Len(arr[i]) \in Nat
      BY <2>1 DEF Arrays
    <3> QED BY <3>1, <3>2
  <2>3. DOMAIN pos = DOMAIN arr
    BY <2>1, ComboType
  <2> QED BY <2>2, <2>3 DEF PointersInside
<1>2. IInv => PointersInside
  BY <1>1 DEF PointersInside
<1> QED BY <1>2, Invariance, PTL

\* get_next_record goes from each combination of rows to the next one, in the
\* order in which the last table of FROM turns fastest, and skips none.
THEOREM EveryCombination == Spec => VisitsNext
<1>1. IInv /\ [Next]_vars => [StepsOn]_vars
  <2> SUFFICES ASSUME IInv, Next, pc = "scan", pc' = "scan"
               PROVE  StepsOn
    BY DEF StepsOn
  <2>1. Scan
    BY NoWayBack DEF Next, Thread, Write, Begin, Restart
  <2>2. Scanning /\ db \in Databases
    BY DEF IInv
  <2>3. get_next_record
    BY <2>1 DEF Scan, Pass
  <2>4. PICK i \in HasMore(arr, pos) :
          /\ \A j \in HasMore(arr, pos) : j <= i
          /\ Len(arr[i]) # 0
          /\ pos' = Moved(pos, i)
    BY <2>2, <2>3, MovesOn
  <2>5. Arrays(arr) /\ pos \in Combos(arr)
    BY <2>2, LoadedArrays DEF Scanning
  <2>6. /\ Precedes(pos, pos')
        /\ \A t \in Combos(arr) : ~ (Precedes(pos, t) /\ Precedes(t, pos'))
    BY <2>4, <2>5, NothingBetween
  <2> QED BY <2>6 DEF StepsOn
<1>2. Spec => [][Next]_vars
  BY DEF Spec
<1> QED BY <1>1, <1>2, Invariance, PTL DEF VisitsNext

\* When the loop of do_select ends, recs holds the row of each combination that
\* meets the condition, once and in the order of the lists, and a statement is
\* answered with an error when a condition on the way is one: whatever the
\* database, the statement, its condition and the values of its expressions,
\* and whatever the subquery left behind.
THEOREM RowsCollected == Spec => []RowsExact
<1>1. IInv => RowsExact
  BY DEF IInv
<1> QED BY <1>1, Invariance, PTL

-----------------------------------------------------------------------------
\* The value of an expression: eval_expr is a recursive function, and what
\* follows shows that expressions being finite trees makes it a definition.
Value(rec, subrecs, agg, h, e) ==
  LET l == IF "l" \in DOMAIN e THEN h[e.l] ELSE Blank
      r == IF "r" \in DOMAIN e THEN h[e.r] ELSE Blank
  IN CASE e.type = "NAME" ->
            Cell(rec, {k \in 1 .. Len(rec) : rec[k].name = e.name})
       [] e.type = "TABLE_COLUMN" ->
            Cell(rec, {k \in 1 .. Len(rec) : /\ rec[k].name = e.name
                                             /\ e.table \in {rec[k].table, rec[k].alias}})
       [] e.type \in {"ADD", "SUB", "MUL"} -> After(l, r, eval_arith(e.type, l, r))
       [] e.type = "DIV"        -> After(l, r, eval_div_expr(l, r))
       [] e.type = "MOD"        -> After(l, r, eval_mod_expr(l, r))
       [] e.type = "NEG"        -> After(r, r, eval_neg_expr(r))
       [] e.type = "NOT"        -> After(r, r, eval_not_expr(r))
       [] e.type \in Logic      -> After(l, r, calc_logic(e.type, l, r))
       [] e.type \in Comparisons -> After(l, r, eval_compare(e.type, l, r))
       [] e.type = "LIKE"       -> After(l, r, Flipped(e.not, eval_like_expr(l, r)))
       [] e.type = "IN_VAL_LIST" ->
            After(l, l, Flipped(e.not,
              is_in_val_list(l, [i \in 1 .. Len(e.list) |-> h[e.list[i]]])))
       [] e.type = "IN_SELECT"  -> Flipped(e.not, is_in_select(l, subrecs))
       [] is_agr_func(e)        -> agg[e]
       [] OTHER -> e

Values(rec, subrecs, agg, h) == [e \in Exprs |-> Value(rec, subrecs, agg, h, e)]

\* It is made of the values of its parts.
LEMMA ValueLocal ==
  ASSUME NEW rec, NEW subrecs, NEW agg, NEW h, NEW g, NEW e,
         \A c \in Children(e) : h[c] = g[c]
  PROVE  Value(rec, subrecs, agg, h, e) = Value(rec, subrecs, agg, g, e)
<1>1. CASE is_agr_func(e)
  BY <1>1 DEF Value, is_agr_func, Logic, Comparisons
<1>2. CASE ~ is_agr_func(e)
  <2>1. "l" \in DOMAIN e => h[e.l] = g[e.l]
    BY <1>2 DEF Children
  <2>2. "r" \in DOMAIN e => h[e.r] = g[e.r]
    BY <1>2 DEF Children
  <2>3. e.type = "IN_VAL_LIST" =>
          [i \in 1 .. Len(e.list) |-> h[e.list[i]]] = [i \in 1 .. Len(e.list) |-> g[e.list[i]]]
    BY <1>2 DEF Children
  <2> QED BY <2>1, <2>2, <2>3 DEF Value
<1> QED BY <1>1, <1>2

Height(e) == Cardinality(Parts[e])

LEMMA Heights ==
  ASSUME NEW e \in Exprs
  PROVE  /\ Height(e) \in Nat /\ Height(e) <= Cardinality(Exprs) /\ Cardinality(Exprs) \in Nat
         /\ \A c \in Children(e) : c \in Exprs /\ Height(c) \in Nat /\ Height(c) < Height(e)
<1>1. IsFiniteSet(Exprs)
  BY ExprsAssumption
<1>2. ASSUME NEW x \in Exprs
      PROVE  /\ IsFiniteSet(Parts[x]) /\ Height(x) \in Nat /\ Height(x) <= Cardinality(Exprs)
  <2>1. Parts[x] \subseteq Exprs
    BY ExprsAssumption
  <2> QED BY <1>1, <2>1, FS_Subset, FS_CardinalityType DEF Height
<1>3. ASSUME NEW c \in Children(e)
      PROVE  c \in Exprs /\ Height(c) < Height(e)
  <2>1. /\ c \in Exprs /\ e \in Parts[e]
        /\ Parts[c] \subseteq Parts[e] \ {e}
    BY <1>3, ExprsAssumption
  <2>2. /\ IsFiniteSet(Parts[e] \ {e})
        /\ Cardinality(Parts[e] \ {e}) = Height(e) - 1
    BY <1>2, <2>1, FS_RemoveElement DEF Height
  <2>3. Height(c) <= Height(e) - 1
    BY <2>1, <2>2, FS_Subset DEF Height
  <2>4. Height(c) \in Nat /\ Height(e) \in Nat
    BY <1>2, <2>1
  <2> QED BY <2>1, <2>3, <2>4
<1>4. Cardinality(Exprs) \in Nat
  BY <1>1, FS_CardinalityType
<1> QED BY <1>2, <1>3, <1>4

\* h has the values of the expressions with fewer than n parts
Partial(rec, subrecs, agg, h, n) ==
  \A e \in Exprs : Height(e) < n => h[e] = Value(rec, subrecs, agg, h, e)

LEMMA PartialMore ==
  ASSUME NEW rec, NEW subrecs, NEW agg, NEW h, NEW n \in Nat,
         Partial(rec, subrecs, agg, h, n)
  PROVE  Partial(rec, subrecs, agg, Values(rec, subrecs, agg, h), n + 1)
<1> DEFINE g == Values(rec, subrecs, agg, h)
<1>1. \A e \in Exprs : g[e] = Value(rec, subrecs, agg, h, e)
  BY DEF Values
<1> HIDE DEF g
<1>2. ASSUME NEW e \in Exprs, Height(e) < n + 1
      PROVE  g[e] = Value(rec, subrecs, agg, g, e)
  <2>1. ASSUME NEW c \in Children(e)
        PROVE  h[c] = g[c]
    <3>1. c \in Exprs /\ Height(c) < n
      <4>1. c \in Exprs /\ Height(c) \in Nat /\ Height(c) < Height(e) /\ Height(e) \in Nat
        BY <2>1, Heights
      <4> QED BY <1>2, <4>1
    <3>2. h[c] = Value(rec, subrecs, agg, h, c)
      BY <3>1 DEF Partial
    <3> QED BY <1>1, <3>1, <3>2
  <2>2. Value(rec, subrecs, agg, h, e) = Value(rec, subrecs, agg, g, e)
    BY <2>1, ValueLocal, Zenon
  <2> QED BY <1>1, <2>2
<1>3. Partial(rec, subrecs, agg, g, n + 1)
  BY <1>2 DEF Partial
<1> QED BY <1>3 DEF g

LEMMA PartialAll ==
  ASSUME NEW rec, NEW subrecs, NEW agg, NEW n \in Nat
  PROVE  \E h : Partial(rec, subrecs, agg, h, n)
<1> DEFINE T == {m \in Nat : ~ \E h : Partial(rec, subrecs, agg, h, m)}
<1>1. SUFFICES ASSUME T # {} PROVE FALSE
  OBVIOUS
<1>2. PICK m \in T : \A x \in T : m <= x
  <2> HIDE DEF T
  <2>1. T \subseteq Nat
    BY DEF T
  <2> QED BY <1>1, <2>1, Least, Zenon
<1>3. m # 0
  <2>1. \A e \in Exprs : ~ (Height(e) < 0)
    BY Heights
  <2>2. Partial(rec, subrecs, agg, <<>>, 0)
    BY <2>1 DEF Partial
  <2> QED BY <1>2, <2>2
<1>4. m \in Nat /\ m - 1 \in Nat /\ m - 1 \notin T /\ (m - 1) + 1 = m
  <2>1. m \in Nat
    OBVIOUS
  <2>2. m - 1 \notin T
    <3> HIDE DEF T
    <3> QED BY <1>2, <1>3, <2>1
  <2> QED BY <1>3, <2>1, <2>2
<1>5. PICK h : Partial(rec, subrecs, agg, h, m - 1)
  BY <1>4
<1>6. Partial(rec, subrecs, agg, Values(rec, subrecs, agg, h), m)
  BY <1>4, <1>5, PartialMore
<1> QED BY <1>2, <1>6

LEMMA eval_exprUnfolds ==
  ASSUME NEW rec, NEW subrecs, NEW agg, NEW e \in Exprs
  PROVE  eval_expr(rec, subrecs, agg)[e] =
           Value(rec, subrecs, agg, eval_expr(rec, subrecs, agg), e)
<1> DEFINE c == Cardinality(Exprs)
           v == eval_expr(rec, subrecs, agg)
<1>1. c \in Nat /\ \A x \in Exprs : Height(x) \in Nat /\ Height(x) < c + 1
  BY Heights
<1> HIDE DEF c
<1>2. PICK h : Partial(rec, subrecs, agg, h, c + 1)
  BY <1>1, PartialAll
<1> DEFINE g == Values(rec, subrecs, agg, h)
<1>3. Partial(rec, subrecs, agg, g, (c + 1) + 1)
  BY <1>1, <1>2, PartialMore
<1>4. g = Values(rec, subrecs, agg, g)
  <2>1. \A x \in Exprs : g[x] = Value(rec, subrecs, agg, g, x)
    <3> HIDE DEF g
    <3> QED BY <1>1, <1>3 DEF Partial
  <2>2. g = [x \in Exprs |-> g[x]]
    BY DEF Values
  <2> HIDE DEF g
  <2> QED BY <2>1, <2>2 DEF Values
<1>5. v = CHOOSE f : f = Values(rec, subrecs, agg, f)
  BY DEF eval_expr, Values, Value
<1> HIDE DEF g
<1>6. v = Values(rec, subrecs, agg, v)
  <2> HIDE DEF v
  <2> QED BY <1>4, <1>5
<1> HIDE DEF v
<1>7. v[e] = Value(rec, subrecs, agg, v, e)
  BY <1>6 DEF Values
<1> QED BY <1>7 DEF v

-----------------------------------------------------------------------------
\* A value, and not the end of the process.
Safe(v) == v.type # "TRAP"

LEMMA OperatorsSafe ==
  ASSUME NEW l, NEW r, NEW op
  PROVE  /\ Safe(eval_arith(op, l, r)) /\ Safe(eval_neg_expr(r)) /\ Safe(eval_not_expr(r))
         /\ Safe(calc_logic(op, l, r)) /\ Safe(eval_compare(op, l, r))
         /\ Safe(eval_like_expr(l, r))
<1>1. \A n : Safe(IntNum(n)) /\ Safe(Approx(n)) /\ Safe(Truth(n))
  BY DEF Safe, IntNum, Approx, Truth
<1>2. Safe(lazy_expr) /\ Safe(error_expr) /\ Safe(Blank)
  BY DEF Safe, lazy_expr, error_expr, Blank
<1>3. Safe(eval_arith(op, l, r))
  BY <1>1, <1>2, Zenon DEF eval_arith
<1>4. Safe(eval_neg_expr(r)) /\ Safe(eval_not_expr(r))
  BY <1>1, <1>2, Zenon DEF eval_neg_expr, eval_not_expr
<1>5. Safe(calc_logic(op, l, r))
  BY <1>1, <1>2, Zenon DEF calc_logic
<1>6. Safe(eval_compare(op, l, r))
  BY <1>1, <1>2, Zenon DEF eval_compare
<1>7. Safe(eval_like_expr(l, r))
  BY <1>1, <1>2, Zenon DEF eval_like_expr
<1> QED BY <1>3, <1>4, <1>5, <1>6, <1>7

LEMMA FlippedSafe ==
  ASSUME NEW not, NEW v, Safe(v) PROVE Safe(Flipped(not, v))
BY DEF Flipped, Safe, IntNum

LEMMA AfterSafe ==
  ASSUME NEW l, NEW r, NEW v, Safe(l), Safe(r), Safe(v) PROVE Safe(After(l, r, v))
BY DEF After, Safe, Trap

LEMMA ListSafe ==
  ASSUME NEW l, NEW list, \A i \in 1 .. Len(list) : Safe(list[i])
  PROVE  Safe(is_in_val_list(l, list))
<1> DEFINE stops == {i \in 1 .. Len(list) :
                       list[i].type \in {"ERROR", "TRAP"} \/ Listed(l, list[i])}
           first == CHOOSE i \in stops : \A j \in stops : i <= j
<1>1. \A n : Safe(Truth(n))
  BY DEF Safe, Truth, IntNum
<1>2. Safe(error_expr)
  BY DEF Safe, error_expr
<1>3. stops = {} \/ \E i \in stops : \A j \in stops : i <= j
  <2>1. stops \subseteq Nat
    OBVIOUS
  <2> HIDE DEF stops
  <2> QED BY <2>1, Least, Zenon
<1>4. stops # {} => Safe(list[first])
  <2> SUFFICES ASSUME stops # {} PROVE Safe(list[first])
    OBVIOUS
  <2>1. first \in stops
    <3> HIDE DEF stops
    <3> QED BY <1>3
  <2>2. first \in 1 .. Len(list)
    <3> HIDE DEF first
    <3> QED BY <2>1
  <2> QED BY <2>2
<1>5. is_in_val_list(l, list) =
        IF is_error(l) THEN error_expr
        ELSE IF stops = {} THEN Truth(FALSE)
        ELSE IF Listed(l, list[first]) THEN Truth(TRUE) ELSE list[first]
  BY DEF is_in_val_list
<1> HIDE DEF stops, first
<1> QED BY <1>1, <1>2, <1>4, <1>5, Zenon

\* one of these, by the type of the expression
Chosen(type, name, column, number, div, mod, neg, not, logic, comparison, like, listed,
       chosen, agr, other) ==
  CASE type = "NAME" -> name
    [] type = "TABLE_COLUMN" -> column
    [] type \in {"ADD", "SUB", "MUL"} -> number
    [] type = "DIV" -> div
    [] type = "MOD" -> mod
    [] type = "NEG" -> neg
    [] type = "NOT" -> not
    [] type \in Logic -> logic
    [] type \in Comparisons -> comparison
    [] type = "LIKE" -> like
    [] type = "IN_VAL_LIST" -> listed
    [] type = "IN_SELECT" -> chosen
    [] type \in {"COUNT", "SUM"} -> agr
    [] OTHER -> other

LEMMA ChosenSafe ==
  ASSUME NEW type, NEW name, NEW column, NEW number, NEW div, NEW mod, NEW neg, NEW not,
         NEW logic, NEW comparison, NEW like, NEW listed, NEW chosen, NEW agr, NEW other,
         type \notin {"DIV", "MOD"}, type \notin {"COUNT", "SUM"},
         Safe(name), Safe(column), Safe(number), Safe(neg), Safe(not), Safe(logic), Safe(comparison),
         Safe(like), type = "IN_VAL_LIST" => Safe(listed), Safe(chosen), Safe(other)
  PROVE  Safe(Chosen(type, name, column, number, div, mod, neg, not, logic, comparison, like,
                     listed, chosen, agr, other))
<1> DEFINE c == Chosen(type, name, column, number, div, mod, neg, not, logic, comparison, like,
                       listed, chosen, agr, other)
<1>1. \/ c \in {name, column, number, neg, not, logic, comparison, like, chosen, other}
      \/ type = "IN_VAL_LIST" /\ c = listed
  BY DEF Chosen
<1> HIDE DEF c
<1>2. Safe(c)
  BY <1>1
<1> QED BY <1>2 DEF c

\* While a group is merged there is no record and no row of a subquery: only
\* dividing, and what aggregates hold, can end the process.
LEMMA ValueSafe ==
  ASSUME NEW agg, NEW h, NEW e \in Exprs, e.type \notin {"DIV", "MOD"},
         \A c \in Children(e) : Safe(h[c]), is_agr_func(e) => Safe(agg[e])
  PROVE  Safe(Value(<<>>, NoRows, agg, h, e))
<1>1. CASE is_agr_func(e)
  BY <1>1 DEF Value, is_agr_func, Logic, Comparisons
<1>2. CASE ~ is_agr_func(e)
  <2> DEFINE l == IF "l" \in DOMAIN e THEN h[e.l] ELSE Blank
             r == IF "r" \in DOMAIN e THEN h[e.r] ELSE Blank
             list == [i \in 1 .. Len(e.list) |-> h[e.list[i]]]
  <2>1. Safe(l)
    <3>1. "l" \in DOMAIN e => e.l \in Children(e)
      BY <1>2 DEF Children
    <3> QED BY <3>1 DEF Safe, Blank
  <2>2. Safe(r)
    <3>1. "r" \in DOMAIN e => e.r \in Children(e)
      BY <1>2 DEF Children
    <3> QED BY <3>1 DEF Safe, Blank
  <2>3. e.type = "IN_VAL_LIST" => Safe(is_in_val_list(l, list))
    <3> SUFFICES ASSUME e.type = "IN_VAL_LIST"
                 PROVE  Safe(is_in_val_list(l, list))
      OBVIOUS
    <3>1. \A i \in 1 .. Len(e.list) : Safe(h[e.list[i]])
      BY <1>2 DEF Children
    <3>2. \A i \in 1 .. Len(list) : Safe(list[i])
      <4>1. CASE Len(e.list) \in Nat
        <5>1. Len(list) = Len(e.list)
          BY <4>1
        <5> QED BY <3>1, <5>1
      <4> QED BY <3>1, <4>1
    <3> HIDE DEF l, list
    <3> QED BY <3>2, ListSafe, Zenon
  <2>4. Safe(e)
    BY ExprsAssumption DEF Safe
  <2>5. \A places : places = {} => Cell(<<>>, places) = error_expr
    BY FS_EmptySet DEF Cell
  <2>6. Safe(error_expr)
    BY DEF Safe, error_expr
  <2>7. is_in_select(l, NoRows) = Truth(FALSE)
    BY DEF is_in_select, NoRows
  <2>8. Safe(Truth(FALSE))
    BY DEF Safe, Truth, IntNum
  <2>9. /\ Safe(Cell(<<>>, {k \in 1 .. Len(<<>>) : <<>>[k].name = e.name}))
        /\ Safe(Cell(<<>>, {k \in 1 .. Len(<<>>) :
                              /\ <<>>[k].name = e.name
                              /\ e.table \in {<<>>[k].table, <<>>[k].alias}}))
    BY <2>5, <2>6
  <2>10. Value(<<>>, NoRows, agg, h, e) =
           Chosen(e.type, Cell(<<>>, {k \in 1 .. Len(<<>>) : <<>>[k].name = e.name}),
                  Cell(<<>>, {k \in 1 .. Len(<<>>) :
                                /\ <<>>[k].name = e.name
                                /\ e.table \in {<<>>[k].table, <<>>[k].alias}}),
                  After(l, r, eval_arith(e.type, l, r)), After(l, r, eval_div_expr(l, r)),
                  After(l, r, eval_mod_expr(l, r)), After(r, r, eval_neg_expr(r)),
                  After(r, r, eval_not_expr(r)), After(l, r, calc_logic(e.type, l, r)),
                  After(l, r, eval_compare(e.type, l, r)),
                  After(l, r, Flipped(e.not, eval_like_expr(l, r))),
                  After(l, l, Flipped(e.not, is_in_val_list(l, list))),
                  Flipped(e.not, is_in_select(l, NoRows)), agg[e], e)
    BY DEF Value, Chosen, is_agr_func
  <2>11. e.type \notin {"COUNT", "SUM"}
    BY <1>2 DEF is_agr_func
  <2> HIDE DEF l, r, list
  <2>12. /\ Safe(After(l, r, eval_arith(e.type, l, r))) /\ Safe(After(r, r, eval_neg_expr(r)))
         /\ Safe(After(r, r, eval_not_expr(r))) /\ Safe(After(l, r, calc_logic(e.type, l, r)))
         /\ Safe(After(l, r, eval_compare(e.type, l, r)))
         /\ Safe(After(l, r, Flipped(e.not, eval_like_expr(l, r))))
         /\ Safe(Flipped(e.not, is_in_select(l, NoRows)))
    BY <2>1, <2>2, <2>7, <2>8, OperatorsSafe, FlippedSafe, AfterSafe, Zenon
  <2>13. e.type = "IN_VAL_LIST" => Safe(After(l, l, Flipped(e.not, is_in_val_list(l, list))))
    BY <2>1, <2>3, FlippedSafe, AfterSafe, Zenon
  <2> QED BY <2>4, <2>9, <2>10, <2>11, <2>12, <2>13, ChosenSafe, Zenon
<1> QED BY <1>1, <1>2

LEMMA eval_exprSafe ==
  ASSUME NEW agg, \A x \in Exprs : Safe(agg[x]), NEW e \in Exprs, ~ Divides(e)
  PROVE  Safe(eval_expr(<<>>, NoRows, agg)[e])
<1> DEFINE v == eval_expr(<<>>, NoRows, agg)
           B == {x \in Exprs : ~ Divides(x) /\ ~ Safe(v[x])}
           T == {Height(x) : x \in B}
<1>1. \A x \in Exprs : v[x] = Value(<<>>, NoRows, agg, v, x)
  BY eval_exprUnfolds
<1> HIDE DEF v
<1>2. SUFFICES ASSUME B # {} PROVE FALSE
  BY DEF v
<1>3. PICK m \in T : \A x \in T : m <= x
  <2>1. T # {} /\ T \subseteq Nat
    BY <1>2, Heights
  <2> HIDE DEF T
  <2> QED BY <2>1, Least, Zenon
<1>4. PICK x \in B : Height(x) = m
  OBVIOUS
<1>5. x \in Exprs /\ ~ Divides(x) /\ ~ Safe(v[x])
  OBVIOUS
<1>6. ASSUME NEW c \in Children(x)
      PROVE  Safe(v[c])
  <2>1. c \in Exprs /\ Height(c) \in Nat /\ Height(c) < Height(x) /\ Height(x) \in Nat
    BY <1>5, <1>6, Heights
  <2>2. ~ Divides(c)
    <3>1. Parts[c] \subseteq Parts[x]
      BY <1>5, <1>6, ExprsAssumption
    <3> QED BY <1>5, <3>1 DEF Divides
  <2>3. c \notin B
    <3>1. c \in B => m <= Height(c)
      BY <1>3
    <3> HIDE DEF B
    <3> QED BY <1>4, <2>1, <3>1
  <2> QED BY <2>1, <2>2, <2>3
<1>7. x.type \notin {"DIV", "MOD"}
  <2>1. x \in Parts[x]
    BY <1>5, ExprsAssumption
  <2> QED BY <1>5, <2>1 DEF Divides
<1>8. Safe(Value(<<>>, NoRows, agg, v, x))
  BY <1>5, <1>6, <1>7, ValueSafe
<1> QED BY <1>1, <1>5, <1>8

-----------------------------------------------------------------------------
\* What the records b .. e of r add up to in item k, of the kind COUNT or SUM.
SumAt(r, k, kind, b, h, j) ==
  IF j = b THEN r[b].item[k] ELSE merge_item_left(h[j - 1], r[j].item[k], kind, b, j)

Sums(r, k, kind, b, e, h) == [j \in b .. e |-> SumAt(r, k, kind, b, h, j)]

Summed(r, k, kind, b, e, h, n) ==
  \A j \in b .. e : j < n => h[j] = SumAt(r, k, kind, b, h, j)

LEMMA SummedMore ==
  ASSUME NEW r, NEW k, NEW kind, NEW b \in Nat, NEW e \in Nat, NEW h, NEW n \in Nat,
         Summed(r, k, kind, b, e, h, n)
  PROVE  Summed(r, k, kind, b, e, Sums(r, k, kind, b, e, h), n + 1)
<1> DEFINE g == Sums(r, k, kind, b, e, h)
<1>1. \A j \in b .. e : g[j] = SumAt(r, k, kind, b, h, j)
  BY DEF Sums
<1> HIDE DEF g
<1>2. ASSUME NEW j \in b .. e, j < n + 1
      PROVE  g[j] = SumAt(r, k, kind, b, g, j)
  <2>1. CASE j = b
    BY <1>1, <2>1 DEF SumAt
  <2>2. CASE j # b
    <3>1. j - 1 \in b .. e /\ j - 1 < n
      BY <1>2, <2>2
    <3>2. h[j - 1] = g[j - 1]
      BY <1>1, <3>1 DEF Summed
    <3> QED BY <1>1, <2>2, <3>2 DEF SumAt
  <2> QED BY <2>1, <2>2
<1>3. Summed(r, k, kind, b, e, g, n + 1)
  BY <1>2 DEF Summed
<1> QED BY <1>3 DEF g

LEMMA SummedAll ==
  ASSUME NEW r, NEW k, NEW kind, NEW b \in Nat, NEW e \in Nat, NEW n \in Nat
  PROVE  \E h : Summed(r, k, kind, b, e, h, n)
<1> DEFINE T == {m \in Nat : ~ \E h : Summed(r, k, kind, b, e, h, m)}
<1>1. SUFFICES ASSUME T # {} PROVE FALSE
  OBVIOUS
<1>2. PICK m \in T : \A x \in T : m <= x
  <2> HIDE DEF T
  <2>1. T \subseteq Nat
    BY DEF T
  <2> QED BY <1>1, <2>1, Least, Zenon
<1>3. m # 0
  <2>1. Summed(r, k, kind, b, e, <<>>, 0)
    BY DEF Summed
  <2> QED BY <1>2, <2>1
<1>4. m \in Nat /\ m - 1 \in Nat /\ m - 1 \notin T /\ (m - 1) + 1 = m
  <2>1. m \in Nat
    OBVIOUS
  <2>2. m - 1 \notin T
    <3> HIDE DEF T
    <3> QED BY <1>2, <1>3, <2>1
  <2> QED BY <1>3, <2>1, <2>2
<1>5. PICK h : Summed(r, k, kind, b, e, h, m - 1)
  BY <1>4
<1>6. Summed(r, k, kind, b, e, Sums(r, k, kind, b, e, h), m)
  BY <1>4, <1>5, SummedMore
<1> QED BY <1>2, <1>6

\* The recursive function of Total is a definition.
TotalBy(b, e, k, kind, v) ==
  /\ Total(b, e, k, kind) = v[e]
  /\ \A j \in b .. e : v[j] = SumAt(recs, k, kind, b, v, j)

LEMMA TotalIs ==
  ASSUME NEW k, NEW kind, NEW b \in Nat, NEW e \in Nat, b <= e
  PROVE  \E v : TotalBy(b, e, k, kind, v)
<1> DEFINE v == CHOOSE h : h = Sums(recs, k, kind, b, e, h)
<1>1. PICK h : Summed(recs, k, kind, b, e, h, e + 1)
  <2>1. e + 1 \in Nat
    OBVIOUS
  <2> QED BY <2>1, SummedAll, Zenon
<1> DEFINE g == Sums(recs, k, kind, b, e, h)
<1>2. Summed(recs, k, kind, b, e, g, (e + 1) + 1)
  BY <1>1, SummedMore
<1>3. g = Sums(recs, k, kind, b, e, g)
  <2>1. \A j \in b .. e : g[j] = SumAt(recs, k, kind, b, g, j)
    <3> HIDE DEF g
    <3>1. \A j \in b .. e : j < (e + 1) + 1
      OBVIOUS
    <3> QED BY <1>2, <3>1 DEF Summed
  <2>2. g = [j \in b .. e |-> g[j]]
    BY DEF Sums
  <2> HIDE DEF g
  <2> QED BY <2>1, <2>2 DEF Sums
<1> HIDE DEF g
<1>4. v = Sums(recs, k, kind, b, e, v)
  BY <1>3
<1> HIDE DEF v
<1>5. \A j \in b .. e : v[j] = SumAt(recs, k, kind, b, v, j)
  <2>1. \A j \in b .. e : Sums(recs, k, kind, b, e, v)[j] = SumAt(recs, k, kind, b, v, j)
    BY DEF Sums
  <2> QED BY <1>4, <2>1
<1>6. Total(b, e, k, kind) = v[e]
  BY DEF Total, v, Sums, SumAt
<1> QED BY <1>5, <1>6 DEF TotalBy

\* The first record counts as it is; adding gives a value, whatever is added.
LEMMA TotalSafe ==
  ASSUME NEW k, NEW kind, NEW b \in Nat, NEW e \in Nat, b <= e, Safe(recs[b].item[k])
  PROVE  Safe(Total(b, e, k, kind))
<1>1. PICK v : TotalBy(b, e, k, kind, v)
  BY TotalIs
<1>2. Total(b, e, k, kind) = v[e] /\ v[e] = SumAt(recs, k, kind, b, v, e)
  <2>1. e \in b .. e
    OBVIOUS
  <2> QED BY <1>1, <2>1 DEF TotalBy
<1>3. \A x, y, j : Safe(merge_item_left(x, y, kind, b, j))
  <2>1. \A x, y : Safe(eval_arith("ADD", x, y))
    BY OperatorsSafe
  <2>2. \A n : Safe(IntNum(n))
    BY DEF Safe, IntNum
  <2> QED BY <2>1, <2>2, Zenon DEF merge_item_left
<1>4. \/ SumAt(recs, k, kind, b, v, e) = recs[b].item[k]
      \/ SumAt(recs, k, kind, b, v, e) = merge_item_left(v[e - 1], recs[e].item[k], kind, b, e)
  BY DEF SumAt
<1> QED BY <1>2, <1>3, <1>4

-----------------------------------------------------------------------------
\* Adding numbers gives a number.
LEMMA NumbersAdd ==
  ASSUME NEW op, NEW l, NEW r, IsNumber(l), IsNumber(r)
  PROVE  IsNumber(eval_arith(op, l, r)) /\ IsNumber(After(l, r, eval_arith(op, l, r)))
<1>1. l.type # "LAZY" /\ r.type # "LAZY" /\ l.type # "TRAP" /\ r.type # "TRAP"
  BY DEF IsNumber
<1>2. lazy_expr \notin {l, r} /\ Trap \notin {l, r}
  BY <1>1 DEF lazy_expr, Trap
<1>3. \A n : IsNumber(IntNum(n)) /\ IsNumber(Approx(n))
  BY DEF IsNumber, IntNum, Approx
<1>4. IsNumber(eval_arith(op, l, r))
  BY <1>2, <1>3, Zenon DEF eval_arith
<1> QED BY <1>2, <1>4, Zenon DEF After

LEMMA TotalNumber ==
  ASSUME NEW k, NEW kind, NEW b \in Nat, NEW e \in Nat, b <= e,
         \A j \in b .. e : IsNumber(recs[j].item[k])
  PROVE  IsNumber(Total(b, e, k, kind))
<1>1. PICK v : TotalBy(b, e, k, kind, v)
  BY TotalIs
<1>2. Total(b, e, k, kind) = v[e] /\ \A j \in b .. e : v[j] = SumAt(recs, k, kind, b, v, j)
  BY <1>1 DEF TotalBy
<1> DEFINE T == {j \in b .. e : ~ IsNumber(v[j])}
<1>3. T = {}
  <2>1. SUFFICES ASSUME T # {} PROVE FALSE
    OBVIOUS
  <2>2. PICK m \in T : \A x \in T : m <= x
    <3>1. T \subseteq Nat
      OBVIOUS
    <3> HIDE DEF T
    <3> QED BY <2>1, <3>1, Least, Zenon
  <2>3. m \in b .. e /\ ~ IsNumber(v[m])
    OBVIOUS
  <2>4. CASE m = b
    <3>1. v[m] = recs[b].item[k]
      BY <1>2, <2>3, <2>4 DEF SumAt
    <3>2. IsNumber(recs[b].item[k])
      BY <2>3, <2>4
    <3> QED BY <2>3, <3>1, <3>2
  <2>5. CASE m # b
    <3>1. m - 1 \in b .. e /\ ~ (m <= m - 1)
      BY <2>3, <2>5
    <3>2. m - 1 \notin T
      <4> HIDE DEF T
      <4> QED BY <2>2, <3>1
    <3>3. IsNumber(v[m - 1]) /\ IsNumber(recs[m].item[k])
      BY <2>3, <3>1, <3>2
    <3>4. v[m] = merge_item_left(v[m - 1], recs[m].item[k], kind, b, m)
      BY <1>2, <2>3, <2>5 DEF SumAt
    <3>5. IsNumber(eval_arith("ADD", v[m - 1], recs[m].item[k]))
      BY <3>3, NumbersAdd
    <3>6. IsNumber(IntNum(m - b + 1))
      BY DEF IsNumber, IntNum
    <3>7. IsNumber(merge_item_left(v[m - 1], recs[m].item[k], kind, b, m))
      BY <3>5, <3>6, Zenon DEF merge_item_left
    <3> QED BY <2>3, <3>4, <3>7
  <2> QED BY <2>4, <2>5
<1>4. e \in b .. e
  OBVIOUS
<1> QED BY <1>2, <1>3, <1>4

\* A sum of aggregates that are numbers.
LEMMA eval_exprNumber ==
  ASSUME NEW agg, \A x \in Exprs : IsNumber(agg[x]), NEW e \in Exprs,
         \A x \in Parts[e] : Additive(x)
  PROVE  IsNumber(eval_expr(<<>>, NoRows, agg)[e])
<1> DEFINE v == eval_expr(<<>>, NoRows, agg)
           Sum(x) == \A y \in Parts[x] : Additive(y)
           B == {x \in Exprs : Sum(x) /\ ~ IsNumber(v[x])}
           T == {Height(x) : x \in B}
<1>1. \A x \in Exprs : v[x] = Value(<<>>, NoRows, agg, v, x)
  BY eval_exprUnfolds
<1> HIDE DEF v
<1>2. SUFFICES ASSUME B # {} PROVE FALSE
  BY DEF v
<1>3. PICK m \in T : \A x \in T : m <= x
  <2>1. T # {} /\ T \subseteq Nat
    BY <1>2, Heights
  <2> HIDE DEF T
  <2> QED BY <2>1, Least, Zenon
<1>4. PICK x \in B : Height(x) = m
  OBVIOUS
<1>5. x \in Exprs /\ Sum(x) /\ ~ IsNumber(v[x])
  OBVIOUS
<1>6. ASSUME NEW c \in Children(x)
      PROVE  IsNumber(v[c])
  <2>1. c \in Exprs /\ Height(c) \in Nat /\ Height(c) < Height(x) /\ Height(x) \in Nat
    BY <1>5, <1>6, Heights
  <2>2. Sum(c)
    <3>1. Parts[c] \subseteq Parts[x]
      BY <1>5, <1>6, ExprsAssumption
    <3> QED BY <1>5, <3>1
  <2>3. c \notin B
    <3>1. c \in B => m <= Height(c)
      BY <1>3
    <3> HIDE DEF B
    <3> QED BY <1>4, <2>1, <3>1
  <2> HIDE DEF Sum
  <2> QED BY <2>1, <2>2, <2>3
<1>7. Additive(x)
  <2>1. x \in Parts[x]
    BY <1>5, ExprsAssumption
  <2> QED BY <1>5, <2>1
<1>8. IsNumber(Value(<<>>, NoRows, agg, v, x))
  <2>1. CASE is_agr_func(x)
    <3>1. Value(<<>>, NoRows, agg, v, x) = agg[x]
      BY <2>1 DEF Value, is_agr_func, Logic, Comparisons
    <3> QED BY <1>5, <3>1
  <2>2. CASE IsNumber(x)
    <3>1. Value(<<>>, NoRows, agg, v, x) = x
      BY <2>2 DEF Value, IsNumber, is_agr_func, Logic, Comparisons
    <3> QED BY <2>2, <3>1
  <2>3. CASE x.type \in {"ADD", "SUB", "MUL"} /\ {"l", "r"} \subseteq DOMAIN x
    <3>1. ~ is_agr_func(x)
      BY <2>3 DEF is_agr_func
    <3>2. x.l \in Children(x) /\ x.r \in Children(x)
      BY <2>3, <3>1 DEF Children
    <3>3. Value(<<>>, NoRows, agg, v, x)
            = After(v[x.l], v[x.r], eval_arith(x.type, v[x.l], v[x.r]))
      BY <2>3 DEF Value, Logic, Comparisons, is_agr_func
    <3> QED BY <1>6, <3>2, <3>3, NumbersAdd
  <2> QED BY <1>7, <2>1, <2>2, <2>3 DEF Additive
<1> QED BY <1>1, <1>5, <1>8

-----------------------------------------------------------------------------
\* The aggregates of a statement have places 1, 2, ...
LEMMA Places ==
  ASSUME NEW s \in Queries
  PROVE  /\ Cardinality(Aggregated(s)) \in Nat
         /\ Len(vcol(s)) = Cardinality(Aggregated(s))
         /\ \A i \in Aggregated(s) : place(s, i) \in 1 .. Cardinality(Aggregated(s))
<1>1. Len(s.columns) \in Nat
  BY QueriesAssumption
<1>2. IsFiniteSet(1 .. Len(s.columns))
  BY <1>1, FS_Interval
<1>3. IsFiniteSet(Aggregated(s))
  BY <1>2, FS_Subset DEF Aggregated
<1>4. Cardinality(Aggregated(s)) \in Nat
  BY <1>3, FS_CardinalityType
<1>5. Len(vcol(s)) = Cardinality(Aggregated(s))
  <2> DEFINE c == Cardinality(Aggregated(s))
  <2> HIDE DEF c
  <2>1. \E g : vcol(s) = [p \in 1 .. c |-> g[p]]
    <3>1. vcol(s) = [p \in 1 .. c |-> vcol(s)[p]]
      BY DEF vcol, c
    <3> QED BY <3>1
  <2>2. c \in Nat
    BY <1>4 DEF c
  <2>3. Len(vcol(s)) = c
    BY <2>1, <2>2
  <2> QED BY <2>3 DEF c
<1>6. ASSUME NEW i \in Aggregated(s)
      PROVE  place(s, i) \in 1 .. Cardinality(Aggregated(s))
  <2> DEFINE K == {k \in Aggregated(s) : k <= i}
  <2>1. K \subseteq Aggregated(s)
    OBVIOUS
  <2>2. i \in K
    <3>1. i \in Nat
      BY <1>6 DEF Aggregated
    <3> QED BY <3>1
  <2> HIDE DEF K
  <2>3. IsFiniteSet(K) /\ Cardinality(K) <= Cardinality(Aggregated(s))
    BY <1>3, <2>1, FS_Subset
  <2>4. Cardinality(K) \in Nat /\ Cardinality(K) # 0
    BY <2>2, <2>3, FS_CardinalityType, FS_EmptySet
  <2>5. place(s, i) = Cardinality(K)
    BY DEF place, K
  <2> QED BY <1>4, <2>3, <2>4, <2>5
<1> QED BY <1>4, <1>5, <1>6

\* A row has its columns, a place for each aggregate and its keys.
Wide(s, row) == /\ Len(row) \in Nat
                /\ Len(s.columns) + (Len(vcol(s)) + Len(s.group)) <= Len(row)

\* None of its values is the end of the process.
RowSafe(s, row) ==
  /\ Wide(s, row)
  /\ \A i \in 1 .. Len(s.columns) + Len(vcol(s)) : Safe(row[i])

\* What an aggregate of column i has the value of.
SumsOf(b, e) ==
  [p \in 1 .. Len(vcol(q)) |-> Total(b, e, Len(q.columns) + p, vcol(q)[p].type)]

AggOf(b, e, i) ==
  [x \in Exprs |->
     SumsOf(b, e)[IF x = extract_agr[q.columns[i].expr][1] THEN place(q, i) ELSE 1]]

LEMMA MergedIs ==
  ASSUME q \in Queries, NEW b, NEW e, NEW i \in 1 .. Len(q.columns),
         Wide(q, recs[b].item)
  PROVE  Merged(b, e)[i] = IF i \in Aggregated(q)
                           THEN eval_expr(<<>>, NoRows, AggOf(b, e, i))[q.columns[i].expr]
                           ELSE recs[b].item[i]
<1> DEFINE n == Len(q.columns)
           m == Len(vcol(q))
           W(x) == eval_expr(<<>>, NoRows,
                             [y \in Exprs |-> SumsOf(b, e)[IF y = extract_agr[q.columns[x].expr][1]
                                                           THEN place(q, x) ELSE 1]])
                            [q.columns[x].expr]
           Y(x) == IF x <= n + m THEN SumsOf(b, e)[x - n] ELSE recs[b].item[x]
           Z(x) == IF x \in Aggregated(q) THEN W(x) ELSE recs[b].item[x]
<1>1. n \in Nat /\ m \in Nat /\ Len(q.group) \in Nat
  BY Places, QueriesAssumption
<1>2. i \in 1 .. Len(recs[b].item) /\ i <= n
  <2>1. Len(recs[b].item) \in Nat /\ n + (m + Len(q.group)) <= Len(recs[b].item)
    BY DEF Wide
  <2> HIDE DEF n, m, W, Y, Z
  <2>2. n <= Len(recs[b].item)
    BY <1>1, <2>1
  <2>3. i \in 1 .. n
    BY DEF n
  <2> QED BY <1>1, <2>1, <2>2, <2>3
<1>3. Merged(b, e) = [x \in 1 .. Len(recs[b].item) |-> IF x <= n THEN Z(x) ELSE Y(x)]
  BY Zenon DEF Merged, SumsOf
<1>4. Merged(b, e)[i] = Z(i)
  <2> HIDE DEF Y, Z
  <2> QED BY <1>2, <1>3
<1>5. W(i) = eval_expr(<<>>, NoRows, AggOf(b, e, i))[q.columns[i].expr]
  BY DEF AggOf
<1> HIDE DEF W
<1> QED BY <1>4, <1>5

\* Each of them adds up numbers, or values that are no end of the process.
LEMMA AggOfIs ==
  ASSUME q \in Queries, NEW b, NEW e, NEW i \in Aggregated(q), NEW x \in Exprs
  PROVE  \E p \in 1 .. Len(vcol(q)) :
           AggOf(b, e, i)[x] = Total(b, e, Len(q.columns) + p, vcol(q)[p].type)
<1>1. place(q, i) \in 1 .. Len(vcol(q)) /\ Len(vcol(q)) \in Nat
  BY Places
<1> DEFINE p == IF x = extract_agr[q.columns[i].expr][1] THEN place(q, i) ELSE 1
<1>2. p \in 1 .. Len(vcol(q)) /\ AggOf(b, e, i)[x] = SumsOf(b, e)[p]
  BY <1>1 DEF AggOf
<1> HIDE DEF p
<1>3. SumsOf(b, e)[p] = Total(b, e, Len(q.columns) + p, vcol(q)[p].type)
  BY <1>2 DEF SumsOf
<1> QED BY <1>2, <1>3

LEMMA MergedSafe ==
  ASSUME q \in Queries, NEW b \in Nat, NEW e \in Nat, b <= e, RowSafe(q, recs[b].item),
         \A i \in Aggregated(q) : ~ Divides(q.columns[i].expr),
         NEW i \in 1 .. Len(q.columns)
  PROVE  Safe(Merged(b, e)[i])
<1> DEFINE n == Len(q.columns)
           m == Len(vcol(q))
<1>1. n \in Nat /\ m \in Nat /\ q.columns[i].expr \in Exprs
  BY Places, QueriesAssumption
<1>2. \A x \in 1 .. n + m : Safe(recs[b].item[x])
  BY DEF RowSafe
<1>3. Merged(b, e)[i] = IF i \in Aggregated(q)
                        THEN eval_expr(<<>>, NoRows, AggOf(b, e, i))[q.columns[i].expr]
                        ELSE recs[b].item[i]
  BY MergedIs DEF RowSafe
<1>4. CASE i \notin Aggregated(q)
  <2>1. Safe(recs[b].item[i])
    BY <1>1, <1>2
  <2> QED BY <1>3, <1>4, <2>1
<1>5. CASE i \in Aggregated(q)
  <2>1. ASSUME NEW x \in Exprs PROVE Safe(AggOf(b, e, i)[x])
    <3>1. PICK p \in 1 .. m : AggOf(b, e, i)[x] = Total(b, e, n + p, vcol(q)[p].type)
      BY <1>5, AggOfIs
    <3>2. n + p \in 1 .. n + m
      <4> HIDE DEF n, m
      <4> QED BY <1>1
    <3>3. Safe(Total(b, e, n + p, vcol(q)[p].type))
      BY <1>2, <3>2, TotalSafe
    <3> QED BY <3>1, <3>3
  <2>2. Safe(eval_expr(<<>>, NoRows, AggOf(b, e, i))[q.columns[i].expr])
    BY <1>1, <1>5, <2>1, eval_exprSafe
  <2> QED BY <1>3, <1>5, <2>2
<1> QED BY <1>4, <1>5

-----------------------------------------------------------------------------
\* f is a sequence of n members.
Of(f, n) == n \in Nat /\ f = [i \in 1 .. n |-> f[i]]

LEMMA OfLen ==
  ASSUME NEW f, NEW n, Of(f, n)
  PROVE  Len(f) = n /\ DOMAIN f = 1 .. n /\ f \in Seq({f[i] : i \in 1 .. n})
<1> DEFINE S == {f[i] : i \in 1 .. n}
<1>1. n \in Nat /\ f \in [1 .. n -> S]
  BY DEF Of
<1> HIDE DEF S
<1>2. f \in Seq(S) /\ Len(f) = n
  BY <1>1
<1> QED BY <1>1, <1>2 DEF S

LEMMA OfConcat ==
  ASSUME NEW f, NEW n, Of(f, n), NEW g, NEW m, Of(g, m)
  PROVE  Of(f \o g, n + m) /\ \A i \in 1 .. n : (f \o g)[i] = f[i]
<1> DEFINE S == {f[i] : i \in 1 .. n} \cup {g[i] : i \in 1 .. m}
           F == {f[i] : i \in 1 .. n}
           G == {g[i] : i \in 1 .. m}
<1>1. n \in Nat /\ m \in Nat
  BY DEF Of
<1>2. f \in Seq(F) /\ Len(f) = n /\ g \in Seq(G) /\ Len(g) = m
  BY OfLen
<1>3. f \in Seq(S) /\ g \in Seq(S)
  <2>1. \A i \in 1 .. Len(f) : f[i] \in S
    BY <1>2
  <2>2. \A i \in 1 .. Len(g) : g[i] \in S
    BY <1>2
  <2> HIDE DEF S, F, G
  <2> QED BY <1>2, <2>1, <2>2
<1> HIDE DEF S, F, G
<1>4. /\ f \o g \in Seq(S) /\ Len(f \o g) = n + m
      /\ \A i \in 1 .. n : (f \o g)[i] = f[i]
  <2>1. /\ f \o g \in Seq(S)
        /\ Len(f \o g) = Len(f) + Len(g)
        /\ \A i \in 1 .. Len(f) + Len(g) :
             (f \o g)[i] = IF i <= Len(f) THEN f[i] ELSE g[i - Len(f)]
    BY <1>3, ConcatProperties, Zenon
  <2>2. \A i \in 1 .. n : i \in 1 .. n + m /\ i <= n
    BY <1>1
  <2> QED BY <1>2, <2>1, <2>2
<1>5. Of(f \o g, n + m)
  <2>1. n + m \in Nat
    BY <1>1
  <2>2. f \o g \in [1 .. n + m -> S]
    BY <1>4, LenProperties
  <2> QED BY <2>1, <2>2 DEF Of
<1> QED BY <1>4, <1>5

LEMMA AskedLen ==
  ASSUME NEW s \in Queries, s.group # <<>>
  PROVE  Of(Asked(s, s), Len(s.columns) + (Len(vcol(s)) + Len(s.group)))
<1> DEFINE f == [i \in 1 .. Len(s.columns) |-> s.columns[i].expr]
           g == [i \in 1 .. Len(vcol(s)) |-> vcol(s)[i].r]
           h == [i \in 1 .. Len(s.group) |-> s.group[i].expr]
<1>1. Len(s.columns) \in Nat /\ Len(s.group) \in Nat /\ Len(vcol(s)) \in Nat
  BY QueriesAssumption, Places
<1>2. Of(f, Len(s.columns)) /\ Of(g, Len(vcol(s))) /\ Of(h, Len(s.group))
  BY <1>1 DEF Of
<1>3. Asked(s, s) = f \o (g \o h)
  BY DEF Asked
<1> HIDE DEF f, g, h
<1>4. Of(f \o (g \o h), Len(s.columns) + (Len(vcol(s)) + Len(s.group)))
  BY <1>2, OfConcat
<1> QED BY <1>3, <1>4

LEMMA JudgedRow ==
  ASSUME NEW cond, NEW kept, Judged(cond, kept).verdict = "row"
  PROVE  Judged(cond, kept) = kept
BY DEF Judged

LEMMA ExtractedRow ==
  ASSUME NEW s, ~ s.all, NEW whole, NEW o, NEW ask, NEW rec,
         Extracted(s, whole, o, ask, rec).verdict = "row"
  PROVE  /\ Extracted(s, whole, o, ask, rec).row = ask \o Extras(whole, o)
         /\ \A i \in 1 .. Len(ask) : Safe(ask[i])
<1> DEFINE bad == {i \in 1 .. Len(ask) : ask[i].type \in {"ERROR", "TRAP"}}
           row == ask \o Extras(whole, o)
<1>1. Extracted(s, whole, o, ask, rec) =
        IF bad # {}
        THEN [verdict |-> IF ask[Min(bad)] = Trap THEN "trap" ELSE "out", row |-> <<>>]
        ELSE [verdict |-> IF Len(row) > RECORD_COLUMNS THEN "trap" ELSE "row", row |-> row]
  BY DEF Extracted
<1> HIDE DEF row
<1>2. bad = {}
  <2> HIDE DEF bad
  <2> QED BY <1>1
<1>3. Extracted(s, whole, o, ask, rec).row = row
  BY <1>1, <1>2
<1> QED BY <1>2, <1>3 DEF row, Safe

\* A row that was kept has a value in each of its columns.
LEMMA SeenSafe ==
  ASSUME NEW d, NEW s \in Queries, NEW o \in Nat, NEW t, ~ s.all, s.group # <<>>,
         Seen(d, s, o, t).verdict = "row"
  PROVE  RowSafe(s, Seen(d, s, o, t).row)
<1> DEFINE n == Len(s.columns) + (Len(vcol(s)) + Len(s.group))
           ask(val) == [i \in 1 .. Len(Asked(s, s)) |-> val[Asked(s, s)[i]]]
<1>1. PICK val, rec : Seen(d, s, o, t) =
                        Judged(val[s.where], Extracted(s, s, o, ask(val), rec))
  <2>1. Seen(d, s, o, t) =
          Judged(eval_expr(load_item(From(s), Arr(d, s), t), SubRun(d, s, o), Lazily)[s.where],
                 Extracted(s, s, o,
                   ask(eval_expr(load_item(From(s), Arr(d, s), t), SubRun(d, s, o), Lazily)),
                   load_item(From(s), Arr(d, s), t)))
    BY Zenon DEF Seen, Visit
  <2> HIDE DEF ask
  <2> QED BY <2>1, Zenon
<1> DEFINE k == ask(val)
<1>2. Of(Asked(s, s), n) /\ Len(Asked(s, s)) = n
  BY AskedLen, OfLen
<1>3. Of(k, n)
  BY <1>2 DEF Of
<1>4. Len(k) = n
  <2> HIDE DEF k, n
  <2> QED BY <1>3, OfLen
<1>5. Of(Extras(s, o), Len(Extras(s, o)))
  <2>1. \E m : Of(Extras(s, o), m)
    <3>1. CASE s.order # <<>>
      <4>1. Of(Extras(s, o), o)
        BY <3>1 DEF Of, Extras
      <4> QED BY <4>1
    <3>2. CASE s.order = <<>>
      <4>1. Of(Extras(s, o), 0)
        BY <3>2 DEF Of, Extras
      <4> QED BY <4>1
    <3> QED BY <3>1, <3>2
  <2> QED BY <2>1, OfLen
<1>6. Seen(d, s, o, t) = Extracted(s, s, o, k, rec)
  <2> HIDE DEF k
  <2> QED BY <1>1, JudgedRow DEF k
<1> HIDE DEF k
<1>7. /\ Seen(d, s, o, t).row = k \o Extras(s, o)
      /\ \A i \in 1 .. n : Safe(k[i])
  <2>1. Extracted(s, s, o, k, rec).verdict = "row"
    BY <1>6
  <2> HIDE DEF n
  <2> QED BY <1>4, <1>6, <2>1, ExtractedRow
<1>8. /\ Of(k \o Extras(s, o), n + Len(Extras(s, o)))
      /\ \A i \in 1 .. n : (k \o Extras(s, o))[i] = k[i]
  <2> HIDE DEF n
  <2> QED BY <1>3, <1>5, OfConcat
<1>9. /\ Len(s.columns) \in Nat /\ Len(s.group) \in Nat /\ Len(vcol(s)) \in Nat
      /\ Len(Extras(s, o)) \in Nat
  BY <1>5, QueriesAssumption, Places DEF Of
<1>10. Len(k \o Extras(s, o)) = n + Len(Extras(s, o))
  <2> HIDE DEF n
  <2> QED BY <1>8, OfLen
<1>11. PICK x \in Nat, y \in Nat, z \in Nat, w \in Nat :
         /\ Len(s.columns) = x /\ Len(vcol(s)) = y /\ Len(s.group) = z
         /\ Len(Extras(s, o)) = w
  BY <1>9
<1>12. n = x + (y + z)
  BY <1>11
<1> HIDE DEF n
<1>13. /\ Len(k \o Extras(s, o)) = (x + (y + z)) + w
       /\ \A i \in 1 .. x + y : Safe((k \o Extras(s, o))[i])
  <2>1. \A i \in 1 .. x + y : i \in 1 .. n
    BY <1>12
  <2>2. \A i \in 1 .. n : Safe((k \o Extras(s, o))[i])
    BY <1>7, <1>8
  <2> QED BY <1>10, <1>11, <1>12, <2>1, <2>2
<1>14. (x + (y + z)) + w \in Nat /\ x + (y + z) <= (x + (y + z)) + w
  OBVIOUS
<1> QED BY <1>7, <1>11, <1>13, <1>14 DEF RowSafe, Wide

-----------------------------------------------------------------------------
\* What ends the process while rows are visited ends it in Whole.
LEMMA WholeFull ==
  ASSUME NEW d, NEW s, NEW o, NEW r, Arrays(Arr(d, s)), NEW p \in Combos(Arr(d, s)),
         Collected(d, s, o, Before(Combos(Arr(d, s)), p), r),
         Seen(d, s, o, p).verdict = "row", Full(Len(r))
  PROVE  Outcome(d, s, o).status = "trap"
<1> DEFINE a == Arr(d, s)
           v == Visits(d, s, o)
           B == Before(Combos(a), p)
           K == KeptOf(d, s, o, B)
<1>1. \A t \in Combos(a) : v[t] = Seen(d, s, o, t)
  BY DEF Visits
<1>2. DOMAIN v = Combos(a)
  BY DEF Visits
<1> HIDE DEF v, a
<1>3. K \subseteq Combos(a) /\ \A t \in K : Precedes(t, p)
  BY DEF KeptOf, Before
<1>4. ASSUME NEW t \in K \cup {p}
      PROVE  t \in Keeps(v)
  <2>1. t \in Combos(a) /\ v[t].verdict = "row"
    BY <1>1, <1>3 DEF KeptOf, a
  <2>2. ASSUME NEW u \in Combos(a), Precedes(u, t)
        PROVE  u \in B
    <3>1. t = p \/ Precedes(t, p)
      BY <1>3
    <3>2. Precedes(u, p)
      BY <2>1, <2>2, <3>1, PrecedesOrder DEF a
    <3> QED BY <3>2 DEF Before
  <2>3. \A u \in B : Seen(d, s, o, u).verdict \notin {"error", "trap"}
    BY DEF Collected, Clean, a
  <2>4. Before(Stops(v), t) = {}
    BY <1>1, <1>2, <2>2, <2>3 DEF Before, Stops
  <2> QED BY <1>2, <2>1, <2>4 DEF Keeps
<1>5. Keeps(v) \subseteq Combos(a)
  BY <1>2 DEF Keeps
<1>6. RowsOf(d, s, o, K, r)
  BY DEF Collected, a
<1> HIDE DEF K
<1>7. Cardinality(K) \in Nat /\ Cardinality(K \cup {p}) = Cardinality(K) + 1
  BY <1>3, InOrderMore DEF a
<1>8. Len(r) = Cardinality(K)
  <2>1. Cardinality(K) \in Nat
    BY <1>7
  <2> QED BY <1>6, <2>1, RowsLen, Zenon
<1>9. /\ Cardinality(K \cup {p}) <= Cardinality(Keeps(v)) /\ Cardinality(Keeps(v)) \in Nat
  <2>1. IsFiniteSet(Keeps(v))
    BY <1>5, CombosFinite, FS_Subset DEF a
  <2>2. K \cup {p} \subseteq Keeps(v)
    BY <1>4
  <2> QED BY <2>1, <2>2, FS_Subset, FS_CardinalityType
<1>10. Cardinality(Keeps(v)) >= RECS_INITIAL_LENGTH
  BY <1>7, <1>8, <1>9, LengthAssumption DEF Full
<1>11. Outcome(d, s, o).status = StatusOf(d, From(s), a, v)
  <2>1. Outcome(d, s, o) = Ended(d, From(s), a, v)
    BY WholeEnds DEF v, a
  <2> QED BY <2>1, EndedParts, Zenon
<1> QED BY <1>10, <1>11 DEF StatusOf

LEMMA WholeOverflows ==
  ASSUME NEW d, NEW s, NEW o, Overflows(d, From(s), Arr(d, s))
  PROVE  Outcome(d, s, o).status = "trap"
<1> DEFINE v == Visits(d, s, o)
<1>1. Outcome(d, s, o) = Ended(d, From(s), Arr(d, s), v)
  BY WholeEnds
<1> HIDE DEF v
<1>2. Outcome(d, s, o).status = StatusOf(d, From(s), Arr(d, s), v)
  BY <1>1, EndedParts, Zenon
<1> QED BY <1>2 DEF StatusOf

LEMMA WholeStuck ==
  ASSUME NEW d, NEW s, NEW o, NEW r, Digits(Arr(d, s)) # DOMAIN Arr(d, s),
         Collected(d, s, o, Combos(Arr(d, s)), r)
  PROVE  Outcome(d, s, o).status = "trap"
<1> DEFINE v == Visits(d, s, o)
<1>1. Stops(v) = {}
  BY DEF Visits, Stops, Collected, Clean
<1>2. Outcome(d, s, o) = Ended(d, From(s), Arr(d, s), v)
  BY WholeEnds
<1> HIDE DEF v
<1>3. Outcome(d, s, o).status = StatusOf(d, From(s), Arr(d, s), v)
  BY <1>2, EndedParts, Zenon
<1> QED BY <1>1, <1>3 DEF StatusOf

-----------------------------------------------------------------------------
LEMMA MinTwo ==
  ASSUME NEW a \in Int, NEW b \in Int
  PROVE  Min({a, b}) = IF a <= b THEN a ELSE b
<1> DEFINE m == IF a <= b THEN a ELSE b
<1>1. m \in {a, b} /\ \A x \in {a, b} : m <= x
  OBVIOUS
<1>2. \A y \in {a, b} : (\A x \in {a, b} : y <= x) => y = m
  OBVIOUS
<1> HIDE DEF m
<1>3. Min({a, b}) = m
  BY <1>1, <1>2 DEF Min
<1> QED BY <1>3 DEF m

\* LIMIT leaves a part w of the n rows.
Leaves(lim, rows, n, w) ==
  /\ Len(w) \in Nat
  /\ Len(w) = Min({lim.count, n - Min({lim.start, n})})
  /\ \A k \in 1 .. Len(w) : /\ lim.start + k \in 1 .. n
                            /\ Min({lim.start, n}) = lim.start
                            /\ w[k] = rows[lim.start + k]

LEMMA WindowIs ==
  ASSUME NEW rows, NEW n \in Nat, Len(rows) = n, NEW lim, lim.start \in Nat, lim.count \in Nat
  PROVE  Leaves(lim, rows, n, Window(rows, lim))
<1>1. PICK a \in Nat : lim.start = a
  OBVIOUS
<1>2. PICK c \in Nat : lim.count = c
  OBVIOUS
<1> DEFINE b == IF a + c <= n THEN a + c ELSE n
           w == SubSeq(rows, a + 1, b)
<1>3. Window(rows, lim) = w
  <2>1. Min({a + c, n}) = b
    BY MinTwo
  <2> HIDE DEF b
  <2> QED BY <1>1, <1>2, <2>1 DEF Window
<1>4. a + 1 \in Int /\ b \in Int
  OBVIOUS
<1>5. /\ Len(w) = IF a + 1 <= b THEN b - (a + 1) + 1 ELSE 0
      /\ \A i \in 1 .. b - (a + 1) + 1 : w[i] = rows[(a + 1) + i - 1]
  <2> DEFINE R == {rows[i] : i \in a + 1 .. b}
  <2>1. \A i \in a + 1 .. b : rows[i] \in R
    OBVIOUS
  <2> HIDE DEF R, b
  <2> QED BY <1>4, <2>1, SubSeqProperties
<1> HIDE DEF w
<1>6. Min({a, n}) = IF a <= n THEN a ELSE n
  BY MinTwo
<1> DEFINE d == IF a <= n THEN n - a ELSE 0
<1>7. Min({c, d}) = IF c <= d THEN c ELSE d
  BY MinTwo
<1>8. Len(w) \in Nat /\ Len(w) = IF c <= d THEN c ELSE d
  BY <1>4, <1>5
<1>9. d = n - Min({a, n})
  BY <1>6
<1>10. ASSUME NEW k \in 1 .. Len(w)
       PROVE  a + k \in 1 .. n /\ a <= n /\ w[k] = rows[a + k]
  <2>1. a + k \in 1 .. n /\ a <= n /\ k \in 1 .. b - (a + 1) + 1 /\ (a + 1) + k - 1 = a + k
    BY <1>5, <1>10
  <2> QED BY <1>5, <2>1
<1> HIDE DEF d
<1> QED BY <1>1, <1>2, <1>3, <1>6, <1>7, <1>8, <1>9, <1>10 DEF Leaves

LEMMA ResultLen ==
  ASSUME Len(recs) \in Nat
  PROVE  /\ Len(Walk) \in Nat /\ Len(Result) = Len(Walk) /\ Len(Walk) <= Len(recs)
         /\ \A n \in 1 .. Len(Walk) : Result[n] = recs[Walk[n]]
<1> DEFINE at == CHOOSE g : g = [n \in 1 .. Len(recs) |->
                   IF n = 1 THEN 1
                   ELSE IF g[n - 1] > Len(recs) THEN g[n - 1] ELSE next(g[n - 1])]
           T == {m \in 1 .. Len(recs) : at[m] <= Len(recs)}
<1>1. Walk = [n \in 1 .. Cardinality(T) |-> at[n]]
  BY DEF Walk
<1>2. Cardinality(T) \in Nat /\ Cardinality(T) <= Len(recs)
  <2> DEFINE n == Len(recs)
  <2>1. IsFiniteSet(1 .. n) /\ Cardinality(1 .. n) = n
    <3>1. n \in Nat
      OBVIOUS
    <3> HIDE DEF n
    <3>2. IsFiniteSet(1 .. n) /\ Cardinality(1 .. n) = IF 1 > n THEN 0 ELSE n - 1 + 1
      BY <3>1, FS_Interval
    <3> QED BY <3>1, <3>2
  <2>2. T \in SUBSET (1 .. n)
    OBVIOUS
  <2> HIDE DEF T, n
  <2>3. IsFiniteSet(T) /\ Cardinality(T) <= Cardinality(1 .. n)
    BY <2>1, <2>2, FS_Subset
  <2> QED BY <2>1, <2>3, FS_CardinalityType DEF n
<1> HIDE DEF at, T
<1>3. Len(Walk) = Cardinality(T)
  BY <1>1, <1>2
<1>4. Result = [n \in 1 .. Len(Walk) |-> recs[Walk[n]]]
  BY DEF Result
<1> QED BY <1>2, <1>3, <1>4

-----------------------------------------------------------------------------
\* The way next leads through n records.
Step(h, n, k) == IF k = 1 THEN 1 ELSE IF h[k - 1] > n THEN h[k - 1] ELSE next(h[k - 1])

Steps(h, n, m) == [k \in 1 .. m |-> Step(h, n, k)]

LEMMA StepsAll ==
  ASSUME NEW n, NEW m \in Nat
  PROVE  \E h : h = Steps(h, n, m)
<1> DEFINE T == {l \in Nat : ~ \E h : h = Steps(h, n, l)}
<1>1. SUFFICES ASSUME T # {} PROVE FALSE
  OBVIOUS
<1>2. PICK l \in T : \A x \in T : l <= x
  <2> HIDE DEF T
  <2>1. T \subseteq Nat
    BY DEF T
  <2> QED BY <1>1, <2>1, Least, Zenon
<1>3. l # 0
  <2>1. Steps(<<>>, n, 0) = Steps(Steps(<<>>, n, 0), n, 0)
    BY DEF Steps
  <2> QED BY <1>2, <2>1
<1>4. l \in Nat /\ l - 1 \in Nat /\ l - 1 \notin T
  <2>1. l \in Nat
    OBVIOUS
  <2>2. l - 1 \notin T
    <3> HIDE DEF T
    <3> QED BY <1>2, <1>3, <2>1
  <2> QED BY <1>3, <2>1, <2>2
<1>5. PICK h : h = Steps(h, n, l - 1)
  BY <1>4
<1> DEFINE g == Steps(h, n, l)
<1>6. \A k \in 1 .. l - 1 : h[k] = Step(h, n, k)
  <2> DEFINE p == l - 1
  <2>1. h = [k \in 1 .. p |-> Step(h, n, k)]
    BY <1>5 DEF Steps
  <2> HIDE DEF p
  <2>2. \A k \in 1 .. p : h[k] = Step(h, n, k)
    BY <2>1
  <2> QED BY <2>2 DEF p
<1>7. \A k \in 1 .. l : g[k] = Step(h, n, k)
  BY DEF Steps
<1>8. g = [k \in 1 .. l |-> g[k]]
  BY DEF Steps
<1> HIDE DEF g
<1>9. \A k \in 1 .. l - 1 : g[k] = h[k]
  <2> SUFFICES ASSUME NEW k \in 1 .. l - 1 PROVE g[k] = h[k]
    OBVIOUS
  <2>1. k \in 1 .. l
    BY <1>4
  <2> QED BY <1>6, <1>7, <2>1
<1>10. \A k \in 1 .. l : g[k] = Step(g, n, k)
  <2> SUFFICES ASSUME NEW k \in 1 .. l PROVE Step(h, n, k) = Step(g, n, k)
    BY <1>7
  <2>1. k # 1 => k - 1 \in 1 .. l - 1
    BY <1>4
  <2> QED BY <1>9, <2>1 DEF Step
<1>11. g = Steps(g, n, l)
  BY <1>8, <1>10 DEF Steps
<1> QED BY <1>2, <1>11

\* A set of numbers with each number below one of them.
LEMMA FirstOnes ==
  ASSUME NEW n \in Nat, NEW M, M \subseteq 1 .. n,
         \A i \in M : \A j \in 1 .. i : j \in M
  PROVE  Cardinality(M) \in Nat /\ M = 1 .. Cardinality(M)
<1> DEFINE T == {k \in Nat : k # 0 /\ k \notin M}
<1>1. n + 1 \in T /\ T \subseteq Nat
  OBVIOUS
<1>2. PICK z \in T : \A x \in T : z <= x
  <2> HIDE DEF T
  <2> QED BY <1>1, Least
<1>3. z \in Nat /\ z # 0 /\ z \notin M /\ z - 1 \in Nat
  OBVIOUS
<1>4. ASSUME NEW x \in 1 .. z - 1 PROVE x \in M
  <2>1. x \in Nat /\ x # 0 /\ ~ (z <= x)
    BY <1>3
  <2> QED BY <1>2, <2>1
<1>5. ASSUME NEW x \in M PROVE x \in 1 .. z - 1
  <2>1. x \in 1 .. n
    OBVIOUS
  <2>2. ~ (z <= x)
    <3> SUFFICES ASSUME z <= x PROVE FALSE
      OBVIOUS
    <3>1. z \in 1 .. x
      BY <1>3, <2>1
    <3> QED BY <1>3, <3>1
  <2> QED BY <1>3, <2>1, <2>2
<1>6. M = 1 .. z - 1
  BY <1>4, <1>5
<1>7. Cardinality(1 .. z - 1) = z - 1
  <2> DEFINE y == z - 1
  <2>1. y \in Nat
    BY <1>3
  <2> HIDE DEF y
  <2>2. Cardinality(1 .. y) = IF 1 > y THEN 0 ELSE y - 1 + 1
    BY <2>1, FS_Interval
  <2>3. Cardinality(1 .. y) = y
    BY <2>1, <2>2
  <2> QED BY <2>3 DEF y
<1> QED BY <1>3, <1>6, <1>7

\* next leads from each of the places H to the following one, or to the end.
Hops(H, n) ==
  /\ H \subseteq 1 .. n
  /\ n # 0 => 1 \in H
  /\ \A h \in H : /\ next(h) \in h + 1 .. n + 1
                  /\ next(h) <= n => next(h) \in H
                  /\ \A g \in H : g <= h \/ next(h) <= g

-----------------------------------------------------------------------------
\* What Walk visits: each of H, once.
Covers(H) ==
  /\ \A i \in 1 .. Len(Walk) : Walk[i] \in H
  /\ \A i, j \in 1 .. Len(Walk) : Walk[i] = Walk[j] => i = j
  /\ \A h \in H : \E i \in 1 .. Len(Walk) : Walk[i] = h

LEMMA WalkCovers ==
  ASSUME NEW n \in Nat, Len(recs) = n, NEW H, Hops(H, n)
  PROVE  Covers(H)
<1> DEFINE at == CHOOSE g : g = Steps(g, n, n)
           M == {m \in 1 .. n : at[m] <= n}
<1>1. Walk = [k \in 1 .. Cardinality(M) |-> at[k]]
  BY DEF Walk, Steps, Step
<1>2. at = Steps(at, n, n)
  BY StepsAll
<1> HIDE DEF at
<1>3. \A k \in 1 .. n : at[k] = Step(at, n, k)
  <2>1. \A k \in 1 .. n : Steps(at, n, n)[k] = Step(at, n, k)
    BY DEF Steps
  <2> QED BY <1>2, <2>1
<1>4. /\ H \subseteq 1 .. n
      /\ n # 0 => 1 \in H
      /\ \A h \in H : /\ next(h) \in h + 1 .. n + 1
                      /\ next(h) <= n => next(h) \in H
                      /\ \A g \in H : g <= h \/ next(h) <= g
  BY DEF Hops
<1> DEFINE P(k) == /\ at[k] \in H \cup {n + 1}
                   /\ k <= at[k]
           T == {k \in 1 .. n : ~ P(k)}
<1>5. ASSUME NEW k \in 1 .. n, k # 1
      PROVE  /\ k - 1 \in 1 .. n
             /\ at[k] = IF at[k - 1] > n THEN at[k - 1] ELSE next(at[k - 1])
  BY <1>3, <1>5 DEF Step
<1>6. T = {}
  <2>1. SUFFICES ASSUME T # {} PROVE FALSE
    OBVIOUS
  <2>2. PICK m \in T : \A x \in T : m <= x
    <3>1. T \subseteq Nat
      OBVIOUS
    <3> HIDE DEF T
    <3> QED BY <2>1, <3>1, Least
  <2>3. m \in 1 .. n /\ ~ P(m)
    OBVIOUS
  <2>4. CASE m = 1
    <3>1. at[1] = 1 /\ 1 \in H
      BY <1>3, <1>4, <2>3, <2>4 DEF Step
    <3> QED BY <2>3, <2>4, <3>1
  <2>5. CASE m # 1
    <3>1. m - 1 \in 1 .. n /\ ~ (m <= m - 1)
      BY <2>3, <2>5
    <3>2. P(m - 1)
      <4> HIDE DEF P
      <4> QED BY <2>2, <3>1
    <3>3. at[m] = IF at[m - 1] > n THEN at[m - 1] ELSE next(at[m - 1])
      BY <1>5, <2>3, <2>5
    <3>4. PICK a : a = at[m - 1]
      OBVIOUS
    <3>5. a \in H \cup {n + 1} /\ m - 1 <= a /\ at[m] = IF a > n THEN a ELSE next(a)
      BY <3>2, <3>3, <3>4
    <3>6. CASE a \in H
      <4>1. a \in 1 .. n /\ next(a) \in a + 1 .. n + 1 /\ (next(a) <= n => next(a) \in H)
        BY <1>4, <3>6
      <4>2. PICK b : b = next(a)
        OBVIOUS
      <4>3. at[m] = b /\ b \in a + 1 .. n + 1 /\ (b <= n => b \in H)
        BY <3>5, <4>1, <4>2
      <4>4. b \in H \cup {n + 1} /\ m <= b
        BY <2>3, <3>5, <4>1, <4>3
      <4> QED BY <2>3, <4>3, <4>4
    <3>7. CASE a = n + 1
      BY <2>3, <3>5, <3>7
    <3> QED BY <3>5, <3>6, <3>7
  <2> QED BY <2>4, <2>5
<1>7. \A k \in 1 .. n : P(k)
  BY <1>6
<1>8. \A k \in 1 .. n : at[k] \in 1 .. n + 1 /\ (at[k] <= n <=> at[k] \in H)
  <2> SUFFICES ASSUME NEW k \in 1 .. n
               PROVE  at[k] \in 1 .. n + 1 /\ (at[k] <= n <=> at[k] \in H)
    OBVIOUS
  <2>1. P(k)
    BY <1>7
  <2>2. PICK a : a = at[k]
    OBVIOUS
  <2>3. a \in H \cup {n + 1} /\ H \subseteq 1 .. n
    BY <1>4, <2>1, <2>2
  <2>4. a \in 1 .. n + 1 /\ (a <= n <=> a \in H)
    <3>1. CASE a \in H
      BY <2>3, <3>1
    <3>2. CASE a = n + 1
      <4>1. n + 1 \notin H
        BY <2>3
      <4> QED BY <3>2, <4>1
    <3> QED BY <2>3, <3>1, <3>2
  <2> QED BY <2>2, <2>4
<1> HIDE DEF P, T
\* one step forward
<1>9. ASSUME NEW k \in 1 .. n, k # 1
      PROVE  /\ k - 1 \in 1 .. n
             /\ at[k] <= n => at[k - 1] <= n /\ at[k - 1] < at[k]
  <2>1. k - 1 \in 1 .. n /\ at[k] = IF at[k - 1] > n THEN at[k - 1] ELSE next(at[k - 1])
    BY <1>5, <1>9
  <2>2. at[k - 1] \in 1 .. n + 1 /\ (at[k - 1] <= n <=> at[k - 1] \in H)
    BY <1>8, <2>1
  <2>3. PICK a : a = at[k - 1]
    OBVIOUS
  <2>4. a \in 1 .. n + 1 /\ (a <= n <=> a \in H) /\ at[k] = IF a > n THEN a ELSE next(a)
    BY <2>1, <2>2, <2>3
  <2>5. CASE a \in H
    <3>1. next(a) \in a + 1 .. n + 1
      BY <1>4, <2>5
    <3> QED BY <2>1, <2>3, <2>4, <2>5, <3>1
  <2>6. CASE a \notin H
    BY <2>1, <2>3, <2>4, <2>6
  <2> QED BY <2>5, <2>6
\* several of them
<1>10. ASSUME NEW i \in 1 .. n, NEW j \in 1 .. n, i < j, at[j] <= n
       PROVE  at[i] <= n /\ at[i] < at[j]
  <2> DEFINE R(k) == at[k] <= n => at[i] <= n /\ at[i] < at[k]
             Q == {k \in i + 1 .. n : ~ R(k)}
  <2>1. SUFFICES ASSUME Q # {} PROVE FALSE
    <3>1. j \in i + 1 .. n
      BY <1>10
    <3> QED BY <1>10, <3>1
  <2>2. PICK m \in Q : \A x \in Q : m <= x
    <3>1. Q \subseteq Nat
      OBVIOUS
    <3> HIDE DEF Q
    <3> QED BY <2>1, <3>1, Least
  <2>3. m \in i + 1 .. n /\ ~ R(m)
    OBVIOUS
  <2>4. /\ m \in 1 .. n /\ m # 1 /\ m - 1 \in 1 .. n
        /\ at[m] <= n => at[m - 1] <= n /\ at[m - 1] < at[m]
    BY <1>9, <2>3
  <2>5. m - 1 = i \/ R(m - 1)
    <3>1. m - 1 = i \/ m - 1 \in i + 1 .. n
      BY <2>3
    <3>2. ~ (m <= m - 1)
      BY <2>3
    <3> HIDE DEF R
    <3> QED BY <2>2, <3>1, <3>2
  <2>6. PICK x, y, z : x = at[i] /\ y = at[m - 1] /\ z = at[m]
    OBVIOUS
  <2>7. x \in 1 .. n + 1 /\ y \in 1 .. n + 1 /\ z \in 1 .. n + 1
    BY <1>8, <2>4, <2>6
  <2>8. m - 1 = i => y = x
    BY <2>6
  <2>9. /\ z <= n => y <= n /\ y < z
        /\ y = x \/ (y <= n => x <= n /\ x < y)
        /\ ~ (z <= n => x <= n /\ x < z)
    BY <2>3, <2>4, <2>5, <2>6, <2>8
  <2> QED BY <2>7, <2>9
<1>11. Cardinality(M) \in Nat /\ M = 1 .. Cardinality(M)
  <2>1. M \subseteq 1 .. n
    OBVIOUS
  <2>2. \A i \in M : \A j \in 1 .. i : j \in M
    <3> SUFFICES ASSUME NEW i \in M, NEW j \in 1 .. i PROVE j \in M
      OBVIOUS
    <3>1. i \in 1 .. n /\ at[i] <= n /\ j \in 1 .. n /\ (j = i \/ j < i)
      OBVIOUS
    <3>2. at[j] <= n
      BY <1>10, <3>1
    <3> QED BY <3>1, <3>2
  <2> HIDE DEF M
  <2> QED BY <2>1, <2>2, FirstOnes
<1>12. PICK c \in Nat : c = Cardinality(M) /\ M = 1 .. c
  BY <1>11
<1>13. Len(Walk) = c /\ \A i \in 1 .. c : Walk[i] = at[i]
  <2> HIDE DEF M
  <2>1. Walk = [k \in 1 .. c |-> at[k]]
    BY <1>1, <1>12
  <2> QED BY <2>1
<1>14. \A i \in 1 .. c : i \in 1 .. n /\ at[i] <= n
  BY <1>12
<1>15. \A i \in 1 .. c : at[i] \in H
  BY <1>8, <1>14
<1>16. ASSUME NEW i \in 1 .. c, NEW j \in 1 .. c, at[i] = at[j]
       PROVE  i = j
  <2>1. i \in 1 .. n /\ j \in 1 .. n /\ at[i] <= n /\ at[j] <= n
    BY <1>14
  <2>2. PICK x \in 1 .. n + 1 : x = at[i] /\ x = at[j]
    BY <1>8, <1>16, <2>1
  <2>3. ~ (i < j)
    <3>1. i < j => at[i] < at[j]
      BY <1>10, <2>1
    <3> QED BY <2>2, <3>1
  <2>4. ~ (j < i)
    <3>1. j < i => at[j] < at[i]
      BY <1>10, <2>1
    <3> QED BY <2>2, <3>1
  <2> QED BY <2>1, <2>3, <2>4
<1>17. ASSUME NEW h \in H
       PROVE  \E i \in 1 .. c : at[i] = h
  <2> DEFINE Q == {k \in 1 .. n : h <= at[k]}
  <2>1. h \in 1 .. n
    BY <1>4
  <2>2. n \in Q
    <3>1. P(n) /\ n \in 1 .. n
      BY <1>7, <2>1
    <3>2. n <= at[n] /\ at[n] \in 1 .. n + 1
      BY <1>8, <3>1 DEF P
    <3> QED BY <2>1, <3>1, <3>2
  <2>3. PICK m \in Q : \A x \in Q : m <= x
    <3>1. Q \subseteq Nat /\ Q # {}
      BY <2>2
    <3> HIDE DEF Q
    <3> QED BY <3>1, Least
  <2>4. m \in 1 .. n /\ h <= at[m]
    OBVIOUS
  <2>5. at[m] = h
    <3>1. CASE m = 1
      <4>1. at[1] = 1
        BY <1>3, <2>4, <3>1 DEF Step
      <4> QED BY <2>1, <2>4, <3>1, <4>1
    <3>2. CASE m # 1
      <4>1. m - 1 \in 1 .. n /\ ~ (m <= m - 1)
        BY <2>4, <3>2
      <4>2. ~ (h <= at[m - 1])
        BY <2>3, <4>1
      <4>3. PICK a : a = at[m - 1]
        OBVIOUS
      <4>4. a \in 1 .. n + 1 /\ (a <= n <=> a \in H) /\ ~ (h <= a)
        BY <1>8, <4>1, <4>2, <4>3
      <4>5. a <= n /\ a \in H /\ ~ (a > n)
        BY <2>1, <4>4
      <4>6. at[m] = next(a)
        BY <1>5, <2>4, <3>2, <4>3, <4>5
      <4>7. next(a) \in a + 1 .. n + 1 /\ (h <= a \/ next(a) <= h)
        BY <1>4, <4>5
      <4>8. next(a) \in Int /\ next(a) <= h
        BY <4>4, <4>7
      <4> QED BY <2>1, <2>4, <4>6, <4>8
    <3> QED BY <3>1, <3>2
  <2>6. m \in M
    BY <2>1, <2>4, <2>5
  <2> QED BY <1>12, <2>5, <2>6
<1> QED BY <1>13, <1>15, <1>16, <1>17 DEF Covers

-----------------------------------------------------------------------------
\* Behind the loop: the rows kept have values in their columns, and so have
\* the records merge_agr has still to come to, of which beg is the first.
Gathered ==
  \E n \in Nat :
    /\ Of(recs, n)
    /\ q.group # <<>> /\ ~ q.all => \A k \in 1 .. n : RowSafe(q, recs[k].item)

Merging ==
  /\ q.group # <<>>
  /\ beg \in Nat \ {0} /\ end \in Nat /\ beg < end
  /\ \E n \in Nat :
       /\ Of(recs, n)
       /\ n # 0 => end <= n + 1
       /\ ~ q.all => \A k \in beg .. n : RowSafe(q, recs[k].item)

\* The records from b to n have rows of Whole, all of which were collected.
Tallied == Whole.status = "done" /\ Len(Whole.rows) = Len(recs)

Drawn(b, n) == \A k \in b .. n : \E j \in 1 .. Len(Whole.rows) : recs[k].item = Whole.rows[j]

\* The groups that are closed: next leads from one to the other, and up to b,
\* and their columns can be written.
Writes(item) == \A i \in 1 .. col_cnt(q) : Printable(item[i])

Chained(b) ==
  \E H \in SUBSET (1 .. b - 1) :
    /\ b # 1 => 1 \in H
    /\ \A h \in H : /\ recs[h].next \in h + 1 .. b
                    /\ recs[h].next < b => recs[h].next \in H
                    /\ \A g \in H : g <= h \/ recs[h].next <= g
                    /\ Harmless => Writes(recs[h].item)

\* What jsonify_result finds.
Grouped ==
  \E n : Of(recs, n) /\ IF q.group = <<>> THEN Drawn(1, n) ELSE Chained(n + 1)

SInv ==
  /\ IInv
  /\ ocol_cnt \in Nat
  /\ pc \in {"scan", "scanned", "merge", "collect"} =>
       q \in Queries /\ limit.start \in Nat /\ limit.count \in Nat
  /\ pc = "scanned" => Gathered /\ Drawn(1, Len(recs))
  /\ pc = "merge" => Merging /\ Drawn(beg, Len(recs)) /\ Chained(beg)
  /\ pc = "collect" => Grouped
  /\ pc \in {"scanned", "merge", "collect"} => Tallied
  /\ Survives

LEMMA HarmlessStays ==
  ASSUME q' = q, db' = db, ocol_cnt' = ocol_cnt PROVE Harmless' <=> Harmless
<1>1. Whole' = Whole
  BY DEF Whole
<1>2. Writable' <=> Writable
  BY <1>1 DEF Writable
<1> QED BY <1>1, <1>2 DEF Harmless

\* A statement that cannot be begun.
LEMMA BeginSurvives ==
  ASSUME NEW s \in Queries, Begin(s), pc' = "crashed", ocol_cnt \in Nat
  PROVE  ~ Harmless'
<1>1. q' = s /\ db' = db /\ ocol_cnt' = ocol_cnt + Len(s.order)
  BY DEF Begin
<1>2. CASE Overflows(db, From(s), load_record(db, From(s)))
  <2>1. Whole' = Outcome(db, s, ocol_cnt')
    BY <1>1 DEF Whole, Outcome
  <2>2. Outcome(db, s, ocol_cnt').status = "trap"
    BY <1>2, WholeOverflows DEF Arr
  <2> QED BY <2>1, <2>2 DEF Harmless
<1>3. CASE s.group # <<>> /\ s.all
  BY <1>1, <1>3 DEF Harmless
<1>4. CASE ocol_cnt + Len(s.order) > RECORD_COLUMNS
  <2>1. ~ (ocol_cnt' <= RECORD_COLUMNS)
    BY <1>1, <1>4, QueriesAssumption, LengthAssumption
  <2> QED BY <2>1 DEF Harmless
<1> QED BY <1>2, <1>3, <1>4 DEF Begin

\* A pass that ends the process.
LEMMA ScanSurvives ==
  ASSUME IInv, Scan, pc' = "crashed"
  PROVE  ~ Harmless'
<1>1. pc = "scan" /\ Scanning /\ db \in Databases
  BY DEF IInv, Scan
<1>2. /\ db' = db /\ q' = q /\ arr' = arr /\ ocol_cnt' = ocol_cnt
      /\ Pass(Seen(db, q, ocol_cnt, pos))
  BY <1>1, ScanPasses
<1>3. /\ arr = Arr(db, q) /\ Arrays(Arr(db, q)) /\ pos \in Combos(Arr(db, q))
      /\ ~ Overflows(db, From(q), Arr(db, q))
      /\ Collected(db, q, ocol_cnt, Before(Combos(Arr(db, q)), pos), recs)
  BY <1>1, LoadedArrays DEF Scanning
<1>4. Whole' = Outcome(db, q, ocol_cnt)
  BY <1>2 DEF Whole, Outcome
<1>5. SUFFICES Outcome(db, q, ocol_cnt).status = "trap"
  BY <1>4 DEF Harmless
<1>6. CASE Seen(db, q, ocol_cnt, pos).verdict = "trap"
  BY <1>3, <1>6, WholeStops
<1>7. CASE Seen(db, q, ocol_cnt, pos).verdict = "row" /\ Full(Len(recs))
  BY <1>3, <1>7, WholeFull
<1>8. CASE /\ Seen(db, q, ocol_cnt, pos).verdict \in {"out", "row"}
           /\ Seen(db, q, ocol_cnt, pos).verdict = "row" => ~ Full(Len(recs))
           /\ recs' = IF Seen(db, q, ocol_cnt, pos).verdict = "row"
                      THEN Append(recs, Rec(db, q, ocol_cnt, pos)) ELSE recs
           /\ get_next_record
  <2>1. Collected(db, q, ocol_cnt, Before(Combos(Arr(db, q)), pos) \cup {pos}, recs')
    <3>1. CASE Seen(db, q, ocol_cnt, pos).verdict = "out"
      BY <1>3, <1>8, <3>1, CollectedMore
    <3>2. CASE Seen(db, q, ocol_cnt, pos).verdict = "row"
      BY <1>3, <1>8, <3>2, CollectedMore
    <3> QED BY <1>8, <3>1, <3>2
  <2>2. /\ Digits(arr) # DOMAIN arr
        /\ Before(Combos(arr), pos) \cup {pos} = Combos(arr)
    BY <1>1, <1>8, MovesOn
  <2>3. Collected(db, q, ocol_cnt, Combos(Arr(db, q)), recs')
    BY <1>3, <2>1, <2>2
  <2>4. Digits(Arr(db, q)) # DOMAIN Arr(db, q)
    BY <1>3, <2>2
  <2> QED BY <2>3, <2>4, WholeStuck, Zenon
<1> QED BY <1>2, <1>6, <1>7, <1>8 DEF Pass, Rec

\* What the loop leaves.
LEMMA ScanGathers ==
  ASSUME IInv, Scan, pc' = "scanned", ocol_cnt \in Nat
  PROVE  Gathered' /\ q' \in Queries
<1>1. pc = "scan" /\ Scanning /\ db \in Databases
  BY DEF IInv, Scan
<1>2. /\ db' = db /\ q' = q /\ arr' = arr /\ ocol_cnt' = ocol_cnt
      /\ Pass(Seen(db, q, ocol_cnt, pos))
  BY <1>1, ScanPasses
<1>3. /\ q \in Queries /\ Arrays(Arr(db, q)) /\ pos \in Combos(Arr(db, q))
      /\ Collected(db, q, ocol_cnt, Before(Combos(Arr(db, q)), pos), recs)
  BY <1>1, LoadedArrays DEF Scanning
<1> DEFINE B == Before(Combos(Arr(db, q)), pos) \cup {pos}
           K == KeptOf(db, q, ocol_cnt, B)
<1>4. Collected(db, q, ocol_cnt, B, recs')
  <2>1. /\ Seen(db, q, ocol_cnt, pos).verdict \in {"out", "row"}
        /\ Seen(db, q, ocol_cnt, pos).verdict = "row" => ~ Full(Len(recs))
        /\ recs' = IF Seen(db, q, ocol_cnt, pos).verdict = "row"
                   THEN Append(recs, Rec(db, q, ocol_cnt, pos)) ELSE recs
    BY <1>2 DEF Pass, Rec
  <2>2. CASE Seen(db, q, ocol_cnt, pos).verdict = "out"
    BY <1>3, <2>1, <2>2, CollectedMore
  <2>3. CASE Seen(db, q, ocol_cnt, pos).verdict = "row"
    BY <1>3, <2>1, <2>3, CollectedMore
  <2> QED BY <2>1, <2>2, <2>3
<1>5. RowsOf(db, q, ocol_cnt, K, recs')
  BY <1>4 DEF Collected
<1>6. K \in SUBSET Combos(Arr(db, q))
  BY <1>3 DEF KeptOf, Before
<1>7. \A t \in K : Seen(db, q, ocol_cnt, t).verdict = "row"
  BY DEF KeptOf
<1> HIDE DEF K
<1>8. Cardinality(K) \in Nat
  BY <1>3, <1>6, CombosFinite, FS_Subset, FS_CardinalityType
<1>9. \A n \in 1 .. Cardinality(K) :
        InOrder(K)[n] \in K /\ recs'[n] = Rec(db, q, ocol_cnt, InOrder(K)[n])
  BY <1>5 DEF RowsOf
<1>10. Of(recs', Cardinality(K))
  <2> DEFINE c == Cardinality(K)
  <2>1. recs' = [n \in 1 .. c |-> Rec(db, q, ocol_cnt, InOrder(K)[n])]
    BY <1>5 DEF RowsOf
  <2> HIDE DEF c
  <2>2. recs' = [n \in 1 .. c |-> recs'[n]]
    BY <2>1
  <2> QED BY <1>8, <2>2 DEF Of, c
<1>11. ASSUME q.group # <<>>, ~ q.all, NEW n \in 1 .. Cardinality(K)
       PROVE  RowSafe(q, recs'[n].item)
  <2> DEFINE t == InOrder(K)[n]
  <2>1. t \in K /\ recs'[n] = Rec(db, q, ocol_cnt, t)
    BY <1>9, <1>11
  <2> HIDE DEF t
  <2>2. RowSafe(q, Seen(db, q, ocol_cnt, t).row)
    BY <1>3, <1>7, <1>11, <2>1, SeenSafe
  <2> QED BY <2>1, <2>2 DEF Rec
<1>12. Gathered'
  BY <1>2, <1>8, <1>10, <1>11 DEF Gathered
<1> QED BY <1>2, <1>3, <1>12

\* qsort puts the records in another order.
LEMMA SortMerges ==
  ASSUME Gathered, Sort, pc' = "merge"
  PROVE  Merging'
<1>1. /\ q.group # <<>> /\ recs' \in Sorted(gkeys(q), recs)
      /\ beg' = 1 /\ end' = 2 /\ q' = q
  BY DEF Sort
<1>2. PICK n \in Nat :
        /\ Of(recs, n)
        /\ ~ q.all => \A k \in 1 .. n : RowSafe(q, recs[k].item)
  BY <1>1 DEF Gathered
<1>3. Len(recs) = n
  BY <1>2, OfLen
<1>4. PICK f \in SetToSeqs(1 .. n) : recs' = [i \in 1 .. n |-> recs[f[i]]]
  BY <1>1, <1>3 DEF Sorted
<1>5. f \in [1 .. n -> 1 .. n]
  <2>1. Cardinality(1 .. n) = n
    BY FS_Interval
  <2> QED BY <1>4, <2>1 DEF SetToSeqs
<1>6. Of(recs', n)
  BY <1>4 DEF Of
<1>7. \A k \in 1 .. n : ~ q.all => RowSafe(q, recs'[k].item)
  BY <1>2, <1>4, <1>5
<1>8. n # 0 => 2 <= n + 1
  OBVIOUS
<1> QED BY <1>1, <1>6, <1>7, <1>8 DEF Merging

\* The records are those of Whole when the loop ends, and stay so.
LEMMA ScanDraws ==
  ASSUME IInv', pc' = "scanned", Gathered'
  PROVE  Tallied' /\ Drawn(1, Len(recs))'
<1>1. PICK n \in Nat : Of(recs', n)
  BY DEF Gathered
<1>2. Len(recs') = n
  BY <1>1, OfLen
<1>3. Whole'.status = "done" /\ [k \in 1 .. n |-> recs'[k].item] = Whole'.rows
  BY <1>2 DEF IInv, RowsExact
<1>4. Len(Whole'.rows) = n /\ \A k \in 1 .. n : recs'[k].item = Whole'.rows[k]
  BY <1>3
<1> QED BY <1>2, <1>3, <1>4 DEF Tallied, Drawn

LEMMA SortDraws ==
  ASSUME Gathered, Tallied, Drawn(1, Len(recs)), Sort
  PROVE  Tallied' /\ Drawn(1, Len(recs))' /\ (\E n : Of(recs', n))
<1>1. Whole' = Whole
  BY DEF Sort, Whole
<1>2. PICK n \in Nat : Of(recs, n)
  BY DEF Gathered
<1>3. Len(recs) = n
  BY <1>2, OfLen
<1>4. CASE recs' = recs
  BY <1>1, <1>2, <1>4 DEF Tallied, Drawn
<1>5. CASE recs' \in Sorted(gkeys(q), recs)
  <2>1. PICK f \in SetToSeqs(1 .. n) : recs' = [i \in 1 .. n |-> recs[f[i]]]
    BY <1>3, <1>5 DEF Sorted
  <2>2. f \in [1 .. n -> 1 .. n]
    <3>1. Cardinality(1 .. n) = n
      BY FS_Interval
    <3> QED BY <2>1, <3>1 DEF SetToSeqs
  <2>3. Of(recs', n)
    BY <2>1 DEF Of
  <2>4. Len(recs') = n
    BY <2>3, OfLen
  <2>5. \A k \in 1 .. n : recs'[k] = recs[f[k]] /\ f[k] \in 1 .. n
    BY <2>1, <2>2
  <2>6. Drawn(1, Len(recs))'
    BY <1>1, <1>3, <2>4, <2>5 DEF Drawn
  <2> QED BY <1>1, <1>3, <2>3, <2>4, <2>6 DEF Tallied
<1> QED BY <1>4, <1>5 DEF Sort

\* `col_cnt` is the number of columns written.
LEMMA ColumnsLen ==
  ASSUME NEW s \in Queries, ~ s.all PROVE col_cnt(s) = Len(s.columns)
<1>1. PICK m \in Nat : Len(s.columns) = m
  BY QueriesAssumption
<1>2. col_name(s) = [i \in 1 .. m |-> s.columns[i].text]
  BY <1>1 DEF col_name
<1> QED BY <1>1, <1>2 DEF col_cnt

\* What a group adds up to can be written.
LEMMA MergedWrites ==
  ASSUME q \in Queries, q.group # <<>>, Harmless, Whole.status = "done",
         NEW n \in Nat, NEW b \in 1 .. n, NEW e \in b .. n,
         ~ q.all => RowSafe(q, recs[b].item), Drawn(b, n)
  PROVE  Writes(Merged(b, e))
<1>1. Writable /\ ~ q.all /\ b \in Nat /\ e \in Nat /\ b <= e /\ b \in b .. n
  BY DEF Harmless
<1>2. SUFFICES ASSUME NEW i \in 1 .. Len(q.columns) PROVE Printable(Merged(b, e)[i])
  BY <1>1, ColumnsLen DEF Writes
<1> DEFINE c == Len(q.columns)
           m == Len(vcol(q))
<1>3. c \in Nat /\ m \in Nat /\ q.columns[i].expr \in Exprs
  BY Places, QueriesAssumption
<1>4. Merged(b, e)[i] = IF i \in Aggregated(q)
                        THEN eval_expr(<<>>, NoRows, AggOf(b, e, i))[q.columns[i].expr]
                        ELSE recs[b].item[i]
  BY <1>1, MergedIs DEF RowSafe
<1>5. CASE i \notin Aggregated(q)
  <2>1. PICK j \in 1 .. Len(Whole.rows) : recs[b].item = Whole.rows[j]
    BY <1>1 DEF Drawn
  <2>2. Printable(Whole.rows[j][i])
    BY <1>1, <1>5, ColumnsLen DEF Writable
  <2> QED BY <1>4, <1>5, <2>1, <2>2
<1>6. CASE i \in Aggregated(q)
  <2>1. ASSUME NEW x \in Exprs PROVE IsNumber(AggOf(b, e, i)[x])
    <3>1. PICK p \in 1 .. m : AggOf(b, e, i)[x] = Total(b, e, c + p, vcol(q)[p].type)
      BY <1>6, AggOfIs
    <3>2. ASSUME NEW k \in b .. e PROVE IsNumber(recs[k].item[c + p])
      <4>1. k \in b .. n
        BY <1>1
      <4>2. PICK j \in 1 .. Len(Whole.rows) : recs[k].item = Whole.rows[j]
        BY <4>1 DEF Drawn
      <4>3. IsNumber(Whole.rows[j][c + p])
        BY <1>1, <1>6 DEF Writable
      <4> QED BY <4>2, <4>3
    <3>3. IsNumber(Total(b, e, c + p, vcol(q)[p].type))
      BY <1>1, <3>2, TotalNumber
    <3> QED BY <3>1, <3>3
  <2>2. \A y \in Parts[q.columns[i].expr] : Additive(y)
    BY <1>1, <1>6 DEF Writable
  <2>3. IsNumber(eval_expr(<<>>, NoRows, AggOf(b, e, i))[q.columns[i].expr])
    BY <1>3, <2>1, <2>2, eval_exprNumber
  <2> QED BY <1>4, <1>6, <2>3 DEF Printable
<1> QED BY <1>5, <1>6

\* A group that is closed comes after those closed before.
LEMMA CloseChains ==
  ASSUME q \in Queries, q.group # <<>>, Whole.status = "done", UNCHANGED <<q, db, ocol_cnt>>,
         NEW n \in Nat, Of(recs, n), NEW b \in 1 .. n, NEW e \in b .. n,
         ~ q.all => RowSafe(q, recs[b].item), Drawn(b, n), Chained(b),
         recs' = [recs EXCEPT ![b] = [item |-> Merged(b, e), next |-> e + 1]]
  PROVE  Chained(e + 1)' /\ Drawn(e + 1, n)' /\ Of(recs', n)
<1>1. DOMAIN recs = 1 .. n
  BY OfLen
<1>2. /\ recs'[b].item = Merged(b, e) /\ recs'[b].next = e + 1
      /\ \A k \in 1 .. n : k # b => recs'[k] = recs[k]
  BY <1>1
<1>3. Of(recs', n)
  <2>1. recs' = [k \in 1 .. n |-> recs'[k]]
    BY <1>1
  <2> QED BY <2>1 DEF Of
<1>4. (Harmless' <=> Harmless) /\ Whole' = Whole
  BY HarmlessStays DEF Whole
<1>5. Drawn(e + 1, n)'
  <2>1. \A k \in e + 1 .. n : k \in b .. n /\ k \in 1 .. n /\ k # b
    OBVIOUS
  <2> QED BY <1>2, <1>4, <2>1 DEF Drawn
<1>6. PICK H \in SUBSET (1 .. b - 1) :
        /\ b # 1 => 1 \in H
        /\ \A h \in H : /\ recs[h].next \in h + 1 .. b
                        /\ recs[h].next < b => recs[h].next \in H
                        /\ \A g \in H : g <= h \/ recs[h].next <= g
                        /\ Harmless => Writes(recs[h].item)
  BY DEF Chained
<1> DEFINE G == H \cup {b}
<1>7. G \in SUBSET (1 .. (e + 1) - 1) /\ 1 \in G
  BY <1>6
<1>8. ASSUME NEW h \in G
      PROVE  /\ recs'[h].next \in h + 1 .. e + 1
             /\ recs'[h].next < e + 1 => recs'[h].next \in G
             /\ \A g \in G : g <= h \/ recs'[h].next <= g
             /\ Harmless => \A i \in 1 .. col_cnt(q) : Printable(recs'[h].item[i])
  <2>1. CASE h = b
    <3>1. Harmless => Writes(Merged(b, e))
      BY MergedWrites
    <3>2. \A g \in G : g <= b
      BY <1>6
    <3>3. Harmless => \A i \in 1 .. col_cnt(q) : Printable(recs'[h].item[i])
      BY <1>2, <2>1, <3>1 DEF Writes
    <3> QED BY <1>2, <2>1, <3>2, <3>3
  <2>2. CASE h # b
    <3>1. h \in H /\ h \in 1 .. n /\ recs'[h] = recs[h]
      BY <1>2, <1>6, <2>2
    <3>2. PICK x : x = recs[h].next
      OBVIOUS
    <3>3. /\ x \in h + 1 .. b /\ (x < b => x \in H)
          /\ \A g \in H : g <= h \/ x <= g
      BY <1>6, <3>1, <3>2
    <3>4. x \in h + 1 .. e + 1 /\ x \in G
      BY <3>1, <3>3
    <3>5. \A g \in G : g <= h \/ x <= g
      BY <3>1, <3>3
    <3>6. Harmless => \A i \in 1 .. col_cnt(q) : Printable(recs'[h].item[i])
      BY <1>6, <3>1 DEF Writes
    <3> QED BY <3>1, <3>2, <3>4, <3>5, <3>6
  <2> QED BY <2>1, <2>2
<1> HIDE DEF G
<1>9. Chained(e + 1)'
  <2>1. e + 1 # 1 => 1 \in G
    BY <1>7
  <2>2. \A h \in G : Harmless' => \A i \in 1 .. col_cnt(q') : Printable(recs'[h].item[i])
    BY <1>4, <1>8
  <2> QED BY <1>7, <1>8, <2>1, <2>2 DEF Chained, Writes
<1> QED BY <1>3, <1>5, <1>9

\* A group that is closed is left behind, and closing it is harmless.
LEMMA CloseKeeps ==
  ASSUME Merging, q \in Queries, NEW n \in Nat, Of(recs, n), beg <= n,
         ~ q.all => \A k \in beg .. n : RowSafe(q, recs[k].item),
         NEW e \in Nat, beg <= e, NEW then, then # "crashed", CloseGroup(beg, e, then)
  PROVE  \/ pc' = "crashed" /\ ~ Harmless
         \/ /\ pc' = then
            /\ Of(recs', n)
            /\ \A k \in 1 .. n : k # beg => recs'[k] = recs[k]
<1>1. CASE /\ \E i \in 1 .. Len(q.columns) : Merged(beg, e)[i] = Trap
           /\ pc' = "crashed"
  <2>1. ASSUME ~ q.all, \A i \in Aggregated(q) : ~ Divides(q.columns[i].expr)
        PROVE  FALSE
    <3>1. PICK i \in 1 .. Len(q.columns) : Merged(beg, e)[i] = Trap
      BY <1>1
    <3>2. beg \in Nat /\ beg \in beg .. n
      BY DEF Merging
    <3>3. RowSafe(q, recs[beg].item)
      BY <2>1, <3>2
    <3>4. Safe(Merged(beg, e)[i])
      BY <2>1, <3>2, <3>3, MergedSafe
    <3> QED BY <3>1, <3>4 DEF Safe, Trap
  <2> QED BY <1>1, <2>1 DEF Harmless, Merging
<1>2. CASE /\ recs' = [recs EXCEPT ![beg] = [item |-> Merged(beg, e), next |-> e + 1]]
           /\ pc' = then
  <2>1. DOMAIN recs = 1 .. n
    BY OfLen
  <2>2. recs' = [k \in 1 .. n |-> recs'[k]]
    BY <1>2, <2>1
  <2> QED BY <1>2, <2>1, <2>2 DEF Of
<1> QED BY <1>1, <1>2 DEF CloseGroup

LEMMA MergeKeeps ==
  ASSUME Merging, q \in Queries, Merge
  PROVE  /\ pc' \in {"crashed", "merge"}
         /\ pc' = "crashed" => ~ Harmless
         /\ pc' = "merge" => Merging'
<1>1. /\ pc = "merge" /\ end <= Len(recs) /\ end' = end + 1
      /\ q' = q /\ db' = db /\ ocol_cnt' = ocol_cnt
  BY DEF Merge
<1>2. PICK n \in Nat :
        /\ Of(recs, n)
        /\ ~ q.all => \A k \in beg .. n : RowSafe(q, recs[k].item)
  BY DEF Merging
<1>3. Len(recs) = n
  BY <1>2, OfLen
<1>4. beg \in Nat \ {0} /\ end \in Nat /\ beg < end /\ end <= n /\ q.group # <<>>
  BY <1>1, <1>3 DEF Merging
<1>5. CASE UNCHANGED <<recs, pc, beg>>
  <2>1. end + 1 \in Nat /\ beg < end + 1 /\ end + 1 <= n + 1
    BY <1>4
  <2>2. Merging'
    BY <1>1, <1>2, <1>4, <1>5, <2>1 DEF Merging
  <2> QED BY <1>1, <1>5, <2>2
<1>6. CASE CloseGroup(beg, end - 1, "merge") /\ beg' = end
  <2>1. end - 1 \in Nat /\ beg <= end - 1 /\ beg <= n
    BY <1>4
  <2>2. \/ pc' = "crashed" /\ ~ Harmless
        \/ /\ pc' = "merge"
           /\ Of(recs', n)
           /\ \A k \in 1 .. n : k # beg => recs'[k] = recs[k]
    BY <1>2, <1>6, <2>1, CloseKeeps
  <2>3. ASSUME /\ pc' = "merge"
               /\ Of(recs', n)
               /\ \A k \in 1 .. n : k # beg => recs'[k] = recs[k]
        PROVE  Merging'
    <3>1. \A k \in end .. n : k \in beg .. n /\ k \in 1 .. n /\ k # beg
      BY <1>4
    <3>2. ~ q.all => \A k \in end .. n : RowSafe(q, recs'[k].item)
      BY <1>2, <2>3, <3>1
    <3>3. end \in Nat \ {0} /\ end + 1 \in Nat /\ end < end + 1 /\ end + 1 <= n + 1
      BY <1>4
    <3> QED BY <1>1, <1>4, <1>6, <2>3, <3>2, <3>3 DEF Merging
  <2> QED BY <2>2, <2>3
<1> QED BY <1>5, <1>6 DEF Merge

LEMMA MergeLastKeeps ==
  ASSUME Merging, q \in Queries, MergeLast
  PROVE  \/ pc' = "crashed" /\ ~ Harmless
         \/ pc' = "collect"
<1>1. PICK n \in Nat :
        /\ Of(recs, n)
        /\ n # 0 => end <= n + 1
        /\ ~ q.all => \A k \in beg .. n : RowSafe(q, recs[k].item)
  BY DEF Merging
<1>2. Len(recs) = n
  BY <1>1, OfLen
<1>3. CASE recs # <<>> /\ CloseGroup(beg, Len(recs), "collect")
  <2>1. n # 0
    <3>1. ASSUME n = 0 PROVE recs = <<>>
      <4>1. recs = [i \in 1 .. 0 |-> recs[i]]
        BY <1>1, <3>1 DEF Of
      <4> QED BY <4>1
    <3> QED BY <1>3, <3>1
  <2>2. beg \in Nat /\ beg <= n
    BY <1>1, <2>1 DEF Merging
  <2> QED BY <1>1, <1>2, <1>3, <2>2, CloseKeeps
<1>4. CASE recs = <<>> /\ pc' = "collect"
  BY <1>4
<1>5. CASE \E i \in Aggregated(q) : Divides(q.columns[i].expr)
  <2>1. ~ Harmless
    BY <1>5 DEF Harmless, Merging
  <2> QED BY <2>1 DEF MergeLast, CloseGroup
<1> QED BY <1>3, <1>4, <1>5 DEF MergeLast

\* Records that are merged stay chained, and the others drawn.
LEMMA MergeDraws ==
  ASSUME Merging, q \in Queries, Tallied, Drawn(beg, Len(recs)), Chained(beg), Merge, pc' = "merge"
  PROVE  Tallied' /\ Drawn(beg, Len(recs))' /\ Chained(beg)'
<1>1. end <= Len(recs) /\ q' = q /\ db' = db /\ ocol_cnt' = ocol_cnt
  BY DEF Merge
<1>2. PICK n \in Nat :
        /\ Of(recs, n)
        /\ ~ q.all => \A k \in beg .. n : RowSafe(q, recs[k].item)
  BY DEF Merging
<1>3. Len(recs) = n
  BY <1>2, OfLen
<1>4. beg \in Nat \ {0} /\ end \in Nat /\ beg < end /\ end <= n /\ q.group # <<>>
  BY <1>1, <1>3 DEF Merging
<1>5. Whole' = Whole /\ (Harmless' <=> Harmless)
  BY <1>1, HarmlessStays DEF Whole
<1>6. CASE UNCHANGED <<recs, pc, beg>>
  <2>1. Chained(beg)'
    BY <1>1, <1>5, <1>6 DEF Chained, Writes
  <2> QED BY <1>5, <1>6, <2>1 DEF Tallied, Drawn
<1>7. CASE CloseGroup(beg, end - 1, "merge") /\ beg' = end
  <2>1. PICK b \in 1 .. n : b = beg
    BY <1>4
  <2>2. PICK e \in b .. n : e = end - 1 /\ e + 1 = end
    BY <1>4, <2>1
  <2>3. recs' = [recs EXCEPT ![b] = [item |-> Merged(b, e), next |-> e + 1]]
    BY <1>7, <2>1, <2>2 DEF CloseGroup
  <2>4. ~ q.all => RowSafe(q, recs[b].item)
    BY <1>2, <2>1
  <2>5. Drawn(b, n) /\ Chained(b) /\ Whole.status = "done"
    BY <1>3, <2>1 DEF Tallied
  <2>6. Chained(e + 1)' /\ Drawn(e + 1, n)' /\ Of(recs', n)
    BY <1>1, <1>2, <1>4, <2>3, <2>4, <2>5, CloseChains
  <2>7. Len(recs') = n /\ beg' = e + 1
    BY <1>7, <2>2, <2>6, OfLen
  <2>8. Chained(beg)'
    BY <2>6, <2>7 DEF Chained
  <2>9. Drawn(beg, Len(recs))'
    BY <2>6, <2>7 DEF Drawn
  <2> QED BY <1>3, <1>5, <2>7, <2>8, <2>9 DEF Tallied
<1> QED BY <1>6, <1>7 DEF Merge

LEMMA MergeLastDraws ==
  ASSUME Merging, q \in Queries, Tallied, Drawn(beg, Len(recs)), Chained(beg), MergeLast,
         pc' = "collect"
  PROVE  Tallied' /\ Grouped'
<1>1. q' = q /\ db' = db /\ ocol_cnt' = ocol_cnt /\ end > Len(recs)
  BY DEF MergeLast
<1>2. PICK n \in Nat :
        /\ Of(recs, n)
        /\ n # 0 => end <= n + 1
        /\ ~ q.all => \A k \in beg .. n : RowSafe(q, recs[k].item)
  BY DEF Merging
<1>3. Len(recs) = n /\ q.group # <<>>
  BY <1>2, OfLen DEF Merging
<1>4. Whole' = Whole /\ (Harmless' <=> Harmless)
  BY <1>1, HarmlessStays DEF Whole
<1>5. CASE recs # <<>> /\ CloseGroup(beg, Len(recs), "collect")
  <2>1. n # 0
    <3>1. ASSUME n = 0 PROVE recs = <<>>
      <4>1. recs = [i \in 1 .. 0 |-> recs[i]]
        BY <1>2, <3>1 DEF Of
      <4> QED BY <4>1
    <3> QED BY <1>5, <3>1
  <2>2. PICK b \in 1 .. n : b = beg
    BY <1>2, <2>1 DEF Merging
  <2>3. recs' = [recs EXCEPT ![b] = [item |-> Merged(b, n), next |-> n + 1]]
    BY <1>3, <1>5, <2>2 DEF CloseGroup
  <2>4. ~ q.all => RowSafe(q, recs[b].item)
    BY <1>2, <2>2
  <2>5. Drawn(b, n) /\ Chained(b) /\ Whole.status = "done" /\ n \in b .. n
    BY <1>3, <2>2 DEF Tallied
  <2>6. Chained(n + 1)' /\ Of(recs', n)
    BY <1>1, <1>2, <1>3, <2>3, <2>4, <2>5, CloseChains
  <2>7. Len(recs') = n
    BY <2>6, OfLen
  <2> QED BY <1>1, <1>3, <1>4, <2>6, <2>7 DEF Tallied, Grouped
<1>6. CASE recs = <<>> /\ UNCHANGED recs
  <2>1. n = 0
    BY <1>3, <1>6
  <2>2. Chained(n + 1)'
    <3>1. {} \in SUBSET (1 .. (n + 1) - 1) /\ n + 1 = 1
      BY <2>1
    <3> QED BY <3>1 DEF Chained
  <2> QED BY <1>1, <1>2, <1>3, <1>4, <1>6, <2>2 DEF Tallied, Grouped
<1> QED BY <1>5, <1>6 DEF MergeLast

\* The records jsonify_result goes through can be written, and are no more
\* than the loop collected.
LEMMA ResultWrites ==
  ASSUME q \in Queries, Harmless, Tallied, Grouped
  PROVE  /\ Len(Result) \in Nat /\ Len(Result) <= Len(Whole.rows) /\ Len(Whole.rows) \in Nat
         /\ \A x \in 1 .. Len(Result) : Writes(Result[x].item)
<1>1. PICK n : Of(recs, n) /\ IF q.group = <<>> THEN Drawn(1, n) ELSE Chained(n + 1)
  BY DEF Grouped
<1>2. n \in Nat /\ Len(recs) = n /\ Len(Whole.rows) = n /\ Whole.status = "done"
  BY <1>1, OfLen DEF Of, Tallied
<1>3. /\ Len(Result) \in Nat /\ Len(Result) = Len(Walk) /\ Len(Walk) <= n
      /\ \A x \in 1 .. Len(Walk) : Result[x] = recs[Walk[x]]
  BY <1>2, ResultLen
<1>4. ASSUME NEW x \in 1 .. Len(Result) PROVE Writes(Result[x].item)
  <2>1. CASE q.group = <<>>
    <3>1. Hops(1 .. n, n)
      BY <1>2, <2>1 DEF Hops, next
    <3>2. Walk[x] \in 1 .. n
      BY <1>2, <1>3, <3>1, WalkCovers DEF Covers
    <3>3. PICK k \in 1 .. n : Result[x] = recs[k]
      BY <1>3, <3>2
    <3>4. PICK y \in 1 .. n : recs[k].item = Whole.rows[y]
      BY <1>1, <1>2, <2>1 DEF Drawn
    <3>5. \A i \in 1 .. col_cnt(q) : Printable(Whole.rows[y][i])
      BY <1>2, <2>1, <3>4 DEF Harmless, Writable
    <3> QED BY <3>3, <3>4, <3>5 DEF Writes
  <2>2. CASE q.group # <<>>
    <3>1. PICK H \in SUBSET (1 .. (n + 1) - 1) :
            /\ n + 1 # 1 => 1 \in H
            /\ \A h \in H : /\ recs[h].next \in h + 1 .. n + 1
                            /\ recs[h].next < n + 1 => recs[h].next \in H
                            /\ \A g \in H : g <= h \/ recs[h].next <= g
                            /\ Harmless => Writes(recs[h].item)
      BY <1>1, <2>2 DEF Chained
    <3>2. Hops(H, n)
      <4>1. H \subseteq 1 .. n /\ (n # 0 => 1 \in H)
        BY <1>2, <3>1
      <4>2. ASSUME NEW h \in H
            PROVE  /\ next(h) \in h + 1 .. n + 1
                   /\ next(h) <= n => next(h) \in H
                   /\ \A g \in H : g <= h \/ next(h) <= g
        <5>1. PICK m : m = recs[h].next
          OBVIOUS
        <5>2. next(h) = m /\ h \in 1 .. n
          BY <2>2, <4>1, <5>1 DEF next
        <5>3. /\ m \in h + 1 .. n + 1 /\ (m < n + 1 => m \in H)
              /\ \A g \in H : g <= h \/ m <= g
          BY <3>1, <5>1
        <5> QED BY <1>2, <5>2, <5>3
      <4> QED BY <4>1, <4>2 DEF Hops
    <3>3. Walk[x] \in H
      BY <1>2, <1>3, <3>2, WalkCovers DEF Covers
    <3> QED BY <1>3, <3>1, <3>3
  <2> QED BY <2>1, <2>2
<1> QED BY <1>2, <1>3, <1>4

\* What is left of them by LIMIT can be written, whatever qsort did.
LEMMA ShownWrites ==
  ASSUME q \in Queries, limit.start \in Nat, limit.count \in Nat, Len(Result) \in Nat,
         \A x \in 1 .. Len(Result) : Writes(Result[x].item),
         NEW rows, rows = Result \/ rows \in Sorted(okeys(q), Result)
  PROVE  /\ Len(Shown(rows)) \in Nat /\ Len(Shown(rows)) <= Len(Result)
         /\ \A x \in 1 .. Len(Shown(rows)), i \in 1 .. col_cnt(q) : Printable(Shown(rows)[x][i])
<1>1. PICK n \in Nat : Len(Result) = n
  OBVIOUS
<1>2. Len(rows) = n /\ \A k \in 1 .. n : Writes(rows[k].item)
  <2>1. CASE rows = Result
    BY <1>1, <2>1
  <2>2. CASE rows \in Sorted(okeys(q), Result)
    <3>1. PICK f \in SetToSeqs(1 .. n) : rows = [i \in 1 .. n |-> Result[f[i]]]
      BY <1>1, <2>2 DEF Sorted
    <3>2. f \in [1 .. n -> 1 .. n]
      <4>1. Cardinality(1 .. n) = n
        BY FS_Interval
      <4> QED BY <3>1, <4>1 DEF SetToSeqs
    <3>3. \A k \in 1 .. n : rows[k] = Result[f[k]] /\ f[k] \in 1 .. n
      BY <3>1, <3>2
    <3>4. Len(rows) = n
      BY <3>1
    <3> QED BY <1>1, <3>3, <3>4
  <2> QED BY <2>1, <2>2
<1> DEFINE w == Window(rows, limit)
<1>3. /\ Len(w) \in Nat /\ Len(w) <= n
      /\ \A k \in 1 .. Len(w) : limit.start + k \in 1 .. n /\ w[k] = rows[limit.start + k]
  <2>1. Leaves(limit, rows, n, w)
    BY <1>2, WindowIs
  <2> HIDE DEF w
  <2>2. PICK a \in Nat : limit.start = a
    OBVIOUS
  <2>3. \A k \in 1 .. Len(w) : a + k \in 1 .. n
    BY <2>1, <2>2 DEF Leaves
  <2>4. Len(w) \in Nat
    BY <2>1 DEF Leaves
  <2>5. Len(w) <= n
    <3>1. Len(w) = 0 \/ Len(w) \in 1 .. Len(w)
      BY <2>4
    <3>2. CASE Len(w) \in 1 .. Len(w)
      <4>1. a + Len(w) \in 1 .. n
        BY <2>3, <3>2
      <4> QED BY <2>4, <4>1
    <3> QED BY <3>1, <3>2
  <2> QED BY <2>1, <2>4, <2>5 DEF Leaves
<1> HIDE DEF w
<1>4. /\ Len(Shown(rows)) = Len(w)
      /\ \A k \in 1 .. Len(w) : Shown(rows)[k] = SubSeq(w[k].item, 1, col_cnt(q))
  <2> DEFINE g(i) == SubSeq(w[i].item, 1, col_cnt(q))
  <2>1. Shown(rows) = [i \in 1 .. Len(w) |-> g(i)]
    BY DEF Shown, w
  <2> HIDE DEF g
  <2>2. PICK c \in Nat : Len(w) = c
    BY <1>3
  <2>3. Len(Shown(rows)) = Len(w) /\ \A k \in 1 .. Len(w) : Shown(rows)[k] = g(k)
    BY <2>1, <2>2
  <2> QED BY <2>3 DEF g
<1>5. ASSUME NEW x \in 1 .. Len(w), NEW i \in 1 .. col_cnt(q)
      PROVE  Printable(Shown(rows)[x][i])
  <2>1. PICK p \in 1 .. n : w[x] = rows[p]
    BY <1>3
  <2>2. Printable(rows[p].item[i])
    BY <1>2 DEF Writes
  <2>3. SubSeq(rows[p].item, 1, col_cnt(q))[i] = rows[p].item[i]
    <3> DEFINE c == col_cnt(q)
               R == {rows[p].item[j] : j \in 1 .. c}
    <3>2. c \in Nat
      BY ColumnsAssumption
    <3>3. \A j \in 1 .. c : rows[p].item[j] \in R
      OBVIOUS
    <3>0. i \in 1 .. c
      OBVIOUS
    <3> HIDE DEF c, R
    <3>4. \A j \in 1 .. c - 1 + 1 : SubSeq(rows[p].item, 1, c)[j] = rows[p].item[1 + j - 1]
      BY <3>2, <3>3, SubSeqProperties
    <3>5. SubSeq(rows[p].item, 1, c)[i] = rows[p].item[i]
      BY <3>0, <3>2, <3>4
    <3> QED BY <3>5 DEF c
  <2> QED BY <1>4, <2>1, <2>2, <2>3
<1> QED BY <1>1, <1>3, <1>4, <1>5

\* Columns to sort by that are not there, or text that overwrites.
LEMMA CollectSurvives ==
  ASSUME q \in Queries, ocol_cnt \in Nat, limit.start \in Nat, limit.count \in Nat,
         Tallied, Grouped, Collect, pc' = "crashed"
  PROVE  ~ Harmless
<1>1. CASE Unsortable
  <2>1. PICK i \in 1 .. ocol_cnt : okeys(q)[i].at = Unknown
    BY <1>1 DEF Unsortable
  <2> DEFINE own == i - (ocol_cnt - Len(q.order))
  <2>2. okeys(q)[i] = IF own <= 0 THEN [at |-> 1, sc |-> FALSE]
                      ELSE [at |-> get_column_index(q, q.order[own].name),
                            sc |-> q.order[own].sc]
    BY DEF okeys
  <2>3. PICK m \in Nat : Len(q.order) = m
    BY QueriesAssumption
  <2>4. ~ (own <= 0) /\ get_column_index(q, q.order[own].name) = Unknown
    BY <2>1, <2>2 DEF Unknown
  <2>5. own \in 1 .. Len(q.order)
    BY <2>3, <2>4
  <2> HIDE DEF own
  <2>6. OwnKeys(q)[own].at = Unknown
    BY <2>4, <2>5 DEF OwnKeys
  <2> QED BY <2>5, <2>6 DEF Harmless
<1>2. CASE ~ Unsortable
  <2> SUFFICES ASSUME Harmless PROVE FALSE
    OBVIOUS
  <2>1. PICK rows : /\ rows = Result \/ rows \in Sorted(okeys(q), Result)
                    /\ Overwrites(Shown(rows))
    BY <1>2 DEF Collect
  <2>2. /\ Len(Result) \in Nat /\ Len(Result) <= Len(Whole.rows) /\ Len(Whole.rows) \in Nat
        /\ \A x \in 1 .. Len(Result) : Writes(Result[x].item)
    BY ResultWrites
  <2>3. /\ Len(Shown(rows)) \in Nat /\ Len(Shown(rows)) <= Len(Result)
        /\ \A x \in 1 .. Len(Shown(rows)), i \in 1 .. col_cnt(q) : Printable(Shown(rows)[x][i])
    BY <2>1, <2>2, ShownWrites
  <2>4. Len(Shown(rows)) * col_cnt(q) > REPLY_CELLS
    BY <2>1, <2>3 DEF Overwrites
  <2>5. Len(Whole.rows) * col_cnt(q) <= REPLY_CELLS
    BY DEF Harmless, Writable, Tallied
  <2>6. \A a, b, c \in Nat : a <= b => a * c <= b * c
    OBVIOUS
  <2>7. PICK a \in Nat, b \in Nat, c \in Nat :
          a = Len(Shown(rows)) /\ b = Len(Whole.rows) /\ c = col_cnt(q)
    BY <2>2, <2>3, ColumnsAssumption
  <2>8. a <= b /\ a * c > REPLY_CELLS /\ b * c <= REPLY_CELLS /\ a * c \in Nat /\ b * c \in Nat
    BY <2>2, <2>3, <2>4, <2>5, <2>7
  <2>9. a * c <= b * c
    BY <2>6, <2>8
  <2> QED BY <2>8, <2>9, ReplyAssumption
<1> QED BY <1>1, <1>2

LEMMA SurvInit == Init => SInv
<1> SUFFICES ASSUME Init PROVE SInv
  OBVIOUS
<1>1. pc = "idle" /\ ocol_cnt = 0
  BY DEF Init, SelectInit
<1> QED BY <1>1, InitInv DEF SInv, Survives

LEMMA SurvStep == SInv /\ [Next]_vars => SInv'
<1> SUFFICES ASSUME SInv, [Next]_vars PROVE SInv'
  OBVIOUS
<1>1. IInv' /\ IInv /\ ocol_cnt \in Nat
  BY StepInv DEF SInv
<1>2. CASE Write
  BY <1>1, <1>2 DEF SInv, Write, Survives
<1>3. ASSUME NEW s \in Queries, Begin(s)
      PROVE  SInv'
  <2>1. pc' \in {"scan", "crashed"}
    BY <1>3 DEF Begin
  <2>2. ocol_cnt' \in Nat
    <3>1. Len(s.order) \in Nat
      BY QueriesAssumption
    <3> QED BY <1>1, <1>3, <3>1 DEF Begin
  <2>3. pc' = "crashed" => ~ Harmless'
    BY <1>1, <1>3, BeginSurvives
  <2>4. q' \in Queries /\ limit'.start \in Nat /\ limit'.count \in Nat
    BY <1>3, QueriesAssumption DEF Begin
  <2> QED BY <1>1, <2>1, <2>2, <2>3, <2>4 DEF SInv, Survives
<1>4. CASE Scan
  <2>1. pc' \in {"scan", "idle", "scanned", "crashed"} /\ ocol_cnt' = ocol_cnt
    BY <1>4 DEF Scan, Pass, get_next_record
  <2>2. pc' = "crashed" => ~ Harmless'
    BY <1>1, <1>4, ScanSurvives
  <2>3. pc' = "scanned" => Gathered' /\ q' \in Queries
    BY <1>1, <1>4, ScanGathers
  <2>4. pc' = "scanned" => Tallied' /\ Drawn(1, Len(recs))'
    BY <1>1, <2>3, ScanDraws
  <2>5. pc = "scan" /\ q' = q /\ q \in Queries /\ limit.start \in Nat /\ limit.count \in Nat
    BY <1>4 DEF Scan, SInv
  <2>6. limit'.start \in Nat /\ limit'.count \in Nat
    BY <1>4, <2>5, QueriesAssumption DEF Scan
  <2> QED BY <1>1, <2>1, <2>2, <2>3, <2>4, <2>5, <2>6 DEF SInv, Survives
<1>5. CASE Sort
  <2>1. /\ pc = "scanned" /\ pc' \in {"merge", "collect"} /\ q' = q /\ ocol_cnt' = ocol_cnt
    BY <1>5 DEF Sort
  <2>2. Gathered /\ q \in Queries
    BY <2>1 DEF SInv
  <2>3. pc' = "merge" => Merging'
    BY <1>5, <2>2, SortMerges
  <2>4. Tallied' /\ Drawn(1, Len(recs))' /\ (\E n : Of(recs', n))
    BY <1>5, <2>1, <2>2, SortDraws DEF SInv
  <2>5. limit' = limit /\ beg' = 1 /\ (pc' = "collect" <=> q.group = <<>>)
    BY <1>5 DEF Sort
  <2>6. pc' = "merge" => Drawn(beg, Len(recs))' /\ Chained(beg)'
    <3>1. Chained(beg)'
      <4>1. {} \in SUBSET (1 .. beg' - 1)
        OBVIOUS
      <4> QED BY <2>5, <4>1 DEF Chained
    <3>2. Drawn(beg, Len(recs))'
      BY <2>4, <2>5 DEF Drawn
    <3> QED BY <3>1, <3>2
  <2>7. pc' = "collect" => Grouped'
    BY <2>1, <2>4, <2>5, OfLen DEF Grouped, Drawn
  <2>8. limit.start \in Nat /\ limit.count \in Nat
    BY <2>1 DEF SInv
  <2> QED BY <1>1, <2>1, <2>2, <2>3, <2>4, <2>5, <2>6, <2>7, <2>8 DEF SInv, Survives
<1>6. CASE Merge
  <2>1. /\ pc = "merge" /\ q' = q /\ db' = db /\ ocol_cnt' = ocol_cnt
    BY <1>6 DEF Merge
  <2>2. Merging /\ q \in Queries
    BY <2>1 DEF SInv
  <2>3. /\ pc' \in {"crashed", "merge"}
        /\ pc' = "crashed" => ~ Harmless
        /\ pc' = "merge" => Merging'
    BY <1>6, <2>2, MergeKeeps
  <2>4. Harmless' <=> Harmless
    BY <2>1, HarmlessStays
  <2>5. Drawn(beg, Len(recs)) /\ Chained(beg) /\ Tallied
    BY <2>1 DEF SInv
  <2>6. pc' = "merge" => Tallied' /\ Drawn(beg, Len(recs))' /\ Chained(beg)'
    BY <1>6, <2>2, <2>5, MergeDraws
  <2>7. limit' = limit /\ limit.start \in Nat /\ limit.count \in Nat
    BY <1>6, <2>1 DEF Merge, SInv
  <2> QED BY <1>1, <2>1, <2>2, <2>3, <2>4, <2>6, <2>7 DEF SInv, Survives
<1>7. CASE MergeLast
  <2>1. /\ pc = "merge" /\ q' = q /\ db' = db /\ ocol_cnt' = ocol_cnt
    BY <1>7 DEF MergeLast
  <2>2. Merging /\ q \in Queries
    BY <2>1 DEF SInv
  <2>3. (pc' = "crashed" /\ ~ Harmless) \/ pc' = "collect"
    BY <1>7, <2>2, MergeLastKeeps, Zenon
  <2>4. Harmless' <=> Harmless
    BY <2>1, HarmlessStays
  <2>5. Drawn(beg, Len(recs)) /\ Chained(beg) /\ Tallied
    BY <2>1 DEF SInv
  <2>6. pc' = "collect" => Tallied' /\ Grouped'
    BY <1>7, <2>2, <2>5, MergeLastDraws
  <2>7. limit' = limit /\ limit.start \in Nat /\ limit.count \in Nat
    BY <1>7, <2>1 DEF MergeLast, SInv
  <2> QED BY <1>1, <2>1, <2>2, <2>3, <2>4, <2>6, <2>7 DEF SInv, Survives
<1>8. CASE Collect
  <2>1. /\ pc = "collect" /\ q' = q /\ db' = db /\ ocol_cnt' = ocol_cnt
        /\ pc' \in {"idle", "crashed"}
    BY <1>8 DEF Collect
  <2>2. /\ q \in Queries /\ limit.start \in Nat /\ limit.count \in Nat
        /\ Tallied /\ Grouped
    BY <2>1 DEF SInv
  <2>3. pc' = "crashed" => ~ Harmless
    BY <1>1, <1>8, <2>2, CollectSurvives
  <2>4. Harmless' <=> Harmless
    BY <2>1, HarmlessStays
  <2> QED BY <1>1, <2>1, <2>3, <2>4 DEF SInv, Survives
<1>9. CASE Restart
  BY <1>1, <1>9 DEF SInv, Restart, Survives
<1>10. CASE UNCHANGED vars
  <2>1. UNCHANGED <<db, q, pc, arr, pos, sub, recs, ocol_cnt, reply, beg, end>>
    BY <1>10 DEF vars
  <2>2. Harmless' <=> Harmless
    BY <2>1, HarmlessStays
  <2>3. (Gathered' <=> Gathered) /\ (Merging' <=> Merging)
    BY <2>1 DEF Gathered, Merging
  <2>4. Whole' = Whole /\ limit' = limit
    BY <1>10, <2>1 DEF Whole, vars
  <2>5. /\ (Tallied' <=> Tallied) /\ (Drawn(1, Len(recs))' <=> Drawn(1, Len(recs)))
        /\ (Drawn(beg, Len(recs))' <=> Drawn(beg, Len(recs)))
    BY <2>1, <2>4 DEF Tallied, Drawn
  <2>6. Chained(beg)' <=> Chained(beg)
    BY <2>1, <2>2 DEF Chained, Writes
  <2>7. Grouped' <=> Grouped
    <3>1. \A n : (Drawn(1, n)' <=> Drawn(1, n)) /\ (Chained(n + 1)' <=> Chained(n + 1))
      BY <2>1, <2>2, <2>4 DEF Drawn, Chained, Writes
    <3> QED BY <2>1, <3>1 DEF Grouped
  <2> QED BY <1>1, <2>1, <2>2, <2>3, <2>4, <2>5, <2>6, <2>7 DEF SInv, Survives
<1> QED BY <1>2, <1>3, <1>4, <1>5, <1>6, <1>7, <1>8, <1>9, <1>10 DEF Next, Thread

\* The server lives through every query that is Harmless: on tables with rows,
\* each named once, whose counters cover them, with room for rows, columns and
\* the text of the answer, values in it that can be written, nothing divided by
\* zero and known columns to sort by, whatever the database, the statement and
\* the queries before it.
THEOREM ServerSurvives == Spec => []Survives
<1>1. Spec => Init /\ [][Next]_vars
  BY DEF Spec
<1>2. SInv => Survives
  BY DEF SInv
<1> QED BY <1>1, <1>2, SurvInit, SurvStep, PTL

-----------------------------------------------------------------------------
\* cmp orders the values of a column that are Alike: what differs is ordered
\* one way or the other, and nothing comes between two equal values.
Differs(x, y) == is_true(eval_compare("NE", x, y))
Less(x, y)    == is_true(eval_compare("LT", x, y))

Orders(x, y, z) ==
  /\ Differs(x, y) <=> Less(x, y) \/ Less(y, x)
  /\ ~ (Less(x, y) /\ Less(y, x))
  /\ Less(x, z) => Less(x, y) \/ Less(y, z)

LEMMA CompareIs ==
  ASSUME NEW x, NEW y, (IsNumber(x) /\ IsNumber(y)) \/ (IsText(x) /\ IsText(y))
  PROVE  /\ Differs(x, y) <=> ~ same(x, y)
         /\ Less(x, y) <=> below(x, y)
<1>1. lazy_expr \notin {x, y}
  BY DEF lazy_expr, IsNumber, IsText
<1>2. \A op : eval_compare(op, x, y) = Truth(compare(op, below(x, y), same(x, y)))
  BY <1>1 DEF eval_compare
<1>3. \A b : is_true(Truth(b)) <=> b
  BY DEF is_true, Truth, IntNum
<1>4. Less(x, y) <=> below(x, y)
  <2>1. compare("LT", below(x, y), same(x, y)) = below(x, y)
    BY DEF compare
  <2> QED BY <1>2, <1>3, <2>1 DEF Less
<1>5. Differs(x, y) <=> ~ same(x, y)
  <2>1. compare("NE", below(x, y), same(x, y)) = ~ same(x, y)
    BY DEF compare
  <2> QED BY <1>2, <1>3, <2>1 DEF Differs
<1> QED BY <1>4, <1>5

\* Numbers are ordered by their floats,
LEMMA NumbersOrder ==
  ASSUME NEW V, \A v \in V : IsNumber(v) /\ get_number(v) \in Int,
         NEW x \in V, NEW y \in V, NEW z \in V
  PROVE  Orders(x, y, z)
<1>1. \A u, v \in V : /\ Differs(u, v) <=> get_number(u) # get_number(v)
                      /\ Less(u, v) <=> get_number(u) < get_number(v)
  BY CompareIs DEF same, below
<1>2. get_number(x) \in Int /\ get_number(y) \in Int /\ get_number(z) \in Int
  OBVIOUS
<1> QED BY <1>1, <1>2 DEF Orders

\* dates by the time make_datetime gives,
LEMMA DatesOrder ==
  ASSUME NEW V, \A v \in V : v.type = "DATETIME" /\ make_datetime(v.strval) \in Int,
         NEW x \in V, NEW y \in V, NEW z \in V
  PROVE  Orders(x, y, z)
<1>1. \A u, v \in V : /\ Differs(u, v) <=> make_datetime(u.strval) # make_datetime(v.strval)
                      /\ Less(u, v) <=> make_datetime(u.strval) < make_datetime(v.strval)
  BY CompareIs DEF same, below, IsNumber, IsText
<1>2. make_datetime(x.strval) \in Int /\ make_datetime(y.strval) \in Int
      /\ make_datetime(z.strval) \in Int
  OBVIOUS
<1> QED BY <1>1, <1>2 DEF Orders

\* Two texts that differ are ordered, by their first difference.
LEMMA TextsDiffer ==
  ASSUME NEW s \in Seq(Int), NEW t \in Seq(Int), s # t
  PROVE  strcmp_lt(s, t) \/ strcmp_lt(t, s)
<1> DEFINE T == {i \in 1 .. Len(s) + 1 : \/ i = Len(s) + 1
                                         \/ i = Len(t) + 1
                                         \/ i <= Len(t) /\ s[i] # t[i]}
<1>1. T \subseteq Nat /\ Len(s) + 1 \in T
  OBVIOUS
<1>2. PICK i \in T : \A x \in T : i <= x
  <2> HIDE DEF T
  <2> QED BY <1>1, Least
<1>3. i \in 1 .. Len(s) + 1
  OBVIOUS
<1>4. \A j \in 1 .. i - 1 : j <= Len(s) /\ j <= Len(t) /\ s[j] = t[j]
  <2>1. ASSUME NEW j \in 1 .. i - 1 PROVE j \notin T /\ j \in 1 .. Len(s)
    BY <1>2, <1>3
  <2>2. ASSUME NEW j \in Nat, 1 <= j, j <= i - 1, ~ (j <= Len(t)) PROVE FALSE
    <3>1. Len(t) + 1 \in 1 .. i - 1
      BY <1>3, <2>2
    <3> QED BY <2>1, <3>1
  <2>3. \A j \in 1 .. i - 1 : j <= Len(t)
    BY <1>3, <2>2
  <2> QED BY <2>1, <2>3
<1>5. i <= Len(t) + 1
  <2>1. CASE i = 1
    BY <2>1
  <2>2. CASE i # 1
    <3>1. i - 1 \in 1 .. i - 1
      BY <1>3, <2>2
    <3> QED BY <1>3, <1>4, <3>1
  <2> QED BY <2>1, <2>2
<1>6. CASE i = Len(s) + 1 /\ i = Len(t) + 1
  <2>1. Len(s) = Len(t) /\ \A j \in 1 .. Len(s) : s[j] = t[j]
    BY <1>4, <1>6
  <2>2. s = t
    BY <2>1, SeqEqual
  <2> QED BY <2>2
<1>7. CASE i = Len(s) + 1 /\ i # Len(t) + 1
  <2>1. i \in 1 .. Len(t)
    BY <1>3, <1>5, <1>7
  <2>2. strcmp_lt(s, t)
    <3>1. /\ i <= Len(s) + 1
          /\ \A j \in 1 .. i - 1 : s[j] = t[j]
          /\ i = Len(s) + 1 \/ s[i] < t[i]
      BY <1>3, <1>4, <1>7
    <3> HIDE DEF T
    <3> QED BY <2>1, <3>1 DEF strcmp_lt
  <2> QED BY <2>2
<1>8. CASE i # Len(s) + 1 /\ i = Len(t) + 1
  <2>1. i \in 1 .. Len(s)
    BY <1>3, <1>8
  <2> QED BY <1>4, <1>8, <2>1 DEF strcmp_lt
<1>9. CASE i # Len(s) + 1 /\ i # Len(t) + 1
  <2>1. i \in 1 .. Len(s) /\ i \in 1 .. Len(t) /\ s[i] # t[i]
    BY <1>3, <1>5, <1>9
  <2>2. s[i] \in Int /\ t[i] \in Int
    BY <2>1
  <2>3. s[i] < t[i] \/ t[i] < s[i]
    BY <2>1, <2>2
  <2> QED BY <1>4, <2>1, <2>3 DEF strcmp_lt
<1> QED BY <1>6, <1>7, <1>8, <1>9

\* The order of texts is transitive.
LEMMA TextsAfter ==
  ASSUME NEW s \in Seq(Int), NEW t \in Seq(Int), NEW u \in Seq(Int),
         strcmp_lt(s, t), strcmp_lt(t, u)
  PROVE  strcmp_lt(s, u)
<1>1. PICK i \in 1 .. Len(t) : /\ i <= Len(s) + 1
                               /\ \A j \in 1 .. i - 1 : s[j] = t[j]
                               /\ i = Len(s) + 1 \/ s[i] < t[i]
  BY DEF strcmp_lt
<1>2. PICK k \in 1 .. Len(u) : /\ k <= Len(t) + 1
                               /\ \A j \in 1 .. k - 1 : t[j] = u[j]
                               /\ k = Len(t) + 1 \/ t[k] < u[k]
  BY DEF strcmp_lt
<1>3. \A j \in 1 .. Len(s) : s[j] \in Int
  OBVIOUS
<1>4. \A j \in 1 .. Len(t) : t[j] \in Int
  OBVIOUS
<1>5. \A j \in 1 .. Len(u) : u[j] \in Int
  OBVIOUS
<1>6. CASE i < k
  <2>1. i \in 1 .. k - 1 /\ i \in 1 .. Len(u)
    BY <1>6
  <2>2. t[i] = u[i]
    BY <1>2, <2>1
  <2>3. \A j \in 1 .. i - 1 : s[j] = u[j]
    BY <1>1, <1>2, <1>6
  <2> QED BY <1>1, <2>1, <2>2, <2>3 DEF strcmp_lt
<1>7. CASE k < i
  <2>1. k \in 1 .. i - 1 /\ k <= Len(s) + 1 /\ k # Len(t) + 1
    BY <1>1, <1>7
  <2>2. s[k] = t[k] /\ t[k] < u[k]
    BY <1>1, <1>2, <2>1
  <2>3. \A j \in 1 .. k - 1 : s[j] = u[j]
    BY <1>1, <1>2, <1>7
  <2> QED BY <2>1, <2>2, <2>3 DEF strcmp_lt
<1>8. CASE i = k
  <2>1. k # Len(t) + 1 /\ t[k] < u[k]
    BY <1>2, <1>8
  <2>2. i = Len(s) + 1 \/ s[i] < u[i]
    <3>1. CASE i = Len(s) + 1
      BY <3>1
    <3>2. CASE i # Len(s) + 1
      <4>1. s[i] < t[i] /\ i \in 1 .. Len(s) /\ i \in 1 .. Len(t) /\ i \in 1 .. Len(u)
        BY <1>1, <1>8, <3>2
      <4>2. s[i] \in Int /\ t[i] \in Int /\ u[i] \in Int
        BY <1>3, <1>4, <1>5, <4>1
      <4>3. t[i] < u[i]
        BY <1>8, <2>1
      <4> QED BY <4>1, <4>2, <4>3
    <3> QED BY <3>1, <3>2
  <2>3. \A j \in 1 .. i - 1 : s[j] = u[j]
    BY <1>1, <1>2, <1>8
  <2> QED BY <1>1, <1>8, <2>2, <2>3 DEF strcmp_lt
<1> QED BY <1>6, <1>7, <1>8

\* No text is before itself.
LEMMA TextsIrreflexive ==
  ASSUME NEW s \in Seq(Int) PROVE ~ strcmp_lt(s, s)
<1>1. ASSUME NEW i \in 1 .. Len(s), i = Len(s) + 1 \/ s[i] < s[i] PROVE FALSE
  <2>1. s[i] \in Int
    OBVIOUS
  <2> QED BY <1>1, <2>1
<1> QED BY <1>1 DEF strcmp_lt

\* texts by strcmp, and what cannot be compared is all one.
LEMMA AlikeOrder ==
  ASSUME NEW V, Alike(V), NEW x \in V, NEW y \in V, NEW z \in V
  PROVE  Orders(x, y, z)
<1>1. CASE \A v \in V : IsNumber(v) /\ get_number(v) \in Int
  BY <1>1, NumbersOrder
<1>2. CASE \A v \in V : v.type = "DATETIME" /\ make_datetime(v.strval) \in Int
  BY <1>2, DatesOrder
<1>3. CASE \A v \in V : v.type = "STRING" /\ v.strval \in Seq(Int)
  <2>1. \A u, v \in V : /\ Differs(u, v) <=> u.strval # v.strval
                        /\ Less(u, v) <=> strcmp_lt(u.strval, v.strval)
    BY <1>3, CompareIs DEF same, below, IsNumber, IsText
  <2>2. \A u, v \in V : \/ u.strval = v.strval
                        \/ strcmp_lt(u.strval, v.strval)
                        \/ strcmp_lt(v.strval, u.strval)
    BY <1>3, TextsDiffer
  <2>3. \A u \in V : ~ strcmp_lt(u.strval, u.strval)
    BY <1>3, TextsIrreflexive
  <2>4. \A u, v, w \in V : strcmp_lt(u.strval, v.strval) /\ strcmp_lt(v.strval, w.strval)
                             => strcmp_lt(u.strval, w.strval)
    BY <1>3, TextsAfter
  <2> QED BY <2>1, <2>2, <2>3, <2>4 DEF Orders
<1>4. CASE \A v \in V : ~ IsNumber(v) /\ ~ IsText(v)
  <2>1. \A u, v \in V : ~ Differs(u, v) /\ ~ Less(u, v)
    <3> SUFFICES ASSUME NEW u \in V, NEW v \in V
                 PROVE  ~ Differs(u, v) /\ ~ Less(u, v)
      OBVIOUS
    <3>1. \A op : eval_compare(op, u, v) \in {lazy_expr, Blank}
      BY <1>4 DEF eval_compare
    <3>2. ~ is_true(lazy_expr) /\ ~ is_true(Blank)
      BY DEF is_true, lazy_expr, Blank
    <3> QED BY <3>1, <3>2 DEF Differs, Less
  <2> QED BY <2>1 DEF Orders
<1> QED BY <1>1, <1>2, <1>3, <1>4 DEF Alike

-----------------------------------------------------------------------------
\* Records compared by key i: different, and in the direction of the key.
Apart(keys, i, a, b) == Differs(a.item[keys[i].at], b.item[keys[i].at])
Ahead(keys, i, a, b) ==
  Apart(keys, i, a, b) /\ (Less(a.item[keys[i].at], b.item[keys[i].at]) # keys[i].sc)

\* the keys in K have directions, and order what the records in S have there
Keyed(keys, S) ==
  /\ Len(keys) \in Nat
  /\ \A i \in 1 .. Len(keys) : /\ keys[i].sc \in BOOLEAN
                               /\ Alike({r.item[keys[i].at] : r \in S})

\* i is the first key by which a and b differ
Parting(keys, i, a, b) ==
  /\ i \in 1 .. Len(keys) /\ Apart(keys, i, a, b)
  /\ \A j \in 1 .. Len(keys) : Apart(keys, j, a, b) => i <= j

LEMMA AheadOrder ==
  ASSUME NEW keys, NEW S, Keyed(keys, S), NEW i \in 1 .. Len(keys),
         NEW a \in S, NEW b \in S, NEW c \in S
  PROVE  /\ Apart(keys, i, a, b) <=> Ahead(keys, i, a, b) \/ Ahead(keys, i, b, a)
         /\ ~ (Ahead(keys, i, a, b) /\ Ahead(keys, i, b, a))
         /\ Ahead(keys, i, a, c) => Ahead(keys, i, a, b) \/ Ahead(keys, i, b, c)
<1> DEFINE V == {r.item[keys[i].at] : r \in S}
           v(r) == r.item[keys[i].at]
<1>1. Alike(V) /\ keys[i].sc \in BOOLEAN
  BY DEF Keyed
<1>2. v(a) \in V /\ v(b) \in V /\ v(c) \in V
  OBVIOUS
<1> HIDE DEF V, v
<1>4. \A x, y, z \in V : Orders(x, y, z)
  BY <1>1, AlikeOrder
<1>5. \A r, s \in S : /\ Apart(keys, i, r, s) <=> Differs(v(r), v(s))
                      /\ Ahead(keys, i, r, s) <=>
                           Differs(v(r), v(s)) /\ (Less(v(r), v(s)) # keys[i].sc)
  BY DEF Apart, Ahead, v
<1>6. \A x, y : Less(x, y) \in BOOLEAN
  BY DEF Less, is_true
<1>7. \A x, y, z \in V :
        /\ Differs(x, y) <=> Less(x, y) \/ Less(y, x)
        /\ ~ (Less(x, y) /\ Less(y, x))
        /\ Less(x, z) => Less(x, y) \/ Less(y, z)
  BY <1>4 DEF Orders
<1>8. CASE keys[i].sc = FALSE
  <2>1. \A r, s \in S : Ahead(keys, i, r, s) <=> Differs(v(r), v(s)) /\ Less(v(r), v(s))
    BY <1>5, <1>6, <1>8
  <2> QED BY <1>2, <1>5, <1>7, <2>1
<1>9. CASE keys[i].sc = TRUE
  <2>1. \A r, s \in S : Ahead(keys, i, r, s) <=> Differs(v(r), v(s)) /\ ~ Less(v(r), v(s))
    BY <1>5, <1>6, <1>9
  <2> QED BY <1>2, <1>5, <1>7, <2>1
<1> QED BY <1>1, <1>8, <1>9

\* What cmp gives, by the first key that differs.
LEMMA cmpIs ==
  ASSUME NEW keys, Len(keys) \in Nat, NEW a, NEW b
  PROVE  \/ /\ cmp(keys, a, b) = 0
            /\ \A i \in 1 .. Len(keys) : ~ Apart(keys, i, a, b)
         \/ \E i \in 1 .. Len(keys) :
              /\ Parting(keys, i, a, b)
              /\ cmp(keys, a, b) = IF Ahead(keys, i, a, b) THEN -1 ELSE 1
<1> DEFINE D == {i \in 1 .. Len(keys) : Apart(keys, i, a, b)}
<1>1. D = {i \in 1 .. Len(keys) :
             is_true(eval_compare("NE", a.item[keys[i].at], b.item[keys[i].at]))}
  BY DEF Apart, Differs
<1>2. cmp(keys, a, b) =
        IF D = {} THEN 0
        ELSE IF is_true(eval_compare("LT", a.item[keys[Min(D)].at], b.item[keys[Min(D)].at]))
                  # keys[Min(D)].sc THEN -1 ELSE 1
  BY <1>1, Zenon DEF cmp
<1>3. CASE D = {}
  BY <1>2, <1>3
<1>4. CASE D # {}
  <2>1. D \subseteq Nat
    OBVIOUS
  <2>2. PICK m \in D : \A x \in D : m <= x
    <3> HIDE DEF D
    <3> QED BY <1>4, <2>1, Least
  <2>3. Min(D) \in D /\ \A x \in D : Min(D) <= x
    <3> HIDE DEF D
    <3> QED BY <2>2 DEF Min
  <2>4. Parting(keys, Min(D), a, b)
    BY <2>3 DEF Parting
  <2>5. cmp(keys, a, b) = IF Ahead(keys, Min(D), a, b) THEN -1 ELSE 1
    BY <1>2, <1>4, <2>3 DEF Ahead, Less
  <2> HIDE DEF D
  <2> QED BY <2>4, <2>5 DEF Parting
<1> QED BY <1>3, <1>4

-----------------------------------------------------------------------------
LEMMA PartingOne ==
  ASSUME NEW keys, NEW a, NEW b, NEW i, NEW j, Len(keys) \in Nat,
         Parting(keys, i, a, b), Parting(keys, j, a, b)
  PROVE  i = j
<1>1. i \in 1 .. Len(keys) /\ j \in 1 .. Len(keys) /\ i <= j /\ j <= i
  BY DEF Parting
<1> QED BY <1>1

LEMMA cmpAhead ==
  ASSUME NEW keys, Len(keys) \in Nat, NEW a, NEW b, NEW i, Parting(keys, i, a, b)
  PROVE  cmp(keys, a, b) = IF Ahead(keys, i, a, b) THEN -1 ELSE 1
<1>1. i \in 1 .. Len(keys) /\ Apart(keys, i, a, b)
  BY DEF Parting
<1>2. PICK j \in 1 .. Len(keys) :
        /\ Parting(keys, j, a, b)
        /\ cmp(keys, a, b) = IF Ahead(keys, j, a, b) THEN -1 ELSE 1
  BY <1>1, cmpIs
<1>3. i = j
  BY <1>2, PartingOne
<1> QED BY <1>2, <1>3

\* Records whose keys are alike are ordered by cmp: nothing comes before itself,
\* and what is between two records is before the one or behind the other.
LEMMA cmpTwo ==
  ASSUME NEW keys, NEW S, Keyed(keys, S), NEW a \in S, NEW b \in S
  PROVE  /\ cmp(keys, a, b) \in {-1, 0, 1}
         /\ cmp(keys, a, a) = 0
         /\ cmp(keys, a, b) = -1 <=> cmp(keys, b, a) = 1
<1>0. Len(keys) \in Nat
  BY DEF Keyed
<1>1. \A i \in 1 .. Len(keys) :
        /\ Apart(keys, i, a, b) <=> Ahead(keys, i, a, b) \/ Ahead(keys, i, b, a)
        /\ Apart(keys, i, b, a) <=> Ahead(keys, i, b, a) \/ Ahead(keys, i, a, b)
        /\ ~ (Ahead(keys, i, a, b) /\ Ahead(keys, i, b, a))
        /\ ~ Apart(keys, i, a, a)
  BY AheadOrder
<1>2. cmp(keys, a, b) \in {-1, 0, 1}
  BY <1>0, cmpIs
<1>3. cmp(keys, a, a) = 0
  BY <1>0, <1>1, cmpIs DEF Parting
<1>4. CASE \A i \in 1 .. Len(keys) : ~ Apart(keys, i, a, b)
  <2>1. \A i \in 1 .. Len(keys) : ~ Apart(keys, i, a, b) /\ ~ Apart(keys, i, b, a)
    BY <1>1, <1>4
  <2>2. cmp(keys, a, b) = 0
    BY <1>0, <2>1, cmpIs DEF Parting
  <2>3. cmp(keys, b, a) = 0
    BY <1>0, <2>1, cmpIs DEF Parting
  <2> QED BY <1>2, <1>3, <2>2, <2>3
<1>5. ASSUME NEW i \in 1 .. Len(keys), Parting(keys, i, a, b)
      PROVE  cmp(keys, a, b) = -1 <=> cmp(keys, b, a) = 1
  <2>1. Parting(keys, i, b, a)
    BY <1>1, <1>5 DEF Parting
  <2>2. Ahead(keys, i, a, b) <=> ~ Ahead(keys, i, b, a)
    BY <1>1, <1>5 DEF Parting
  <2>3. cmp(keys, a, b) = IF Ahead(keys, i, a, b) THEN -1 ELSE 1
    BY <1>0, <1>5, cmpAhead
  <2>4. cmp(keys, b, a) = IF Ahead(keys, i, b, a) THEN -1 ELSE 1
    BY <1>0, <2>1, cmpAhead
  <2> QED BY <2>2, <2>3, <2>4
<1>6. (\A i \in 1 .. Len(keys) : ~ Apart(keys, i, a, b))
        \/ \E i \in 1 .. Len(keys) : Parting(keys, i, a, b)
  BY <1>0, cmpIs
<1> QED BY <1>2, <1>3, <1>4, <1>5, <1>6

LEMMA cmpBetween ==
  ASSUME NEW keys, NEW S, Keyed(keys, S), NEW a \in S, NEW b \in S, NEW c \in S,
         cmp(keys, a, c) = -1
  PROVE  cmp(keys, a, b) = -1 \/ cmp(keys, b, c) = -1
<1>0. Len(keys) \in Nat
  BY DEF Keyed
<1>1. \A i \in 1 .. Len(keys) : \A r, s, t \in S :
        /\ Apart(keys, i, r, s) <=> Ahead(keys, i, r, s) \/ Ahead(keys, i, s, r)
        /\ ~ (Ahead(keys, i, r, s) /\ Ahead(keys, i, s, r))
        /\ Ahead(keys, i, r, t) => Ahead(keys, i, r, s) \/ Ahead(keys, i, s, t)
  BY AheadOrder
<1>2. PICK i \in 1 .. Len(keys) : Parting(keys, i, a, c) /\ Ahead(keys, i, a, c)
  BY <1>0, cmpIs
<1> DEFINE D == {j \in 1 .. Len(keys) : Apart(keys, j, a, b) \/ Apart(keys, j, b, c)}
<1>3. i \in D
  BY <1>1, <1>2
<1>4. D \subseteq Nat
  BY <1>0
<1>5. PICK m \in D : \A x \in D : m <= x
  <2> HIDE DEF D
  <2> QED BY <1>3, <1>4, Least
<1>6. /\ m \in 1 .. Len(keys) /\ m <= i
      /\ Apart(keys, m, a, b) \/ Apart(keys, m, b, c)
  BY <1>3, <1>5
<1>7. /\ Apart(keys, m, a, b) => Parting(keys, m, a, b)
      /\ Apart(keys, m, b, c) => Parting(keys, m, b, c)
  BY <1>5, <1>6 DEF Parting
<1> HIDE DEF D
<1>8. Ahead(keys, m, a, b) \/ Ahead(keys, m, b, c)
  <2>1. CASE m = i
    BY <1>1, <1>2, <2>1
  <2>2. CASE m # i
    <3>1. ~ Apart(keys, m, a, c)
      <4>1. ~ (i <= m)
        BY <1>0, <1>6, <2>2
      <4> QED BY <1>2, <1>6, <4>1 DEF Parting
    <3>2. ~ Ahead(keys, m, c, a) /\ ~ Ahead(keys, m, a, c)
      BY <1>1, <1>6, <3>1
    <3> QED BY <1>1, <1>6, <3>2
  <2> QED BY <2>1, <2>2
<1>9. /\ Ahead(keys, m, a, b) => Apart(keys, m, a, b)
      /\ Ahead(keys, m, b, c) => Apart(keys, m, b, c)
  BY DEF Ahead
<1>10. CASE Ahead(keys, m, a, b)
  BY <1>0, <1>7, <1>9, <1>10, cmpAhead
<1>11. CASE Ahead(keys, m, b, c)
  BY <1>0, <1>7, <1>9, <1>11, cmpAhead
<1> QED BY <1>8, <1>10, <1>11

\* So being equal to cmp is an equivalence, and so is the order of its classes.
LEMMA cmpEqual ==
  ASSUME NEW keys, NEW S, Keyed(keys, S), NEW a \in S, NEW b \in S, NEW c \in S,
         cmp(keys, a, b) = 0
  PROVE  cmp(keys, b, a) = 0 /\ cmp(keys, a, c) = cmp(keys, b, c)
<1>1. \A r, s \in S : /\ cmp(keys, r, s) \in {-1, 0, 1}
                      /\ cmp(keys, r, s) = -1 <=> cmp(keys, s, r) = 1
  BY cmpTwo
<1>2. \A r, s, t \in S : cmp(keys, r, t) = -1 => cmp(keys, r, s) = -1 \/ cmp(keys, s, t) = -1
  BY cmpBetween
<1>3. cmp(keys, b, a) = 0
  BY <1>1
<1>4. cmp(keys, a, c) = -1 <=> cmp(keys, b, c) = -1
  BY <1>1, <1>2, <1>3
<1>5. cmp(keys, c, a) = -1 <=> cmp(keys, c, b) = -1
  BY <1>1, <1>2, <1>3
<1>6. cmp(keys, a, c) = 1 <=> cmp(keys, b, c) = 1
  BY <1>1, <1>5
<1>7. cmp(keys, a, c) \in {-1, 0, 1} /\ cmp(keys, b, c) \in {-1, 0, 1}
  BY <1>1
<1> QED BY <1>3, <1>4, <1>6, <1>7

-----------------------------------------------------------------------------
\* What qsort does: the records in another order, f, in which none comes after
\* one it is before.
Permutes(f, n) == /\ f \in [1 .. n -> 1 .. n]
                  /\ \A i, j \in 1 .. n : f[i] = f[j] => i = j
                  /\ \A k \in 1 .. n : \E i \in 1 .. n : f[i] = k

LEMMA PermutesAll ==
  ASSUME NEW n \in Nat, NEW f \in SetToSeqs(1 .. n)
  PROVE  Permutes(f, n)
<1>1. IsFiniteSet(1 .. n) /\ Cardinality(1 .. n) = n
  BY FS_Interval
<1>2. /\ f \in [1 .. n -> 1 .. n]
      /\ \A i, j \in 1 .. n : i # j => f[i] # f[j]
  BY <1>1 DEF SetToSeqs
<1>3. f \in Injection(1 .. n, 1 .. n)
  BY <1>2 DEF Injection, IsInjective
<1>4. f \in Surjection(1 .. n, 1 .. n)
  BY <1>1, <1>3, FS_Injection
<1> QED BY <1>2, <1>4 DEF Permutes, Surjection

LEMMA SortedIs ==
  ASSUME NEW keys, NEW S, Keyed(keys, S), NEW rs, NEW n \in Nat, Len(rs) = n,
         \A i \in 1 .. n : rs[i] \in S, NEW t \in Sorted(keys, rs)
  PROVE  \E f : /\ Permutes(f, n) /\ t = [i \in 1 .. n |-> rs[f[i]]]
                /\ \A i, j \in 1 .. n : i <= j => cmp(keys, t[i], t[j]) # 1
<1>1. PICK f \in SetToSeqs(1 .. n) : t = [i \in 1 .. n |-> rs[f[i]]]
  BY DEF Sorted
<1>2. Permutes(f, n)
  BY <1>1, PermutesAll
<1>3. Len(t) = n /\ \A i \in 1 .. n : t[i] \in S
  BY <1>1, <1>2 DEF Permutes
<1>4. \A i \in 1 .. n - 1 : cmp(keys, t[i], t[i + 1]) <= 0
  BY <1>3 DEF Sorted
<1>5. \A r, s \in S : /\ cmp(keys, r, s) \in {-1, 0, 1}
                      /\ cmp(keys, r, r) = 0
                      /\ cmp(keys, r, s) = -1 <=> cmp(keys, s, r) = 1
  BY cmpTwo
<1>6. \A r, s, u \in S : cmp(keys, r, u) = -1 => cmp(keys, r, s) = -1 \/ cmp(keys, s, u) = -1
  BY cmpBetween
<1>7. ASSUME NEW i \in 1 .. n
      PROVE  \A j \in 1 .. n : i <= j => cmp(keys, t[i], t[j]) # 1
  <2> DEFINE T == {j \in 1 .. n : i <= j /\ cmp(keys, t[i], t[j]) = 1}
  <2>1. SUFFICES ASSUME T # {} PROVE FALSE
    OBVIOUS
  <2>2. T \subseteq Nat
    OBVIOUS
  <2>3. PICK m \in T : \A x \in T : m <= x
    <3> HIDE DEF T
    <3> QED BY <2>1, <2>2, Least
  <2>4. m \in 1 .. n /\ i <= m /\ cmp(keys, t[i], t[m]) = 1
    OBVIOUS
  <2>5. m # i
    BY <1>3, <1>5, <2>4
  <2>6. m - 1 \in 1 .. n - 1 /\ m - 1 \in 1 .. n /\ i <= m - 1 /\ (m - 1) + 1 = m
    BY <2>4, <2>5
  <2>7. m - 1 \notin T
    <3>1. ~ (m <= m - 1)
      BY <2>6
    <3> HIDE DEF T
    <3> QED BY <2>3, <3>1
  <2>8. cmp(keys, t[i], t[m - 1]) # 1
    BY <2>6, <2>7
  <2>9. cmp(keys, t[m - 1], t[m]) # 1
    <3>1. cmp(keys, t[m - 1], t[m]) <= 0
      BY <1>4, <2>6
    <3> QED BY <3>1
  <2>10. t[i] \in S /\ t[m] \in S /\ t[m - 1] \in S
    BY <1>3, <2>4, <2>6
  <2>11. cmp(keys, t[m], t[i]) = -1
    BY <1>5, <2>4, <2>10
  <2>12. cmp(keys, t[m], t[m - 1]) = -1 \/ cmp(keys, t[m - 1], t[i]) = -1
    BY <1>6, <2>10, <2>11
  <2> QED BY <1>5, <2>8, <2>9, <2>10, <2>12
<1> QED BY <1>1, <1>2, <1>7

-----------------------------------------------------------------------------
\* cmp looks at nothing but the keys.
LEMMA cmpLocal ==
  ASSUME NEW keys, Len(keys) \in Nat, NEW a, NEW b, NEW x, NEW y,
         \A i \in 1 .. Len(keys) : /\ a.item[keys[i].at] = x.item[keys[i].at]
                                   /\ b.item[keys[i].at] = y.item[keys[i].at]
  PROVE  cmp(keys, a, b) = cmp(keys, x, y)
<1>1. \A i \in 1 .. Len(keys) : /\ Apart(keys, i, a, b) <=> Apart(keys, i, x, y)
                                /\ Ahead(keys, i, a, b) <=> Ahead(keys, i, x, y)
  BY DEF Apart, Ahead
<1>2. CASE \A i \in 1 .. Len(keys) : ~ Apart(keys, i, a, b)
  BY <1>1, <1>2, cmpIs DEF Parting
<1>3. ASSUME NEW i \in 1 .. Len(keys), Parting(keys, i, a, b)
      PROVE  cmp(keys, a, b) = cmp(keys, x, y)
  <2>1. Parting(keys, i, x, y)
    BY <1>1, <1>3 DEF Parting
  <2> QED BY <1>1, <1>3, <2>1, cmpAhead
<1> QED BY <1>2, <1>3, cmpIs

\* p of the n records have a rank for which r will do
Ranks(keys, rs, n, r, p) ==
  /\ Cardinality({k \in 1 .. n : cmp(keys, rs[k], r) = -1}) < p
  /\ p <= Cardinality({k \in 1 .. n : cmp(keys, rs[k], r) <= 0})

\* In the sorted sequence there are p - 1 records in front of the p-th, which
\* is as good as any other that is equal to it.
LEMMA SortedRank ==
  ASSUME NEW keys, NEW S, Keyed(keys, S), NEW rs, NEW n \in Nat,
         \A i \in 1 .. n : rs[i] \in S,
         NEW f, Permutes(f, n), NEW t, t = [i \in 1 .. n |-> rs[f[i]]],
         \A i, j \in 1 .. n : i <= j => cmp(keys, t[i], t[j]) # 1,
         NEW p \in 1 .. n
  PROVE  Ranks(keys, rs, n, t[p], p)
<1> DEFINE B == {k \in 1 .. n : cmp(keys, rs[k], t[p]) = -1}
           H == {k \in 1 .. n : cmp(keys, rs[k], t[p]) <= 0}
           F == {f[i] : i \in 1 .. p - 1}
           G == {f[i] : i \in 1 .. p}
<1>1. \A i \in 1 .. n : t[i] = rs[f[i]] /\ f[i] \in 1 .. n /\ t[i] \in S
  BY DEF Permutes
<1>2. \A r, s \in S : /\ cmp(keys, r, s) \in {-1, 0, 1}
                      /\ cmp(keys, r, s) = -1 <=> cmp(keys, s, r) = 1
  BY cmpTwo
<1>3. IsFiniteSet(1 .. n) /\ IsFiniteSet(1 .. p - 1) /\ Cardinality(1 .. p - 1) = p - 1
      /\ IsFiniteSet(1 .. p) /\ Cardinality(1 .. p) = p
  BY FS_Interval
<1>4. B \subseteq F
  <2> SUFFICES ASSUME NEW k \in 1 .. n, cmp(keys, rs[k], t[p]) = -1
               PROVE  k \in F
    OBVIOUS
  <2>1. PICK i \in 1 .. n : f[i] = k
    BY DEF Permutes
  <2>2. cmp(keys, t[i], t[p]) = -1
    BY <1>1, <2>1
  <2>3. cmp(keys, t[p], t[i]) = 1
    BY <1>1, <1>2, <2>2
  <2>4. ~ (p <= i)
    BY <2>3
  <2>5. i \in 1 .. p - 1
    BY <2>4
  <2> QED BY <2>1, <2>5
<1>5. G \subseteq H
  <2> SUFFICES ASSUME NEW i \in 1 .. p PROVE f[i] \in H
    OBVIOUS
  <2>1. i \in 1 .. n /\ i <= p
    OBVIOUS
  <2>2. cmp(keys, t[i], t[p]) # 1 /\ cmp(keys, t[i], t[p]) \in {-1, 0, 1}
    BY <1>1, <1>2, <2>1
  <2>3. cmp(keys, rs[f[i]], t[p]) <= 0
    BY <1>1, <2>1, <2>2
  <2> QED BY <1>1, <2>1, <2>3
<1>6. IsFiniteSet(F) /\ Cardinality(F) <= p - 1
  <2> DEFINE g == [i \in 1 .. p - 1 |-> f[i]]
  <2>1. g \in Surjection(1 .. p - 1, F)
    BY DEF Surjection
  <2> HIDE DEF g, F
  <2> QED BY <1>3, <2>1, FS_Surjection
<1>7. IsFiniteSet(G) /\ Cardinality(G) = p
  <2> DEFINE g == [i \in 1 .. p |-> f[i]]
  <2>1. g \in Surjection(1 .. p, G)
    BY DEF Surjection
  <2>2. \A i, j \in 1 .. p : f[i] = f[j] => i = j
    BY DEF Permutes
  <2>3. g \in Injection(1 .. p, G)
    BY <2>2 DEF Injection, IsInjective
  <2> HIDE DEF g, G
  <2> QED BY <1>3, <2>1, <2>3, FS_Surjection
<1>8. IsFiniteSet(H)
  BY <1>3, FS_Subset
<1> HIDE DEF B, H, F, G
<1>9. IsFiniteSet(B) /\ Cardinality(B) <= Cardinality(F) /\ Cardinality(G) <= Cardinality(H)
  BY <1>4, <1>5, <1>6, <1>8, FS_Subset
<1>10. /\ Cardinality(B) \in Nat /\ Cardinality(F) \in Nat
       /\ Cardinality(G) \in Nat /\ Cardinality(H) \in Nat
  BY <1>6, <1>7, <1>8, <1>9, FS_CardinalityType
<1>11. Cardinality(B) < p /\ p <= Cardinality(H)
  BY <1>6, <1>7, <1>9, <1>10
<1> QED BY <1>11 DEF B, H, Ranks

-----------------------------------------------------------------------------
First1 == [at |-> 1, sc |-> FALSE]

LEMMA OwnKeysLen ==
  ASSUME NEW s \in Queries
  PROVE  /\ Len(s.order) \in Nat /\ Len(OwnKeys(s)) = Len(s.order)
         /\ Of(OwnKeys(s), Len(s.order))
         /\ Of(<<First1>> \o OwnKeys(s), Len(s.order) + 1)
         /\ Len(<<First1>> \o OwnKeys(s)) = Len(s.order) + 1
         /\ (<<First1>> \o OwnKeys(s))[1] = First1
         /\ \A j \in 1 .. Len(s.order) :
              (<<First1>> \o OwnKeys(s))[j + 1] = OwnKeys(s)[j]
<1>1. PICK m \in Nat : Len(s.order) = m
  BY QueriesAssumption
<1>2. Of(OwnKeys(s), m)
  BY <1>1 DEF Of, OwnKeys
<1> DEFINE k == OwnKeys(s)
           R == {k[i] : i \in 1 .. m} \cup {First1}
<1>3. Len(k) = m /\ k \in Seq({k[i] : i \in 1 .. m})
  BY <1>2, OfLen
<1> HIDE DEF k
<1>4. k \in Seq(R) /\ <<First1>> \in Seq(R)
  <2>1. \A i \in 1 .. Len(k) : k[i] \in R
    BY <1>3
  <2>2. First1 \in R
    OBVIOUS
  <2> HIDE DEF R
  <2> QED BY <1>3, <2>1, <2>2
<1> HIDE DEF R
<1>5. Len(<<First1>>) = 1 /\ <<First1>>[1] = First1
  OBVIOUS
<1>6. /\ <<First1>> \o k \in Seq(R)
      /\ Len(<<First1>> \o k) = m + 1
      /\ \A i \in 1 .. m + 1 : (<<First1>> \o k)[i] = IF i <= 1 THEN First1 ELSE k[i - 1]
  BY <1>1, <1>3, <1>4, <1>5
<1>7. Of(<<First1>> \o k, m + 1)
  <2>1. <<First1>> \o k \in [1 .. m + 1 -> R]
    BY <1>1, <1>6, LenProperties
  <2> QED BY <1>1, <2>1 DEF Of
<1>8. (<<First1>> \o k)[1] = First1
  BY <1>1, <1>6
<1>9. \A j \in 1 .. m : (<<First1>> \o k)[j + 1] = k[j]
  <2> SUFFICES ASSUME NEW j \in 1 .. m PROVE (<<First1>> \o k)[j + 1] = k[j]
    OBVIOUS
  <2>1. j + 1 \in 1 .. m + 1 /\ ~ (j + 1 <= 1) /\ (j + 1) - 1 = j
    BY <1>1
  <2> QED BY <1>6, <2>1
<1> QED BY <1>1, <1>2, <1>3, <1>6, <1>7, <1>8, <1>9 DEF k

LEMMA KeyAlone ==
  ASSUME NEW keys, NEW more, NEW i, NEW j, keys[i] = more[j], NEW a, NEW b
  PROVE  /\ Apart(keys, i, a, b) <=> Apart(more, j, a, b)
         /\ Ahead(keys, i, a, b) <=> Ahead(more, j, a, b)
BY DEF Apart, Ahead

\* The columns of earlier statements, which are the first one now, count once.
LEMMA KeysAgree ==
  ASSUME NEW s \in Queries, ocol_cnt \in Nat, Len(s.order) <= ocol_cnt, NEW a, NEW b
  PROVE  cmp(okeys(s), a, b) = cmp(LastingKeys(s), a, b)
<1>1. PICK m \in Nat : Len(s.order) = m
  BY QueriesAssumption
<1>2. PICK c \in Nat : ocol_cnt = c /\ m <= c
  BY <1>1
<1> DEFINE own(i) == i - (c - m)
           k(i) == [at |-> get_column_index(s, s.order[i].name), sc |-> s.order[i].sc]
<1>3. okeys(s) = [i \in 1 .. c |-> IF own(i) <= 0 THEN First1 ELSE k(own(i))]
  BY <1>1, <1>2, Zenon DEF okeys, First1
<1>4. OwnKeys(s) = [i \in 1 .. m |-> k(i)]
  BY <1>1, Zenon DEF OwnKeys
<1> HIDE DEF k
<1>5. Len(okeys(s)) = c
  BY <1>3
<1>6. CASE c = m
  <2>1. \A i \in 1 .. c : ~ (own(i) <= 0) /\ own(i) = i
    BY <1>6
  <2> HIDE DEF own
  <2>2. okeys(s) = OwnKeys(s)
    BY <1>3, <1>4, <1>6, <2>1
  <2> QED BY <1>1, <1>2, <1>6, <2>2 DEF LastingKeys
<1>7. CASE c # m
  <2> DEFINE l == <<First1>> \o OwnKeys(s)
  <2>1. LastingKeys(s) = l
    BY <1>1, <1>2, <1>7 DEF LastingKeys, First1
  <2>2. /\ Len(l) = m + 1 /\ l[1] = First1
        /\ \A j \in 1 .. m : l[j + 1] = OwnKeys(s)[j]
    BY <1>1, OwnKeysLen
  <2> HIDE DEF l
  <2>3. \A i \in 1 .. c : i <= c - m => okeys(s)[i] = First1
    BY <1>3
  <2>4. \A j \in 1 .. m : okeys(s)[j + (c - m)] = OwnKeys(s)[j]
    <3> SUFFICES ASSUME NEW j \in 1 .. m PROVE okeys(s)[j + (c - m)] = OwnKeys(s)[j]
      OBVIOUS
    <3>1. own(j + (c - m)) = j /\ ~ (own(j + (c - m)) <= 0) /\ j + (c - m) \in 1 .. c
      BY <1>2
    <3> HIDE DEF own
    <3> QED BY <1>3, <1>4, <3>1
  <2>5. \A i \in 1 .. c : i <= c - m => (Apart(okeys(s), i, a, b) <=> Apart(l, 1, a, b))
    BY <2>2, <2>3, KeyAlone
  <2>6. \A j \in 1 .. m :
          /\ Apart(okeys(s), j + (c - m), a, b) <=> Apart(l, j + 1, a, b)
          /\ Ahead(okeys(s), j + (c - m), a, b) <=> Ahead(l, j + 1, a, b)
    BY <2>2, <2>4, KeyAlone
  <2>7. 1 \in 1 .. c /\ 1 <= c - m /\ 1 \in 1 .. m + 1
    BY <1>2, <1>7
  <2>8. CASE Apart(l, 1, a, b)
    <3>1. Parting(okeys(s), 1, a, b) /\ Parting(l, 1, a, b)
      BY <1>5, <2>2, <2>5, <2>7, <2>8 DEF Parting
    <3>2. Ahead(okeys(s), 1, a, b) <=> Ahead(l, 1, a, b)
      BY <2>2, <2>3, <2>7, KeyAlone
    <3> QED BY <1>5, <2>1, <2>2, <3>1, <3>2, cmpAhead
  <2>9. ASSUME ~ Apart(l, 1, a, b), NEW x \in 1 .. m + 1, Parting(l, x, a, b)
        PROVE  cmp(okeys(s), a, b) = cmp(l, a, b)
    <3>1. PICK j \in 1 .. m : x = j + 1
      <4>1. x # 1
        BY <2>9 DEF Parting
      <4>2. x - 1 \in 1 .. m /\ x = (x - 1) + 1
        BY <4>1
      <4> QED BY <4>2
    <3>2. j + (c - m) \in 1 .. c
      BY <1>2
    <3>3. ASSUME NEW i \in 1 .. c, Apart(okeys(s), i, a, b) PROVE j + (c - m) <= i
      <4>1. ~ (i <= c - m)
        BY <2>5, <2>9, <3>3
      <4>2. i - (c - m) \in 1 .. m /\ i = (i - (c - m)) + (c - m)
        BY <1>2, <4>1
      <4>3. Apart(l, (i - (c - m)) + 1, a, b)
        BY <2>6, <3>3, <4>2
      <4>4. (i - (c - m)) + 1 \in 1 .. m + 1
        BY <4>2
      <4>5. j + 1 <= (i - (c - m)) + 1
        BY <2>2, <2>9, <3>1, <4>3, <4>4 DEF Parting
      <4> QED BY <4>5
    <3>4. Parting(okeys(s), j + (c - m), a, b)
      BY <1>5, <2>6, <2>9, <3>1, <3>2, <3>3 DEF Parting
    <3>5. Ahead(okeys(s), j + (c - m), a, b) <=> Ahead(l, x, a, b)
      BY <2>6, <3>1
    <3> QED BY <1>5, <2>2, <2>9, <3>4, <3>5, cmpAhead
  <2>10. CASE \A x \in 1 .. m + 1 : ~ Apart(l, x, a, b)
    <3>1. \A i \in 1 .. c : ~ Apart(okeys(s), i, a, b)
      <4> SUFFICES ASSUME NEW i \in 1 .. c PROVE ~ Apart(okeys(s), i, a, b)
        OBVIOUS
      <4>1. CASE i <= c - m
        BY <2>5, <2>7, <2>10, <4>1
      <4>2. CASE ~ (i <= c - m)
        <5>1. i - (c - m) \in 1 .. m /\ i = (i - (c - m)) + (c - m)
          BY <1>2, <4>2
        <5>2. (i - (c - m)) + 1 \in 1 .. m + 1
          BY <5>1
        <5> QED BY <2>6, <2>10, <5>1, <5>2
      <4> QED BY <4>1, <4>2
    <3>2. cmp(okeys(s), a, b) = 0
      BY <1>5, <3>1, cmpIs DEF Parting
    <3>3. cmp(l, a, b) = 0
      <4>1. Len(l) \in Nat
        BY <2>2
      <4> QED BY <2>2, <2>10, <4>1, cmpIs DEF Parting
    <3> QED BY <2>1, <3>2, <3>3
  <2>11. (\A x \in 1 .. m + 1 : ~ Apart(l, x, a, b))
           \/ \E x \in 1 .. m + 1 : Parting(l, x, a, b)
    <3>1. Len(l) \in Nat
      BY <2>2
    <3> QED BY <2>2, <3>1, cmpIs
  <2> QED BY <2>1, <2>8, <2>9, <2>10, <2>11
<1> QED BY <1>6, <1>7

-----------------------------------------------------------------------------
\* A column that is known is one of the answer's.
LEMMA KnownColumn ==
  ASSUME NEW s \in Queries, NEW name, get_column_index(s, name) # Unknown
  PROVE  get_column_index(s, name) \in 1 .. col_cnt(s)
<1> DEFINE P == {i \in 1 .. col_cnt(s) : col_name(s)[i] = name}
<1>1. P # {} /\ get_column_index(s, name) = Min(P)
  BY DEF get_column_index
<1>2. P \subseteq Nat /\ P \subseteq 1 .. col_cnt(s)
  BY ColumnsAssumption
<1> HIDE DEF P
<1>3. PICK m \in P : \A x \in P : m <= x
  BY <1>1, <1>2, Least
<1>4. Min(P) \in P
  BY <1>3 DEF Min
<1> QED BY <1>1, <1>2, <1>4

\* The keys an answer is sorted by: columns of the answer, with directions.
LEMMA KeysKnown ==
  ASSUME NEW s \in Queries, s.order # <<>>, ocol_cnt \in Nat,
         \A i \in 1 .. Len(s.order) : OwnKeys(s)[i].at # Unknown
  PROVE  /\ Len(LastingKeys(s)) \in Nat
         /\ \A i \in 1 .. Len(LastingKeys(s)) : /\ LastingKeys(s)[i].sc \in BOOLEAN
                                                /\ LastingKeys(s)[i].at \in 1 .. col_cnt(s)
<1> DEFINE k == OwnKeys(s)
           l == <<First1>> \o OwnKeys(s)
<1>1. PICK m \in Nat : Len(s.order) = m
  BY QueriesAssumption
<1>2. /\ Len(k) = m /\ Len(l) = m + 1 /\ l[1] = First1
      /\ \A j \in 1 .. m : l[j + 1] = k[j]
  BY <1>1, OwnKeysLen
<1>3. \A j \in 1 .. m : /\ k[j].at = get_column_index(s, s.order[j].name)
                        /\ k[j].sc = s.order[j].sc
  BY <1>1 DEF OwnKeys
<1>4. \A j \in 1 .. m : k[j].sc \in BOOLEAN
  BY <1>1, <1>3, QueriesAssumption
<1>5. \A j \in 1 .. m : k[j].at \in 1 .. col_cnt(s)
  BY <1>1, <1>3, KnownColumn
<1>6. CASE ocol_cnt = m
  BY <1>1, <1>2, <1>4, <1>5, <1>6 DEF LastingKeys
<1>7. CASE ocol_cnt # m
  <2>1. LastingKeys(s) = l
    BY <1>1, <1>7 DEF LastingKeys, First1
  <2>2. m # 0 => 1 \in 1 .. col_cnt(s)
    <3>1. m # 0 => 1 \in 1 .. m
      OBVIOUS
    <3>2. m # 0 => k[1].at \in 1 .. col_cnt(s)
      BY <1>5, <3>1
    <3> QED BY <3>2, ColumnsAssumption
  <2>3. m # 0
    BY <1>1, QueriesAssumption
  <2> HIDE DEF k, l
  <2>4. First1.sc \in BOOLEAN /\ First1.at = 1
    BY DEF First1
  <2>5. ASSUME NEW i \in 1 .. m + 1
        PROVE  l[i].sc \in BOOLEAN /\ l[i].at \in 1 .. col_cnt(s)
    <3>1. CASE i = 1
      BY <1>2, <2>2, <2>3, <2>4, <3>1
    <3>2. CASE i # 1
      <4>1. i - 1 \in 1 .. m /\ (i - 1) + 1 = i
        BY <3>2
      <4> QED BY <1>2, <1>4, <1>5, <4>1
    <3> QED BY <3>1, <3>2
  <2> QED BY <1>2, <2>1, <2>5
<1> QED BY <1>6, <1>7

\* The answer of a query with ORDER BY.
LEMMA CollectOrders ==
  ASSUME q \in Queries, ocol_cnt \in Nat, Len(q.order) <= ocol_cnt, Len(recs) \in Nat,
         limit = OwnLimit(q), Collect, pc' = "idle"
  PROVE  OrderedAs'
<1> DEFINE keys == LastingKeys(q)
           n == Len(Result)
           S == {Result[i] : i \in 1 .. n}
           items == [i \in 1 .. n |-> Result[i].item]
<1>0. /\ q' = q /\ recs' = recs /\ ocol_cnt' = ocol_cnt
  BY DEF Collect
<1>1. Result' = Result /\ LastingKeys(q)' = keys /\ OwnLimit(q)' = OwnLimit(q)
  <2>1. Walk' = Walk
    BY <1>0 DEF Walk, next
  <2> QED BY <1>0, <2>1 DEF Result, LastingKeys, OwnLimit
<1> DEFINE lim == OwnLimit(q)
           start == Min({lim.start, n})
<1>2. SUFFICES ASSUME q.order # <<>>, \A i \in 1 .. Len(q.order) : OwnKeys(q)[i].at # Unknown,
                      Comparable(keys, items)
               PROVE  /\ Len(reply'.rows) = Min({lim.count, n - start})
                      /\ \A k \in 1 .. Len(reply'.rows) : Ranks(keys, Result, n, [item |-> reply'.rows[k]], start + k)
  <2>1. AnsweredSorted' => /\ q.order # <<>>
                           /\ \A i \in 1 .. Len(q.order) : OwnKeys(q)[i].at # Unknown
    BY <1>0 DEF AnsweredSorted, OwnKeys
  <2>2. Comparable(LastingKeys(q), [i \in 1 .. Len(Result) |-> Result[i].item])'
          => Comparable(keys, items)
    <3>1. [i \in 1 .. Len(Result) |-> Result[i].item]' = items
      BY <1>1
    <3>2. Comparable(LastingKeys(q), [i \in 1 .. Len(Result) |-> Result[i].item])'
            = Comparable(keys, items)
      <4> HIDE DEF keys, items
      <4> QED BY <1>1, <3>1, Zenon
    <3> QED BY <3>2
  <2>3. ASSUME /\ Len(reply'.rows) = Min({lim.count, n - start})
               /\ \A k \in 1 .. Len(reply'.rows) : Ranks(keys, Result, n, [item |-> reply'.rows[k]], start + k)
        PROVE  (\A l \in {LastingKeys(q)} : Ranked(l, OwnLimit(q)))'
    BY <1>1, <2>3 DEF Ranked, Ranks
  <2> HIDE DEF items, keys, start, lim
  <2> QED BY <2>1, <2>2, <2>3 DEF OrderedAs
<1>3. n \in Nat
  BY ResultLen
<1>4. /\ Len(keys) \in Nat
      /\ \A i \in 1 .. Len(keys) : keys[i].sc \in BOOLEAN /\ keys[i].at \in 1 .. col_cnt(q)
  BY <1>2, KeysKnown
<1>5. PICK rows \in Sorted(okeys(q), Result) :
        reply' = [status |-> "success", rows |-> Shown(rows)]
  BY <1>2 DEF Collect
<1> HIDE DEF n, keys
<1>6. Keyed(keys, S)
  <2> SUFFICES ASSUME NEW i \in 1 .. Len(keys) PROVE Alike({r.item[keys[i].at] : r \in S})
    BY <1>4 DEF Keyed
  <2>1. Len(items) = n
    BY <1>3
  <2>2. {items[k][keys[i].at] : k \in 1 .. n} = {r.item[keys[i].at] : r \in S}
    OBVIOUS
  <2> HIDE DEF items, S
  <2>3. Alike({items[k][keys[i].at] : k \in 1 .. n})
    BY <1>2, <2>1 DEF Comparable
  <2> QED BY <2>2, <2>3
<1>7. rows \in Sorted(keys, Result)
  <2>1. \A a, b : cmp(okeys(q), a, b) = cmp(keys, a, b)
    BY KeysAgree DEF keys
  <2> QED BY <1>5, <2>1 DEF Sorted
<1>8. \A i \in 1 .. n : Result[i] \in S
  OBVIOUS
<1> HIDE DEF S
<1>9. PICK f : /\ Permutes(f, n) /\ rows = [i \in 1 .. n |-> Result[f[i]]]
               /\ \A i, j \in 1 .. n : i <= j => cmp(keys, rows[i], rows[j]) # 1
  BY <1>3, <1>6, <1>7, <1>8, SortedIs DEF n
<1>10. Len(rows) = n
  BY <1>3, <1>9
<1> DEFINE w == Window(rows, lim)
<1>11. lim.start \in Nat /\ lim.count \in Nat
  BY QueriesAssumption DEF OwnLimit
<1> HIDE DEF lim
<1>12. /\ Len(w) \in Nat
       /\ Len(w) = Min({lim.count, n - start})
       /\ \A k \in 1 .. Len(w) : /\ lim.start + k \in 1 .. n
                                 /\ start = lim.start
                                 /\ w[k] = rows[lim.start + k]
  <2>1. Leaves(lim, rows, n, w)
    BY <1>3, <1>10, <1>11, WindowIs
  <2> HIDE DEF w
  <2> QED BY <2>1 DEF Leaves
<1> HIDE DEF w, start
<1>13. /\ Len(reply'.rows) = Len(w)
       /\ \A k \in 1 .. Len(w) : reply'.rows[k] = SubSeq(w[k].item, 1, col_cnt(q))
  <2> DEFINE g(i) == SubSeq(w[i].item, 1, col_cnt(q))
  <2>1. reply'.rows = [i \in 1 .. Len(w) |-> g(i)]
    BY <1>5 DEF w, lim, Shown
  <2> HIDE DEF g
  <2>2. PICK c \in Nat : Len(w) = c
    BY <1>12
  <2>3. Len(reply'.rows) = Len(w) /\ \A k \in 1 .. Len(w) : reply'.rows[k] = g(k)
    BY <2>1, <2>2
  <2> QED BY <2>3 DEF g
<1>14. ASSUME NEW k \in 1 .. Len(w)
       PROVE  Ranks(keys, Result, n, [item |-> reply'.rows[k]], start + k)
  <2> DEFINE p == lim.start + k
             r == [item |-> reply'.rows[k]]
  <2>1. p \in 1 .. n /\ start + k = p /\ w[k] = rows[p]
    BY <1>12
  <2> HIDE DEF p
  <2>2. \A j \in 1 .. col_cnt(q) : r.item[j] = rows[p].item[j]
    <3>1. r.item = SubSeq(rows[p].item, 1, col_cnt(q))
      BY <1>13, <2>1
    <3> DEFINE c == col_cnt(q)
               R == {rows[p].item[j] : j \in 1 .. c}
    <3>2. c \in Nat
      BY ColumnsAssumption
    <3>3. \A j \in 1 .. c : rows[p].item[j] \in R
      OBVIOUS
    <3> HIDE DEF c, R
    <3>4. \A j \in 1 .. c - 1 + 1 : SubSeq(rows[p].item, 1, c)[j] = rows[p].item[1 + j - 1]
      BY <3>2, <3>3, SubSeqProperties
    <3>5. \A j \in 1 .. c : SubSeq(rows[p].item, 1, c)[j] = rows[p].item[j]
      BY <3>2, <3>4
    <3> HIDE DEF r
    <3> QED BY <3>1, <3>5 DEF c
  <2> HIDE DEF r
  <2>3. \A a : cmp(keys, a, r) = cmp(keys, a, rows[p])
    BY <1>4, <2>2, cmpLocal
  <2>4. Ranks(keys, Result, n, rows[p], p)
    <3>1. Permutes(f, n) /\ rows = [i \in 1 .. n |-> Result[f[i]]]
      BY <1>9
    <3>2. \A i, j \in 1 .. n : i <= j => cmp(keys, rows[i], rows[j]) # 1
      BY <1>9
    <3> QED BY <1>3, <1>6, <1>8, <2>1, <3>1, <3>2, SortedRank, Zenon
  <2>5. Ranks(keys, Result, n, r, p)
    <3>1. {i \in 1 .. n : cmp(keys, Result[i], r) = -1}
            = {i \in 1 .. n : cmp(keys, Result[i], rows[p]) = -1}
      BY <2>3
    <3>2. {i \in 1 .. n : cmp(keys, Result[i], r) <= 0}
            = {i \in 1 .. n : cmp(keys, Result[i], rows[p]) <= 0}
      BY <2>3
    <3> QED BY <2>4, <3>1, <3>2 DEF Ranks
  <2> QED BY <2>1, <2>5 DEF r
<1> QED BY <1>12, <1>13, <1>14

-----------------------------------------------------------------------------
\* What leads to a sorted answer: the columns of the statement are among those
\* counted, LIMIT is the statement's once a row was visited, and the records
\* are a sequence all the way.
OInv ==
  /\ SInv
  /\ pc \in {"scan", "scanned", "merge", "collect"} =>
       q \in Queries /\ Len(q.order) <= ocol_cnt
  /\ pc = "scan" => limit \in {q.limit, OwnLimit(q)}
  /\ pc \in {"scanned", "merge", "collect"} => limit = OwnLimit(q)
  /\ pc = "collect" => \E n : Of(recs, n)
  /\ OrderedAs

LEMMA OrderedStays ==
  ASSUME reply'.status # "success" \/ pc' # "idle"
  PROVE  OrderedAs'
BY DEF OrderedAs, AnsweredSorted

LEMMA MergeLastOf ==
  ASSUME Merging, q \in Queries, MergeLast, pc' = "collect"
  PROVE  \E n : Of(recs', n)
<1>1. PICK n \in Nat :
        /\ Of(recs, n)
        /\ n # 0 => end <= n + 1
        /\ ~ q.all => \A k \in beg .. n : RowSafe(q, recs[k].item)
  BY DEF Merging
<1>2. Len(recs) = n
  BY <1>1, OfLen
<1>3. CASE recs # <<>> /\ CloseGroup(beg, Len(recs), "collect")
  <2>1. DOMAIN recs = 1 .. n
    BY <1>1, OfLen
  <2>2. recs' = [recs EXCEPT ![beg] = [item |-> Merged(beg, Len(recs)), next |-> Len(recs) + 1]]
    BY <1>3 DEF CloseGroup
  <2>3. recs' = [k \in 1 .. n |-> recs'[k]]
    BY <2>1, <2>2
  <2> QED BY <1>1, <2>3 DEF Of
<1>4. CASE recs' = recs
  BY <1>1, <1>4
<1> QED BY <1>3, <1>4 DEF MergeLast

LEMMA OrderInit == Init => OInv
<1> SUFFICES ASSUME Init PROVE OInv
  OBVIOUS
<1>1. pc = "idle" /\ reply.status = "none"
  BY DEF Init, SelectInit, NoReply
<1>2. OrderedAs
  BY <1>1 DEF OrderedAs, AnsweredSorted
<1> QED BY <1>1, <1>2, SurvInit DEF OInv

LEMMA OrderStep == OInv /\ [Next]_vars => OInv'
<1> SUFFICES ASSUME OInv, [Next]_vars PROVE OInv'
  OBVIOUS
<1>1. SInv' /\ SInv /\ ocol_cnt \in Nat /\ IInv
  BY SurvStep DEF OInv, SInv
<1>2. CASE Write
  <2>1. pc' = "idle" /\ reply'.status # "success"
    BY <1>2 DEF Write, NoReply
  <2> QED BY <1>1, <2>1, OrderedStays DEF OInv
<1>3. ASSUME NEW s \in Queries, Begin(s)
      PROVE  OInv'
  <2>1. /\ pc' \in {"scan", "crashed"} /\ q' = s /\ limit' = s.limit
        /\ ocol_cnt' = ocol_cnt + Len(s.order)
    BY <1>3 DEF Begin
  <2>2. Len(s.order) <= ocol_cnt + Len(s.order)
    <3>1. Len(s.order) \in Nat
      BY QueriesAssumption
    <3> QED BY <1>1, <3>1
  <2>3. OrderedAs'
    BY <2>1, OrderedStays
  <2> QED BY <1>1, <2>1, <2>2, <2>3 DEF OInv
<1>4. CASE Scan
  <2>1. /\ pc = "scan" /\ pc' \in {"scan", "idle", "scanned", "crashed"}
        /\ ocol_cnt' = ocol_cnt /\ q' = q
        /\ limit' = IF q.sub # <<>> /\ q.sub[1].limit # NoLimit THEN q.sub[1].limit ELSE limit
    BY <1>4 DEF Scan, Pass, get_next_record
  <2>2. limit' = OwnLimit(q)
    BY <2>1 DEF OInv, OwnLimit
  <2>3. OwnLimit(q)' = OwnLimit(q)
    BY <2>1 DEF OwnLimit
  <2>4. OrderedAs'
    <3>1. pc' = "idle" => reply'.status = "error"
      BY <1>4, <2>1 DEF Scan, Pass, get_next_record
    <3> QED BY <3>1, OrderedStays
  <2> QED BY <1>1, <2>1, <2>2, <2>3, <2>4 DEF OInv
<1>5. CASE Sort
  <2>1. /\ pc = "scanned" /\ pc' \in {"merge", "collect"} /\ q' = q /\ ocol_cnt' = ocol_cnt
        /\ limit' = limit
        /\ pc' = "collect" => recs' = recs
    BY <1>5 DEF Sort
  <2>2. \E n : Of(recs, n)
    BY <1>1, <2>1 DEF SInv, Gathered
  <2>3. OwnLimit(q)' = OwnLimit(q)
    BY <2>1 DEF OwnLimit
  <2>4. OrderedAs'
    BY <2>1, OrderedStays
  <2> QED BY <1>1, <2>1, <2>2, <2>3, <2>4 DEF OInv
<1>6. CASE Merge
  <2>1. /\ pc = "merge" /\ q' = q /\ ocol_cnt' = ocol_cnt /\ limit' = limit
        /\ pc' \in {"merge", "crashed"}
    BY <1>6 DEF Merge, CloseGroup
  <2>2. OwnLimit(q)' = OwnLimit(q)
    BY <2>1 DEF OwnLimit
  <2>3. OrderedAs'
    BY <2>1, OrderedStays
  <2> QED BY <1>1, <2>1, <2>2, <2>3 DEF OInv
<1>7. CASE MergeLast
  <2>1. /\ pc = "merge" /\ q' = q /\ ocol_cnt' = ocol_cnt /\ limit' = limit
        /\ pc' \in {"collect", "crashed"}
    BY <1>7 DEF MergeLast, CloseGroup
  <2>2. OwnLimit(q)' = OwnLimit(q)
    BY <2>1 DEF OwnLimit
  <2>3. OrderedAs'
    BY <2>1, OrderedStays
  <2>4. pc' = "collect" => \E n : Of(recs', n)
    BY <1>1, <1>7, <2>1, MergeLastOf DEF SInv
  <2> QED BY <1>1, <2>1, <2>2, <2>3, <2>4 DEF OInv
<1>8. CASE Collect
  <2>1. /\ pc = "collect" /\ pc' \in {"idle", "crashed"}
    BY <1>8 DEF Collect
  <2>2. /\ q \in Queries /\ Len(q.order) <= ocol_cnt /\ limit = OwnLimit(q)
    BY <2>1 DEF OInv
  <2>3. Len(recs) \in Nat
    BY <2>1, OfLen DEF OInv, Of
  <2>4. OrderedAs'
    BY <1>1, <1>8, <2>1, <2>2, <2>3, CollectOrders, OrderedStays
  <2> QED BY <1>1, <2>1, <2>4 DEF OInv
<1>9. CASE Restart
  <2>1. pc' = "idle" /\ reply'.status # "success"
    BY <1>9 DEF Restart, NoReply
  <2> QED BY <1>1, <2>1, OrderedStays DEF OInv
<1>10. CASE UNCHANGED vars
  <2>1. UNCHANGED <<q, pc, recs, limit, ocol_cnt, reply>>
    BY <1>10 DEF vars
  <2>2. OwnLimit(q)' = OwnLimit(q) /\ LastingKeys(q)' = LastingKeys(q) /\ Result' = Result
    BY <2>1 DEF OwnLimit, LastingKeys, Result, Walk, next
  <2>3. AnsweredSorted' <=> AnsweredSorted
    BY <2>1 DEF AnsweredSorted
  <2>4. OrderedAs' <=> OrderedAs
    BY <2>1, <2>2, <2>3 DEF OrderedAs, Ranked
  <2> QED BY <1>1, <2>1, <2>2, <2>4 DEF OInv
<1> QED BY <1>2, <1>3, <1>4, <1>5, <1>6, <1>7, <1>8, <1>9, <1>10 DEF Next, Thread

\* ORDER BY and LIMIT give the rows asked for, by the columns and directions
\* asked for, with the first column before them after a statement that had an
\* ORDER BY, whatever qsort does with equal records, for every database,
\* statement and window, when values of one kind are compared (cmp_o, do_select,
\* jsonify_result).
THEOREM AnswersOrdered == Spec => []OrderedAs
<1>1. Spec => Init /\ [][Next]_vars
  BY DEF Spec
<1>2. OInv => OrderedAs
  BY DEF OInv
<1> QED BY <1>1, <1>2, OrderInit, OrderStep, PTL

-----------------------------------------------------------------------------
\* The sum of the first k of the numbers d.
Prefix(d, h, n) == [k \in 0 .. n |-> IF k = 0 THEN 0 ELSE h[k - 1] + d[k]]

LEMMA PrefixAll ==
  ASSUME NEW d, NEW n \in Nat
  PROVE  \E h : h = Prefix(d, h, n)
<1> DEFINE T == {m \in Nat : ~ \E h : h = Prefix(d, h, m)}
<1>1. SUFFICES ASSUME T # {} PROVE FALSE
  OBVIOUS
<1>2. PICK m \in T : \A x \in T : m <= x
  <2> HIDE DEF T
  <2>1. T \subseteq Nat
    BY DEF T
  <2> QED BY <1>1, <2>1, Least, Zenon
<1>3. m # 0
  <2>1. [k \in {0} |-> 0] = Prefix(d, [k \in {0} |-> 0], 0)
    BY DEF Prefix
  <2> QED BY <1>2, <2>1
<1>4. m \in Nat /\ m - 1 \in Nat /\ m - 1 \notin T
  <2>1. m \in Nat
    OBVIOUS
  <2>2. m - 1 \notin T
    <3> HIDE DEF T
    <3> QED BY <1>2, <1>3, <2>1
  <2> QED BY <1>3, <2>1, <2>2
<1>5. PICK h : h = Prefix(d, h, m - 1)
  BY <1>4
<1> DEFINE g == Prefix(d, h, m)
<1>6. \A k \in 0 .. m - 1 : h[k] = IF k = 0 THEN 0 ELSE h[k - 1] + d[k]
  <2> DEFINE p == m - 1
  <2>1. h = [k \in 0 .. p |-> IF k = 0 THEN 0 ELSE h[k - 1] + d[k]]
    BY <1>5 DEF Prefix
  <2> HIDE DEF p
  <2>2. \A k \in 0 .. p : h[k] = IF k = 0 THEN 0 ELSE h[k - 1] + d[k]
    BY <2>1
  <2> QED BY <2>2 DEF p
<1>7. \A k \in 0 .. m : g[k] = IF k = 0 THEN 0 ELSE h[k - 1] + d[k]
  BY DEF Prefix
<1>8. g = [k \in 0 .. m |-> g[k]]
  BY DEF Prefix
<1> HIDE DEF g
<1>9. \A k \in 0 .. m - 1 : g[k] = h[k]
  <2> SUFFICES ASSUME NEW k \in 0 .. m - 1 PROVE g[k] = h[k]
    OBVIOUS
  <2>1. k \in 0 .. m
    BY <1>4
  <2> QED BY <1>6, <1>7, <2>1
<1>10. \A k \in 0 .. m : g[k] = IF k = 0 THEN 0 ELSE g[k - 1] + d[k]
  <2> SUFFICES ASSUME NEW k \in 0 .. m, k # 0 PROVE g[k] = g[k - 1] + d[k]
    BY <1>7
  <2>1. k - 1 \in 0 .. m - 1
    BY <1>4
  <2> QED BY <1>7, <1>9, <2>1
<1>11. g = Prefix(d, g, m)
  BY <1>8, <1>10 DEF Prefix
<1> QED BY <1>2, <1>11

\* What is summed of row k.
Summand(rows, i, K, k) == IF k \in K THEN rows[k][i].intval ELSE 0

SumBy(rows, i, K, n, h) ==
  /\ SumOf(rows, i, K) = h[n]
  /\ h[0] = 0
  /\ \A k \in 1 .. n : h[k] = h[k - 1] + Summand(rows, i, K, k)

LEMMA SumOfIs ==
  ASSUME NEW rows, NEW i, NEW K, NEW n \in Nat, Len(rows) = n
  PROVE  \E h : SumBy(rows, i, K, n, h)
<1> DEFINE d == [k \in 1 .. n |-> Summand(rows, i, K, k)]
           F(h) == [k \in 0 .. n |->
                      IF k = 0 THEN 0 ELSE h[k - 1] + Summand(rows, i, K, k)]
           v == CHOOSE h : h = F(h)
<1>1. \A h : Prefix(d, h, n) = F(h)
  <2>1. \A k \in 0 .. n : k # 0 => k \in 1 .. n
    OBVIOUS
  <2> QED BY <2>1 DEF Prefix
<1>2. \E h : h = F(h)
  <2> HIDE DEF d, F
  <2>1. PICK h : h = Prefix(d, h, n)
    BY PrefixAll
  <2> QED BY <1>1, <2>1
<1>3. v = F(v)
  <2> HIDE DEF F
  <2> QED BY <1>2
<1>4. SumOf(rows, i, K) = v[n]
  BY Zenon DEF SumOf, Summand
<1> HIDE DEF v
<1>5. v[0] = 0 /\ \A k \in 1 .. n : v[k] = v[k - 1] + Summand(rows, i, K, k)
  BY <1>3
<1> QED BY <1>4, <1>5 DEF SumBy

LEMMA SumOfNone ==
  ASSUME NEW rows, NEW i, Len(rows) \in Nat
  PROVE  SumOf(rows, i, {}) = 0
<1>1. PICK n \in Nat : Len(rows) = n
  OBVIOUS
<1>0. PICK h : SumBy(rows, i, {}, n, h)
  BY <1>1, SumOfIs
<1>2. /\ SumOf(rows, i, {}) = h[n]
      /\ h[0] = 0
      /\ \A k \in 1 .. n : h[k] = h[k - 1] + Summand(rows, i, {}, k)
  BY <1>0 DEF SumBy
<1>3. \A k \in 1 .. n : h[k] = h[k - 1] + 0
  BY <1>2 DEF Summand
<1> DEFINE T == {k \in 0 .. n : h[k] # 0}
<1>4. T = {}
  <2>1. SUFFICES ASSUME T # {} PROVE FALSE
    OBVIOUS
  <2>2. T \subseteq Nat
    OBVIOUS
  <2>3. PICK m \in T : \A x \in T : m <= x
    <3> HIDE DEF T
    <3> QED BY <2>1, <2>2, Least
  <2>4. m \in 1 .. n /\ m - 1 \in 0 .. n /\ ~ (m <= m - 1)
    BY <1>2
  <2>5. h[m - 1] = 0
    BY <2>3, <2>4
  <2> QED BY <1>3, <2>4, <2>5
<1> QED BY <1>2, <1>4

\* One row more.
LEMMA SumOfMore ==
  ASSUME NEW rows, NEW i, NEW n \in Nat, Len(rows) = n, NEW K, NEW x \in 1 .. n, x \notin K,
         \A k \in K \cup {x} : rows[k][i].intval \in Int
  PROVE  /\ SumOf(rows, i, K) \in Int
         /\ SumOf(rows, i, K \cup {x}) = SumOf(rows, i, K) + rows[x][i].intval
<1> DEFINE d(k) == Summand(rows, i, K, k)
           e(k) == Summand(rows, i, K \cup {x}, k)
           c == rows[x][i].intval
<1>0. PICK g, h : SumBy(rows, i, K, n, g) /\ SumBy(rows, i, K \cup {x}, n, h)
  BY SumOfIs
<1>1. /\ SumOf(rows, i, K) = g[n]
      /\ g[0] = 0
      /\ \A k \in 1 .. n : g[k] = g[k - 1] + d(k)
  BY <1>0 DEF SumBy
<1>2. /\ SumOf(rows, i, K \cup {x}) = h[n]
      /\ h[0] = 0
      /\ \A k \in 1 .. n : h[k] = h[k - 1] + e(k)
  BY <1>0 DEF SumBy
<1>3. c \in Int /\ \A k : d(k) \in Int /\ (k # x => e(k) = d(k)) /\ e(x) = c /\ d(x) = 0
  BY DEF Summand
<1> HIDE DEF c, d, e
<1> DEFINE P(k) == /\ g[k] \in Int
                   /\ h[k] = IF x <= k THEN g[k] + c ELSE g[k]
           T == {k \in 0 .. n : ~ P(k)}
<1>4. T = {}
  <2>1. SUFFICES ASSUME T # {} PROVE FALSE
    OBVIOUS
  <2>2. T \subseteq Nat
    OBVIOUS
  <2>3. PICK m \in T : \A y \in T : m <= y
    <3> HIDE DEF T
    <3> QED BY <2>1, <2>2, Least
  <2>4. m # 0
    <3>1. P(0)
      BY <1>1, <1>2
    <3> QED BY <3>1
  <2>5. m \in 1 .. n /\ m - 1 \in 0 .. n /\ ~ (m <= m - 1)
    BY <2>4
  <2>6. P(m - 1)
    <3> HIDE DEF P
    <3> QED BY <2>3, <2>5
  <2>7. d(m) \in Int /\ e(m) = IF m = x THEN c ELSE d(m)
    BY <1>3
  <2>8. g[m] = g[m - 1] + d(m) /\ h[m] = h[m - 1] + e(m)
    BY <1>1, <1>2, <2>5
  <2>9. g[m] \in Int
    BY <2>6, <2>7, <2>8
  <2>10. h[m] = IF x <= m THEN g[m] + c ELSE g[m]
    <3>1. CASE m = x
      <4>1. ~ (x <= m - 1) /\ x <= m /\ d(m) = 0 /\ e(m) = c
        BY <1>3, <3>1
      <4> QED BY <1>3, <2>6, <2>8, <4>1
    <3>2. CASE m # x
      <4>1. (x <= m - 1 <=> x <= m) /\ e(m) = d(m)
        BY <2>5, <2>7, <3>2
      <4> QED BY <1>3, <2>6, <2>7, <2>8, <4>1
    <3> QED BY <3>1, <3>2
  <2> QED BY <2>9, <2>10
<1>5. P(n)
  BY <1>4
<1>6. x <= n
  OBVIOUS
<1> QED BY <1>1, <1>2, <1>5, <1>6 DEF c

-----------------------------------------------------------------------------
\* COUNT, of more than one record.
LEMMA TotalCount ==
  ASSUME NEW k, NEW b \in Nat, NEW e \in Nat, b < e
  PROVE  Total(b, e, k, "COUNT") = IntNum(e - b + 1)
<1>1. PICK v : TotalBy(b, e, k, "COUNT", v)
  <2>1. b <= e
    OBVIOUS
  <2> QED BY <2>1, TotalIs
<1>2. e \in b .. e /\ e # b
  OBVIOUS
<1>3. SumAt(recs, k, "COUNT", b, v, e) = IntNum(e - b + 1)
  BY <1>2, Zenon DEF SumAt, merge_item_left
<1> QED BY <1>1, <1>2, <1>3 DEF TotalBy

LEMMA IntNumsAdd ==
  ASSUME NEW x \in Int, NEW y \in Int
  PROVE  eval_arith("ADD", IntNum(x), IntNum(y)) = IntNum(x + y)
BY DEF eval_arith, IntNum, lazy_expr, IsNumber, arith

\* What the records b .. e of a sorted sequence are taken from.
Part(f, b, e) == {f[j] : j \in b .. e}

AddableAt(rows, k, K) == Addable({rows[x][k] : x \in K})

\* SUM, of whole numbers.
LEMMA TotalSum ==
  ASSUME NEW k, NEW b \in Nat, NEW e \in Nat, b <= e,
         NEW rows, NEW n \in Nat, Len(rows) = n, NEW f, Permutes(f, n),
         1 <= b, e <= n,
         \A j \in b .. e : recs[j].item[k] = rows[f[j]][k],
         AddableAt(rows, k, Part(f, b, e))
  PROVE  Total(b, e, k, "SUM") = IntNum(SumOf(rows, k, Part(f, b, e)))
<1>1. PICK v : TotalBy(b, e, k, "SUM", v)
  BY TotalIs
<1> DEFINE K(m) == {f[j] : j \in b .. m}
           x(j) == rows[f[j]][k].intval
<1>2. \A j \in b .. e : x(j) \in Int /\ rows[f[j]][k] = IntNum(x(j))
  BY DEF Addable, AddableAt, Part
<1>3. \A j \in b .. e : v[j] = IF j = b THEN IntNum(x(b))
                               ELSE eval_arith("ADD", v[j - 1], IntNum(x(j)))
  <2> SUFFICES ASSUME NEW j \in b .. e
               PROVE  v[j] = IF j = b THEN IntNum(x(b))
                             ELSE eval_arith("ADD", v[j - 1], IntNum(x(j)))
    OBVIOUS
  <2>1. v[j] = SumAt(recs, k, "SUM", b, v, j)
    BY <1>1 DEF TotalBy
  <2>2. b \in b .. e /\ recs[j].item[k] = IntNum(x(j)) /\ recs[b].item[k] = IntNum(x(b))
    BY <1>2
  <2> HIDE DEF x
  <2> QED BY <2>1, <2>2 DEF SumAt, merge_item_left
<1>4. ASSUME NEW j \in b .. e, NEW L, f[j] \notin L, L \subseteq K(e)
      PROVE  /\ SumOf(rows, k, L) \in Int
             /\ SumOf(rows, k, L \cup {f[j]}) = SumOf(rows, k, L) + x(j)
  <2>1. f[j] \in 1 .. n
    <3>1. j \in 1 .. n
      OBVIOUS
    <3> QED BY <3>1 DEF Permutes
  <2>2. PICK y : y = f[j]
    OBVIOUS
  <2>3. \A z \in L \cup {y} : rows[z][k].intval \in Int
    BY <1>2, <1>4, <2>2
  <2>4. y \in 1 .. n /\ y \notin L
    BY <1>4, <2>1, <2>2
  <2>5. /\ SumOf(rows, k, L) \in Int
        /\ SumOf(rows, k, L \cup {y}) = SumOf(rows, k, L) + rows[y][k].intval
    <3> HIDE DEF K, x
    <3>1. y \in 1 .. n
      BY <2>4
    <3>2. y \notin L
      BY <2>4
    <3>3. n \in Nat /\ Len(rows) = n
      OBVIOUS
    <3> QED BY <2>3, <3>1, <3>2, <3>3, SumOfMore, Zenon
  <2> QED BY <2>2, <2>5
<1>5. SumOf(rows, k, {}) = 0
  BY SumOfNone
<1> DEFINE P(m) == /\ SumOf(rows, k, K(m)) \in Int
                   /\ v[m] = IntNum(SumOf(rows, k, K(m)))
           T == {m \in b .. e : ~ P(m)}
<1>6. T = {}
  <2>1. SUFFICES ASSUME T # {} PROVE FALSE
    OBVIOUS
  <2>2. T \subseteq Nat
    OBVIOUS
  <2>3. PICK m \in T : \A y \in T : m <= y
    <3> HIDE DEF T
    <3> QED BY <2>1, <2>2, Least
  <2>4. m \in b .. e /\ ~ P(m)
    OBVIOUS
  <2>5. CASE m = b
    <3>1. K(m) = {} \cup {f[m]} /\ f[m] \notin {} /\ {} \subseteq K(e)
      BY <2>5
    <3> HIDE DEF K, x
    <3>2. SumOf(rows, k, K(m)) = SumOf(rows, k, {}) + x(m)
      BY <1>4, <2>4, <3>1
    <3>3. x(m) \in Int
      BY <1>2, <2>4
    <3>4. SumOf(rows, k, K(m)) = x(m)
      BY <1>5, <3>2, <3>3
    <3> QED BY <1>3, <2>4, <2>5, <3>3, <3>4
  <2>6. CASE m # b
    <3>1. m - 1 \in b .. e /\ ~ (m <= m - 1)
      BY <2>4, <2>6
    <3>2. P(m - 1)
      <4> HIDE DEF P
      <4> QED BY <2>3, <3>1
    <3>3. K(m) = K(m - 1) \cup {f[m]}
      <4>1. b .. m = (b .. m - 1) \cup {m}
        BY <2>4
      <4> QED BY <4>1
    <3>4. f[m] \notin K(m - 1)
      <4> SUFFICES ASSUME NEW j \in b .. m - 1, f[j] = f[m] PROVE FALSE
        OBVIOUS
      <4>1. j \in 1 .. n /\ m \in 1 .. n /\ j # m
        BY <2>4
      <4> QED BY <4>1 DEF Permutes
    <3>5. K(m - 1) \subseteq K(e)
      <4>1. b .. m - 1 \subseteq b .. e
        BY <2>4
      <4> QED BY <4>1
    <3> HIDE DEF K, x
    <3>6. SumOf(rows, k, K(m)) = SumOf(rows, k, K(m - 1)) + x(m)
      BY <1>4, <2>4, <3>3, <3>4, <3>5
    <3>7. x(m) \in Int
      BY <1>2, <2>4
    <3>8. v[m] = IntNum(SumOf(rows, k, K(m - 1)) + x(m))
      BY <1>3, <2>4, <2>6, <3>2, <3>7, IntNumsAdd
    <3> QED BY <2>4, <3>2, <3>6, <3>7, <3>8
  <2> QED BY <2>5, <2>6
<1>7. e \in b .. e
  OBVIOUS
<1>8. v[e] = IntNum(SumOf(rows, k, K(e)))
  <2>1. P(e)
    BY <1>6, <1>7
  <2> QED BY <2>1
<1> QED BY <1>1, <1>8 DEF TotalBy, Part

-----------------------------------------------------------------------------
\* The first aggregate of an expression, found from the parts up.
FirstAgr(h, x) ==
  IF is_agr_func(x) THEN <<x>>
  ELSE IF {"l", "r"} \subseteq DOMAIN x THEN (IF h[x.l] # <<>> THEN h[x.l] ELSE h[x.r])
  ELSE <<>>

FirstAgrs(h) == [x \in Exprs |-> FirstAgr(h, x)]

Found(h, n) == \A x \in Exprs : Height(x) < n => h[x] = FirstAgr(h, x)

LEMMA FoundMore ==
  ASSUME NEW h, NEW n \in Nat, Found(h, n)
  PROVE  Found(FirstAgrs(h), n + 1)
<1> DEFINE g == FirstAgrs(h)
<1>1. \A x \in Exprs : g[x] = FirstAgr(h, x)
  BY DEF FirstAgrs
<1> HIDE DEF g
<1>2. ASSUME NEW x \in Exprs, Height(x) < n + 1
      PROVE  g[x] = FirstAgr(g, x)
  <2>1. ASSUME NEW c \in Children(x)
        PROVE  h[c] = g[c]
    <3>1. c \in Exprs /\ Height(c) < n
      <4>1. c \in Exprs /\ Height(c) \in Nat /\ Height(c) < Height(x) /\ Height(x) \in Nat
        BY <2>1, Heights
      <4> QED BY <1>2, <4>1
    <3> QED BY <1>1, <3>1 DEF Found
  <2>2. FirstAgr(h, x) = FirstAgr(g, x)
    <3>1. ~ is_agr_func(x) /\ {"l", "r"} \subseteq DOMAIN x => h[x.l] = g[x.l] /\ h[x.r] = g[x.r]
      BY <2>1 DEF Children
    <3> QED BY <3>1 DEF FirstAgr
  <2> QED BY <1>1, <2>2
<1>3. Found(g, n + 1)
  BY <1>2 DEF Found
<1> QED BY <1>3 DEF g

LEMMA FoundAll ==
  ASSUME NEW n \in Nat
  PROVE  \E h : Found(h, n)
<1> DEFINE T == {m \in Nat : ~ \E h : Found(h, m)}
<1>1. SUFFICES ASSUME T # {} PROVE FALSE
  OBVIOUS
<1>2. PICK m \in T : \A x \in T : m <= x
  <2> HIDE DEF T
  <2>1. T \subseteq Nat
    BY DEF T
  <2> QED BY <1>1, <2>1, Least, Zenon
<1>3. m # 0
  <2>1. \A e \in Exprs : ~ (Height(e) < 0)
    BY Heights
  <2>2. Found(<<>>, 0)
    BY <2>1 DEF Found
  <2> QED BY <1>2, <2>2
<1>4. m \in Nat /\ m - 1 \in Nat /\ m - 1 \notin T /\ (m - 1) + 1 = m
  <2>1. m \in Nat
    OBVIOUS
  <2>2. m - 1 \notin T
    <3> HIDE DEF T
    <3> QED BY <1>2, <1>3, <2>1
  <2> QED BY <1>3, <2>1, <2>2
<1>5. PICK h : Found(h, m - 1)
  BY <1>4
<1>6. Found(FirstAgrs(h), m)
  BY <1>4, <1>5, FoundMore
<1> QED BY <1>2, <1>6

\* An aggregate is the first one of itself.
LEMMA AgrOfAgr ==
  ASSUME NEW e \in Exprs, is_agr_func(e)
  PROVE  extract_agr[e] = <<e>>
<1> DEFINE c == Cardinality(Exprs)
           v == CHOOSE h : h = FirstAgrs(h)
<1>1. c \in Nat /\ \A x \in Exprs : Height(x) \in Nat /\ Height(x) < c + 1
  BY Heights
<1> HIDE DEF c
<1>2. PICK h : Found(h, c + 1)
  BY <1>1, FoundAll
<1> DEFINE g == FirstAgrs(h)
<1>3. Found(g, (c + 1) + 1)
  BY <1>1, <1>2, FoundMore
<1>4. g = FirstAgrs(g)
  <2>1. \A x \in Exprs : g[x] = FirstAgr(g, x)
    <3> HIDE DEF g
    <3> QED BY <1>1, <1>3 DEF Found
  <2>2. g = [x \in Exprs |-> g[x]]
    BY DEF FirstAgrs
  <2> HIDE DEF g
  <2> QED BY <2>1, <2>2 DEF FirstAgrs
<1> HIDE DEF g
<1>5. v = FirstAgrs(v)
  BY <1>4
<1>6. extract_agr = [x \in Exprs |-> v[x]]
  BY Zenon DEF extract_agr, v, FirstAgrs, FirstAgr
<1> HIDE DEF v
<1>7. v[e] = <<e>>
  <2>1. FirstAgrs(v)[e] = FirstAgr(v, e)
    BY DEF FirstAgrs
  <2> QED BY <1>5, <2>1 DEF FirstAgr
<1> QED BY <1>6, <1>7

\* Two columns have two places.
LEMMA PlacesDiffer ==
  ASSUME NEW s \in Queries, NEW i \in Aggregated(s), NEW j \in Aggregated(s),
         place(s, i) = place(s, j)
  PROVE  i = j
<1>1. Len(s.columns) \in Nat
  BY QueriesAssumption
<1>2. IsFiniteSet(1 .. Len(s.columns))
  BY <1>1, FS_Interval
<1>3. IsFiniteSet(Aggregated(s)) /\ Aggregated(s) \subseteq Nat
  BY <1>1, <1>2, FS_Subset DEF Aggregated
<1>4. ASSUME NEW x \in Aggregated(s), NEW y \in Aggregated(s), x < y
      PROVE  place(s, x) # place(s, y)
  <2> DEFINE K == {k \in Aggregated(s) : k <= x}
             L == {k \in Aggregated(s) : k <= y}
  <2>1. K \subseteq L /\ y \in L /\ y \notin K
    BY <1>3, <1>4
  <2>2. L \subseteq Aggregated(s)
    OBVIOUS
  <2>3. place(s, x) = Cardinality(K) /\ place(s, y) = Cardinality(L)
    BY DEF place
  <2> HIDE DEF K, L
  <2>4. IsFiniteSet(L)
    BY <1>3, <2>2, FS_Subset
  <2>5. Cardinality(L) = Cardinality(K) => L = K
    BY <2>1, <2>4, FS_Subset
  <2> QED BY <2>1, <2>3, <2>5
<1>5. i \in Nat /\ j \in Nat
  BY <1>3
<1> QED BY <1>4, <1>5

LEMMA PlaceOf ==
  ASSUME NEW s \in Queries, NEW i \in Aggregated(s)
  PROVE  vcol(s)[place(s, i)] = extract_agr[s.columns[i].expr][1]
<1>1. place(s, i) \in 1 .. Cardinality(Aggregated(s))
  BY Places
<1>2. (CHOOSE x \in Aggregated(s) : place(s, x) = place(s, i)) = i
  BY PlacesDiffer
<1> QED BY <1>1, <1>2 DEF vcol

-----------------------------------------------------------------------------
\* The column of an aggregate becomes what the group adds up to in its place.
LEMMA MergedColumn ==
  ASSUME q \in Queries, NEW b \in Nat, NEW e \in Nat, Wide(q, recs[b].item),
         NEW c \in 1 .. Len(q.columns), is_agr_func(q.columns[c].expr)
  PROVE  /\ place(q, c) \in 1 .. Len(vcol(q))
         /\ Merged(b, e)[c] =
              Total(b, e, Len(q.columns) + place(q, c), q.columns[c].expr.type)
<1> DEFINE n == Len(q.columns)
           m == Len(vcol(q))
           x == q.columns[c].expr
           p == place(q, c)
           sums == [i \in 1 .. m |-> Total(b, e, n + i, vcol(q)[i].type)]
           agg == [y \in Exprs |->
                     sums[IF y = extract_agr[x][1] THEN p ELSE 1]]
<1>1. n \in Nat /\ x \in Exprs /\ Len(q.group) \in Nat /\ n + (m + Len(q.group)) <= Len(recs[b].item)
  BY QueriesAssumption DEF Wide
<1>2. extract_agr[x] = <<x>>
  BY <1>1, AgrOfAgr
<1>3. c \in Aggregated(q)
  <2>1. extract_agr[x] # <<>>
    BY <1>2
  <2> QED BY <2>1 DEF Aggregated
<1>4. m \in Nat /\ p \in 1 .. m /\ vcol(q)[p] = x
  BY <1>2, <1>3, Places, PlaceOf
<1>5. c \in 1 .. Len(recs[b].item)
  <2>1. Len(recs[b].item) \in Nat
    BY DEF Wide
  <2>2. c \in 1 .. n /\ n \in Nat
    BY <1>1
  <2>3. m \in Nat
    BY <1>4
  <2>4. Len(q.group) \in Nat /\ n + (m + Len(q.group)) <= Len(recs[b].item)
    BY <1>1
  <2> HIDE DEF n, m, p, x
  <2> QED BY <2>1, <2>2, <2>3, <2>4
<1>6. Merged(b, e)[c] = eval_expr(<<>>, NoRows, agg)[x]
  <2> DEFINE W(i) == eval_expr(<<>>, NoRows,
                               [y \in Exprs |-> sums[IF y = extract_agr[q.columns[i].expr][1]
                                                     THEN place(q, i) ELSE 1]])
                              [q.columns[i].expr]
             Y(i) == IF i <= n + m THEN sums[i - n] ELSE recs[b].item[i]
             Z(i) == IF i \in Aggregated(q) THEN W(i) ELSE recs[b].item[i]
  <2>1. Merged(b, e) = [i \in 1 .. Len(recs[b].item) |-> IF i <= n THEN Z(i) ELSE Y(i)]
    BY Zenon DEF Merged
  <2>2. c <= n
    BY <1>1
  <2>3. Merged(b, e)[c] = Z(c)
    <3> HIDE DEF Y, Z
    <3> QED BY <1>5, <2>1, <2>2
  <2>4. W(c) = eval_expr(<<>>, NoRows, agg)[x]
    OBVIOUS
  <2> HIDE DEF W
  <2> QED BY <1>3, <2>3, <2>4
<1>7. agg[x] = Total(b, e, n + p, x.type)
  <2>1. agg[x] = sums[p]
    <3>1. x = extract_agr[x][1]
      BY <1>2
    <3> HIDE DEF sums, x, p
    <3> QED BY <1>1, <3>1
  <2>2. sums[p] = Total(b, e, n + p, vcol(q)[p].type)
    BY <1>4
  <2> QED BY <1>4, <2>1, <2>2
<1> HIDE DEF agg
<1>8. eval_expr(<<>>, NoRows, agg)[x] = agg[x]
  <2>1. eval_expr(<<>>, NoRows, agg)[x]
          = Value(<<>>, NoRows, agg, eval_expr(<<>>, NoRows, agg), x)
    BY <1>1, eval_exprUnfolds
  <2> DEFINE h == eval_expr(<<>>, NoRows, agg)
  <2> HIDE DEF h, x
  <2>2. is_agr_func(x)
    BY DEF x
  <2>3. Value(<<>>, NoRows, agg, h, x) = agg[x]
    BY <2>2 DEF Value, is_agr_func, Logic, Comparisons
  <2> QED BY <2>1, <2>3 DEF h
<1> QED BY <1>4, <1>6, <1>7, <1>8

\* The keys stay what they are in the first record of the group.
LEMMA MergedKey ==
  ASSUME q \in Queries, NEW b \in Nat, NEW e \in Nat, Wide(q, recs[b].item),
         NEW i \in 1 .. Len(gkeys(q))
  PROVE  Merged(b, e)[gkeys(q)[i].at] = recs[b].item[gkeys(q)[i].at]
<1> DEFINE n == Len(q.columns)
           m == Len(vcol(q))
           g == Len(q.group)
           sums == [x \in 1 .. m |-> Total(b, e, n + x, vcol(q)[x].type)]
<1>1. n \in Nat /\ g \in Nat /\ m \in Nat /\ n + (m + g) <= Len(recs[b].item)
  BY QueriesAssumption, Places DEF Wide
<1>2. Len(recs[b].item) \in Nat
  BY DEF Wide
<1>3. i \in 1 .. g /\ gkeys(q)[i].at = n + m + i
  <2>1. Len(gkeys(q)) = g
    <3> DEFINE k(j) == [at |-> n + m + j, sc |-> q.group[j].sc]
    <3>1. gkeys(q) = [j \in 1 .. g |-> k(j)]
      BY DEF gkeys
    <3> HIDE DEF k, g
    <3> QED BY <1>1, <3>1
  <2> QED BY <2>1 DEF gkeys
<1> DEFINE z == n + m + i
<1>4. z \in 1 .. Len(recs[b].item) /\ ~ (z <= n) /\ ~ (z <= n + m)
  <2> HIDE DEF n, m, g
  <2> QED BY <1>1, <1>2, <1>3
<1>5. Merged(b, e)[z] = recs[b].item[z]
  <2> DEFINE W(j) == eval_expr(<<>>, NoRows,
                               [y \in Exprs |-> sums[IF y = extract_agr[q.columns[j].expr][1]
                                                     THEN place(q, j) ELSE 1]])
                              [q.columns[j].expr]
             Z(j) == IF j \in Aggregated(q) THEN W(j) ELSE recs[b].item[j]
  <2>1. Merged(b, e) = [j \in 1 .. Len(recs[b].item) |->
                          IF j <= n THEN Z(j)
                          ELSE IF j <= n + m THEN sums[j - n] ELSE recs[b].item[j]]
    BY Zenon DEF Merged
  <2> HIDE DEF Z, sums, n, m, z
  <2> QED BY <1>4, <2>1
<1> QED BY <1>3, <1>5

-----------------------------------------------------------------------------
LEMMA CardRange ==
  ASSUME NEW n \in Nat, NEW f, Permutes(f, n), NEW b \in Nat, NEW e \in Nat,
         1 <= b, b <= e, e <= n
  PROVE  Cardinality(Part(f, b, e)) = e - b + 1
<1> DEFINE K == Part(f, b, e)
           g == [j \in b .. e |-> f[j]]
<1>1. IsFiniteSet(b .. e) /\ Cardinality(b .. e) = e - b + 1
  BY FS_Interval
<1>2. g \in Surjection(b .. e, K)
  BY DEF Surjection, Part
<1>3. \A i, j \in b .. e : f[i] = f[j] => i = j
  <2>1. \A j \in b .. e : j \in 1 .. n
    OBVIOUS
  <2> QED BY <2>1 DEF Permutes
<1>4. g \in Injection(b .. e, K)
  BY <1>3 DEF Injection, IsInjective, Part
<1> HIDE DEF g, K
<1>5. Cardinality(K) = Cardinality(b .. e)
  BY <1>1, <1>2, <1>4, FS_Surjection
<1> QED BY <1>1, <1>5 DEF K

\* What merging the records b .. e leaves in the first one: the sums and counts
\* of the rows they hold.
LEMMA MergedAddsUp ==
  ASSUME q \in Queries, NEW n \in Nat, NEW rows, Len(rows) = n, NEW f, Permutes(f, n),
         NEW b \in Nat, NEW e \in Nat, 1 <= b, b <= e, e <= n,
         \A j \in b .. e : recs[j].item = rows[f[j]], Wide(q, recs[b].item)
  PROVE  AddsUp(rows, Part(f, b, e), Merged(b, e))
<1> DEFINE K == Part(f, b, e)
<1>1. Cardinality(K) = e - b + 1
  BY CardRange
<1>2. SUFFICES ASSUME NEW c \in 1 .. Len(q.columns)
               PROVE  LET x == q.columns[c].expr
                          i == Len(q.columns) + place(q, c)
                      IN /\ x.type = "SUM" /\ Addable({rows[k][i] : k \in K}) =>
                              Merged(b, e)[c] = IntNum(SumOf(rows, i, K))
                         /\ x.type = "COUNT" /\ Cardinality(K) > 1 =>
                              Merged(b, e)[c] = IntNum(Cardinality(K))
  BY DEF AddsUp
<1> DEFINE x == q.columns[c].expr
           i == Len(q.columns) + place(q, c)
<1>3. x.type \in {"SUM", "COUNT"} => Merged(b, e)[c] = Total(b, e, i, x.type)
  <2>1. x.type \in {"SUM", "COUNT"} => is_agr_func(x)
    BY DEF is_agr_func
  <2> QED BY <2>1, MergedColumn
<1> HIDE DEF x, i, K
<1>4. ASSUME x.type = "SUM", Addable({rows[k][i] : k \in K})
      PROVE  Merged(b, e)[c] = IntNum(SumOf(rows, i, K))
  <2>1. \A j \in b .. e : recs[j].item[i] = rows[f[j]][i]
    OBVIOUS
  <2>2. Total(b, e, i, "SUM") = IntNum(SumOf(rows, i, Part(f, b, e)))
    <3>1. AddableAt(rows, i, Part(f, b, e))
      BY <1>4 DEF K, AddableAt
    <3>2. n \in Nat /\ Len(rows) = n /\ b \in Nat /\ e \in Nat
      OBVIOUS
    <3>3. Permutes(f, n) /\ 1 <= b /\ b <= e /\ e <= n
      OBVIOUS
    <3> QED BY ONLY <2>1, <3>1, <3>2, <3>3, TotalSum, SMT
  <2> QED BY <1>3, <1>4, <2>2 DEF K
<1>5. ASSUME x.type = "COUNT", Cardinality(K) > 1
      PROVE  Merged(b, e)[c] = IntNum(Cardinality(K))
  <2>1. b < e
    BY <1>1, <1>5
  <2>2. Total(b, e, i, "COUNT") = IntNum(e - b + 1)
    BY <2>1, TotalCount
  <2> QED BY <1>1, <1>3, <1>5, <2>2
<1> QED BY <1>4, <1>5 DEF x, i

-----------------------------------------------------------------------------
\* Sorted records: the keys order them and none is behind one it is before.
Ordered(keys, t, n) ==
  /\ n \in Nat
  /\ Keyed(keys, {t[i] : i \in 1 .. n})
  /\ \A i, j \in 1 .. n : i <= j => cmp(keys, t[i], t[j]) # 1

\* the first of a group, and all of it
Opens(keys, t, h) == \A i \in 1 .. h - 1 : cmp(keys, t[i], t[h]) # 0

Group(keys, t, n, h) == {j \in 1 .. n : cmp(keys, t[j], t[h]) = 0}

Heads(keys, t, n) == {h \in 1 .. n : Opens(keys, t, h)}

LEMMA OrderedCmp ==
  ASSUME NEW keys, NEW t, NEW n, Ordered(keys, t, n)
  PROVE  /\ \A i, j \in 1 .. n :
              /\ cmp(keys, t[i], t[j]) \in {-1, 0, 1}
              /\ cmp(keys, t[i], t[i]) = 0
              /\ cmp(keys, t[i], t[j]) = -1 <=> cmp(keys, t[j], t[i]) = 1
              /\ cmp(keys, t[i], t[j]) = 0 <=> cmp(keys, t[j], t[i]) = 0
         /\ \A i, j, k \in 1 .. n :
              cmp(keys, t[i], t[j]) = 0 => cmp(keys, t[i], t[k]) = cmp(keys, t[j], t[k])
<1> DEFINE S == {t[i] : i \in 1 .. n}
<1>1. Keyed(keys, S) /\ \A i \in 1 .. n : t[i] \in S
  BY DEF Ordered
<1> HIDE DEF S
<1>2. \A a, b \in S : /\ cmp(keys, a, b) \in {-1, 0, 1}
                      /\ cmp(keys, a, a) = 0
                      /\ cmp(keys, a, b) = -1 <=> cmp(keys, b, a) = 1
  BY <1>1, cmpTwo
<1>3. \A a, b, c \in S : cmp(keys, a, b) = 0 => cmp(keys, b, a) = 0 /\ cmp(keys, a, c) = cmp(keys, b, c)
  BY <1>1, cmpEqual
<1> QED BY <1>1, <1>2, <1>3

\* A group is a stretch of the sequence.
LEMMA GroupStretch ==
  ASSUME NEW keys, NEW t, NEW n, Ordered(keys, t, n), NEW h \in 1 .. n, Opens(keys, t, h),
         NEW e \in h .. n, \A j \in h .. e : cmp(keys, t[h], t[j]) = 0,
         e # n => cmp(keys, t[h], t[e + 1]) # 0
  PROVE  /\ Group(keys, t, n, h) = h .. e
         /\ e # n => Opens(keys, t, e + 1)
<1> DEFINE c(i, j) == cmp(keys, t[i], t[j])
<1>0. n \in Nat
  BY DEF Ordered
<1>1. /\ \A i, j \in 1 .. n : /\ c(i, j) \in {-1, 0, 1}
                              /\ c(i, j) = -1 <=> c(j, i) = 1
                              /\ c(i, j) = 0 <=> c(j, i) = 0
      /\ \A i, j, k \in 1 .. n : c(i, j) = 0 => c(i, k) = c(j, k)
  BY OrderedCmp
<1>2. \A i, j \in 1 .. n : i <= j => c(i, j) # 1
  BY DEF Ordered
<1>3. /\ \A i \in 1 .. h - 1 : c(i, h) # 0
      /\ \A j \in h .. e : c(h, j) = 0
      /\ e # n => c(h, e + 1) # 0
  BY DEF Opens
<1>4. Group(keys, t, n, h) = {j \in 1 .. n : c(j, h) = 0}
  BY DEF Group
<1>5. \A j \in h .. e : j \in 1 .. n
  BY <1>0
<1>6. Opens(keys, t, e + 1) <=> \A i \in 1 .. (e + 1) - 1 : c(i, e + 1) # 0
  BY DEF Opens
<1> HIDE DEF c
<1>7. ASSUME NEW j \in 1 .. n, c(j, h) = 0 PROVE j \in h .. e
  <2>1. ~ (j < h)
    <3>1. j < h => j \in 1 .. h - 1
      BY <1>0
    <3> QED BY <1>3, <1>7, <3>1
  <2>2. ~ (e < j)
    <3> SUFFICES ASSUME e < j PROVE FALSE
      OBVIOUS
    <3>1. e # n /\ e + 1 \in 1 .. n /\ h <= e + 1 /\ e + 1 <= j
      BY <1>0
    <3>2. c(h, e + 1) = -1
      BY <1>1, <1>2, <1>3, <3>1
    <3>3. c(j, e + 1) = -1
      BY <1>1, <1>7, <3>1, <3>2
    <3>4. c(e + 1, j) = 1
      BY <1>1, <3>1, <3>3
    <3> QED BY <1>2, <3>1, <3>4
  <2> QED BY <1>0, <2>1, <2>2
<1>8. ASSUME NEW j \in h .. e PROVE j \in 1 .. n /\ c(j, h) = 0
  BY <1>1, <1>3, <1>5
<1>9. ASSUME e # n, NEW i \in 1 .. (e + 1) - 1 PROVE c(i, e + 1) # 0
  <2> SUFFICES ASSUME c(i, e + 1) = 0 PROVE FALSE
    OBVIOUS
  <2>1. i \in 1 .. n /\ e + 1 \in 1 .. n /\ h <= e + 1 /\ i <= e
    BY <1>0, <1>9
  <2>2. c(h, e + 1) = -1
    BY <1>1, <1>2, <1>3, <1>9, <2>1
  <2>3. CASE h <= i
    <3>1. c(h, i) = 0
      BY <1>0, <1>3, <2>1, <2>3
    <3> QED BY <1>1, <2>1, <2>2, <3>1
  <2>4. CASE ~ (h <= i)
    <3>1. c(i, h) = c(e + 1, h)
      BY <1>1, <2>1
    <3>2. c(e + 1, h) = 1
      BY <1>1, <2>1, <2>2
    <3>3. i <= h
      BY <2>1, <2>4
    <3> QED BY <1>2, <2>1, <3>1, <3>2, <3>3
  <2> QED BY <2>3, <2>4
<1> QED BY <1>4, <1>6, <1>7, <1>8, <1>9

\* Every record is in the group of a first one.
LEMMA HeadOf ==
  ASSUME NEW keys, NEW t, NEW n, Ordered(keys, t, n), NEW j \in 1 .. n
  PROVE  \E h \in Heads(keys, t, n) : h <= j /\ cmp(keys, t[j], t[h]) = 0
<1> DEFINE T == {i \in 1 .. n : cmp(keys, t[i], t[j]) = 0}
<1>0. n \in Nat
  BY DEF Ordered
<1>1. /\ \A k, l \in 1 .. n : /\ cmp(keys, t[k], t[k]) = 0
                              /\ cmp(keys, t[k], t[l]) = 0 <=> cmp(keys, t[l], t[k]) = 0
      /\ \A i, k, l \in 1 .. n :
              cmp(keys, t[i], t[k]) = 0 => cmp(keys, t[i], t[l]) = cmp(keys, t[k], t[l])
  BY OrderedCmp
<1>2. j \in T
  BY <1>1
<1>3. PICK h \in T : \A x \in T : h <= x
  <2>1. T \subseteq Nat
    BY <1>0
  <2> HIDE DEF T
  <2> QED BY <1>2, <2>1, Least
<1>4. h \in 1 .. n /\ h <= j /\ cmp(keys, t[h], t[j]) = 0
  BY <1>2, <1>3
<1>5. ASSUME NEW i \in 1 .. h - 1 PROVE cmp(keys, t[i], t[h]) # 0
  <2>1. i \in 1 .. n /\ ~ (h <= i)
    BY <1>0, <1>4
  <2>2. i \notin T
    BY <1>3, <2>1
  <2> QED BY <1>1, <1>4, <2>1, <2>2
<1> QED BY <1>1, <1>4, <1>5 DEF Heads, Opens

LEMMA HeadsDiffer ==
  ASSUME NEW keys, NEW t, NEW n, Ordered(keys, t, n),
         NEW g \in Heads(keys, t, n), NEW h \in Heads(keys, t, n), cmp(keys, t[g], t[h]) = 0
  PROVE  g = h
<1>0. n \in Nat /\ g \in 1 .. n /\ h \in 1 .. n /\ cmp(keys, t[h], t[g]) = 0
  <2>1. n \in Nat /\ g \in 1 .. n /\ h \in 1 .. n
    BY DEF Heads, Ordered
  <2> QED BY <2>1, OrderedCmp
<1>1. ~ (g < h)
  <2>1. g < h => g \in 1 .. h - 1
    BY <1>0
  <2> QED BY <2>1 DEF Heads, Opens
<1>2. ~ (h < g)
  <2>1. h < g => h \in 1 .. g - 1
    BY <1>0
  <2> QED BY <1>0, <2>1 DEF Heads, Opens
<1> QED BY <1>0, <1>1, <1>2

-----------------------------------------------------------------------------
\* the rows in the order f
Lined(rows, f, n) == [j \in 1 .. n |-> [item |-> rows[f[j]]]]

\* The record h stands for the group h .. e: next leads behind it, the keys are
\* those of its first row, and sums and counts those of all its rows.
Stands(rows, f, n, h, e) ==
  LET keys == gkeys(q)
      t == Lined(rows, f, n)
  IN /\ e \in h .. n
     /\ Group(keys, t, n, h) = h .. e
     /\ e # n => Opens(keys, t, e + 1)
     /\ recs[h].next = e + 1
     /\ \A i \in 1 .. Len(keys) : recs[h].item[keys[i].at] = t[h].item[keys[i].at]
     /\ AddsUp(rows, Part(f, h, e), recs[h].item)

LEMMA GroupsHop ==
  ASSUME q.group # <<>>, NEW n \in Nat, NEW rows, NEW f,
         Ordered(gkeys(q), Lined(rows, f, n), n),
         \A h \in Heads(gkeys(q), Lined(rows, f, n), n) : \E e : Stands(rows, f, n, h, e)
  PROVE  Hops(Heads(gkeys(q), Lined(rows, f, n), n), n)
<1> DEFINE keys == gkeys(q)
           t == Lined(rows, f, n)
           H == Heads(keys, t, n)
<1>1. H \subseteq 1 .. n
  BY DEF Heads
<1>2. n # 0 => 1 \in H
  BY DEF Heads, Opens
<1>3. ASSUME NEW h \in H
      PROVE  /\ next(h) \in h + 1 .. n + 1
             /\ next(h) <= n => next(h) \in H
             /\ \A g \in H : g <= h \/ next(h) <= g
  <2>1. PICK e : Stands(rows, f, n, h, e)
    BY <1>3
  <2>2. /\ e \in h .. n
        /\ Group(keys, t, n, h) = h .. e
        /\ e # n => Opens(keys, t, e + 1)
        /\ next(h) = e + 1
    BY <2>1 DEF Stands, next
  <2>3. h \in 1 .. n
    BY <1>1
  <2>4. next(h) \in h + 1 .. n + 1
    BY <2>2, <2>3
  <2>5. ASSUME next(h) <= n PROVE next(h) \in H
    <3>1. e # n /\ e + 1 \in 1 .. n
      BY <2>2, <2>3, <2>5
    <3> QED BY <2>2, <3>1 DEF Heads
  <2>6. ASSUME NEW g \in H PROVE g <= h \/ next(h) <= g
    <3> SUFFICES ASSUME ~ (g <= h), ~ (next(h) <= g) PROVE FALSE
      OBVIOUS
    <3>1. g \in 1 .. n /\ g # h /\ g \in h .. e
      BY <1>1, <2>2, <2>3
    <3>2. g \in Group(keys, t, n, h)
      BY <2>2, <3>1
    <3>3. cmp(keys, t[g], t[h]) = 0
      BY <3>2 DEF Group
    <3> HIDE DEF keys, t
    <3>4. g = h
      BY <3>3, HeadsDiffer DEF keys, t
    <3> QED BY <3>1, <3>4
  <2> QED BY <2>4, <2>5, <2>6
<1> QED BY <1>1, <1>2, <1>3 DEF Hops

\* The records next leads to stand for all groups, each for one.
LEMMA GroupsStand ==
  ASSUME q \in Queries, q.group # <<>>, NEW n \in Nat, Len(recs) = n, NEW rows, Len(rows) = n,
         NEW f, Permutes(f, n), Ordered(gkeys(q), Lined(rows, f, n), n),
         \A h \in Heads(gkeys(q), Lined(rows, f, n), n) : \E e : Stands(rows, f, n, h, e)
  PROVE  GroupsOf(rows)
<1> DEFINE keys == gkeys(q)
           t == Lined(rows, f, n)
           H == Heads(keys, t, n)
<1>1. Covers(H)
  BY GroupsHop, WalkCovers
<1>2. PICK c \in Nat : Len(Walk) = c /\ Len(Result) = c /\ \A i \in 1 .. c : Result[i] = recs[Walk[i]]
  BY ResultLen
<1>3. /\ \A i \in 1 .. c : Walk[i] \in H
      /\ \A i, j \in 1 .. c : Walk[i] = Walk[j] => i = j
      /\ \A h \in H : \E i \in 1 .. c : Walk[i] = h
  BY <1>1, <1>2 DEF Covers
<1>4. H \subseteq 1 .. n
  BY DEF Heads
<1>5. \A j \in 1 .. n : t[j] = [item |-> rows[f[j]]] /\ f[j] \in 1 .. n
  BY DEF Lined, Permutes
<1>6. \A k \in 1 .. n : \E j \in 1 .. n : f[j] = k
  BY DEF Permutes
<1>7. Len(keys) \in Nat
  BY DEF Ordered, Keyed
<1> DEFINE c0(j, h) == cmp(keys, t[j], t[h]) = 0
<1>8. ASSUME NEW h \in H, NEW j \in 1 .. n
      PROVE  f[j] \in Alikes(rows, recs[h]) <=> c0(j, h)
  <2>1. PICK e : Stands(rows, f, n, h, e)
    BY <1>8
  <2>2. \A i \in 1 .. Len(keys) : recs[h].item[keys[i].at] = t[h].item[keys[i].at]
    BY <2>1 DEF Stands
  <2> HIDE DEF keys, t
  <2>3. cmp(keys, t[j], recs[h]) = cmp(keys, t[j], t[h])
    BY <1>7, <2>2, cmpLocal
  <2>4. f[j] \in Alikes(rows, recs[h]) <=> cmp(keys, [item |-> rows[f[j]]], recs[h]) = 0
    BY <1>5 DEF Alikes, keys
  <2> QED BY <1>5, <2>3, <2>4
<1>9. ASSUME NEW h \in H
      PROVE  AddsUp(rows, Alikes(rows, recs[h]), recs[h].item)
  <2>1. PICK e : Stands(rows, f, n, h, e)
    BY <1>9
  <2>2. /\ e \in h .. n
        /\ Group(keys, t, n, h) = h .. e
        /\ AddsUp(rows, Part(f, h, e), recs[h].item)
    BY <2>1 DEF Stands
  <2>3. \A j \in 1 .. n : c0(j, h) <=> j \in h .. e
    BY <2>2 DEF Group
  <2>4. Alikes(rows, recs[h]) \subseteq 1 .. n
    BY DEF Alikes
  <2>5. h .. e \subseteq 1 .. n
    BY <1>4, <2>2
  <2> HIDE DEF c0, t, keys, H
  <2>6. \A k \in 1 .. n : k \in Alikes(rows, recs[h]) <=> k \in Part(f, h, e)
    <3> SUFFICES ASSUME NEW k \in 1 .. n
                 PROVE  k \in Alikes(rows, recs[h]) <=> k \in Part(f, h, e)
      OBVIOUS
    <3>1. PICK j \in 1 .. n : f[j] = k
      BY <1>6
    <3>2. k \in Part(f, h, e) <=> j \in h .. e
      <4>1. \A i, l \in 1 .. n : f[i] = f[l] => i = l
        BY DEF Permutes
      <4>2. k \in Part(f, h, e) => j \in h .. e
        <5> SUFFICES ASSUME NEW i \in h .. e, f[i] = k PROVE j \in h .. e
          BY DEF Part
        <5>1. i \in 1 .. n
          BY <2>5
        <5>2. i = j
          BY <3>1, <4>1, <5>1
        <5> QED BY <5>2
      <4>3. j \in h .. e => k \in Part(f, h, e)
        BY <3>1 DEF Part
      <4> QED BY <4>2, <4>3
    <3> QED BY <1>8, <2>3, <3>1, <3>2
  <2>7. Part(f, h, e) \subseteq 1 .. n
    BY <1>5, <2>5 DEF Part
  <2>8. Alikes(rows, recs[h]) = Part(f, h, e)
    BY <2>4, <2>6, <2>7
  <2> QED BY <2>2, <2>8
<1>10. ASSUME NEW k \in 1 .. n
       PROVE  \E i \in 1 .. c : k \in Alikes(rows, Result[i])
  <2>1. PICK j \in 1 .. n : f[j] = k
    BY <1>6
  <2>2. PICK h \in H : c0(j, h)
    BY HeadOf
  <2>3. PICK i \in 1 .. c : Walk[i] = h
    BY <1>3
  <2> HIDE DEF c0, t, keys, H
  <2> QED BY <1>2, <1>8, <2>1, <2>2, <2>3
<1>11. ASSUME NEW l \in 1 .. c, NEW m \in 1 .. c, l # m
       PROVE  Alikes(rows, Result[l]) \cap Alikes(rows, Result[m]) = {}
  <2> SUFFICES ASSUME NEW k, k \in Alikes(rows, Result[l]), k \in Alikes(rows, Result[m])
               PROVE  FALSE
    OBVIOUS
  <2>1. PICK g \in H : Walk[l] = g
    BY <1>3
  <2>2. PICK h \in H : Walk[m] = h
    BY <1>3
  <2>3. g # h
    BY <1>3, <1>11, <2>1, <2>2
  <2>4. k \in 1 .. n
    BY DEF Alikes
  <2>5. PICK j \in 1 .. n : f[j] = k
    BY <1>6, <2>4
  <2>6. c0(j, g) /\ c0(j, h)
    <3> HIDE DEF c0, t, keys, H
    <3> QED BY <1>2, <1>8, <2>1, <2>2, <2>5
  <2>7. g \in 1 .. n /\ h \in 1 .. n
    BY <1>4
  <2>8. c0(g, h)
    <3> HIDE DEF keys, H
    <3>1. Ordered(keys, t, n)
      BY DEF keys
    <3> HIDE DEF t
    <3>2. cmp(keys, t[j], t[h]) = cmp(keys, t[g], t[h])
      BY <2>6, <2>7, <3>1, OrderedCmp
    <3> QED BY <2>6, <3>2
  <2>9. g = h
    BY <2>8, HeadsDiffer
  <2> QED BY <2>3, <2>9
<1>12. \A i \in 1 .. c : AddsUp(rows, Alikes(rows, Result[i]), Result[i].item)
  BY <1>2, <1>3, <1>9
<1> HIDE DEF H, t, keys
<1> QED BY <1>2, <1>10, <1>11, <1>12 DEF GroupsOf

-----------------------------------------------------------------------------
\* The rows are sorted, in the order f.
Lines(rows, f, n) ==
  /\ n \in Nat /\ Len(rows) = n /\ Of(recs, n) /\ Permutes(f, n)
  /\ Ordered(gkeys(q), Lined(rows, f, n), n)

\* merge_agr has come to a group that starts with beg, and has left records
\* that stand for the groups before it.
Merges(rows, f, n) ==
  LET keys == gkeys(q)
      t == Lined(rows, f, n)
  IN /\ Lines(rows, f, n)
     /\ n # 0 => /\ beg \in 1 .. n /\ end \in beg + 1 .. n + 1
                 /\ Opens(keys, t, beg)
                 /\ \A j \in beg .. end - 1 : cmp(keys, t[beg], t[j]) = 0
     /\ \A j \in beg .. n : recs[j].item = rows[f[j]]
     /\ \A h \in Heads(keys, t, n) : h < beg => \E e : Stands(rows, f, n, h, e)

AllStand(rows, f, n) ==
  /\ Lines(rows, f, n)
  /\ \A h \in Heads(gkeys(q), Lined(rows, f, n), n) : \E e : Stands(rows, f, n, h, e)

LEMMA StandsStays ==
  ASSUME NEW rows, NEW f, NEW n, NEW h, NEW e, Stands(rows, f, n, h, e),
         q' = q, recs'[h] = recs[h]
  PROVE  Stands(rows, f, n, h, e)'
<1>1. gkeys(q)' = gkeys(q)
  BY DEF gkeys
<1>2. \A K : AddsUp(rows, K, recs[h].item) => AddsUp(rows, K, recs[h].item)'
  BY DEF AddsUp
<1> QED BY <1>1, <1>2 DEF Stands

\* Closing the group at beg.
LEMMA CloseStands ==
  ASSUME NEW rows, NEW f, NEW n, Merges(rows, f, n), q \in Queries, n # 0,
         Wide(q, recs[beg].item), q' = q,
         end # n + 1 => cmp(gkeys(q), recs[beg], recs[end]) # 0,
         recs' = [recs EXCEPT ![beg] = [item |-> Merged(beg, end - 1), next |-> (end - 1) + 1]]
  PROVE  /\ Of(recs', n) /\ \A j \in 1 .. n : j # beg => recs'[j] = recs[j]
         /\ end # n + 1 => Opens(gkeys(q), Lined(rows, f, n), end)
         /\ \A h \in Heads(gkeys(q), Lined(rows, f, n), n) :
              h < end => \E e : Stands(rows, f, n, h, e)'
<1> DEFINE keys == gkeys(q)
           t == Lined(rows, f, n)
           e == end - 1
<1>1. /\ n \in Nat /\ Len(rows) = n /\ Of(recs, n) /\ Permutes(f, n) /\ Ordered(keys, t, n)
      /\ beg \in 1 .. n /\ end \in beg + 1 .. n + 1 /\ Opens(keys, t, beg)
      /\ \A j \in beg .. n : recs[j].item = rows[f[j]]
      /\ \A j \in beg .. end - 1 : cmp(keys, t[beg], t[j]) = 0
      /\ \A h \in Heads(keys, t, n) : h < beg => \E x : Stands(rows, f, n, h, x)
  BY DEF Merges, Lines
<1>2. e \in beg .. n /\ e + 1 = end /\ (e # n <=> end # n + 1)
  BY <1>1
<1>3. \A j \in 1 .. n : t[j] = [item |-> rows[f[j]]]
  BY DEF Lined
<1>13. \A j \in beg .. n : recs[j].item = t[j].item
  <2> SUFFICES ASSUME NEW j \in beg .. n PROVE recs[j].item = t[j].item
    OBVIOUS
  <2>1. j \in 1 .. n /\ recs[j].item = rows[f[j]]
    BY <1>1
  <2> HIDE DEF t
  <2>2. t[j] = [item |-> rows[f[j]]]
    BY <1>3, <2>1
  <2> QED BY <2>1, <2>2
<1> HIDE DEF t
<1>4. Len(keys) \in Nat
  BY <1>1 DEF Ordered, Keyed
<1>5. e # n => cmp(keys, t[beg], t[e + 1]) # 0
  <2> SUFFICES ASSUME e # n PROVE cmp(keys, t[beg], t[end]) # 0
    BY <1>2
  <2>1. beg \in beg .. n /\ end \in beg .. n /\ end \in 1 .. n /\ end # n + 1
    BY <1>1, <1>2
  <2>2. recs[beg].item = t[beg].item /\ recs[end].item = t[end].item
    BY <1>13, <2>1
  <2>3. cmp(keys, recs[beg], recs[end]) = cmp(keys, t[beg], t[end])
    BY <1>4, <2>2, cmpLocal
  <2> QED BY <2>1, <2>3
<1>6. Group(keys, t, n, beg) = beg .. e /\ (e # n => Opens(keys, t, e + 1))
  <2>1. \A j \in beg .. e : cmp(keys, t[beg], t[j]) = 0
    BY <1>1
  <2>2. Ordered(keys, t, n) /\ beg \in 1 .. n /\ Opens(keys, t, beg) /\ e \in beg .. n
    BY <1>1, <1>2
  <2> HIDE DEF e, keys
  <2> QED BY <1>5, <2>1, <2>2, GroupStretch
<1>7. DOMAIN recs = 1 .. n
  BY <1>1, OfLen
<1>8. recs'[beg] = [item |-> Merged(beg, e), next |-> e + 1]
  BY <1>1, <1>7
<1>9. \A j \in 1 .. n : j # beg => recs'[j] = recs[j]
  BY <1>7
<1>10. Of(recs', n)
  <2>1. recs' = [j \in 1 .. n |-> recs'[j]]
    BY <1>7
  <2> QED BY <1>1, <2>1 DEF Of
<1>14. PICK b, x : b = beg /\ x = e
  OBVIOUS
<1>11. Stands(rows, f, n, b, x)'
  <2> HIDE DEF e
  <2>1. b \in Nat /\ x \in Nat /\ 1 <= b /\ b <= x /\ x <= n /\ n \in Nat /\ x \in b .. n
    BY <1>1, <1>2, <1>14
  <2>2. \A j \in b .. x : recs[j].item = rows[f[j]]
    BY <1>1, <1>14, <2>1
  <2>3. Len(rows) = n /\ Permutes(f, n) /\ Wide(q, recs[b].item)
    BY <1>1, <1>14
  <2>4. AddsUp(rows, Part(f, b, x), Merged(b, x))
    BY <2>1, <2>2, <2>3, MergedAddsUp
  <2>5. \A i \in 1 .. Len(keys) : Merged(b, x)[keys[i].at] = recs[b].item[keys[i].at]
    BY <2>1, <2>3, MergedKey DEF keys
  <2>6. recs[b].item = t[b].item
    BY <1>13, <1>14, <2>1
  <2>7. gkeys(q)' = keys
    BY DEF keys, gkeys
  <2>8. recs'[b].item = Merged(b, x) /\ recs'[b].next = x + 1
    BY <1>8, <1>14
  <2>9. AddsUp(rows, Part(f, b, x), recs[b].item)'
    <3>1. AddsUp(rows, Part(f, b, x), recs'[b].item)
      BY <2>4, <2>8
    <3>2. AddsUp(rows, Part(f, b, x), recs[b].item)' <=> AddsUp(rows, Part(f, b, x), recs'[b].item)
      BY DEF AddsUp
    <3> QED BY <3>1, <3>2
  <2>10. Group(keys, t, n, b) = b .. x /\ (x # n => Opens(keys, t, x + 1))
    BY <1>6, <1>14
  <2>11. \A i \in 1 .. Len(keys) : recs'[b].item[keys[i].at] = t[b].item[keys[i].at]
    BY <2>5, <2>6, <2>8
  <2> HIDE DEF keys
  <2> QED BY <2>1, <2>7, <2>8, <2>9, <2>10, <2>11 DEF Stands, t
<1>12. ASSUME NEW h \in Heads(keys, t, n), h < end
       PROVE  \E y : Stands(rows, f, n, h, y)'
  <2>1. h \in 1 .. n
    BY DEF Heads
  <2>2. CASE h < beg
    <3>1. PICK y : Stands(rows, f, n, h, y)
      BY <1>1, <2>2
    <3>2. recs'[h] = recs[h]
      BY <1>1, <1>9, <2>1, <2>2
    <3> QED BY <3>1, <3>2, StandsStays
  <2>3. CASE h = beg
    BY <1>11, <1>14, <2>3
  <2>4. CASE beg < h
    <3>1. h \in beg .. e
      BY <1>1, <2>1, <1>12, <2>4
    <3>2. h \in Group(keys, t, n, beg)
      BY <1>6, <3>1
    <3>3. beg \in Heads(keys, t, n)
      BY <1>1 DEF Heads
    <3>4. h = beg
      BY <1>1, <3>2, <3>3, HeadsDiffer DEF Group
    <3> QED BY <1>1, <2>1, <2>4, <3>4
  <2> QED BY <1>1, <2>1, <2>2, <2>3, <2>4
<1> QED BY <1>2, <1>6, <1>9, <1>10, <1>12 DEF t

-----------------------------------------------------------------------------
LEMMA gkeysAre ==
  ASSUME q \in Queries
  PROVE  /\ Len(gkeys(q)) \in Nat
         /\ \A i \in 1 .. Len(gkeys(q)) : gkeys(q)[i].sc \in BOOLEAN
<1>1. PICK g \in Nat : Len(q.group) = g
  BY QueriesAssumption
<1>2. \A i \in 1 .. g : q.group[i].sc \in BOOLEAN
  BY <1>1, QueriesAssumption
<1> DEFINE k(j) == [at |-> Len(q.columns) + Len(vcol(q)) + j, sc |-> q.group[j].sc]
<1>3. gkeys(q) = [j \in 1 .. g |-> k(j)]
  BY <1>1 DEF gkeys
<1>4. \A j : k(j).sc = q.group[j].sc
  OBVIOUS
<1> HIDE DEF k
<1>5. Len(gkeys(q)) = g /\ \A j \in 1 .. g : gkeys(q)[j] = k(j)
  BY <1>3
<1> QED BY <1>2, <1>4, <1>5

\* What qsort makes of the rows of the loop.
SortsTo(rows, f, n, t) ==
  /\ Permutes(f, n) /\ Of(t, n)
  /\ Ordered(gkeys(q), Lined(rows, f, n), n)
  /\ \A j \in 1 .. n : t[j].item = rows[f[j]]

LEMMA SortLines ==
  ASSUME q \in Queries, NEW n \in Nat, Of(recs, n), NEW rows,
         Len(rows) = n, \A k \in 1 .. n : rows[k] = recs[k].item, Comparable(gkeys(q), rows),
         NEW t \in Sorted(gkeys(q), recs)
  PROVE  \E f : SortsTo(rows, f, n, t)
<1> DEFINE keys == gkeys(q)
           S == {recs[i] : i \in 1 .. n}
<1>1. Len(recs) = n
  BY OfLen
<1>2. Len(rows) = n
  OBVIOUS
<1>3. Len(keys) \in Nat /\ \A i \in 1 .. Len(keys) : keys[i].sc \in BOOLEAN
  BY gkeysAre
<1> HIDE DEF keys
<1>4. ASSUME NEW i \in 1 .. Len(keys)
      PROVE  Alike({rows[k][keys[i].at] : k \in 1 .. n})
  BY <1>2, <1>4 DEF Comparable, keys
<1>5. Keyed(keys, S)
  <2> SUFFICES ASSUME NEW i \in 1 .. Len(keys) PROVE Alike({r.item[keys[i].at] : r \in S})
    BY <1>3 DEF Keyed
  <2>1. {rows[k][keys[i].at] : k \in 1 .. n} = {r.item[keys[i].at] : r \in S}
    OBVIOUS
  <2> HIDE DEF S
  <2> QED BY <1>4, <2>1
<1>6. \A i \in 1 .. n : recs[i] \in S
  OBVIOUS
<1> HIDE DEF S
<1>7. PICK f : /\ Permutes(f, n) /\ t = [i \in 1 .. n |-> recs[f[i]]]
               /\ \A i, j \in 1 .. n : i <= j => cmp(keys, t[i], t[j]) # 1
  <2>1. t \in Sorted(keys, recs)
    BY DEF keys
  <2> QED BY <1>1, <1>5, <1>6, <2>1, SortedIs
<1> DEFINE l == Lined(rows, f, n)
<1>8. \A j \in 1 .. n : f[j] \in 1 .. n
  BY <1>7 DEF Permutes
<1>9. \A j \in 1 .. n : t[j].item = rows[f[j]]
  BY <1>7, <1>8
<1>10. \A j \in 1 .. n : l[j] = [item |-> rows[f[j]]]
  BY DEF Lined
<1>11. Of(t, n)
  BY <1>7 DEF Of
<1> HIDE DEF l
<1>12. \A j \in 1 .. n : l[j].item = t[j].item
  <2> SUFFICES ASSUME NEW j \in 1 .. n PROVE l[j].item = t[j].item
    OBVIOUS
  <2>1. l[j] = [item |-> rows[f[j]]]
    BY <1>10
  <2>2. t[j].item = rows[f[j]]
    BY <1>9
  <2> QED BY <2>1, <2>2
<1>13. \A i, j \in 1 .. n : i <= j => cmp(keys, l[i], l[j]) # 1
  <2> SUFFICES ASSUME NEW i \in 1 .. n, NEW j \in 1 .. n, i <= j
               PROVE  cmp(keys, l[i], l[j]) # 1
    OBVIOUS
  <2>1. cmp(keys, l[i], l[j]) = cmp(keys, t[i], t[j])
    BY <1>3, <1>12, cmpLocal
  <2> QED BY <1>7, <2>1
<1>14. Keyed(keys, {l[i] : i \in 1 .. n})
  <2> SUFFICES ASSUME NEW i \in 1 .. Len(keys)
               PROVE  Alike({r.item[keys[i].at] : r \in {l[j] : j \in 1 .. n}})
    BY <1>3 DEF Keyed
  <2> DEFINE V == {rows[k][keys[i].at] : k \in 1 .. n}
             W == {r.item[keys[i].at] : r \in {l[j] : j \in 1 .. n}}
  <2>1. W \subseteq V
    <3>1. ASSUME NEW j \in 1 .. n PROVE l[j].item[keys[i].at] \in V
      <4>1. l[j].item = rows[f[j]] /\ f[j] \in 1 .. n
        BY <1>8, <1>9, <1>12
      <4> QED BY <4>1
    <3>2. \A w \in W : \E j \in 1 .. n : w = l[j].item[keys[i].at]
      OBVIOUS
    <3> HIDE DEF V, W
    <3> QED BY <3>1, <3>2
  <2>2. Alike(V)
    BY <1>4
  <2> HIDE DEF V, W
  <2>3. Alike(W)
    BY <2>1, <2>2 DEF Alike
  <2> QED BY <2>3 DEF W
<1>15. Ordered(keys, l, n)
  BY <1>13, <1>14 DEF Ordered
<1> QED BY <1>7, <1>9, <1>11, <1>15 DEF SortsTo, keys, l

LEMMA SortGroups ==
  ASSUME q \in Queries, Sort, pc' = "merge", Gathered, RowsExact,
         NEW rows, rows = Whole.rows, Comparable(gkeys(q), rows)
  PROVE  \E f, n : Merges(rows, f, n)'
<1>1. /\ pc = "scanned" /\ q' = q /\ recs' \in Sorted(gkeys(q), recs) /\ beg' = 1 /\ end' = 2
  BY DEF Sort
<1>2. PICK n \in Nat : Of(recs, n)
  BY DEF Gathered
<1>3. Len(recs) = n
  BY <1>2, OfLen
<1>4. Len(rows) = n /\ \A k \in 1 .. n : rows[k] = recs[k].item
  <2>1. rows = [k \in 1 .. n |-> recs[k].item]
    BY <1>1, <1>3 DEF RowsExact
  <2> QED BY <2>1
<1>5. PICK t : t = recs'
  OBVIOUS
<1>6. PICK f : /\ Permutes(f, n) /\ Of(t, n)
               /\ Ordered(gkeys(q), Lined(rows, f, n), n)
               /\ \A j \in 1 .. n : t[j].item = rows[f[j]]
  <2>1. n \in Nat /\ Of(recs, n)
    BY <1>2
  <2>2. t \in Sorted(gkeys(q), recs)
    BY <1>1, <1>5
  <2>3. PICK g : SortsTo(rows, g, n, t)
    BY <1>4, <2>1, <2>2, SortLines
  <2> QED BY <2>3 DEF SortsTo
<1>7. gkeys(q)' = gkeys(q)
  BY <1>1 DEF gkeys
<1>8. Lines(rows, f, n)'
  <2>1. Len(rows) = n
    BY <1>4
  <2> QED BY <1>5, <1>6, <1>7, <2>1 DEF Lines
<1>9. n # 0 => /\ 1 \in 1 .. n /\ 2 \in 1 + 1 .. n + 1
               /\ Opens(gkeys(q), Lined(rows, f, n), 1)
               /\ \A j \in 1 .. 2 - 1 :
                    cmp(gkeys(q), Lined(rows, f, n)[1], Lined(rows, f, n)[j]) = 0
  <2> SUFFICES ASSUME n # 0
               PROVE  /\ 1 \in 1 .. n /\ 2 \in 1 + 1 .. n + 1
                      /\ Opens(gkeys(q), Lined(rows, f, n), 1)
                      /\ cmp(gkeys(q), Lined(rows, f, n)[1], Lined(rows, f, n)[1]) = 0
    OBVIOUS
  <2>1. 1 \in 1 .. n /\ 2 \in 1 + 1 .. n + 1
    OBVIOUS
  <2>2. Opens(gkeys(q), Lined(rows, f, n), 1)
    BY DEF Opens
  <2>3. cmp(gkeys(q), Lined(rows, f, n)[1], Lined(rows, f, n)[1]) = 0
    BY <1>6, <2>1, OrderedCmp
  <2> QED BY <2>1, <2>2, <2>3
<1>10. \A h \in Heads(gkeys(q), Lined(rows, f, n), n) : ~ (h < 1)
  BY DEF Heads
<1> QED BY <1>1, <1>5, <1>6, <1>7, <1>8, <1>9, <1>10 DEF Merges

-----------------------------------------------------------------------------
LEMMA MergeGroups ==
  ASSUME q \in Queries, ~ q.all, Merging, Merge, pc' = "merge",
         NEW rows, NEW f, NEW n, Merges(rows, f, n)
  PROVE  Merges(rows, f, n)'
<1> DEFINE t == Lined(rows, f, n)
<1>1. /\ n \in Nat /\ Len(rows) = n /\ Of(recs, n) /\ Permutes(f, n)
      /\ Ordered(gkeys(q), t, n)
      /\ \A j \in beg .. n : recs[j].item = rows[f[j]]
      /\ \A h \in Heads(gkeys(q), t, n) : h < beg => \E x : Stands(rows, f, n, h, x)
  BY DEF Merges, Lines
<1>2. Len(recs) = n
  BY <1>1, OfLen
<1>3. end <= n /\ end' = end + 1 /\ q' = q
  BY <1>2 DEF Merge
<1>4. beg \in Nat \ {0} /\ end \in Nat /\ beg < end
  BY DEF Merging
<1>5. n # 0
  BY <1>1, <1>3, <1>4
<1>6. /\ beg \in 1 .. n /\ end \in beg + 1 .. n + 1
      /\ Opens(gkeys(q), t, beg)
      /\ \A j \in beg .. end - 1 : cmp(gkeys(q), t[beg], t[j]) = 0
  BY <1>5 DEF Merges
<1>7. gkeys(q)' = gkeys(q)
  BY <1>3 DEF gkeys
<1>8. \A j \in beg .. n : recs[j].item = t[j].item
  <2> SUFFICES ASSUME NEW j \in beg .. n PROVE recs[j].item = t[j].item
    OBVIOUS
  <2>1. j \in 1 .. n /\ recs[j].item = rows[f[j]]
    BY <1>1, <1>6
  <2>2. t[j] = [item |-> rows[f[j]]]
    BY <2>1 DEF Lined
  <2> HIDE DEF t
  <2> QED BY <2>1, <2>2
<1> HIDE DEF t
<1>9. Len(gkeys(q)) \in Nat
  BY gkeysAre
<1>10. CASE cmp(gkeys(q), recs[beg], recs[end]) = 0 /\ UNCHANGED <<recs, pc, beg>>
  <2>1. cmp(gkeys(q), t[beg], t[end]) = 0
    <3>1. beg \in beg .. n /\ end \in beg .. n
      BY <1>1, <1>3, <1>6
    <3>2. recs[beg].item = t[beg].item /\ recs[end].item = t[end].item
      BY <1>8, <3>1
    <3>3. cmp(gkeys(q), recs[beg], recs[end]) = cmp(gkeys(q), t[beg], t[end])
      BY <1>9, <3>2, cmpLocal
    <3> QED BY <1>10, <3>3
  <2>2. Lines(rows, f, n)'
    BY <1>1, <1>7, <1>10 DEF Lines, t
  <2>3. beg \in 1 .. n /\ end + 1 \in beg + 1 .. n + 1
    BY <1>1, <1>3, <1>6
  <2>4. \A j \in beg .. (end + 1) - 1 : cmp(gkeys(q), t[beg], t[j]) = 0
    <3> SUFFICES ASSUME NEW j \in beg .. (end + 1) - 1 PROVE cmp(gkeys(q), t[beg], t[j]) = 0
      OBVIOUS
    <3>1. j = end \/ j \in beg .. end - 1
      BY <1>6
    <3> QED BY <1>6, <2>1, <3>1
  <2>5. \A h \in Heads(gkeys(q), t, n) : h < beg => \E x : Stands(rows, f, n, h, x)'
    <3> SUFFICES ASSUME NEW h \in Heads(gkeys(q), t, n), h < beg
                 PROVE  \E x : Stands(rows, f, n, h, x)'
      OBVIOUS
    <3>1. PICK x : Stands(rows, f, n, h, x)
      BY <1>1
    <3>2. recs'[h] = recs[h]
      BY <1>10
    <3> QED BY <1>3, <3>1, <3>2, StandsStays
  <2> QED BY <1>1, <1>3, <1>6, <1>7, <1>10, <2>2, <2>3, <2>4, <2>5 DEF Merges, t
<1>11. CASE /\ cmp(gkeys(q), recs[beg], recs[end]) # 0
            /\ CloseGroup(beg, end - 1, "merge") /\ beg' = end
  <2>1. recs' = [recs EXCEPT ![beg] = [item |-> Merged(beg, end - 1), next |-> (end - 1) + 1]]
    BY <1>11 DEF CloseGroup
  <2>2. Wide(q, recs[beg].item)
    <3>1. PICK m \in Nat : Of(recs, m) /\ \A k \in beg .. m : RowSafe(q, recs[k].item)
      BY DEF Merging
    <3>2. m = n
      BY <1>2, <3>1, OfLen
    <3>3. beg \in beg .. n
      BY <1>6
    <3> QED BY <3>1, <3>2, <3>3 DEF RowSafe, Wide
  <2>3. end # n + 1
    BY <1>1, <1>3, <1>4
  <2>4. /\ Of(recs', n) /\ \A j \in 1 .. n : j # beg => recs'[j] = recs[j]
        /\ Opens(gkeys(q), t, end)
        /\ \A h \in Heads(gkeys(q), t, n) : h < end => \E x : Stands(rows, f, n, h, x)'
    BY <1>3, <1>5, <1>11, <2>1, <2>2, <2>3, CloseStands DEF t
  <2>5. Lines(rows, f, n)'
    BY <1>1, <1>7, <2>4 DEF Lines, t
  <2>6. end \in 1 .. n /\ end + 1 \in end + 1 .. n + 1
    BY <1>1, <1>3, <1>4
  <2>7. \A j \in end .. (end + 1) - 1 : cmp(gkeys(q), t[end], t[j]) = 0
    <3>1. \A j \in end .. (end + 1) - 1 : j = end
      BY <1>4
    <3>2. cmp(gkeys(q), t[end], t[end]) = 0
      BY <1>1, <2>6, OrderedCmp
    <3> QED BY <3>1, <3>2
  <2>8. \A j \in end .. n : recs'[j].item = rows[f[j]]
    <3> SUFFICES ASSUME NEW j \in end .. n PROVE recs'[j].item = rows[f[j]]
      OBVIOUS
    <3>1. j \in beg .. n /\ j \in 1 .. n /\ j # beg
      BY <1>4, <1>6
    <3> QED BY <1>1, <2>4, <3>1
  <2> QED BY <1>3, <1>7, <1>11, <2>4, <2>5, <2>6, <2>7, <2>8 DEF Merges, t
<1> QED BY <1>10, <1>11 DEF Merge

LEMMA MergeLastGroups ==
  ASSUME q \in Queries, ~ q.all, Merging, MergeLast, pc' = "collect",
         NEW rows, NEW f, NEW n, Merges(rows, f, n)
  PROVE  AllStand(rows, f, n)'
<1> DEFINE t == Lined(rows, f, n)
<1>1. /\ n \in Nat /\ Len(rows) = n /\ Of(recs, n) /\ Permutes(f, n)
      /\ Ordered(gkeys(q), t, n)
  BY DEF Merges, Lines
<1>2. Len(recs) = n
  BY <1>1, OfLen
<1>3. end > n /\ q' = q
  BY <1>2 DEF MergeLast
<1>4. gkeys(q)' = gkeys(q)
  BY <1>3 DEF gkeys
<1>5. CASE recs # <<>> /\ CloseGroup(beg, Len(recs), "collect")
  <2>1. n # 0
    <3>1. ASSUME n = 0 PROVE recs = <<>>
      <4>1. recs = [i \in 1 .. 0 |-> recs[i]]
        BY <1>1, <3>1 DEF Of
      <4> QED BY <4>1
    <3> QED BY <1>5, <3>1
  <2>2. beg \in 1 .. n /\ end \in beg + 1 .. n + 1
    BY <2>1 DEF Merges
  <2>3. end = n + 1 /\ n = end - 1
    BY <1>1, <1>3, <2>2
  <2>4. recs' = [recs EXCEPT ![beg] = [item |-> Merged(beg, end - 1), next |-> (end - 1) + 1]]
    <3>1. Len(recs) = end - 1
      BY <1>2, <2>3
    <3>2. recs' = [recs EXCEPT ![beg] = [item |-> Merged(beg, Len(recs)), next |-> Len(recs) + 1]]
      BY <1>5 DEF CloseGroup
    <3> QED BY <3>1, <3>2
  <2>5. Wide(q, recs[beg].item)
    <3>1. PICK m \in Nat : Of(recs, m) /\ \A k \in beg .. m : RowSafe(q, recs[k].item)
      BY DEF Merging
    <3>2. m = n
      BY <1>2, <3>1, OfLen
    <3>3. beg \in beg .. n
      BY <2>2
    <3> QED BY <3>1, <3>2, <3>3 DEF RowSafe, Wide
  <2>6. /\ Of(recs', n)
        /\ \A h \in Heads(gkeys(q), t, n) : h < end => \E x : Stands(rows, f, n, h, x)'
    BY <1>3, <2>1, <2>3, <2>4, <2>5, CloseStands DEF t
  <2>7. Lines(rows, f, n)'
    BY <1>1, <1>4, <2>6 DEF Lines
  <2>8. \A h \in Heads(gkeys(q), t, n) : h < end
    <3>1. Heads(gkeys(q), t, n) \subseteq 1 .. n
      BY DEF Heads
    <3> HIDE DEF t
    <3> QED BY <1>1, <2>3, <3>1
  <2> QED BY <1>4, <2>6, <2>7, <2>8 DEF AllStand
<1>6. CASE recs = <<>> /\ recs' = recs
  <2>1. n = 0
    BY <1>2, <1>6
  <2>2. Lines(rows, f, n)'
    BY <1>1, <1>4, <1>6 DEF Lines
  <2>3. Heads(gkeys(q), t, n) = {}
    BY <2>1 DEF Heads
  <2> QED BY <1>4, <2>2, <2>3 DEF AllStand
<1> QED BY <1>5, <1>6 DEF MergeLast

-----------------------------------------------------------------------------
\* While merge_agr works, a record behind it stands for each group, and when it
\* is done, for all groups.
GInv ==
  /\ OInv
  /\ pc = "merge" /\ ~ q.all =>
       \A rows \in {Whole.rows} : Comparable(gkeys(q), rows) => \E f, n : Merges(rows, f, n)
  /\ pc = "collect" /\ q.group # <<>> /\ ~ q.all =>
       \A rows \in {Whole.rows} : Comparable(gkeys(q), rows) => \E f, n : AllStand(rows, f, n)

LEMMA WholeStays ==
  ASSUME q' = q, db' = db, ocol_cnt' = ocol_cnt
  PROVE  Whole' = Whole /\ gkeys(q)' = gkeys(q)
BY DEF Whole, gkeys

LEMMA GroupInit == Init => GInv
<1> SUFFICES ASSUME Init PROVE GInv
  OBVIOUS
<1>1. pc = "idle"
  BY DEF Init, SelectInit
<1> QED BY <1>1, OrderInit DEF GInv

LEMMA GroupStep == GInv /\ [Next]_vars => GInv'
<1> SUFFICES ASSUME GInv, [Next]_vars PROVE GInv'
  OBVIOUS
<1>1. OInv /\ OInv' /\ SInv /\ IInv
  BY OrderStep DEF GInv, OInv, SInv
<1>2. ASSUME pc' \notin {"merge", "collect"} PROVE GInv'
  BY <1>1, <1>2 DEF GInv
<1>3. CASE Write
  <2>1. pc' = "idle"
    BY <1>3 DEF Write
  <2> QED BY <1>2, <2>1
<1>4. ASSUME NEW s \in Queries, Begin(s)
      PROVE  GInv'
  <2>1. pc' \in {"scan", "crashed"}
    BY <1>4 DEF Begin
  <2> QED BY <1>2, <2>1
<1>5. CASE Scan
  <2>1. pc' \in {"scan", "idle", "scanned", "crashed"}
    BY <1>5 DEF Scan, Pass, get_next_record
  <2> QED BY <1>2, <2>1
<1>6. CASE Sort
  <2>1. /\ pc = "scanned" /\ q' = q /\ db' = db /\ ocol_cnt' = ocol_cnt
        /\ pc' = "merge" \/ (pc' = "collect" /\ q.group = <<>>)
    BY <1>6 DEF Sort
  <2>2. q \in Queries /\ Gathered /\ RowsExact
    BY <1>1, <2>1 DEF SInv, IInv
  <2>3. Whole' = Whole /\ gkeys(q)' = gkeys(q)
    BY <2>1, WholeStays
  <2>4. ASSUME pc' = "merge", NEW rows, rows = Whole.rows, Comparable(gkeys(q), rows)
        PROVE  \E f, n : Merges(rows, f, n)'
    BY <1>6, <2>2, <2>4, SortGroups
  <2>5. pc' = "merge" => (\A rows \in {Whole.rows} :
          Comparable(gkeys(q), rows) => \E f, n : Merges(rows, f, n))'
    BY <2>3, <2>4
  <2> QED BY <1>1, <2>1, <2>5 DEF GInv
<1>7. CASE Merge
  <2>1. /\ pc = "merge" /\ pc' \in {"merge", "crashed"} /\ q' = q /\ db' = db
        /\ ocol_cnt' = ocol_cnt
    BY <1>7 DEF Merge, CloseGroup
  <2>2. q \in Queries /\ Merging
    BY <1>1, <2>1 DEF SInv
  <2>3. Whole' = Whole /\ gkeys(q)' = gkeys(q)
    BY <2>1, WholeStays
  <2>4. ASSUME pc' = "merge", ~ q.all, NEW rows, rows = Whole.rows, Comparable(gkeys(q), rows)
        PROVE  \E f, n : Merges(rows, f, n)'
    <3>1. PICK f, n : Merges(rows, f, n)
      BY <2>1, <2>4 DEF GInv
    <3>2. Merges(rows, f, n)'
      BY <1>7, <2>2, <2>4, <3>1, MergeGroups
    <3> QED BY <3>2
  <2>5. pc' = "merge" /\ ~ q.all => (\A rows \in {Whole.rows} :
          Comparable(gkeys(q), rows) => \E f, n : Merges(rows, f, n))'
    BY <2>3, <2>4
  <2> QED BY <1>1, <2>1, <2>5 DEF GInv
<1>8. CASE MergeLast
  <2>1. /\ pc = "merge" /\ pc' \in {"collect", "crashed"} /\ q' = q /\ db' = db
        /\ ocol_cnt' = ocol_cnt
    BY <1>8 DEF MergeLast, CloseGroup
  <2>2. q \in Queries /\ Merging
    BY <1>1, <2>1 DEF SInv
  <2>3. Whole' = Whole /\ gkeys(q)' = gkeys(q)
    BY <2>1, WholeStays
  <2>4. ASSUME pc' = "collect", ~ q.all, NEW rows, rows = Whole.rows, Comparable(gkeys(q), rows)
        PROVE  \E f, n : AllStand(rows, f, n)'
    <3>1. PICK f, n : Merges(rows, f, n)
      BY <2>1, <2>4 DEF GInv
    <3>2. AllStand(rows, f, n)'
      BY <1>8, <2>2, <2>4, <3>1, MergeLastGroups
    <3> QED BY <3>2
  <2>5. pc' = "collect" /\ ~ q.all => (\A rows \in {Whole.rows} :
          Comparable(gkeys(q), rows) => \E f, n : AllStand(rows, f, n))'
    BY <2>3, <2>4
  <2> QED BY <1>1, <2>1, <2>5 DEF GInv
<1>9. CASE Collect
  <2>1. pc' \in {"idle", "crashed"}
    BY <1>9 DEF Collect
  <2> QED BY <1>2, <2>1
<1>10. CASE Restart
  <2>1. pc' = "idle"
    BY <1>10 DEF Restart
  <2> QED BY <1>2, <2>1
<1>11. CASE UNCHANGED vars
  <2>1. UNCHANGED <<db, q, pc, recs, ocol_cnt, beg, end>>
    BY <1>11 DEF vars
  <2>2. Whole' = Whole /\ gkeys(q)' = gkeys(q)
    BY <2>1, WholeStays
  <2>3. \A rows, f, n, h, e : Stands(rows, f, n, h, e) => Stands(rows, f, n, h, e)'
    BY <2>1, StandsStays
  <2>4. \A rows, f, n : Lines(rows, f, n) => Lines(rows, f, n)'
    BY <2>1, <2>2 DEF Lines
  <2>5. \A rows, f, n : Merges(rows, f, n) => Merges(rows, f, n)'
    BY <2>1, <2>2, <2>3, <2>4 DEF Merges
  <2>6. \A rows, f, n : AllStand(rows, f, n) => AllStand(rows, f, n)'
    BY <2>1, <2>2, <2>3, <2>4 DEF AllStand
  <2> QED BY <1>1, <2>1, <2>2, <2>5, <2>6 DEF GInv
<1> QED BY <1>3, <1>4, <1>5, <1>6, <1>7, <1>8, <1>9, <1>10, <1>11 DEF Next, Thread

\* After merge_agr the records next leads to are one for each value of GROUP BY,
\* each with the sums and counts of the rows that have this value, for every
\* database, statement and order qsort gives equal records, when the values of
\* a column grouped by are of one kind (cmp_g, merge_agr, do_select).
THEOREM GroupsMerged == Spec => []GroupsExact
<1>1. Spec => Init /\ [][Next]_vars
  BY DEF Spec
<1>2. GInv => GroupsExact
  <2> SUFFICES ASSUME GInv, pc = "collect", q.group # <<>>, ~ q.all,
                      NEW rows, rows = Whole.rows, Comparable(gkeys(q), rows)
               PROVE  GroupsOf(rows)
    BY DEF GroupsExact
  <2>1. q \in Queries
    BY DEF GInv, OInv
  <2>2. PICK f, n : AllStand(rows, f, n)
    BY DEF GInv
  <2>3. /\ n \in Nat /\ Len(rows) = n /\ Of(recs, n) /\ Permutes(f, n)
        /\ Ordered(gkeys(q), Lined(rows, f, n), n)
        /\ \A h \in Heads(gkeys(q), Lined(rows, f, n), n) : \E e : Stands(rows, f, n, h, e)
    BY <2>2 DEF AllStand, Lines
  <2>4. Len(recs) = n
    BY <2>3, OfLen
  <2> QED BY <2>1, <2>3, <2>4, GroupsStand
<1> QED BY <1>1, <1>2, GroupInit, GroupStep, PTL

=============================================================================
