----------------------------- MODULE EvalProofs -----------------------------
(***************************************************************************)
(* Comparisons of any values: whole numbers that are rounded to floats     *)
(* before they are compared, texts in the order of strcmp and dates that   *)
(* lack fields.  Rounding is monotone within one spacing of the floats     *)
(* and from one spacing to the next, so a comparison may call two numbers  *)
(* equal but never puts them in the wrong order; texts are ordered by      *)
(* their first difference.  What the evaluator answers is then taken apart *)
(* down to those orders.                                                   *)
(*                                                                         *)
(* Patterns of any length on texts of any length: match_here is a function *)
(* that recurses from the end of the pattern, and an atom that it reads    *)
(* wrongly would have one behind it that it reads wrongly.                 *)
(***************************************************************************)
EXTENDS Eval, FiniteSetTheorems, SequenceTheorems, WellFoundedInduction, TLAPS

\* How div cuts a number into multiples of q and a rest.
LEMMA Division ==
  ASSUME NEW n \in Nat, NEW q \in Nat \ {0}
  PROVE  /\ n \div q \in Nat
         /\ (n \div q) * q <= n
         /\ n < (n \div q) * q + q
  OBVIOUS

\* Multiplication keeps the order of the factors.
LEMMA Products ==
  ASSUME NEW a \in Nat, NEW b \in Nat, NEW q \in Nat
  PROVE  /\ a * q \in Nat
         /\ a <= b => a * q <= b * q
         /\ a < b => a * q + q <= b * q
         /\ a * q < b * q => a < b
  OBVIOUS

\* The spacing around n is the one whose floats n is among.
LEMMA Spacing ==
  ASSUME NEW n \in Nat, n <= Largest
  PROVE  /\ Quantum(n) \in {1} \cup Spacings
         /\ n < Quantum(n) * Mantissa
         /\ Quantum(n) # 1 => (Quantum(n) \div 2) * Mantissa <= n
<1>1. Abs(n) = n
  BY DEF Abs
<1>2. CASE n < Mantissa
  BY <1>1, <1>2, MantissaAssumption DEF Quantum
<1>3. CASE ~ (n < Mantissa)
  <2>1. \E q \in Spacings : n < q * Mantissa /\ (q \div 2) * Mantissa <= n
    BY <1>3, MantissaAssumption DEF Largest, Spacings
  <2>2. Quantum(n) = CHOOSE q \in Spacings :
                       n < q * Mantissa /\ (q \div 2) * Mantissa <= n
    BY <1>1, <1>3 DEF Quantum
  <2>3. /\ Quantum(n) \in Spacings
        /\ n < Quantum(n) * Mantissa /\ (Quantum(n) \div 2) * Mantissa <= n
    BY <2>1, <2>2
  <2> QED BY <2>3
<1> QED BY <1>2, <1>3

\* Of two spacings the larger is at least twice the smaller.
LEMMA Doubling ==
  ASSUME NEW p \in {1} \cup Spacings, NEW q \in {1} \cup Spacings, p < q
  PROVE  /\ p \in Nat \ {0} /\ q \in Nat \ {0}
         /\ q \div 2 \in Nat \ {0}
         /\ q = 2 * (q \div 2)
         /\ p <= q \div 2
  BY DEF Spacings

\* Rounding stays between the two multiples around the number.
LEMMA NearestBounds ==
  ASSUME NEW n \in Nat, NEW q \in Nat \ {0}
  PROVE  /\ Nearest(n, q) \in Nat
         /\ (n \div q) * q <= Nearest(n, q)
         /\ Nearest(n, q) <= (n \div q) * q + q
<1> DEFINE low == (n \div q) * q
<1>1. low \in Nat
  BY Division, Products
<1>2. Nearest(n, q) = low \/ Nearest(n, q) = low + q
  BY DEF Nearest
<1>3. Nearest(n, q) \in Nat /\ low <= Nearest(n, q) /\ Nearest(n, q) <= low + q
  <2> HIDE DEF low
  <2> QED BY <1>1, <1>2
<1> QED BY <1>3

\* Among floats with one spacing rounding keeps the order: of two numbers
\* between the same floats the larger is not rounded down when the smaller
\* is rounded up.
LEMMA NearestGrows ==
  ASSUME NEW a \in Nat, NEW b \in Nat, a <= b, NEW q \in Nat \ {0}
  PROVE  Nearest(a, q) <= Nearest(b, q)
<1> DEFINE k == a \div q
           l == b \div q
<1>1. /\ k \in Nat /\ k * q <= a /\ a < k * q + q
      /\ l \in Nat /\ l * q <= b /\ b < l * q + q
  BY Division
<1>2. k * q \in Nat /\ l * q \in Nat
  BY <1>1, Products
<1>3. k <= l
  <2>1. l < k => l * q + q <= k * q
    BY <1>1, Products
  <2> QED BY <1>1, <1>2, <2>1
<1>4. CASE k = l
  <2>1. /\ Nearest(a, q) = IF 2 * (a - k * q) > q \/ (2 * (a - k * q) = q /\ k % 2 = 1)
                           THEN k * q + q ELSE k * q
        /\ Nearest(b, q) = IF 2 * (b - k * q) > q \/ (2 * (b - k * q) = q /\ k % 2 = 1)
                           THEN k * q + q ELSE k * q
    BY <1>4 DEF Nearest
  <2>2. PICK low \in Nat : low = k * q
    BY <1>2
  <2>3. PICK odd \in BOOLEAN : odd = (k % 2 = 1)
    OBVIOUS
  <2> HIDE DEF k
  <2>4. /\ Nearest(a, q) = IF 2 * (a - low) > q \/ (2 * (a - low) = q /\ odd)
                           THEN low + q ELSE low
        /\ Nearest(b, q) = IF 2 * (b - low) > q \/ (2 * (b - low) = q /\ odd)
                           THEN low + q ELSE low
    BY <2>1, <2>2, <2>3
  <2> QED BY <2>4
<1>5. CASE k < l
  <2>1. Nearest(a, q) <= k * q + q /\ Nearest(a, q) \in Nat
    BY NearestBounds
  <2>2. k * q + q <= l * q
    BY <1>1, <1>5, Products
  <2>3. l * q <= Nearest(b, q) /\ Nearest(b, q) \in Nat
    BY NearestBounds
  <2> HIDE DEF k, l
  <2> QED BY <1>2, <2>1, <2>2, <2>3
<1> QED BY <1>1, <1>3, <1>4, <1>5

\* Where the spacing changes rounding keeps the order, because the number it
\* changes at is a float of both spacings: this is what Mantissa is even for.
LEMMA NearestAcross ==
  ASSUME NEW a \in Nat, NEW b \in Nat, a <= b,
         NEW p \in {1} \cup Spacings, NEW q \in {1} \cup Spacings, p < q,
         a < p * Mantissa, (q \div 2) * Mantissa <= b
  PROVE  Nearest(a, p) <= Nearest(b, q)
<1>1. /\ p \in Nat \ {0} /\ q \in Nat \ {0}
      /\ q \div 2 \in Nat \ {0} /\ q = 2 * (q \div 2) /\ p <= q \div 2
  BY Doubling
<1>2. PICK h \in Nat : h = q \div 2
  BY <1>1
<1>3. PICK K \in Nat : Mantissa = 2 * K
  <2>1. Mantissa \div 2 \in Nat /\ Mantissa = 2 * (Mantissa \div 2)
    BY MantissaAssumption
  <2> QED BY <2>1
<1> DEFINE k == a \div p
           l == b \div q
<1>4. /\ k \in Nat /\ k * p <= a /\ a < k * p + p
      /\ l \in Nat /\ l * q <= b /\ b < l * q + q
  BY <1>1, Division
<1>5. k < Mantissa
  <2>1. k * p < Mantissa * p
    <3>1. k * p \in Nat /\ p * Mantissa = Mantissa * p /\ Mantissa * p \in Nat
      BY <1>1, <1>4, MantissaAssumption
    <3> HIDE DEF k
    <3> QED BY <1>4, <3>1
  <2> QED BY <1>1, <1>4, <2>1, Products, MantissaAssumption
<1>6. Nearest(a, p) <= Mantissa * p
  <2>1. k * p + p <= Mantissa * p
    BY <1>1, <1>4, <1>5, Products, MantissaAssumption
  <2>2. Nearest(a, p) <= k * p + p /\ Nearest(a, p) \in Nat
    BY <1>1, NearestBounds
  <2>3. k * p \in Nat /\ Mantissa * p \in Nat
    BY <1>1, <1>4, MantissaAssumption
  <2> HIDE DEF k
  <2> QED BY <1>1, <2>1, <2>2, <2>3
<1>7. Mantissa * p <= Mantissa * h
  BY <1>1, <1>2, MantissaAssumption
<1>8. K <= l
  <2>1. K * q = h * Mantissa
    BY <1>1, <1>2, <1>3
  <2>2. K * q < l * q + q
    BY <1>1, <1>2, <1>3, <1>4, <2>1
  <2>3. l + 1 \in Nat /\ (l + 1) * q = l * q + q
    <3> HIDE DEF l
    <3> QED BY <1>1, <1>4
  <2>4. K < l + 1
    BY <1>1, <2>2, <2>3, Products
  <2> HIDE DEF l
  <2> QED BY <1>4, <2>4
<1>9. Mantissa * h <= l * q
  <2>1. K * q <= l * q
    BY <1>1, <1>4, <1>8, Products
  <2>2. Mantissa * h = K * q
    BY <1>1, <1>2, <1>3
  <2> QED BY <2>1, <2>2
<1>10. l * q <= Nearest(b, q) /\ Nearest(b, q) \in Nat /\ Nearest(a, p) \in Nat
  BY <1>1, NearestBounds
<1>11. Mantissa * p \in Nat /\ Mantissa * h \in Nat /\ l * q \in Nat
  BY <1>1, <1>4, MantissaAssumption
<1> HIDE DEF l, k
<1> QED BY <1>6, <1>7, <1>9, <1>10, <1>11

-----------------------------------------------------------------------------
\* The spacing does not depend on the sign.
LEMMA QuantumOfAbs ==
  ASSUME NEW a \in Int, NEW b \in Int, Abs(a) = Abs(b)
  PROVE  Quantum(a) = Quantum(b)
<1> DEFINE Q(m) == IF m < Mantissa THEN 1
                   ELSE CHOOSE q \in Spacings :
                          m < q * Mantissa /\ (q \div 2) * Mantissa <= m
<1>1. Quantum(a) = Q(Abs(a)) /\ Quantum(b) = Q(Abs(b))
  BY Zenon DEF Quantum
<1> HIDE DEF Q
<1> QED BY <1>1

\* Larger numbers are no closer to their floats.
LEMMA QuantumGrows ==
  ASSUME NEW a \in Nat, NEW b \in Nat, a <= b, b <= Largest
  PROVE  Quantum(a) <= Quantum(b)
<1>0. a <= Largest
  BY MantissaAssumption DEF Largest
<1>1. PICK p \in {1} \cup Spacings : p = Quantum(a)
  BY <1>0, Spacing
<1>2. PICK q \in {1} \cup Spacings : q = Quantum(b)
  BY Spacing
<1>3. b < q * Mantissa /\ (p # 1 => (p \div 2) * Mantissa <= a)
  BY <1>0, <1>1, <1>2, Spacing
<1>4. ASSUME q < p PROVE FALSE
  <2>1. q \in Nat \ {0} /\ p \in Nat \ {0} /\ p \div 2 \in Nat /\ q <= p \div 2
    BY <1>4, Doubling
  <2>2. PICK h \in Nat : h = p \div 2
    BY <2>1
  <2>3. q * Mantissa <= h * Mantissa
    BY <2>1, <2>2, Products, MantissaAssumption
  <2>4. q * Mantissa \in Nat /\ h * Mantissa \in Nat
    BY <2>1, <2>2, MantissaAssumption
  <2>5. h * Mantissa <= a
    BY <1>3, <1>4, <2>1, <2>2
  <2> QED BY <1>3, <2>3, <2>4, <2>5
<1>5. p \in Nat /\ q \in Nat
  BY DEF Spacings
<1> QED BY <1>1, <1>2, <1>4, <1>5

\* Rounding keeps the order of natural numbers.
LEMMA RoundedNat ==
  ASSUME NEW a \in Nat, NEW b \in Nat, a <= b, b <= Largest
  PROVE  /\ Rounded(a) \in Nat /\ Rounded(b) \in Nat
         /\ Rounded(a) <= Rounded(b)
<1>0. a <= Largest
  BY MantissaAssumption DEF Largest
<1>1. PICK p \in {1} \cup Spacings : p = Quantum(a)
  BY <1>0, Spacing
<1>2. PICK q \in {1} \cup Spacings : q = Quantum(b)
  BY Spacing
<1>3. p \in Nat \ {0} /\ q \in Nat \ {0}
  BY DEF Spacings
<1>4. Rounded(a) = Nearest(a, p) /\ Rounded(b) = Nearest(b, q)
  BY <1>1, <1>2 DEF Rounded
<1>5. p <= q
  BY <1>1, <1>2, QuantumGrows
<1>6. CASE p = q
  BY <1>3, <1>4, <1>6, NearestGrows, NearestBounds
<1>7. CASE p < q
  <2>1. a < p * Mantissa
    BY <1>0, <1>1, Spacing
  <2>2. (q \div 2) * Mantissa <= b
    BY <1>2, <1>3, <1>7, Spacing
  <2>3. Nearest(a, p) <= Nearest(b, q)
    BY <1>7, <2>1, <2>2, NearestAcross
  <2> QED BY <1>3, <1>4, <2>3, NearestBounds
<1> QED BY <1>3, <1>5, <1>6, <1>7

\* A float is not rounded.
LEMMA NearestFloat ==
  ASSUME NEW k \in Nat, NEW q \in Nat \ {0}
  PROVE  Nearest(k * q, q) = k * q
<1>1. k * q \in Nat /\ (k * q) \div q = k
  <2>1. PICK m \in Nat : m = k * q
    OBVIOUS
  <2>2. PICK l \in Nat : l = m \div q
    BY <2>1, Division
  <2>3. l * q <= m /\ m < l * q + q
    BY <2>2, Division
  <2>4. l <= k
    <3>1. k < l => k * q + q <= l * q
      BY Products
    <3>2. l * q \in Nat
      BY Products
    <3> QED BY <2>1, <2>3, <3>1, <3>2
  <2>5. k <= l
    <3>1. l < k => l * q + q <= k * q
      BY Products
    <3>2. l * q \in Nat
      BY Products
    <3> QED BY <2>1, <2>3, <3>1, <3>2
  <2> QED BY <2>1, <2>2, <2>4, <2>5
<1>2. Nearest(k * q, q) =
        IF 2 * (k * q - k * q) > q \/ (2 * (k * q - k * q) = q /\ k % 2 = 1)
        THEN k * q + q ELSE k * q
  BY <1>1 DEF Nearest
<1>3. PICK m \in Nat : m = k * q
  BY <1>1
<1>4. ~ (2 * (m - m) > q) /\ 2 * (m - m) # q
  OBVIOUS
<1> QED BY <1>2, <1>3, <1>4

\* Up to 2^24 every whole number is a float.
LEMMA RoundedExact ==
  ASSUME NEW n \in Wholes, Abs(n) <= Mantissa
  PROVE  Rounded(n) = n
<1>0. Mantissa \in Nat /\ Mantissa >= 2
  BY MantissaAssumption
<1>1. ASSUME NEW m \in Nat, m <= Mantissa
      PROVE  Nearest(m, Quantum(m)) = m
  <2>0. Abs(m) = m
    BY DEF Abs
  <2>1. CASE m < Mantissa
    <3>1. Quantum(m) = 1
      BY <2>0, <2>1 DEF Quantum
    <3>2. PICK q \in Nat \ {0} : q = 1
      OBVIOUS
    <3>3. Nearest(m * q, q) = m * q
      BY NearestFloat
    <3>4. m * q = m
      BY <3>2
    <3> QED BY <3>1, <3>2, <3>3, <3>4
  <2>2. CASE m = Mantissa
    <3>1. m <= Largest
      BY <1>0, <2>2 DEF Largest
    <3>2. PICK q \in {1} \cup Spacings : q = Quantum(m)
      BY <3>1, Spacing
    <3>3. m < q * Mantissa /\ (q # 1 => (q \div 2) * Mantissa <= m)
      BY <3>1, <3>2, Spacing
    <3>4. q = 2
      BY <1>0, <2>2, <3>3 DEF Spacings
    <3>5. Mantissa \div 2 \in Nat /\ Mantissa = (Mantissa \div 2) * 2
      BY MantissaAssumption
    <3>6. PICK K \in Nat : m = K * 2
      BY <2>2, <3>5
    <3>7. Nearest(K * 2, 2) = K * 2
      BY NearestFloat
    <3> QED BY <3>2, <3>4, <3>6, <3>7
  <2> QED BY <1>0, <1>1, <2>1, <2>2
<1>2. n \in Int
  BY <1>0 DEF Wholes, Largest
<1>3. CASE n < 0
  <2>1. -n \in Nat /\ -n <= Mantissa
    BY <1>0, <1>2, <1>3 DEF Abs
  <2>2. Abs(n) = -n /\ Abs(-n) = -n
    BY <1>2, <1>3 DEF Abs
  <2>3. Quantum(n) = Quantum(-n)
    BY <1>2, <2>2, QuantumOfAbs
  <2>4. Nearest(-n, Quantum(-n)) = -n
    BY <1>1, <2>1
  <2>5. Rounded(n) = -Nearest(-n, Quantum(n))
    BY <1>3 DEF Rounded
  <2> QED BY <1>2, <2>3, <2>4, <2>5
<1>4. CASE ~ (n < 0)
  <2>1. n \in Nat /\ n <= Mantissa
    BY <1>0, <1>2, <1>4 DEF Abs
  <2> QED BY <1>1, <1>4, <2>1 DEF Rounded
<1> QED BY <1>3, <1>4

\* A number and its negative are rounded alike.
LEMMA RoundedOdd ==
  ASSUME NEW n \in Nat
  PROVE  n # 0 => Rounded(-n) = -Rounded(n)
<1>1. Abs(n) = n /\ Abs(-n) = n
  BY DEF Abs
<1>2. Quantum(-n) = Quantum(n)
  BY <1>1, QuantumOfAbs
<1> QED BY <1>2 DEF Rounded

\* Rounding keeps the order of all whole numbers.
LEMMA RoundedGrows ==
  ASSUME NEW a \in Wholes, NEW b \in Wholes, a <= b
  PROVE  Rounded(a) \in Int /\ Rounded(b) \in Int /\ Rounded(a) <= Rounded(b)
<1>0. Largest \in Nat /\ a \in Int /\ b \in Int /\ -Largest <= a /\ b <= Largest
  BY MantissaAssumption DEF Wholes, Largest
<1>1. CASE 0 <= a
  <2>1. a \in Nat /\ b \in Nat
    BY <1>0, <1>1
  <2> QED BY <1>0, <2>1, RoundedNat
<1>2. CASE a < 0 /\ 0 <= b
  <2>1. PICK m \in Nat : a = -m /\ m # 0
    <3>1. -a \in Nat /\ a = -(-a)
      BY <1>0, <1>2
    <3> QED BY <1>2, <3>1
  <2>2. m <= Largest /\ b \in Nat
    BY <1>0, <1>2, <2>1
  <2>3. Rounded(m) \in Nat
    BY <2>2, RoundedNat
  <2>4. Rounded(b) \in Nat
    BY <1>0, <2>2, RoundedNat
  <2>5. Rounded(a) = -Rounded(m)
    BY <2>1, RoundedOdd
  <2> QED BY <2>3, <2>4, <2>5
<1>3. CASE b < 0
  <2>1. PICK m \in Nat : a = -m /\ m # 0
    <3>1. -a \in Nat /\ a = -(-a) /\ -a # 0
      BY <1>0, <1>3
    <3> QED BY <3>1
  <2>2. PICK k \in Nat : b = -k /\ k # 0
    <3>1. -b \in Nat /\ b = -(-b) /\ -b # 0
      BY <1>0, <1>3
    <3> QED BY <3>1
  <2>3. k <= m /\ m <= Largest
    BY <1>0, <2>1, <2>2
  <2>4. Rounded(k) \in Nat /\ Rounded(m) \in Nat /\ Rounded(k) <= Rounded(m)
    BY <2>3, RoundedNat
  <2>5. Rounded(a) = -Rounded(m) /\ Rounded(b) = -Rounded(k)
    BY <2>1, <2>2, RoundedOdd
  <2> QED BY <2>4, <2>5
<1> QED BY <1>0, <1>1, <1>2, <1>3

\* Rounding keeps the sign, and only 0 becomes 0.
LEMMA RoundedSign ==
  ASSUME NEW n \in Wholes
  PROVE  /\ (Rounded(n) > 0) <=> (n > 0)
         /\ (Rounded(n) = 0) <=> (n = 0)
<1>0. Mantissa >= 2 /\ Mantissa \in Nat
  BY MantissaAssumption
<1>1. {-1, 0, 1} \subseteq Wholes /\ n \in Int
  BY <1>0 DEF Wholes, Largest
<1>2. Rounded(-1) = -1 /\ Rounded(0) = 0 /\ Rounded(1) = 1
  <2>1. Abs(-1) <= Mantissa /\ Abs(0) <= Mantissa /\ Abs(1) <= Mantissa
    BY <1>0 DEF Abs
  <2> QED BY <1>1, <2>1, RoundedExact
<1>3. n >= 1 => Rounded(n) >= 1 /\ Rounded(n) \in Int
  <2>1. 1 \in Wholes
    BY <1>1
  <2>2. 1 <= n => Rounded(1) <= Rounded(n) /\ Rounded(n) \in Int
    BY <2>1, RoundedGrows
  <2> QED BY <1>1, <1>2, <2>2
<1>4. n <= -1 => Rounded(n) <= -1 /\ Rounded(n) \in Int
  <2>1. -1 \in Wholes
    BY <1>1
  <2>2. n <= -1 => Rounded(n) <= Rounded(-1) /\ Rounded(n) \in Int
    BY <2>1, RoundedGrows
  <2> QED BY <1>2, <2>2
<1> QED BY <1>1, <1>2, <1>3, <1>4

-----------------------------------------------------------------------------
\* A set of numbers has a least member.
LEMMA Least ==
  ASSUME NEW T, T \subseteq Nat, T # {} PROVE \E m \in T : \A x \in T : m <= x
<1>1. PICK m \in T : \A x \in T : ~ (<<x, m>> \in OpToRel(<, Nat))
  BY NatLessThanWellFounded, WFMin
<1>2. \A x \in T : ~ (x < m)
  BY <1>1 DEF OpToRel
<1> QED BY <1>2

\* Two texts that differ are ordered, by their first difference.
LEMMA TextsDiffer ==
  ASSUME NEW s \in Seq(Int), NEW t \in Seq(Int), s # t
  PROVE  strcmp_lt(s, t) \/ strcmp_lt(t, s)
<1> DEFINE T == {i \in 1 .. Len(s) + 1 : \/ i = Len(s) + 1
                                         \/ i = Len(t) + 1
                                         \/ i <= Len(t) /\ s[i] # t[i]}
<1>1. T \subseteq Nat /\ Len(s) + 1 \in T
  OBVIOUS
<1>2. PICK i \in T : \A x \in T : i <= x
  <2> HIDE DEF T
  <2> QED BY <1>1, Least
<1>3. i \in 1 .. Len(s) + 1
  OBVIOUS
<1>4. \A j \in 1 .. i - 1 : j <= Len(s) /\ j <= Len(t) /\ s[j] = t[j]
  <2>1. ASSUME NEW j \in 1 .. i - 1 PROVE j \notin T /\ j \in 1 .. Len(s)
    BY <1>2, <1>3
  <2>2. ASSUME NEW j \in Nat, 1 <= j, j <= i - 1, ~ (j <= Len(t)) PROVE FALSE
    <3>1. Len(t) + 1 \in 1 .. i - 1
      BY <1>3, <2>2
    <3> QED BY <2>1, <3>1
  <2>3. \A j \in 1 .. i - 1 : j <= Len(t)
    BY <1>3, <2>2
  <2> QED BY <2>1, <2>3
<1>5. i <= Len(t) + 1
  <2>1. CASE i = 1
    BY <2>1
  <2>2. CASE i # 1
    <3>1. i - 1 \in 1 .. i - 1
      BY <1>3, <2>2
    <3> QED BY <1>3, <1>4, <3>1
  <2> QED BY <2>1, <2>2
<1>6. CASE i = Len(s) + 1 /\ i = Len(t) + 1
  <2>1. Len(s) = Len(t) /\ \A j \in 1 .. Len(s) : s[j] = t[j]
    BY <1>4, <1>6
  <2>2. s = t
    BY <2>1, SeqEqual
  <2> QED BY <2>2
<1>7. CASE i = Len(s) + 1 /\ i # Len(t) + 1
  <2>1. i \in 1 .. Len(t)
    BY <1>3, <1>5, <1>7
  <2>2. strcmp_lt(s, t)
    <3>1. /\ i <= Len(s) + 1
          /\ \A j \in 1 .. i - 1 : s[j] = t[j]
          /\ i = Len(s) + 1 \/ s[i] < t[i]
      BY <1>3, <1>4, <1>7
    <3> HIDE DEF T
    <3> QED BY <2>1, <3>1 DEF strcmp_lt
  <2> QED BY <2>2
<1>8. CASE i # Len(s) + 1 /\ i = Len(t) + 1
  <2>1. i \in 1 .. Len(s)
    BY <1>3, <1>8
  <2> QED BY <1>4, <1>8, <2>1 DEF strcmp_lt
<1>9. CASE i # Len(s) + 1 /\ i # Len(t) + 1
  <2>1. i \in 1 .. Len(s) /\ i \in 1 .. Len(t) /\ s[i] # t[i]
    BY <1>3, <1>5, <1>9
  <2>2. s[i] \in Int /\ t[i] \in Int
    BY <2>1
  <2>3. s[i] < t[i] \/ t[i] < s[i]
    BY <2>1, <2>2
  <2> QED BY <1>4, <2>1, <2>3 DEF strcmp_lt
<1> QED BY <1>6, <1>7, <1>8, <1>9

\* The order of texts is transitive.
LEMMA TextsAfter ==
  ASSUME NEW s \in Seq(Int), NEW t \in Seq(Int), NEW u \in Seq(Int),
         strcmp_lt(s, t), strcmp_lt(t, u)
  PROVE  strcmp_lt(s, u)
<1>1. PICK i \in 1 .. Len(t) : /\ i <= Len(s) + 1
                               /\ \A j \in 1 .. i - 1 : s[j] = t[j]
                               /\ i = Len(s) + 1 \/ s[i] < t[i]
  BY DEF strcmp_lt
<1>2. PICK k \in 1 .. Len(u) : /\ k <= Len(t) + 1
                               /\ \A j \in 1 .. k - 1 : t[j] = u[j]
                               /\ k = Len(t) + 1 \/ t[k] < u[k]
  BY DEF strcmp_lt
<1>3. \A j \in 1 .. Len(s) : s[j] \in Int
  OBVIOUS
<1>4. \A j \in 1 .. Len(t) : t[j] \in Int
  OBVIOUS
<1>5. \A j \in 1 .. Len(u) : u[j] \in Int
  OBVIOUS
<1>6. CASE i < k
  <2>1. i \in 1 .. k - 1 /\ i \in 1 .. Len(u)
    BY <1>6
  <2>2. t[i] = u[i]
    BY <1>2, <2>1
  <2>3. \A j \in 1 .. i - 1 : s[j] = u[j]
    BY <1>1, <1>2, <1>6
  <2> QED BY <1>1, <2>1, <2>2, <2>3 DEF strcmp_lt
<1>7. CASE k < i
  <2>1. k \in 1 .. i - 1 /\ k <= Len(s) + 1 /\ k # Len(t) + 1
    BY <1>1, <1>7
  <2>2. s[k] = t[k] /\ t[k] < u[k]
    BY <1>1, <1>2, <2>1
  <2>3. \A j \in 1 .. k - 1 : s[j] = u[j]
    BY <1>1, <1>2, <1>7
  <2> QED BY <2>1, <2>2, <2>3 DEF strcmp_lt
<1>8. CASE i = k
  <2>1. k # Len(t) + 1 /\ t[k] < u[k]
    BY <1>2, <1>8
  <2>2. i = Len(s) + 1 \/ s[i] < u[i]
    <3>1. CASE i = Len(s) + 1
      BY <3>1
    <3>2. CASE i # Len(s) + 1
      <4>1. s[i] < t[i] /\ i \in 1 .. Len(s) /\ i \in 1 .. Len(t) /\ i \in 1 .. Len(u)
        BY <1>1, <1>8, <3>2
      <4>2. s[i] \in Int /\ t[i] \in Int /\ u[i] \in Int
        BY <1>3, <1>4, <1>5, <4>1
      <4>3. t[i] < u[i]
        BY <1>8, <2>1
      <4> QED BY <4>1, <4>2, <4>3
    <3> QED BY <3>1, <3>2
  <2>3. \A j \in 1 .. i - 1 : s[j] = u[j]
    BY <1>1, <1>2, <1>8
  <2> QED BY <1>1, <1>8, <2>2, <2>3 DEF strcmp_lt
<1> QED BY <1>6, <1>7, <1>8

\* No text is before itself.
LEMMA TextsIrreflexive ==
  ASSUME NEW s \in Seq(Int) PROVE ~ strcmp_lt(s, s)
<1>1. ASSUME NEW i \in 1 .. Len(s), i = Len(s) + 1 \/ s[i] < s[i] PROVE FALSE
  <2>1. s[i] \in Int
    OBVIOUS
  <2> QED BY <1>1, <2>1
<1> QED BY <1>1 DEF strcmp_lt

\* What below and same are for the values of one column: a total preorder.
Sorts(x, y, z) ==
  /\ below(x, y) \/ same(x, y) \/ below(y, x)
  /\ ~ (below(x, y) /\ same(x, y))
  /\ ~ (below(x, y) /\ below(y, x))
  /\ same(x, y) => same(y, x)
  /\ (below(x, y) \/ same(x, y)) /\ (below(y, z) \/ same(y, z)) =>
       below(x, z) \/ same(x, z)

\* Numbers are sorted by their floats,
LEMMA NumbersSort ==
  ASSUME NEW x, NEW y, NEW z, IsNumber(x), IsNumber(y), IsNumber(z),
         get_number(x) \in Int, get_number(y) \in Int, get_number(z) \in Int
  PROVE  Sorts(x, y, z)
<1>1. /\ below(x, y) <=> (get_number(x) < get_number(y))
      /\ below(y, x) <=> (get_number(y) < get_number(x))
      /\ below(y, z) <=> (get_number(y) < get_number(z))
      /\ below(x, z) <=> (get_number(x) < get_number(z))
  BY DEF below
<1>2. /\ same(x, y) <=> (get_number(x) = get_number(y))
      /\ same(y, x) <=> (get_number(y) = get_number(x))
      /\ same(y, z) <=> (get_number(y) = get_number(z))
      /\ same(x, z) <=> (get_number(x) = get_number(z))
  BY DEF same
<1> QED BY <1>1, <1>2 DEF Sorts

\* dates by the time make_datetime gives,
LEMMA DatesSort ==
  ASSUME NEW x, NEW y, NEW z,
         x.type = "DATETIME", y.type = "DATETIME", z.type = "DATETIME",
         make_datetime(x.strval) \in Int, make_datetime(y.strval) \in Int,
         make_datetime(z.strval) \in Int
  PROVE  Sorts(x, y, z)
<1>0. /\ ~ IsNumber(x) /\ ~ IsNumber(y)
      /\ x.type # "STRING" /\ y.type # "STRING"
  BY DEF IsNumber
<1>1. /\ below(x, y) <=> (make_datetime(x.strval) < make_datetime(y.strval))
      /\ below(y, x) <=> (make_datetime(y.strval) < make_datetime(x.strval))
      /\ below(y, z) <=> (make_datetime(y.strval) < make_datetime(z.strval))
      /\ below(x, z) <=> (make_datetime(x.strval) < make_datetime(z.strval))
  BY <1>0 DEF below
<1>2. /\ same(x, y) <=> (make_datetime(x.strval) = make_datetime(y.strval))
      /\ same(y, x) <=> (make_datetime(y.strval) = make_datetime(x.strval))
      /\ same(y, z) <=> (make_datetime(y.strval) = make_datetime(z.strval))
      /\ same(x, z) <=> (make_datetime(x.strval) = make_datetime(z.strval))
  BY <1>0 DEF same
<1> QED BY <1>1, <1>2 DEF Sorts

\* and texts by strcmp.
LEMMA TextsSort ==
  ASSUME NEW x, NEW y, NEW z,
         x.type = "STRING", y.type = "STRING", z.type = "STRING",
         x.strval \in Seq(Int), y.strval \in Seq(Int), z.strval \in Seq(Int)
  PROVE  Sorts(x, y, z)
<1>0. ~ IsNumber(x) /\ ~ IsNumber(y)
  BY DEF IsNumber
<1>1. /\ below(x, y) <=> strcmp_lt(x.strval, y.strval)
      /\ below(y, x) <=> strcmp_lt(y.strval, x.strval)
      /\ below(y, z) <=> strcmp_lt(y.strval, z.strval)
      /\ below(x, z) <=> strcmp_lt(x.strval, z.strval)
  BY <1>0 DEF below
<1>2. /\ same(x, y) <=> (x.strval = y.strval)
      /\ same(y, x) <=> (y.strval = x.strval)
      /\ same(y, z) <=> (y.strval = z.strval)
      /\ same(x, z) <=> (x.strval = z.strval)
  BY <1>0 DEF same
<1>3. \/ strcmp_lt(x.strval, y.strval)
      \/ x.strval = y.strval
      \/ strcmp_lt(y.strval, x.strval)
  BY TextsDiffer
<1>4. ~ strcmp_lt(x.strval, x.strval) /\ ~ strcmp_lt(y.strval, y.strval)
  BY TextsIrreflexive
<1>5. strcmp_lt(x.strval, y.strval) /\ strcmp_lt(y.strval, x.strval) =>
        strcmp_lt(x.strval, x.strval)
  BY TextsAfter
<1>6. strcmp_lt(x.strval, y.strval) /\ strcmp_lt(y.strval, z.strval) =>
        strcmp_lt(x.strval, z.strval)
  BY TextsAfter
<1> QED BY <1>1, <1>2, <1>3, <1>4, <1>5, <1>6, Zenon DEF Sorts

-----------------------------------------------------------------------------
\* One comparison, as AskCompare asks it.
Is(op, l, r) == is_true(eval_compare(op, l, r))

Comparable(l, r) ==
  /\ lazy_expr # l /\ lazy_expr # r
  /\ \/ IsNumber(l) /\ IsNumber(r)
     \/ IsText(l) /\ IsText(r)

PairSound(l, r) ==
  /\ Is("EQ", l, r) \/ Is("LT", l, r) \/ Is("GT", l, r)
  /\ ~ (Is("LT", l, r) /\ (Is("EQ", l, r) \/ Is("GT", l, r)))
  /\ Is("NE", l, r) = ~ Is("EQ", l, r)
  /\ Is("LE", l, r) = ~ Is("GT", l, r)
  /\ Is("GE", l, r) = ~ Is("LT", l, r)
  /\ Is("GT", l, r) = Is("LT", r, l)

\* On two numbers or two texts no comparison is lazy or in error, and each is
\* what compare makes of below and same.
LEMMA Compared ==
  ASSUME NEW l, NEW r, Comparable(l, r)
  PROVE  /\ Is("EQ", l, r) <=> same(l, r)
         /\ Is("NE", l, r) <=> ~ same(l, r)
         /\ Is("LT", l, r) <=> below(l, r)
         /\ Is("GT", l, r) <=> ~ below(l, r) /\ ~ same(l, r)
         /\ Is("LE", l, r) <=> below(l, r) \/ same(l, r)
         /\ Is("GE", l, r) <=> ~ below(l, r)
<1>1. ASSUME NEW op
      PROVE  eval_compare(op, l, r) = Truth(compare(op, below(l, r), same(l, r)))
  BY DEF Comparable, eval_compare
<1>2. ASSUME NEW b PROVE is_true(Truth(b)) <=> b
  BY DEF is_true, Truth, IntNum
<1>3. ASSUME NEW op
      PROVE  Is(op, l, r) <=> compare(op, below(l, r), same(l, r))
  BY <1>1, <1>2 DEF Is
<1>4. /\ compare("EQ", below(l, r), same(l, r)) <=> same(l, r)
      /\ compare("NE", below(l, r), same(l, r)) <=> ~ same(l, r)
      /\ compare("LT", below(l, r), same(l, r)) <=> below(l, r)
      /\ compare("GT", below(l, r), same(l, r)) <=> ~ below(l, r) /\ ~ same(l, r)
      /\ compare("LE", below(l, r), same(l, r)) <=> below(l, r) \/ same(l, r)
      /\ compare("GE", below(l, r), same(l, r)) <=> ~ below(l, r)
  BY DEF compare
<1> QED BY <1>3, <1>4, Zenon

\* Of two values exactly one of <, = and > holds, and the others follow.
LEMMA PairsSound ==
  ASSUME NEW x, NEW y, Comparable(x, y), Comparable(y, x),
         Sorts(x, y, x), Sorts(y, x, y)
  PROVE  PairSound(x, y)
<1>1. /\ Is("EQ", x, y) <=> same(x, y)
      /\ Is("NE", x, y) <=> ~ same(x, y)
      /\ Is("LT", x, y) <=> below(x, y)
      /\ Is("GT", x, y) <=> ~ below(x, y) /\ ~ same(x, y)
      /\ Is("LE", x, y) <=> below(x, y) \/ same(x, y)
      /\ Is("GE", x, y) <=> ~ below(x, y)
      /\ Is("LT", y, x) <=> below(y, x)
  BY Compared
<1>2. /\ below(x, y) \/ same(x, y) \/ below(y, x)
      /\ ~ (below(x, y) /\ same(x, y))
      /\ ~ (below(x, y) /\ below(y, x))
      /\ same(x, y) => same(y, x)
      /\ ~ (below(y, x) /\ same(y, x))
  BY Zenon DEF Sorts
<1>3. \A op \in Comparisons : Is(op, x, y) \in BOOLEAN /\ Is(op, y, x) \in BOOLEAN
  BY DEF Is, is_true
<1>4. {"EQ", "NE", "LT", "GT", "LE", "GE"} = Comparisons
  BY DEF Comparisons
<1>5. /\ Is("NE", x, y) <=> ~ Is("EQ", x, y)
      /\ Is("LE", x, y) <=> ~ Is("GT", x, y)
      /\ Is("GE", x, y) <=> ~ Is("LT", x, y)
      /\ Is("GT", x, y) <=> Is("LT", y, x)
  BY <1>1, <1>2, Zenon
<1>6. /\ Is("NE", x, y) = ~ Is("EQ", x, y)
      /\ Is("LE", x, y) = ~ Is("GT", x, y)
      /\ Is("GE", x, y) = ~ Is("LT", x, y)
      /\ Is("GT", x, y) = Is("LT", y, x)
  BY <1>5 DEF Is, is_true
<1>7. /\ Is("EQ", x, y) \/ Is("LT", x, y) \/ Is("GT", x, y)
      /\ ~ (Is("LT", x, y) /\ (Is("EQ", x, y) \/ Is("GT", x, y)))
  BY <1>1, <1>2, Zenon
<1> QED BY <1>6, <1>7, Zenon DEF PairSound

\* <= is transitive.
LEMMA LeastSound ==
  ASSUME NEW x, NEW y, NEW z, Comparable(x, y), Comparable(y, z),
         Comparable(x, z), Sorts(x, y, z)
  PROVE  Is("LE", x, y) /\ Is("LE", y, z) => Is("LE", x, z)
<1>1. /\ Is("LE", x, y) <=> below(x, y) \/ same(x, y)
      /\ Is("LE", y, z) <=> below(y, z) \/ same(y, z)
      /\ Is("LE", x, z) <=> below(x, z) \/ same(x, z)
  BY Compared
<1> QED BY <1>1, Zenon DEF Sorts

-----------------------------------------------------------------------------
\* The three kinds of families.
Number(x) == /\ x.type = "INTNUM" => x.intval \in Wholes
             /\ x.type = "APPROXNUM" => x.floatval \in Int
             /\ IsNumber(x)

\* get_number gives a whole number and no lazy value.
LEMMA NumberValue ==
  ASSUME NEW x, Number(x) PROVE get_number(x) \in Int /\ lazy_expr # x
<1>1. lazy_expr # x
  BY DEF Number, IsNumber, lazy_expr
<1>2. CASE x.type = "INTNUM"
  <2>1. x.intval \in Wholes /\ x.intval <= x.intval
    BY <1>2, MantissaAssumption DEF Number, Wholes, Largest
  <2>2. Rounded(x.intval) \in Int
    BY <2>1, RoundedGrows
  <2> QED BY <1>1, <1>2, <2>2 DEF get_number
<1>3. CASE x.type = "APPROXNUM"
  BY <1>1, <1>3 DEF Number, get_number
<1> QED BY <1>2, <1>3 DEF Number, IsNumber

\* make_datetime gives a whole number of hours, whatever fields are missing.
LEMMA DateValue ==
  ASSUME NEW s \in Seq(Int) PROVE make_datetime(s) \in Int
<1>1. \A i \in 1 .. Len(s) : s[i] \in Int
  OBVIOUS
<1>2. /\ (IF Len(s) >= 1 THEN s[1] - 1 ELSE 0) \in Int
      /\ (IF Len(s) >= 2 THEN s[2] ELSE 0) \in Int
      /\ (IF Len(s) >= 3 THEN s[3] ELSE 0) \in Int
  BY <1>1
<1> QED BY <1>2, CalendarAssumption DEF make_datetime

\* What is asked of three values that AskCompare picks.
Values(x, y, z) ==
  \/ Number(x) /\ Number(y) /\ Number(z)
  \/ \A v \in {x, y, z} : v.type = "STRING" /\ v.strval \in Seq(Int)
  \/ /\ \A v \in {x, y, z} : v.type = "DATETIME" /\ v.strval \in Seq(Int)
     /\ (make_datetime(y.strval) - make_datetime(x.strval)) * Unit.SECOND \in Wholes

\* What AskCompare picks is of one kind.
LEMMA FamilyValues ==
  ASSUME NEW F \in Families, NEW x \in F, NEW y \in F, NEW z \in F
  PROVE  Values(x, y, z)
<1>1. CASE OfNumbers(F)
  <2>1. ASSUME NEW v \in F PROVE Number(v)
    BY <1>1, <2>1 DEF OfNumbers, Number, IsNumber
  <2> QED BY <2>1 DEF Values
<1>2. CASE OfTexts(F)
  BY <1>2 DEF OfTexts, Values
<1>3. CASE OfDates(F)
  BY <1>3 DEF OfDates, Values
<1> QED BY <1>1, <1>2, <1>3, FamiliesAssumption

\* So below and same sort it, in whatever order the values are taken.
LEMMA ValuesSort ==
  ASSUME NEW x, NEW y, NEW z, Values(x, y, z)
  PROVE  \A u, v, w \in {x, y, z} : Sorts(u, v, w) /\ Comparable(u, v)
<1> SUFFICES ASSUME NEW u \in {x, y, z}, NEW v \in {x, y, z}, NEW w \in {x, y, z}
             PROVE  Sorts(u, v, w) /\ Comparable(u, v)
  OBVIOUS
<1>1. CASE Number(x) /\ Number(y) /\ Number(z)
  <2>1. Number(u) /\ Number(v) /\ Number(w)
    BY <1>1
  <2>2. IsNumber(u) /\ IsNumber(v) /\ IsNumber(w)
    BY <2>1 DEF Number
  <2>3. /\ get_number(u) \in Int /\ lazy_expr # u
        /\ get_number(v) \in Int /\ lazy_expr # v
        /\ get_number(w) \in Int
    BY <2>1, NumberValue
  <2>4. Sorts(u, v, w)
    BY <2>2, <2>3, NumbersSort
  <2> QED BY <2>2, <2>3, <2>4 DEF Comparable
<1>2. CASE \A t \in {x, y, z} : t.type = "STRING" /\ t.strval \in Seq(Int)
  <2>1. Sorts(u, v, w)
    BY <1>2, TextsSort
  <2>2. /\ lazy_expr # u /\ lazy_expr # v
        /\ IsText(u) /\ IsText(v)
    BY <1>2 DEF lazy_expr, IsText
  <2> QED BY <2>1, <2>2 DEF Comparable
<1>3. CASE \A t \in {x, y, z} : t.type = "DATETIME" /\ t.strval \in Seq(Int)
  <2>1. /\ make_datetime(u.strval) \in Int
        /\ make_datetime(v.strval) \in Int
        /\ make_datetime(w.strval) \in Int
    BY <1>3, DateValue
  <2>2. Sorts(u, v, w)
    BY <1>3, <2>1, DatesSort
  <2>3. /\ lazy_expr # u /\ lazy_expr # v
        /\ IsText(u) /\ IsText(v)
    BY <1>3 DEF lazy_expr, IsText
  <2> QED BY <2>2, <2>3 DEF Comparable
<1> QED BY <1>1, <1>2, <1>3 DEF Values

\* Comparing whole numbers as floats never contradicts the numbers.
LEMMA WholesSound ==
  ASSUME NEW x, NEW y, Number(x), Number(y), x.type = "INTNUM", y.type = "INTNUM"
  PROVE  /\ x.intval <= y.intval => Is("LE", x, y)
         /\ Abs(x.intval) <= Mantissa /\ Abs(y.intval) <= Mantissa =>
              (Is("EQ", x, y) <=> (x.intval = y.intval))
<1>1. /\ x.intval \in Wholes /\ y.intval \in Wholes
      /\ IsNumber(x) /\ IsNumber(y)
      /\ get_number(x) = Rounded(x.intval) /\ get_number(y) = Rounded(y.intval)
  BY DEF Number, get_number
<1>2. Comparable(x, y)
  BY <1>1, NumberValue DEF Comparable
<1>3. /\ below(x, y) <=> (Rounded(x.intval) < Rounded(y.intval))
      /\ same(x, y) <=> (Rounded(x.intval) = Rounded(y.intval))
  BY <1>1 DEF below, same
<1>4. x.intval <= y.intval => Is("LE", x, y)
  <2>1. x.intval <= y.intval =>
          /\ Rounded(x.intval) \in Int /\ Rounded(y.intval) \in Int
          /\ Rounded(x.intval) <= Rounded(y.intval)
    BY <1>1, RoundedGrows
  <2>2. x.intval <= y.intval => below(x, y) \/ same(x, y)
    BY <1>3, <2>1
  <2> QED BY <1>2, <2>2, Compared
<1>5. Abs(x.intval) <= Mantissa /\ Abs(y.intval) <= Mantissa =>
        (Is("EQ", x, y) <=> (x.intval = y.intval))
  <2>1. Abs(x.intval) <= Mantissa => Rounded(x.intval) = x.intval
    BY <1>1, RoundedExact
  <2>2. Abs(y.intval) <= Mantissa => Rounded(y.intval) = y.intval
    BY <1>1, RoundedExact
  <2>3. Is("EQ", x, y) <=> same(x, y)
    BY <1>2, Compared
  <2> QED BY <1>3, <2>1, <2>2, <2>3
<1> QED BY <1>4, <1>5

\* The sign of TIMESTAMPDIFF is the order of the two dates.
LEMMA DifferenceSound ==
  ASSUME NEW x, NEW y, x.type = "DATETIME", y.type = "DATETIME",
         x.strval \in Seq(Int), y.strval \in Seq(Int),
         (make_datetime(y.strval) - make_datetime(x.strval)) * Unit.SECOND \in Wholes,
         Comparable(x, y)
  PROVE  /\ (eval_timestampdiff("SECOND", x, y).floatval > 0) <=> Is("LT", x, y)
         /\ (eval_timestampdiff("SECOND", x, y).floatval = 0) <=> Is("EQ", x, y)
<1> DEFINE d == (make_datetime(y.strval) - make_datetime(x.strval)) * Unit.SECOND
<1>1. eval_timestampdiff("SECOND", x, y).floatval = Rounded(d)
  BY DEF eval_timestampdiff, IsText, Approx, Unit
<1>2. (Rounded(d) > 0 <=> d > 0) /\ (Rounded(d) = 0 <=> d = 0)
  BY RoundedSign
<1>3. make_datetime(x.strval) \in Int /\ make_datetime(y.strval) \in Int
  BY DateValue
<1>4. /\ (d > 0) <=> (make_datetime(x.strval) < make_datetime(y.strval))
      /\ (d = 0) <=> (make_datetime(x.strval) = make_datetime(y.strval))
  BY <1>3 DEF Unit
<1>5. /\ below(x, y) <=> (make_datetime(x.strval) < make_datetime(y.strval))
      /\ same(x, y) <=> (make_datetime(x.strval) = make_datetime(y.strval))
  BY DEF below, same, IsNumber
<1>6. (Is("LT", x, y) <=> below(x, y)) /\ (Is("EQ", x, y) <=> same(x, y))
  BY Compared
<1> HIDE DEF d
<1> QED BY <1>1, <1>2, <1>4, <1>5, <1>6

\* What IN finds equals the value, as = sees it.
LEMMA ListedSame ==
  ASSUME NEW x, NEW y, Listed(x, y), x.type # "STRING", Comparable(x, y)
  PROVE  Is("EQ", x, y)
<1>1. same(x, y)
  BY DEF Listed, same, Comparable, IsNumber, IsText, get_number
<1> QED BY <1>1, Compared

\* is_in_val_list answers true only for a value it found.
LEMMA FoundSound ==
  ASSUME NEW x, NEW y, NEW z,
         \A v \in {x, y, z} : v.type \notin {"ERROR", "TRAP"},
         is_true(is_in_val_list(x, <<y, z>>))
  PROVE  Listed(x, y) \/ Listed(x, z)
<1> DEFINE list == <<y, z>>
           stops == {i \in 1 .. Len(list) :
                       list[i].type \in {"ERROR", "TRAP"} \/ Listed(x, list[i])}
           first == CHOOSE i \in stops : \A j \in stops : i <= j
<1>1. ~ is_true(Truth(FALSE))
  BY DEF is_true, Truth, IntNum
<1>2. is_in_val_list(x, list) =
        IF stops = {} THEN Truth(FALSE)
        ELSE IF Listed(x, list[first]) THEN Truth(TRUE) ELSE list[first]
  BY Zenon DEF is_in_val_list, is_error
<1>3. stops # {}
  BY <1>1, <1>2
<1>4. \A i \in stops : (i = 1 /\ Listed(x, y)) \/ (i = 2 /\ Listed(x, z))
  OBVIOUS
<1> QED BY <1>3, <1>4

-----------------------------------------------------------------------------
\* CompareSound for the answers AskCompare gives to x, y and z.
LEMMA AnswersSound ==
  ASSUME NEW x, NEW y, NEW z, Values(x, y, z)
  PROVE  /\ \A u, v \in {x, y, z} : PairSound(u, v)
         /\ Is("LE", x, y) /\ Is("LE", y, z) => Is("LE", x, z)
         /\ x.type = "INTNUM" /\ y.type = "INTNUM" =>
              /\ x.intval <= y.intval => Is("LE", x, y)
              /\ Abs(x.intval) <= Mantissa /\ Abs(y.intval) <= Mantissa =>
                   (Is("EQ", x, y) <=> (x.intval = y.intval))
         /\ is_true(is_in_val_list(x, <<y, z>>)) /\ x.type # "STRING" =>
              Is("EQ", x, y) \/ Is("EQ", x, z)
         /\ x.type = "DATETIME" =>
              /\ (eval_timestampdiff("SECOND", x, y).floatval > 0) <=> Is("LT", x, y)
              /\ (eval_timestampdiff("SECOND", x, y).floatval = 0) <=> Is("EQ", x, y)
<1>1. \A u, v, w \in {x, y, z} : Sorts(u, v, w) /\ Comparable(u, v)
  BY ValuesSort
<1>2. \A u, v \in {x, y, z} : PairSound(u, v)
  BY <1>1, PairsSound
<1>3. Is("LE", x, y) /\ Is("LE", y, z) => Is("LE", x, z)
  BY <1>1, LeastSound
<1>4. ASSUME x.type = "INTNUM", y.type = "INTNUM"
      PROVE  /\ x.intval <= y.intval => Is("LE", x, y)
             /\ Abs(x.intval) <= Mantissa /\ Abs(y.intval) <= Mantissa =>
                  (Is("EQ", x, y) <=> (x.intval = y.intval))
  <2>1. Number(x) /\ Number(y)
    BY <1>4 DEF Values
  <2> QED BY <1>4, <2>1, WholesSound, Zenon
<1>5. ASSUME is_true(is_in_val_list(x, <<y, z>>)), x.type # "STRING"
      PROVE  Is("EQ", x, y) \/ Is("EQ", x, z)
  <2>1. \A v \in {x, y, z} : v.type \notin {"ERROR", "TRAP"}
    BY DEF Values, Number, IsNumber
  <2>2. Listed(x, y) \/ Listed(x, z)
    BY <1>5, <2>1, FoundSound
  <2> QED BY <1>1, <1>5, <2>2, ListedSame
<1>6. ASSUME x.type = "DATETIME"
      PROVE  /\ (eval_timestampdiff("SECOND", x, y).floatval > 0) <=> Is("LT", x, y)
             /\ (eval_timestampdiff("SECOND", x, y).floatval = 0) <=> Is("EQ", x, y)
  <2>1. /\ y.type = "DATETIME" /\ x.strval \in Seq(Int) /\ y.strval \in Seq(Int)
        /\ (make_datetime(y.strval) - make_datetime(x.strval)) * Unit.SECOND \in Wholes
    BY <1>6 DEF Values, Number, IsNumber
  <2> QED BY <1>1, <1>6, <2>1, DifferenceSound, Zenon
<1> QED BY <1>2, <1>3, <1>4, <1>5, <1>6, Zenon

\* CompareSound in every state, for values of every kind: the six comparisons of
\* select.c agree with each other although two whole numbers may round to one
\* float, IN finds only what = finds, and the sign of TIMESTAMPDIFF is the order
\* of the two dates.
THEOREM ComparisonsSound == EvalSpec => []CompareSound
<1>1. EvalInit => CompareSound
  BY DEF EvalInit, CompareSound, Nobody
<1>2. ASSUME [EvalNext]_evalVars, CompareSound PROVE CompareSound'
  <2>1. CASE AskLike
    BY <2>1 DEF AskLike, CompareSound
  <2>2. CASE AskCompare
    <3>1. PICK F \in Families : \E x, y, z \in F :
            /\ asked' = [kind |-> "compare", values |-> <<x, y, z>>]
            /\ answer' = [kind |-> "compare",
                 is   |-> [op \in Comparisons |->
                            [ij \in (1 .. 3) \X (1 .. 3) |->
                               Is(op, <<x, y, z>>[ij[1]], <<x, y, z>>[ij[2]])]],
                 in   |-> is_true(is_in_val_list(x, <<y, z>>)),
                 diff |-> eval_timestampdiff("SECOND", x, y)]
      BY <2>2 DEF AskCompare, Is
    <3>2. PICK x \in F, y \in F, z \in F :
            /\ asked' = [kind |-> "compare", values |-> <<x, y, z>>]
            /\ answer' = [kind |-> "compare",
                 is   |-> [op \in Comparisons |->
                            [ij \in (1 .. 3) \X (1 .. 3) |->
                               Is(op, <<x, y, z>>[ij[1]], <<x, y, z>>[ij[2]])]],
                 in   |-> is_true(is_in_val_list(x, <<y, z>>)),
                 diff |-> eval_timestampdiff("SECOND", x, y)]
      BY <3>1
    <3>3. Values(x, y, z)
      BY FamilyValues
    <3> DEFINE v == <<x, y, z>>
    <3>4. /\ asked'.values = v
          /\ answer'.in = is_true(is_in_val_list(x, <<y, z>>))
          /\ answer'.diff = eval_timestampdiff("SECOND", x, y)
      BY <3>2
    <3>5. ASSUME NEW op \in Comparisons, NEW i \in 1 .. 3, NEW j \in 1 .. 3
          PROVE  answer'.is[op][<<i, j>>] = Is(op, v[i], v[j])
      BY <3>2
    <3>6. \A i \in 1 .. 3 : v[i] \in {x, y, z}
      OBVIOUS
    <3>7. v[1] = x /\ v[2] = y /\ v[3] = z
      OBVIOUS
    <3>8. /\ \A s, t \in {x, y, z} : PairSound(s, t)
          /\ Is("LE", x, y) /\ Is("LE", y, z) => Is("LE", x, z)
          /\ x.type = "INTNUM" /\ y.type = "INTNUM" =>
               /\ x.intval <= y.intval => Is("LE", x, y)
               /\ Abs(x.intval) <= Mantissa /\ Abs(y.intval) <= Mantissa =>
                    (Is("EQ", x, y) <=> (x.intval = y.intval))
          /\ is_true(is_in_val_list(x, <<y, z>>)) /\ x.type # "STRING" =>
               Is("EQ", x, y) \/ Is("EQ", x, z)
          /\ x.type = "DATETIME" =>
               /\ (eval_timestampdiff("SECOND", x, y).floatval > 0) <=> Is("LT", x, y)
               /\ (eval_timestampdiff("SECOND", x, y).floatval = 0) <=> Is("EQ", x, y)
      BY <3>3, AnswersSound, Zenon
    <3>9. {"EQ", "NE", "LT", "GT", "LE", "GE"} \subseteq Comparisons
      BY DEF Comparisons
    <3> HIDE DEF v
    <3> DEFINE is(op, i, j) == answer'.is[op][<<i, j>>]
    <3>10. ASSUME NEW i \in 1 .. 3, NEW j \in 1 .. 3
           PROVE  /\ is("EQ", i, j) \/ is("LT", i, j) \/ is("GT", i, j)
                  /\ ~ (is("LT", i, j) /\ (is("EQ", i, j) \/ is("GT", i, j)))
                  /\ is("NE", i, j) = ~ is("EQ", i, j)
                  /\ is("LE", i, j) = ~ is("GT", i, j)
                  /\ is("GE", i, j) = ~ is("LT", i, j)
                  /\ is("GT", i, j) = is("LT", j, i)
      <4>1. PairSound(v[i], v[j])
        BY <3>6, <3>8
      <4>2. /\ is("EQ", i, j) = Is("EQ", v[i], v[j])
            /\ is("NE", i, j) = Is("NE", v[i], v[j])
            /\ is("LT", i, j) = Is("LT", v[i], v[j])
            /\ is("GT", i, j) = Is("GT", v[i], v[j])
            /\ is("LE", i, j) = Is("LE", v[i], v[j])
            /\ is("GE", i, j) = Is("GE", v[i], v[j])
            /\ is("LT", j, i) = Is("LT", v[j], v[i])
        BY <3>5, <3>9
      <4> HIDE DEF is
      <4> QED BY <4>1, <4>2, Zenon DEF PairSound
    <3>11. /\ is("LE", 1, 2) = Is("LE", x, y)
           /\ is("LE", 2, 3) = Is("LE", y, z)
           /\ is("LE", 1, 3) = Is("LE", x, z)
           /\ is("EQ", 1, 2) = Is("EQ", x, y)
           /\ is("EQ", 1, 3) = Is("EQ", x, z)
           /\ is("LT", 1, 2) = Is("LT", x, y)
      BY <3>5, <3>7, <3>9
    <3>12. /\ Is("LE", x, y) /\ Is("LE", y, z) => Is("LE", x, z)
           /\ x.type = "INTNUM" /\ y.type = "INTNUM" =>
                /\ x.intval <= y.intval => Is("LE", x, y)
                /\ (\A i \in 1 .. 2 : Abs(v[i].intval) <= Mantissa) =>
                     Is("EQ", x, y) = (x.intval = y.intval)
      <4>1. Is("EQ", x, y) \in BOOLEAN
        BY DEF Is, is_true
      <4>2. (\A i \in 1 .. 2 : Abs(v[i].intval) <= Mantissa) =>
               Abs(x.intval) <= Mantissa /\ Abs(y.intval) <= Mantissa
        BY <3>7
      <4> QED BY <3>8, <4>1, <4>2
    <3> QED BY <3>4, <3>7, <3>8, <3>10, <3>11, <3>12 DEF CompareSound
  <2>3. CASE Done
    BY <2>3 DEF Done, CompareSound, Nobody
  <2>4. CASE UNCHANGED evalVars
    <3>1. asked' = asked /\ answer' = answer
      BY <2>4 DEF evalVars
    <3> QED BY <1>2, <3>1, Zenon DEF CompareSound
  <2> QED BY <1>2, <2>1, <2>2, <2>3, <2>4 DEF EvalNext
<1> QED BY <1>1, <1>2, PTL DEF EvalSpec

-----------------------------------------------------------------------------
\* The definition of match_here: what here[i] is, given here[i + 1] and here[i + 2].
Step(re, text, i, one, two) ==
  IF i = Len(re) + 1 THEN 1 .. Len(text) + 1
  ELSE IF i < Len(re) /\ re[i + 1] = Star
       THEN {j \in 1 .. Len(text) + 1 :
               \E k \in StarLengths(re[i], text, j) : k \in two}
  ELSE IF i = Len(re) /\ re[i] = Dollar THEN {Len(text) + 1}
  ELSE {j \in 1 .. Len(text) : Matches(re[i], text[j]) /\ j + 1 \in one}

HereFrom(re, text, m, h) ==
  h = [i \in m .. Len(re) + 1 |-> Step(re, text, i, h[i + 1], h[i + 2])]

\* match_here is a function that satisfies its definition, if there is one.
LEMMA HereChosen ==
  ASSUME NEW re, NEW text
  PROVE  match_here(re, text) = CHOOSE h : HereFrom(re, text, 1, h)
  BY DEF match_here, Step, HereFrom

\* The definition looks at the places behind i only, and no further than the end.
LEMMA StepReads ==
  ASSUME NEW re, Len(re) \in Nat, NEW text, NEW i \in 1 .. Len(re) + 1, NEW g, NEW h,
         i + 1 <= Len(re) + 1 => g[i + 1] = h[i + 1],
         i + 2 <= Len(re) + 1 => g[i + 2] = h[i + 2]
  PROVE  Step(re, text, i, g[i + 1], g[i + 2]) = Step(re, text, i, h[i + 1], h[i + 2])
<1>1. CASE i = Len(re) + 1
  BY <1>1 DEF Step
<1>2. CASE i = Len(re)
  <2>1. g[i + 1] = h[i + 1]
    BY <1>2
  <2>2. i # Len(re) + 1 /\ ~ (i < Len(re))
    BY <1>2
  <2> QED BY <2>1, <2>2, Zenon DEF Step
<1>3. CASE i < Len(re)
  <2>1. g[i + 1] = h[i + 1] /\ g[i + 2] = h[i + 2]
    BY <1>3
  <2> QED BY <2>1, Zenon
<1> QED BY <1>1, <1>2, <1>3

\* There is such a function: it is built from the end of the pattern on.
LEMMA HereExists ==
  ASSUME NEW re, Len(re) \in Nat, NEW text
  PROVE  \E h : HereFrom(re, text, 1, h)
<1> DEFINE n == Len(re)
           D == {d \in 0 .. n : ~ \E h : HereFrom(re, text, n + 1 - d, h)}
<1>1. SUFFICES ASSUME D # {} PROVE FALSE
  <2>1. n \notin D /\ n \in 0 .. n
    BY <1>1
  <2>2. \E h : HereFrom(re, text, n + 1 - n, h)
    BY <2>1
  <2>3. n + 1 - n = 1
    OBVIOUS
  <2> QED BY <2>2, <2>3
<1>2. PICK d \in D : \A e \in D : d <= e
  <2>1. D \subseteq Nat
    OBVIOUS
  <2> HIDE DEF D
  <2> QED BY <1>1, <2>1, Least
<1>3. d \in 0 .. n
  OBVIOUS
<1>4. CASE d = 0
  <2> DEFINE h == [i \in {n + 1} |-> 1 .. Len(text) + 1]
  <2>1. n + 1 - d .. n + 1 = {n + 1}
    BY <1>4
  <2>2. Step(re, text, n + 1, h[n + 2], h[n + 3]) = 1 .. Len(text) + 1
    BY DEF Step
  <2>3. HereFrom(re, text, n + 1 - d, h)
    <3>1. \A i \in {n + 1} : Step(re, text, i, h[i + 1], h[i + 2]) = 1 .. Len(text) + 1
      BY DEF Step
    <3>2. h = [i \in {n + 1} |-> Step(re, text, i, h[i + 1], h[i + 2])]
      BY <3>1, Zenon
    <3> HIDE DEF h
    <3> QED BY <2>1, <3>2 DEF HereFrom
  <2> QED BY <2>3
<1>5. CASE d # 0
  <2>1. d - 1 \in 0 .. n /\ d - 1 \notin D
    BY <1>2, <1>3, <1>5
  <2>2. PICK g : HereFrom(re, text, n + 1 - (d - 1), g)
    BY <2>1
  <2>3. PICK m \in 1 .. n : m = n + 1 - d /\ n + 1 - (d - 1) = m + 1
    <3>1. n + 1 - d \in 1 .. n /\ n + 1 - (d - 1) = (n + 1 - d) + 1
      BY <1>3, <1>5
    <3> QED BY <3>1
  <2>4. g = [i \in m + 1 .. n + 1 |-> Step(re, text, i, g[i + 1], g[i + 2])]
    BY <2>2, <2>3 DEF HereFrom
  <2> DEFINE h == [i \in m .. n + 1 |->
                     IF i = m THEN Step(re, text, m, g[m + 1], g[m + 2]) ELSE g[i]]
  <2>5. ASSUME NEW i \in m .. n + 1
        PROVE  h[i] = Step(re, text, i, h[i + 1], h[i + 2])
    <3>1. i \in 1 .. n + 1
      BY <2>3
    <3>2. /\ i + 1 <= n + 1 => g[i + 1] = h[i + 1]
          /\ i + 2 <= n + 1 => g[i + 2] = h[i + 2]
      OBVIOUS
    <3>3. Step(re, text, i, g[i + 1], g[i + 2]) = Step(re, text, i, h[i + 1], h[i + 2])
      <4> HIDE DEF h
      <4> QED BY <3>1, <3>2, StepReads
    <3>4. CASE i = m
      <4>1. h[i] = Step(re, text, i, g[i + 1], g[i + 2])
        BY <3>4, Zenon
      <4> QED BY <3>3, <4>1
    <3>5. CASE i # m
      <4>1. i \in m + 1 .. n + 1
        BY <3>5
      <4>2. h[i] = g[i]
        BY <3>5
      <4>3. g[i] = Step(re, text, i, g[i + 1], g[i + 2])
        BY <2>4, <4>1, Zenon
      <4> HIDE DEF h
      <4> QED BY <3>3, <4>2, <4>3
    <3> QED BY <3>4, <3>5
  <2>6. h = [i \in m .. n + 1 |-> h[i]]
    OBVIOUS
  <2>7. HereFrom(re, text, m, h)
    <3> HIDE DEF h
    <3>1. h = [i \in m .. n + 1 |-> Step(re, text, i, h[i + 1], h[i + 2])]
      BY <2>5, <2>6
    <3> QED BY <3>1 DEF HereFrom
  <2> QED BY <2>3, <2>7
<1> QED BY <1>4, <1>5

\* So the recursion of match_here may be unfolded wherever the pattern is read.
LEMMA HereIs ==
  ASSUME NEW re, Len(re) \in Nat, NEW text, NEW i \in 1 .. Len(re) + 1
  PROVE  match_here(re, text)[i] =
           Step(re, text, i, match_here(re, text)[i + 1], match_here(re, text)[i + 2])
<1> DEFINE h == match_here(re, text)
<1>1. HereFrom(re, text, 1, h)
  BY HereChosen, HereExists, Zenon
<1> HIDE DEF h
<1>2. h = [k \in 1 .. Len(re) + 1 |-> Step(re, text, k, h[k + 1], h[k + 2])]
  BY <1>1 DEF HereFrom
<1>3. h[i] = Step(re, text, i, h[i + 1], h[i + 2])
  BY <1>2, Zenon
<1> QED BY <1>3 DEF h

-----------------------------------------------------------------------------
\* One piece of the text for one atom, and the rest of the text for the rest of
\* the atoms.
Piece(p, t, m, a, b) ==
  /\ a <= b
  /\ ~ p.atoms[m].star => b = a + 1
  /\ \A x \in a + 1 .. b : Matches(p.atoms[m].c, t[x])

CutFrom(p, t, i, a, cut) ==
  /\ cut \in [i - 1 .. Len(p.atoms) -> 0 .. Len(t)]
  /\ cut[i - 1] = a
  /\ p.to => cut[Len(p.atoms)] = Len(t)
  /\ \A m \in i .. Len(p.atoms) : Piece(p, t, m, cut[m - 1], cut[m])

Cuts(p, t, i, a) == \E cut : CutFrom(p, t, i, a, cut)

Atom    == [c : Int \ {Star, Caret, Dollar}, star : BOOLEAN]
Pattern == [from : BOOLEAN, to : BOOLEAN, atoms : Seq(Atom)]

\* With no atom left the text may end anywhere, or has to when $ asks for it.
LEMMA CutsEnd ==
  ASSUME NEW p \in Pattern, NEW t \in Seq(Int), NEW a \in 0 .. Len(t)
  PROVE  Cuts(p, t, Len(p.atoms) + 1, a) <=> (p.to => a = Len(t))
<1> DEFINE n == Len(p.atoms)
<1>1. n \in Nat /\ n + 1 - 1 = n
  BY DEF Pattern
<1> HIDE DEF n
<1>2. ASSUME NEW cut, CutFrom(p, t, n + 1, a, cut) PROVE p.to => a = Len(t)
  BY <1>1, <1>2 DEF CutFrom, n
<1>3. ASSUME p.to => a = Len(t) PROVE Cuts(p, t, n + 1, a)
  <2> DEFINE cut == [x \in {n} |-> a]
  <2>1. cut \in [n .. n -> 0 .. Len(t)] /\ cut[n] = a
    BY <1>1
  <2> HIDE DEF cut
  <2>2. \A m \in n + 1 .. n : FALSE
    BY <1>1
  <2>3. CutFrom(p, t, n + 1, a, cut)
    BY <1>1, <1>3, <2>1, <2>2 DEF CutFrom, n
  <2> QED BY <2>3 DEF Cuts
<1> QED BY <1>2, <1>3 DEF Cuts, n

\* A text can be cut for an atom and the rest exactly when there is a piece for
\* the atom and what is behind it can be cut for the rest.
LEMMA CutsStep ==
  ASSUME NEW p \in Pattern, NEW t \in Seq(Int), NEW i \in 1 .. Len(p.atoms),
         NEW a \in 0 .. Len(t)
  PROVE  Cuts(p, t, i, a) <=>
           \E b \in 0 .. Len(t) : Piece(p, t, i, a, b) /\ Cuts(p, t, i + 1, b)
<1> DEFINE n == Len(p.atoms)
<1>1. n \in Nat /\ i \in 1 .. n /\ i + 1 - 1 = i
  BY DEF Pattern
<1>2. ASSUME NEW cut, CutFrom(p, t, i, a, cut)
      PROVE  \E b \in 0 .. Len(t) : Piece(p, t, i, a, b) /\ Cuts(p, t, i + 1, b)
  <2>1. /\ cut \in [i - 1 .. n -> 0 .. Len(t)] /\ cut[i - 1] = a
        /\ p.to => cut[n] = Len(t)
        /\ \A m \in i .. n : Piece(p, t, m, cut[m - 1], cut[m])
    BY <1>2 DEF CutFrom
  <2>2. cut[i] \in 0 .. Len(t) /\ Piece(p, t, i, a, cut[i])
    BY <1>1, <2>1
  <2> DEFINE rest == [m \in i .. n |-> cut[m]]
  <2>3. rest \in [i .. n -> 0 .. Len(t)]
    BY <1>1, <2>1
  <2>4. rest[i] = cut[i] /\ rest[n] = cut[n]
    BY <1>1
  <2>5. ASSUME NEW m \in i + 1 .. n PROVE Piece(p, t, m, rest[m - 1], rest[m])
    <3>1. m \in i .. n /\ rest[m - 1] = cut[m - 1] /\ rest[m] = cut[m]
      BY <1>1
    <3> HIDE DEF rest
    <3> QED BY <2>1, <3>1
  <2>6. CutFrom(p, t, i + 1, cut[i], rest)
    <3> HIDE DEF rest
    <3> QED BY <1>1, <2>1, <2>3, <2>4, <2>5 DEF CutFrom
  <2> QED BY <2>2, <2>6 DEF Cuts
<1>3. ASSUME NEW b \in 0 .. Len(t), Piece(p, t, i, a, b), NEW rest,
             CutFrom(p, t, i + 1, b, rest)
      PROVE  Cuts(p, t, i, a)
  <2>1. /\ rest \in [i .. n -> 0 .. Len(t)] /\ rest[i] = b
        /\ p.to => rest[n] = Len(t)
        /\ \A m \in i + 1 .. n : Piece(p, t, m, rest[m - 1], rest[m])
    BY <1>1, <1>3 DEF CutFrom
  <2> DEFINE cut == [m \in i - 1 .. n |-> IF m = i - 1 THEN a ELSE rest[m]]
  <2>2. cut \in [i - 1 .. n -> 0 .. Len(t)]
    BY <1>1, <2>1
  <2>3. cut[i - 1] = a /\ \A m \in i .. n : cut[m] = rest[m]
    BY <1>1
  <2> HIDE DEF cut
  <2>4. ASSUME NEW m \in i .. n PROVE Piece(p, t, m, cut[m - 1], cut[m])
    <3>1. CASE m = i
      <4>1. cut[m - 1] = a /\ cut[m] = b
        BY <1>1, <2>1, <2>3, <3>1
      <4> QED BY <1>3, <3>1, <4>1
    <3>2. CASE m # i
      <4>1. m \in i + 1 .. n /\ cut[m - 1] = rest[m - 1] /\ cut[m] = rest[m]
        BY <1>1, <2>3, <3>2
      <4> QED BY <2>1, <4>1
    <3> QED BY <3>1, <3>2
  <2>5. p.to => cut[n] = Len(t)
    BY <1>1, <2>1, <2>3
  <2>6. CutFrom(p, t, i, a, cut)
    BY <2>2, <2>3, <2>4, <2>5 DEF CutFrom
  <2> QED BY <2>6 DEF Cuts
<1> QED BY <1>2, <1>3 DEF Cuts

\* Denotes in these terms.
LEMMA DenotesIsCuts ==
  ASSUME NEW p \in Pattern, NEW t \in Seq(Int)
  PROVE  Denotes(p, t) <=> \E a \in 0 .. Len(t) : (p.from => a = 0) /\ Cuts(p, t, 1, a)
<1> DEFINE n == Len(p.atoms)
<1>1. n \in Nat /\ 1 - 1 = 0
  BY DEF Pattern
<1> HIDE DEF n
<1>2. ASSUME NEW cut, NEW a \in 0 .. Len(t), p.from => a = 0, CutFrom(p, t, 1, a, cut)
      PROVE  Denotes(p, t)
  BY <1>1, <1>2 DEF CutFrom, Piece, Denotes, n
<1>3. ASSUME NEW cut \in [0 .. n -> 0 .. Len(t)],
             p.from => cut[0] = 0,
             p.to => cut[n] = Len(t),
             \A i \in 1 .. n :
                /\ cut[i - 1] <= cut[i]
                /\ ~ p.atoms[i].star => cut[i] = cut[i - 1] + 1
                /\ \A x \in cut[i - 1] + 1 .. cut[i] : Matches(p.atoms[i].c, t[x])
      PROVE  \E a \in 0 .. Len(t) : (p.from => a = 0) /\ Cuts(p, t, 1, a)
  <2>1. cut[0] \in 0 .. Len(t)
    BY <1>1, <1>3
  <2>2. CutFrom(p, t, 1, cut[0], cut)
    BY <1>1, <1>3 DEF CutFrom, Piece, n
  <2> QED BY <1>3, <2>1, <2>2 DEF Cuts
<1>4. Denotes(p, t) => \E a \in 0 .. Len(t) : (p.from => a = 0) /\ Cuts(p, t, 1, a)
  BY <1>3 DEF Denotes, n
<1> QED BY <1>2, <1>4 DEF Cuts

-----------------------------------------------------------------------------
\* Where the atoms are in the text of a pattern.
\* Atoms follow each other, at a distance of one character or two.
LEMMA Places ==
  ASSUME NEW p \in Pattern
  PROVE  /\ Place(p, 1) = 1
         /\ \A i \in 1 .. Len(p.atoms) + 1 : Place(p, i) \in Nat
         /\ \A i \in 1 .. Len(p.atoms) :
              Place(p, i + 1) = Place(p, i) + (IF p.atoms[i].star THEN 2 ELSE 1)
         /\ \A i, k \in 1 .. Len(p.atoms) + 1 : i < k => Place(p, i) < Place(p, k)
<1> DEFINE n == Len(p.atoms)
           S(i) == {j \in 1 .. i - 1 : p.atoms[j].star}
<1>0. n \in Nat
  BY DEF Pattern
<1>1. \A i \in 1 .. n + 1 : IsFiniteSet(S(i)) /\ Cardinality(S(i)) \in Nat
  <2> TAKE i \in 1 .. n + 1
  <2>1. i - 1 \in Int
    BY <1>0
  <2>2. IsFiniteSet(1 .. i - 1)
    BY <2>1, FS_Interval
  <2>3. S(i) \subseteq 1 .. i - 1
    OBVIOUS
  <2> HIDE DEF S
  <2> QED BY <2>2, <2>3, FS_Subset, FS_CardinalityType
<1>2. \A i \in 1 .. n + 1 : Place(p, i) = i + Cardinality(S(i))
  BY DEF Place
<1>3. S(1) = {}
  OBVIOUS
<1>4. Place(p, 1) = 1
  BY <1>0, <1>2, <1>3, FS_EmptySet
<1>5. ASSUME NEW i \in 1 .. n
      PROVE  Place(p, i + 1) = Place(p, i) + (IF p.atoms[i].star THEN 2 ELSE 1)
  <2>1. CASE p.atoms[i].star
    <3>1. S(i + 1) = S(i) \cup {i} /\ i \notin S(i)
      BY <1>0, <2>1
    <3>2. i \in 1 .. n + 1 /\ i + 1 \in 1 .. n + 1 /\ i \in Nat
      BY <1>0
    <3> HIDE DEF S
    <3>3. Cardinality(S(i) \cup {i}) = Cardinality(S(i)) + 1
      BY <1>1, <3>1, <3>2, FS_AddElement
    <3>4. /\ Place(p, i + 1) = i + 1 + Cardinality(S(i + 1))
          /\ Place(p, i) = i + Cardinality(S(i))
          /\ Cardinality(S(i)) \in Nat
      BY <1>1, <1>2, <3>2, Zenon
    <3>5. Cardinality(S(i + 1)) = Cardinality(S(i)) + 1
      BY <3>1, <3>3, Zenon
    <3>6. Place(p, i + 1) = Place(p, i) + 2
      BY <3>2, <3>4, <3>5
    <3> QED BY <2>1, <3>6
  <2>2. CASE ~ p.atoms[i].star
    <3>1. S(i + 1) = S(i)
      BY <1>0, <2>2
    <3>2. i \in 1 .. n + 1 /\ i + 1 \in 1 .. n + 1 /\ i \in Nat
      BY <1>0
    <3> HIDE DEF S
    <3>3. /\ Place(p, i + 1) = i + 1 + Cardinality(S(i + 1))
          /\ Place(p, i) = i + Cardinality(S(i))
          /\ Cardinality(S(i)) \in Nat
      BY <1>1, <1>2, <3>2, Zenon
    <3>4. Cardinality(S(i + 1)) = Cardinality(S(i))
      BY <3>1, Zenon
    <3>5. Place(p, i + 1) = Place(p, i) + 1
      BY <3>2, <3>3, <3>4
    <3> QED BY <2>2, <3>5
  <2> QED BY <2>1, <2>2
<1>6. ASSUME NEW i \in 1 .. n + 1, NEW k \in 1 .. n + 1, i < k
      PROVE  Place(p, i) < Place(p, k)
  <2>1. S(i) \subseteq S(k)
    BY <1>0, <1>6
  <2>2. Cardinality(S(i)) <= Cardinality(S(k))
    BY <1>1, <2>1, FS_Subset
  <2> HIDE DEF S
  <2> QED BY <1>0, <1>1, <1>2, <1>6, <2>2
<1>7. \A i \in 1 .. n + 1 : Place(p, i) \in Nat
  <2> HIDE DEF S
  <2> QED BY <1>0, <1>1, <1>2
<1> QED BY <1>4, <1>5, <1>6, <1>7

\* The text of the atoms and of the end.
Body(p) == Atoms(p) \o (IF p.to THEN <<Dollar>> ELSE <<>>)

\* At the place of an atom stands its character, and behind it its star.
LEMMA AtomsAre ==
  ASSUME NEW p \in Pattern
  PROVE  /\ Atoms(p) \in Seq(Int)
         /\ Len(Atoms(p)) = Place(p, Len(p.atoms) + 1) - 1
         /\ \A i \in 1 .. Len(p.atoms) :
              /\ Place(p, i) \in 1 .. Len(Atoms(p))
              /\ Atoms(p)[Place(p, i)] = p.atoms[i].c
              /\ p.atoms[i].star => /\ Place(p, i) + 1 \in 1 .. Len(Atoms(p))
                                    /\ Atoms(p)[Place(p, i) + 1] = Star
<1> DEFINE n == Len(p.atoms)
           begun(k) == {i \in 1 .. n : Place(p, i) = k}
           char(k) == IF begun(k) = {} THEN Star
                      ELSE p.atoms[CHOOSE i \in begun(k) : TRUE].c
           len == Place(p, n + 1) - 1
<1>0. n \in Nat /\ \A i \in 1 .. n : p.atoms[i].c \in Int /\ p.atoms[i].star \in BOOLEAN
  <2>1. p.atoms \in Seq(Atom)
    BY DEF Pattern
  <2>2. n \in Nat /\ \A i \in 1 .. n : p.atoms[i] \in Atom
    BY <2>1
  <2> HIDE DEF n
  <2> QED BY <2>2 DEF Atom
<1>1. /\ Place(p, 1) = 1 /\ \A i \in 1 .. n + 1 : Place(p, i) \in Nat
      /\ \A i \in 1 .. n :
           Place(p, i + 1) = Place(p, i) + (IF p.atoms[i].star THEN 2 ELSE 1)
      /\ \A i, k \in 1 .. n + 1 : i < k => Place(p, i) < Place(p, k)
  BY Places
<1> HIDE DEF n
<1>2. Place(p, n + 1) >= 1
  <2>1. CASE n = 0
    BY <1>1, <2>1
  <2>2. CASE n # 0
    BY <1>0, <1>1, <2>2
  <2> QED BY <2>1, <2>2
<1>3. len \in Nat
  BY <1>0, <1>1, <1>2
<1>4. Atoms(p) = [k \in 1 .. len |-> char(k)]
  BY DEF Atoms, n
<1>5. \A k \in 1 .. len : char(k) \in Int
  <2> TAKE k \in 1 .. len
  <2>1. CASE begun(k) = {}
    BY <2>1 DEF Star
  <2>2. CASE begun(k) # {}
    <3>1. (CHOOSE i \in begun(k) : TRUE) \in 1 .. n
      BY <2>2
    <3> QED BY <1>0, <2>2, <3>1
  <2> QED BY <2>1, <2>2
<1>6. Atoms(p) \in Seq(Int) /\ Len(Atoms(p)) = len
  <2> HIDE DEF char, len
  <2>1. [k \in 1 .. len |-> char(k)] \in [1 .. len -> Int]
    BY <1>5
  <2> QED BY <1>3, <1>4, <2>1
<1>7. ASSUME NEW i \in 1 .. n
      PROVE  /\ Place(p, i) \in 1 .. len
             /\ char(Place(p, i)) = p.atoms[i].c
             /\ p.atoms[i].star => /\ Place(p, i) + 1 \in 1 .. len
                                    /\ char(Place(p, i) + 1) = Star
  <2>1. Place(p, i) \in Nat /\ Place(p, i) >= 1
    <3>1. CASE i = 1
      BY <1>1, <3>1
    <3>2. CASE i # 1
      BY <1>0, <1>1, <3>2
    <3> QED BY <3>1, <3>2
  <2>2. Place(p, i + 1) <= Place(p, n + 1)
    <3>1. CASE i = n
      BY <1>0, <1>1, <3>1
    <3>2. CASE i # n
      BY <1>0, <1>1, <3>2
    <3> QED BY <3>1, <3>2
  <2>3. Place(p, i) \in 1 .. len
    BY <1>0, <1>1, <2>1, <2>2
  <2>4. \A k \in 1 .. n : Place(p, k) = Place(p, i) => k = i
    BY <1>0, <1>1
  <2>5. begun(Place(p, i)) = {i}
    BY <2>4
  <2>6. char(Place(p, i)) = p.atoms[i].c
    BY <2>5
  <2>7. ASSUME p.atoms[i].star
        PROVE  Place(p, i) + 1 \in 1 .. len /\ char(Place(p, i) + 1) = Star
    <3>1. Place(p, i + 1) = Place(p, i) + 2
      BY <1>1, <2>7
    <3>2. Place(p, i) + 1 \in 1 .. len
      BY <1>0, <1>1, <2>1, <2>2, <3>1
    <3>3. ASSUME NEW k \in 1 .. n, Place(p, k) = Place(p, i) + 1 PROVE FALSE
      <4>1. i < k \/ k < i
        BY <1>0, <2>1, <3>3
      <4>2. CASE k < i
        BY <1>0, <1>1, <2>1, <3>3, <4>2
      <4>3. CASE i < k
        <5>1. i + 1 = k \/ i + 1 < k
          BY <1>0, <4>3
        <5>2. i + 1 \in 1 .. n + 1 /\ k \in 1 .. n + 1
          BY <1>0
        <5>3. Place(p, i + 1) <= Place(p, k) /\ Place(p, k) \in Nat
          BY <1>1, <5>1, <5>2
        <5> QED BY <2>1, <3>1, <3>3, <5>3
      <4> QED BY <4>1, <4>2, <4>3
    <3>4. begun(Place(p, i) + 1) = {}
      BY <3>3
    <3> QED BY <3>2, <3>4
  <2> QED BY <2>3, <2>6, <2>7
<1>8. \A k \in 1 .. len : Atoms(p)[k] = char(k)
  BY <1>4
<1> HIDE DEF char, len
<1>9. \A i \in 1 .. n :
        /\ Place(p, i) \in 1 .. len
        /\ Atoms(p)[Place(p, i)] = p.atoms[i].c
        /\ p.atoms[i].star => /\ Place(p, i) + 1 \in 1 .. len
                               /\ Atoms(p)[Place(p, i) + 1] = Star
  BY <1>7, <1>8
<1> QED BY <1>6, <1>9 DEF n, len

-----------------------------------------------------------------------------
\* What stands in the text of a pattern where an atom begins, and at its end.
LEMMA BodyIs ==
  ASSUME NEW p \in Pattern
  PROVE  /\ Body(p) \in Seq(Int)
         /\ \A i \in 1 .. Len(p.atoms) + 1 : Place(p, i) \in 1 .. Len(Body(p)) + 1
         /\ p.to => /\ Place(p, Len(p.atoms) + 1) = Len(Body(p))
                    /\ Body(p)[Len(Body(p))] = Dollar
         /\ ~ p.to => Place(p, Len(p.atoms) + 1) = Len(Body(p)) + 1
         /\ \A i \in 1 .. Len(p.atoms) :
              /\ Place(p, i) \in 1 .. Len(Body(p))
              /\ Body(p)[Place(p, i)] = p.atoms[i].c
              /\ p.atoms[i].c \notin {Star, Caret, Dollar}
              /\ p.atoms[i].star => /\ Place(p, i) < Len(Body(p))
                                    /\ Body(p)[Place(p, i) + 1] = Star
                                    /\ Place(p, i + 1) = Place(p, i) + 2
              /\ ~ p.atoms[i].star => /\ Place(p, i) < Len(Body(p)) =>
                                           Body(p)[Place(p, i) + 1] # Star
                                      /\ Place(p, i + 1) = Place(p, i) + 1
<1> DEFINE n == Len(p.atoms)
           re == Body(p)
           at == Atoms(p)
<1>0. n \in Nat /\ \A i \in 1 .. n : p.atoms[i].c \in Int \ {Star, Caret, Dollar}
  <2>1. p.atoms \in Seq(Atom)
    BY DEF Pattern
  <2>2. n \in Nat /\ \A i \in 1 .. n : p.atoms[i] \in Atom
    BY <2>1
  <2> HIDE DEF n
  <2> QED BY <2>2 DEF Atom
<1>1. /\ Place(p, 1) = 1 /\ \A i \in 1 .. n + 1 : Place(p, i) \in Nat
      /\ \A i \in 1 .. n :
           Place(p, i + 1) = Place(p, i) + (IF p.atoms[i].star THEN 2 ELSE 1)
  BY Places
<1>2. /\ at \in Seq(Int) /\ Len(at) = Place(p, n + 1) - 1
      /\ \A i \in 1 .. n :
           /\ Place(p, i) \in 1 .. Len(at)
           /\ at[Place(p, i)] = p.atoms[i].c
           /\ p.atoms[i].star => /\ Place(p, i) + 1 \in 1 .. Len(at)
                                  /\ at[Place(p, i) + 1] = Star
  BY AtomsAre
<1>3. p.to => /\ re = at \o <<Dollar>> /\ re \in Seq(Int)
              /\ Len(re) = Len(at) + 1 /\ re[Len(re)] = Dollar
  BY <1>2 DEF Body, Dollar
<1>4. ~ p.to => re = at /\ re \in Seq(Int) /\ Len(re) = Len(at)
  BY <1>2 DEF Body
<1>5. \A k \in 1 .. Len(at) : re[k] = at[k]
  BY <1>2 DEF Body
<1>6. Len(at) \in Nat /\ Len(re) \in Nat
  BY <1>2, <1>3, <1>4
<1> HIDE DEF n, re, at
<1>7. /\ p.to => Place(p, n + 1) = Len(re) /\ re[Len(re)] = Dollar
      /\ ~ p.to => Place(p, n + 1) = Len(re) + 1
      /\ Place(p, n + 1) \in Nat
  BY <1>0, <1>1, <1>2, <1>3, <1>4, <1>6
<1>8. ASSUME NEW i \in 1 .. n
      PROVE  /\ Place(p, i) \in 1 .. Len(re)
             /\ re[Place(p, i)] = p.atoms[i].c
             /\ p.atoms[i].c \notin {Star, Caret, Dollar}
             /\ p.atoms[i].star => /\ Place(p, i) < Len(re)
                                   /\ re[Place(p, i) + 1] = Star
                                   /\ Place(p, i + 1) = Place(p, i) + 2
             /\ ~ p.atoms[i].star => /\ Place(p, i) < Len(re) => re[Place(p, i) + 1] # Star
                                     /\ Place(p, i + 1) = Place(p, i) + 1
  <2>1. /\ Place(p, i) \in 1 .. Len(at) /\ at[Place(p, i)] = p.atoms[i].c
        /\ p.atoms[i].c \notin {Star, Caret, Dollar}
    BY <1>0, <1>2
  <2>2. Len(at) <= Len(re)
    BY <1>3, <1>4, <1>6
  <2>3. Place(p, i) \in 1 .. Len(re) /\ re[Place(p, i)] = p.atoms[i].c
    BY <1>5, <1>6, <2>1, <2>2
  <2>4. ASSUME p.atoms[i].star
        PROVE  /\ Place(p, i) < Len(re)
               /\ re[Place(p, i) + 1] = Star
               /\ Place(p, i + 1) = Place(p, i) + 2
    <3>1. Place(p, i) + 1 \in 1 .. Len(at) /\ at[Place(p, i) + 1] = Star
      BY <1>2, <2>4
    <3>2. Place(p, i + 1) = Place(p, i) + 2
      BY <1>1, <2>4
    <3> QED BY <1>5, <1>6, <2>1, <2>2, <3>1, <3>2
  <2>5. ASSUME ~ p.atoms[i].star
        PROVE  /\ Place(p, i) < Len(re) => re[Place(p, i) + 1] # Star
               /\ Place(p, i + 1) = Place(p, i) + 1
    <3>1. Place(p, i + 1) = Place(p, i) + 1
      BY <1>1, <2>5
    <3>2. CASE i = n
      <4>1. Place(p, i) + 1 = Place(p, n + 1)
        BY <3>1, <3>2
      <4>2. p.to => Place(p, i) + 1 = Len(re) /\ re[Place(p, i) + 1] = Dollar
        BY <1>7, <4>1
      <4>3. ~ p.to => ~ (Place(p, i) < Len(re))
        BY <1>6, <1>7, <2>1, <4>1
      <4> QED BY <3>1, <4>2, <4>3 DEF Dollar, Star
    <3>3. CASE i # n
      <4>1. PICK k \in 1 .. n : k = i + 1
        <5>1. i + 1 \in 1 .. n
          BY <1>0, <3>3
        <5> QED BY <5>1
      <4>2. /\ Place(p, k) \in 1 .. Len(at) /\ at[Place(p, k)] = p.atoms[k].c
            /\ p.atoms[k].c # Star
        BY <1>0, <1>2
      <4>3. Place(p, k) = Place(p, i) + 1
        BY <3>1, <4>1
      <4>4. re[Place(p, i) + 1] # Star
        BY <1>5, <4>2, <4>3
      <4> QED BY <3>1, <4>4
    <3> QED BY <3>2, <3>3
  <2> QED BY <2>1, <2>3, <2>4, <2>5
<1>9. ASSUME NEW i \in 1 .. n + 1 PROVE Place(p, i) \in 1 .. Len(re) + 1
  <2>1. CASE i \in 1 .. n
    BY <1>6, <1>8, <2>1
  <2>2. CASE i \notin 1 .. n
    <3>1. i = n + 1
      BY <1>0, <2>2
    <3>2. Place(p, n + 1) >= 1
      BY <1>0, <1>1, <1>2, <1>6
    <3> QED BY <1>6, <1>7, <3>1, <3>2
  <2> QED BY <2>1, <2>2
<1> QED BY <1>3, <1>4, <1>7, <1>8, <1>9 DEF n, re

\* From the place of the i-th atom on match_here finds what the atoms from the i-th
\* on denote.
Claim(p, t, i) ==
  \A j \in 1 .. Len(t) + 1 :
    (j \in match_here(Body(p), t)[Place(p, i)]) <=> Cuts(p, t, i, j - 1)

\* It holds behind the last atom,
LEMMA ClaimEnd ==
  ASSUME NEW p \in Pattern, NEW t \in Seq(Int)
  PROVE  Claim(p, t, Len(p.atoms) + 1)
<1> DEFINE re == Body(p)
           e == Place(p, Len(p.atoms) + 1)
           h == match_here(re, t)
<1>1. /\ Len(re) \in Nat /\ e \in 1 .. Len(re) + 1
      /\ p.to => e = Len(re) /\ re[Len(re)] = Dollar
      /\ ~ p.to => e = Len(re) + 1
  <2>1. Len(p.atoms) + 1 \in 1 .. Len(p.atoms) + 1
    BY DEF Pattern
  <2> QED BY <2>1, BodyIs
<1>2. h[e] = Step(re, t, e, h[e + 1], h[e + 2])
  <2> HIDE DEF re, e
  <2>1. Len(re) \in Nat /\ e \in 1 .. Len(re) + 1
    BY <1>1
  <2> QED BY <2>1, HereIs, Zenon
<1> HIDE DEF re, e, h
<1>3. p.to => h[e] = {Len(t) + 1}
  BY <1>1, <1>2 DEF Step
<1>4. ~ p.to => h[e] = 1 .. Len(t) + 1
  BY <1>1, <1>2 DEF Step
<1>5. ASSUME NEW j \in 1 .. Len(t) + 1
      PROVE  (j \in h[e]) <=> Cuts(p, t, Len(p.atoms) + 1, j - 1)
  <2>1. j - 1 \in 0 .. Len(t)
    OBVIOUS
  <2>2. Cuts(p, t, Len(p.atoms) + 1, j - 1) <=> (p.to => j - 1 = Len(t))
    BY <2>1, CutsEnd
  <2>3. (j \in h[e]) <=> (p.to => j - 1 = Len(t))
    BY <1>3, <1>4
  <2> QED BY <2>2, <2>3
<1> QED BY <1>5 DEF Claim, re, e, h

\* for an atom if it holds for the next, whether match_star or match_here reads
\* it,
LEMMA ClaimStep ==
  ASSUME NEW p \in Pattern, NEW t \in Seq(Int), NEW i \in 1 .. Len(p.atoms),
         Claim(p, t, i + 1)
  PROVE  Claim(p, t, i)
<1> DEFINE re == Body(p)
           e == Place(p, i)
           h == match_here(re, t)
           c == p.atoms[i].c
<1>1. /\ Len(re) \in Nat /\ e \in 1 .. Len(re) /\ re[e] = c /\ c # Dollar
      /\ p.atoms[i].star => e < Len(re) /\ re[e + 1] = Star /\ Place(p, i + 1) = e + 2
      /\ ~ p.atoms[i].star => /\ e < Len(re) => re[e + 1] # Star
                              /\ Place(p, i + 1) = e + 1
  BY BodyIs
<1>2. h[e] = Step(re, t, e, h[e + 1], h[e + 2])
  <2> HIDE DEF re, e
  <2>1. Len(re) \in Nat /\ e \in 1 .. Len(re) + 1
    BY <1>1
  <2> QED BY <2>1, HereIs, Zenon
<1>3. \A j \in 1 .. Len(t) + 1 : (j \in h[Place(p, i + 1)]) <=> Cuts(p, t, i + 1, j - 1)
  BY DEF Claim
<1>4. ASSUME NEW a \in 0 .. Len(t)
      PROVE  Cuts(p, t, i, a) <=>
           \E b \in 0 .. Len(t) : Piece(p, t, i, a, b) /\ Cuts(p, t, i + 1, b)
  BY CutsStep
<1> HIDE DEF re, e, h, c
<1>5. ASSUME NEW j \in 1 .. Len(t) + 1, p.atoms[i].star
      PROVE  (j \in h[e]) <=> Cuts(p, t, i, j - 1)
  <2>1. h[e] = {x \in 1 .. Len(t) + 1 : \E k \in StarLengths(re[e], t, x) : k \in h[e + 2]}
    BY <1>1, <1>2, <1>5 DEF Step
  <2>2. (j \in h[e]) <=> \E k \in StarLengths(c, t, j) : k \in h[Place(p, i + 1)]
    BY <1>1, <1>5, <2>1
  <2>3. j - 1 \in 0 .. Len(t)
    OBVIOUS
  <2>4. ASSUME NEW k \in 1 .. Len(t) + 1
        PROVE  (k \in StarLengths(c, t, j)) <=> Piece(p, t, i, j - 1, k - 1)
    <3>1. j - 1 + 1 = j
      OBVIOUS
    <3> QED BY <1>5, <3>1 DEF StarLengths, Piece, c
  <2>5. ASSUME NEW k \in StarLengths(c, t, j), k \in h[Place(p, i + 1)]
        PROVE  Cuts(p, t, i, j - 1)
    <3>1. k \in 1 .. Len(t) + 1 /\ k - 1 \in 0 .. Len(t)
      BY DEF StarLengths
    <3>2. Piece(p, t, i, j - 1, k - 1) /\ Cuts(p, t, i + 1, k - 1)
      BY <1>3, <2>4, <2>5, <3>1
    <3> QED BY <1>4, <2>3, <3>1, <3>2
  <2>6. ASSUME NEW b \in 0 .. Len(t), Piece(p, t, i, j - 1, b), Cuts(p, t, i + 1, b)
        PROVE  j \in h[e]
    <3>1. PICK k \in 1 .. Len(t) + 1 : k - 1 = b
      <4>1. b + 1 \in 1 .. Len(t) + 1 /\ b + 1 - 1 = b
        OBVIOUS
      <4> QED BY <4>1
    <3>2. k \in StarLengths(c, t, j) /\ k \in h[Place(p, i + 1)]
      BY <1>3, <2>4, <2>6, <3>1
    <3> QED BY <2>2, <3>2
  <2>7. Cuts(p, t, i, j - 1) <=>
          \E b \in 0 .. Len(t) : Piece(p, t, i, j - 1, b) /\ Cuts(p, t, i + 1, b)
    BY <1>4, <2>3
  <2> QED BY <2>2, <2>5, <2>6, <2>7
<1>6. ASSUME NEW j \in 1 .. Len(t) + 1, ~ p.atoms[i].star
      PROVE  (j \in h[e]) <=> Cuts(p, t, i, j - 1)
  <2>1. h[e] = {x \in 1 .. Len(t) : Matches(re[e], t[x]) /\ x + 1 \in h[e + 1]}
    BY <1>1, <1>2, <1>6 DEF Step
  <2>2. (j \in h[e]) <=>
          j \in 1 .. Len(t) /\ Matches(c, t[j]) /\ j + 1 \in h[Place(p, i + 1)]
    BY <1>1, <1>6, <2>1
  <2>3. j - 1 \in 0 .. Len(t) /\ j - 1 + 1 = j
    OBVIOUS
  <2>4. ASSUME NEW b \in 0 .. Len(t)
        PROVE  Piece(p, t, i, j - 1, b) <=> b = j /\ Matches(c, t[j])
    <3>1. Piece(p, t, i, j - 1, b) => b = j /\ Matches(c, t[j])
      BY <1>6, <2>3 DEF Piece, c
    <3>2. b = j /\ Matches(c, t[j]) => Piece(p, t, i, j - 1, b)
      <4>1. \A x \in j .. j : x = j
        OBVIOUS
      <4> QED BY <2>3, <4>1 DEF Piece, c
    <3> QED BY <3>1, <3>2
  <2>5. ASSUME j \in 1 .. Len(t)
        PROVE  (j + 1 \in h[Place(p, i + 1)]) <=> Cuts(p, t, i + 1, j)
    <3>1. PICK k \in 1 .. Len(t) + 1 : k = j + 1 /\ k - 1 = j
      <4>1. j + 1 \in 1 .. Len(t) + 1 /\ j + 1 - 1 = j
        BY <2>5
      <4> QED BY <4>1
    <3> QED BY <1>3, <3>1
  <2>6. Cuts(p, t, i, j - 1) <=>
          j \in 0 .. Len(t) /\ Matches(c, t[j]) /\ Cuts(p, t, i + 1, j)
    BY <1>4, <2>3, <2>4
  <2>7. (j \in 0 .. Len(t)) <=> (j \in 1 .. Len(t))
    OBVIOUS
  <2> QED BY <2>2, <2>5, <2>6, <2>7
<1> QED BY <1>5, <1>6 DEF Claim, re, e, h

\* and so for the whole pattern.
LEMMA HereCuts ==
  ASSUME NEW p \in Pattern, NEW t \in Seq(Int)
  PROVE  Claim(p, t, 1)
<1> DEFINE n == Len(p.atoms)
           D == {d \in 0 .. n : ~ Claim(p, t, n + 1 - d)}
<1>0. n \in Nat
  BY DEF Pattern
<1>1. SUFFICES ASSUME D # {} PROVE FALSE
  <2>1. n \notin D /\ n \in 0 .. n
    BY <1>0, <1>1
  <2>2. n + 1 - n = 1
    BY <1>0
  <2> QED BY <2>1, <2>2
<1>2. PICK d \in D : \A e \in D : d <= e
  <2>1. D \subseteq Nat
    OBVIOUS
  <2> HIDE DEF D
  <2> QED BY <1>1, <2>1, Least
<1>3. d \in 0 .. n /\ ~ Claim(p, t, n + 1 - d)
  OBVIOUS
<1>4. CASE d = 0
  <2>1. n + 1 - d = n + 1
    BY <1>0, <1>4
  <2> QED BY <1>3, <2>1, ClaimEnd
<1>5. CASE d # 0
  <2>1. d - 1 \in 0 .. n /\ ~ (d <= d - 1)
    BY <1>0, <1>3, <1>5
  <2>2. Claim(p, t, n + 1 - (d - 1))
    BY <1>2, <2>1
  <2>3. PICK i \in 1 .. n : n + 1 - d = i /\ n + 1 - (d - 1) = i + 1
    <3>1. n + 1 - d \in 1 .. n /\ n + 1 - (d - 1) = (n + 1 - d) + 1
      BY <1>0, <1>3, <1>5
    <3> QED BY <3>1
  <2> QED BY <1>3, <2>2, <2>3, ClaimStep
<1> QED BY <1>4, <1>5

\* The pattern of a statement begins with ^ exactly when it is meant to.
LEMMA WrittenIs ==
  ASSUME NEW p \in Pattern
  PROVE  /\ p.from => /\ Written(p) # <<>> /\ Written(p)[1] = Caret
                      /\ Tail(Written(p)) = Body(p)
         /\ ~ p.from => /\ Written(p) = Body(p)
                        /\ Written(p) # <<>> => Written(p)[1] # Caret
<1> DEFINE at == Atoms(p)
           last == IF p.to THEN <<Dollar>> ELSE <<>>
<1>1. at \in Seq(Int) /\ last \in Seq(Int)
  BY AtomsAre DEF Dollar
<1>2. Body(p) = at \o last /\ Body(p) \in Seq(Int)
  BY <1>1 DEF Body
<1> HIDE DEF at, last
<1>3. ASSUME p.from
      PROVE  /\ Written(p) # <<>> /\ Written(p)[1] = Caret
             /\ Tail(Written(p)) = Body(p)
  <2>1. Written(p) = (<<Caret>> \o at) \o last
    BY <1>3 DEF Written, at, last
  <2>2. (<<Caret>> \o at) \o last = <<Caret>> \o (at \o last)
    BY <1>1, ConcatAssociative DEF Caret
  <2>3. Written(p) = <<Caret>> \o Body(p)
    BY <1>2, <2>1, <2>2
  <2>4. Caret \in Int
    BY DEF Caret
  <2> QED BY <1>2, <2>3, <2>4
<1>4. ASSUME ~ p.from
      PROVE  /\ Written(p) = Body(p)
             /\ Written(p) # <<>> => Written(p)[1] # Caret
  <2>1. Written(p) = (<<>> \o at) \o last
    BY <1>4 DEF Written, at, last
  <2>2. <<>> \o at = at
    BY <1>1, ConcatEmptySeq
  <2>3. Written(p) = Body(p)
    BY <1>2, <2>1, <2>2
  <2>4. Body(p) # <<>> => Body(p)[1] # Caret
    <3> DEFINE n == Len(p.atoms)
    <3>0. n \in Nat
      BY DEF Pattern
    <3>1. Place(p, 1) = 1
      BY Places
    <3>2. CASE n = 0
      <4>1. Place(p, n + 1) = 1
        BY <3>1, <3>2
      <4>2. p.to => 1 = Len(Body(p)) /\ Body(p)[Len(Body(p))] = Dollar
        BY <4>1, BodyIs
      <4>3. ~ p.to => Len(Body(p)) + 1 = 1
        BY <4>1, BodyIs
      <4>4. ~ p.to => Body(p) = <<>>
        BY <1>2, <4>3
      <4> QED BY <4>2, <4>4 DEF Caret, Dollar
    <3>3. CASE n # 0
      <4>1. 1 \in 1 .. n
        BY <3>0, <3>3
      <4>2. Body(p)[Place(p, 1)] = p.atoms[1].c /\ p.atoms[1].c # Caret
        BY <4>1, BodyIs
      <4> QED BY <3>1, <4>2
    <3> QED BY <3>2, <3>3
  <2> QED BY <2>3, <2>4
<1> QED BY <1>3, <1>4

\* match finds what the pattern denotes.
LEMMA MatchIs ==
  ASSUME NEW p \in Pattern, NEW t \in Seq(Int)
  PROVE  match(Written(p), t) <=> Denotes(p, t)
<1>1. \A j \in 1 .. Len(t) + 1 : (j \in match_here(Body(p), t)[1]) <=> Cuts(p, t, 1, j - 1)
  BY HereCuts, Places DEF Claim
<1>2. Denotes(p, t) <=> \E a \in 0 .. Len(t) : (p.from => a = 0) /\ Cuts(p, t, 1, a)
  BY DenotesIsCuts
<1>3. CASE p.from
  <2>1. match(Written(p), t) <=> 1 \in match_here(Body(p), t)[1]
    BY <1>3, WrittenIs DEF match
  <2>2. 1 \in 1 .. Len(t) + 1 /\ 1 - 1 = 0 /\ 0 \in 0 .. Len(t)
    OBVIOUS
  <2>3. (1 \in match_here(Body(p), t)[1]) <=> Cuts(p, t, 1, 0)
    BY <1>1, <2>2
  <2> QED BY <1>2, <1>3, <2>1, <2>2, <2>3
<1>4. CASE ~ p.from
  <2>1. match(Written(p), t) <=> \E j \in 1 .. Len(t) + 1 : j \in match_here(Body(p), t)[1]
    BY <1>4, WrittenIs DEF match
  <2>2. ASSUME NEW j \in 1 .. Len(t) + 1, j \in match_here(Body(p), t)[1]
        PROVE  \E a \in 0 .. Len(t) : Cuts(p, t, 1, a)
    <3>1. j - 1 \in 0 .. Len(t)
      OBVIOUS
    <3> QED BY <1>1, <2>2, <3>1
  <2>3. ASSUME NEW a \in 0 .. Len(t), Cuts(p, t, 1, a)
        PROVE  \E j \in 1 .. Len(t) + 1 : j \in match_here(Body(p), t)[1]
    <3>1. PICK j \in 1 .. Len(t) + 1 : j - 1 = a
      <4>1. a + 1 \in 1 .. Len(t) + 1 /\ a + 1 - 1 = a
        OBVIOUS
      <4> QED BY <4>1
    <3> QED BY <1>1, <2>3, <3>1
  <2> QED BY <1>2, <1>4, <2>1, <2>2, <2>3
<1> QED BY <1>3, <1>4

\* LikeExact in every state: for every pattern of ordinary characters, dots and
\* stars, with or without ^ and $, and every text, eval_like_expr answers whether
\* the text can be cut as the pattern says.
THEOREM PatternsExact == EvalSpec => []LikeExact
<1>1. EvalInit => LikeExact
  BY DEF EvalInit, LikeExact, Nobody
<1>2. ASSUME [EvalNext]_evalVars, LikeExact PROVE LikeExact'
  <2>1. CASE AskLike
    <3>1. PICK p \in Patterns, t \in Texts :
            /\ asked' = [kind |-> "like", pattern |-> p, text |-> t]
            /\ answer' = [kind |-> "like",
                          found |-> eval_like_expr(String(t), String(Written(p)))]
      BY <2>1 DEF AskLike
    <3>2. p \in Pattern /\ t \in Seq(Int)
      BY PatternsAssumption DEF Pattern, Atom
    <3>3. eval_like_expr(String(t), String(Written(p))) = Truth(match(Written(p), t))
      BY DEF eval_like_expr, String
    <3>4. is_true(Truth(match(Written(p), t))) <=> match(Written(p), t)
      <4>1. ASSUME match(Written(p), t) PROVE is_true(Truth(match(Written(p), t)))
        BY <4>1 DEF is_true, Truth, IntNum
      <4>2. ASSUME ~ match(Written(p), t) PROVE ~ is_true(Truth(match(Written(p), t)))
        BY <4>2 DEF is_true, Truth, IntNum
      <4> QED BY <4>1, <4>2
    <3>5. is_true(answer'.found) <=> Denotes(p, t)
      BY <3>1, <3>2, <3>3, <3>4, MatchIs
    <3>6. asked'.pattern = p /\ asked'.text = t
      BY <3>1
    <3> QED BY <3>5, <3>6 DEF LikeExact, is_true, Denotes
  <2>2. CASE AskCompare
    <3>1. asked'.kind = "compare"
      BY <2>2 DEF AskCompare
    <3> QED BY <3>1 DEF LikeExact
  <2>3. CASE Done
    BY <2>3 DEF Done, LikeExact, Nobody
  <2>4. CASE UNCHANGED evalVars
    <3>1. asked' = asked /\ answer' = answer
      BY <2>4 DEF evalVars
    <3> QED BY <1>2, <3>1, Zenon DEF LikeExact
  <2> QED BY <1>2, <2>1, <2>2, <2>3, <2>4 DEF EvalNext
<1> QED BY <1>1, <1>2, PTL DEF EvalSpec

=============================================================================
