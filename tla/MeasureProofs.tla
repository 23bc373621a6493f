---------------------------- MODULE MeasureProofs ----------------------------
(***************************************************************************)
(* What the factory measures: instants kept as text, tokens kept as bills, *)
(* attempts and their costs as the readers of the ledger see them.         *)
(***************************************************************************)
EXTENDS RouterProofs, SequenceTheorems

LEMMA Scaled ==
  ASSUME NEW b \in Nat, NEW q \in Nat, NEW p \in Nat, q < p
  PROVE  b * q + b <= b * p
<1>1. PICK e \in Nat : p = q + 1 + e
  <2>1. p - q - 1 \in Nat /\ p = q + 1 + (p - q - 1)
    OBVIOUS
  <2> QED BY <2>1
<1>2. b * p = b * q + b + b * e
  BY <1>1
<1>3. b * e \in Nat /\ b * q \in Nat
  OBVIOUS
<1> QED BY <1>2, <1>3

\* The quotient is the number whose multiple leaves a rest below the divisor.
LEMMA Quotient ==
  ASSUME NEW n \in Nat, n > 0, NEW p \in Nat, NEW r \in 0..n - 1
  PROVE  (n * p + r) \div n = p
<1> DEFINE q == (n * p + r) \div n
<1>1. n * p \in Nat /\ n * p + r \in Nat
  OBVIOUS
<1>2. q \in Nat /\ n * q <= n * p + r /\ n * p + r < n * q + n
  BY <1>1
<1> HIDE DEF q
<1>3. ~(q < p)
  BY <1>1, <1>2, Scaled
<1>4. ~(p < q)
  <2>1. n * q \in Nat
    BY <1>2
  <2>2. p < q => n * p + n <= n * q
    BY <1>2, Scaled
  <2> QED BY <1>1, <1>2, <2>1, <2>2
<1> QED BY <1>2, <1>3, <1>4 DEF q

LEMMA Divided ==
  ASSUME NEW t \in Nat, NEW n \in Nat, n > 0
  PROVE  /\ t \div n \in Nat
         /\ t % n \in 0..n - 1
         /\ t = n * (t \div n) + (t % n)
OBVIOUS

LEMMA DividedTwice ==
  ASSUME NEW t \in Nat, NEW w \in Nat, w > 0, NEW b \in Nat, b > 0
  PROVE  (t \div w) \div b = t \div (b * w)
<1> DEFINE q == t \div w
           r == t % w
           p == q \div b
           d == q % b
<1>1. q \in Nat /\ r \in 0..w - 1 /\ t = w * q + r
  BY Divided
<1>2. p \in Nat /\ d \in 0..b - 1 /\ q = b * p + d
  <2> HIDE DEF q
  <2> QED BY <1>1, Divided
<1> HIDE DEF q, r, p, d
<1>3. t = (b * w) * p + (w * d + r)
  BY <1>1, <1>2
<1>4. w * d + w <= w * b
  BY <1>2, Scaled
<1>5. w * d \in Nat /\ b * w \in Nat /\ w * b = b * w
  BY <1>2
<1>6. w * d + r \in 0..b * w - 1
  BY <1>1, <1>4, <1>5
<1>7. b * w > 0
  BY <1>1, <1>5, <1>6
<1>8. t \div (b * w) = p
  BY <1>2, <1>3, <1>5, <1>6, <1>7, Quotient
<1> QED BY <1>8 DEF p, q

-----------------------------------------------------------------------------
(***************************************************************************)
(* The fixed layout of an instant.  Its digits are those of the number, so *)
(* the first place in which two texts differ decides as the numbers do:    *)
(* what is left of the text up to the k-th place is the quotient of the    *)
(* instant and the weight of that place, for every k by induction.         *)
(***************************************************************************)
LEMMA WeightGrows ==
  /\ Weight[0] = 1
  /\ \A n \in 1..Digits : Weight[n] = Base * Weight[n - 1]
  /\ \A n \in 0..Digits : Weight[n] \in Nat /\ Weight[n] > 0
<1> DEFINE D == Nat
           base == 1
           n == Digits
           F == [i \in 1..n |-> [w \in D |-> Base * w]]
           Is(f) == f = [i \in 0..Digits |-> IF i = 0 THEN 1 ELSE Base * f[i - 1]]
<1>1. Digits \in Nat /\ Base \in Nat
  BY TimeTextAssumption
<1>2. base \in D /\ n \in Nat /\ F \in [1..n -> [D -> D]]
  BY <1>1
<1>3. PICK f \in [0..n -> D] : f[0] = base /\ \A i \in 1..n : f[i] = F[i][f[i - 1]]
  <2> HIDE DEF F, D, base, n
  <2> QED BY <1>2, Iteration
<1>4. \A i \in 1..Digits : f[i - 1] \in Nat /\ f[i] = Base * f[i - 1]
  <2> SUFFICES ASSUME NEW i \in 1..Digits PROVE f[i - 1] \in Nat /\ f[i] = Base * f[i - 1]
    OBVIOUS
  <2>1. i - 1 \in 0..Digits
    BY <1>1
  <2>2. f[i - 1] \in Nat
    BY <2>1
  <2>3. f[i] = F[i][f[i - 1]] /\ F[i] = [w \in Nat |-> Base * w]
    BY <1>3
  <2> QED BY <2>2, <2>3
<1>5. Is(Weight)
  <2>1. Weight = CHOOSE g : Is(g)
    BY DEF Weight
  <2>2. f[0] = 1 /\ f \in [0..Digits -> Nat]
    BY <1>3
  <2>3. Is(f)
    <3>1. \A i \in 0..Digits : f[i] = IF i = 0 THEN 1 ELSE Base * f[i - 1]
      BY <1>1, <1>4, <2>2
    <3> QED BY <2>2, <3>1
  <2> HIDE DEF Is
  <2> QED BY <2>1, <2>3
<1>6. /\ Weight[0] = 1
      /\ \A i \in 1..Digits : Weight[i] = Base * Weight[i - 1]
  <2>1. \A i \in 0..Digits : Weight[i] = IF i = 0 THEN 1 ELSE Base * Weight[i - 1]
    BY <1>5
  <2>2. 0 \in 0..Digits /\ \A i \in 1..Digits : i \in 0..Digits /\ i # 0
    BY <1>1
  <2> HIDE DEF Is
  <2> QED BY <2>1, <2>2
<1> DEFINE T == { i \in 0..Digits : Weight[i] \in Nat /\ Weight[i] > 0 }
<1>7. 0..Digits \subseteq T
  <2>1. 0 \in T
    BY <1>1, <1>6
  <2>2. ASSUME NEW i \in 1..Digits, i - 1 \in T PROVE i \in T
    <3>1. \A w \in Nat : w > 0 => Base * w \in Nat /\ Base * w > 0
      BY TimeTextAssumption
    <3>2. Weight[i - 1] \in Nat /\ Weight[i - 1] > 0 /\ Weight[i] = Base * Weight[i - 1]
      BY <1>6, <2>2
    <3>3. Weight[i] \in Nat /\ Weight[i] > 0
      <4> HIDE DEF F, Is
      <4> QED BY <3>1, <3>2
    <3> QED BY <1>1, <3>3
  <2> HIDE DEF T
  <2> QED BY <1>1, <2>1, <2>2, UpTo
<1> QED BY <1>6, <1>7

\* What the text says up to the k-th place.
Prefix(t, k) == t \div Weight[Digits - k]

LEMMA PrefixGrows ==
  ASSUME NEW t \in Nat
  PROVE  /\ Prefix(t, 0) = Second(t)
         /\ Prefix(t, Digits) = t
         /\ \A k \in 0..Digits : Prefix(t, k) \in Nat
         /\ \A k \in 1..Digits : /\ Digit(t, k) \in 0..Base - 1
                                 /\ Prefix(t, k) = Base * Prefix(t, k - 1) + Digit(t, k)
<1>1. Digits \in Nat /\ Base \in Nat /\ Base > 0
  BY TimeTextAssumption
<1>2. \A k \in 0..Digits : Digits - k \in 0..Digits
  BY <1>1
<1>3. \A k \in 0..Digits : Prefix(t, k) \in Nat
  BY <1>2, WeightGrows, Divided DEF Prefix
<1>4. Prefix(t, 0) = Second(t) /\ Prefix(t, Digits) = t
  BY <1>1, WeightGrows DEF Prefix, Second, TicksPerSecond
<1>5. ASSUME NEW k \in 1..Digits
      PROVE  /\ Digit(t, k) \in 0..Base - 1
             /\ Prefix(t, k) = Base * Prefix(t, k - 1) + Digit(t, k)
  <2>1. k \in 0..Digits /\ k - 1 \in 0..Digits /\ Digits - (k - 1) \in 1..Digits
        /\ (Digits - (k - 1)) - 1 = Digits - k
    BY <1>1
  <2>2. Weight[Digits - (k - 1)] = Base * Weight[Digits - k]
    BY <2>1, WeightGrows
  <2>3. Weight[Digits - k] \in Nat /\ Weight[Digits - k] > 0
    BY <1>2, <2>1, WeightGrows
  <2>4. Prefix(t, k - 1) = Prefix(t, k) \div Base
    BY <1>1, <2>2, <2>3, DividedTwice DEF Prefix
  <2>5. Digit(t, k) = Prefix(t, k) % Base
    BY DEF Digit, Prefix
  <2> HIDE DEF Prefix, Digit
  <2> QED BY <1>1, <1>3, <2>1, <2>4, <2>5, Divided
<1> QED BY <1>3, <1>4, <1>5

LEMMA PlacesDecide ==
  ASSUME NEW b \in Nat, NEW q \in Nat, NEW p \in Nat, NEW d \in 0..b - 1, NEW e \in 0..b - 1
  PROVE  /\ b * q + d = b * p + e <=> q = p /\ d = e
         /\ b * q + d < b * p + e <=> q < p \/ (q = p /\ d < e)
<1>1. b * q \in Nat /\ b * p \in Nat
  OBVIOUS
<1>2. q < p => b * q + b <= b * p
  BY Scaled
<1>3. p < q => b * p + b <= b * q
  BY Scaled
<1>4. q < p \/ p < q \/ q = p
  OBVIOUS
<1>5. CASE q < p
  BY <1>1, <1>2, <1>5
<1>6. CASE p < q
  BY <1>1, <1>3, <1>6
<1>7. CASE q = p
  BY <1>1, <1>7
<1> QED BY <1>4, <1>5, <1>6, <1>7

\* The first place up to the k-th where two texts differ is in order.
Ahead(t, u, k) ==
  \E i \in 1..k : Digit(t, i) < Digit(u, i) /\ \A j \in 1..i - 1 : Digit(t, j) = Digit(u, j)

Alike(t, u, k) == \A i \in 1..k : Digit(t, i) = Digit(u, i)

LEMMA PrefixDecides ==
  ASSUME NEW t \in Nat, NEW u \in Nat
  PROVE  \A k \in 0..Digits :
           /\ Prefix(t, k) = Prefix(u, k) <=> Second(t) = Second(u) /\ Alike(t, u, k)
           /\ Prefix(t, k) < Prefix(u, k) <=>
                Second(t) < Second(u) \/ (Second(t) = Second(u) /\ Ahead(t, u, k))
<1> DEFINE Decides(k) ==
             /\ Prefix(t, k) = Prefix(u, k) <=> Second(t) = Second(u) /\ Alike(t, u, k)
             /\ Prefix(t, k) < Prefix(u, k) <=>
                  Second(t) < Second(u) \/ (Second(t) = Second(u) /\ Ahead(t, u, k))
           T == { k \in 0..Digits : Decides(k) }
<1>1. Digits \in Nat /\ Base \in Nat
  BY TimeTextAssumption
<1>2. 0 \in T
  <2>1. Prefix(t, 0) = Second(t) /\ Prefix(u, 0) = Second(u)
    BY PrefixGrows
  <2>2. Alike(t, u, 0) /\ ~Ahead(t, u, 0)
    BY <1>1 DEF Alike, Ahead
  <2> QED BY <1>1, <2>1, <2>2
<1>3. ASSUME NEW k \in 1..Digits, k - 1 \in T PROVE k \in T
  <2>1. /\ Prefix(t, k) = Base * Prefix(t, k - 1) + Digit(t, k)
        /\ Prefix(u, k) = Base * Prefix(u, k - 1) + Digit(u, k)
        /\ Digit(t, k) \in 0..Base - 1 /\ Digit(u, k) \in 0..Base - 1
    BY PrefixGrows
  <2>2. Prefix(t, k - 1) \in Nat /\ Prefix(u, k - 1) \in Nat
    BY <1>1, PrefixGrows
  <2>3. /\ Prefix(t, k) = Prefix(u, k) <=>
             Prefix(t, k - 1) = Prefix(u, k - 1) /\ Digit(t, k) = Digit(u, k)
        /\ Prefix(t, k) < Prefix(u, k) <=>
             \/ Prefix(t, k - 1) < Prefix(u, k - 1)
             \/ Prefix(t, k - 1) = Prefix(u, k - 1) /\ Digit(t, k) < Digit(u, k)
    <3> HIDE DEF Prefix, Digit
    <3> QED BY <1>1, <2>1, <2>2, PlacesDecide
  <2>4. Decides(k - 1)
    BY <1>3
  <2>5. Alike(t, u, k) <=> Alike(t, u, k - 1) /\ Digit(t, k) = Digit(u, k)
    BY <1>1 DEF Alike
  <2>6. Ahead(t, u, k) <=> Ahead(t, u, k - 1) \/ (Alike(t, u, k - 1) /\ Digit(t, k) < Digit(u, k))
    BY <1>1 DEF Ahead, Alike
  <2>7. Decides(k)
    BY <2>3, <2>4, <2>5, <2>6
  <2> QED BY <1>1, <2>7
<1>4. 0..Digits \subseteq T
  <2> HIDE DEF T
  <2> QED BY <1>1, <1>2, <1>3, UpTo
<1> QED BY <1>4

LEMMA FixedBytes ==
  ASSUME NEW t \in Nat, NEW s, s = FixedText(t)
  PROVE  /\ Len(s) = Digits + 2
         /\ s[1] = Dot
         /\ s[Digits + 2] = ZByte
         /\ \A i \in 1..Digits : s[i + 1] = DigitByte(Digit(t, i))
<1>1. Digits \in Nat /\ Digits > 0 /\ Base \in Nat
  BY TimeTextAssumption
<1>2. \A i \in 1..Digits : Digit(t, i) \in 0..Base - 1
  BY PrefixGrows
<1> DEFINE d == [i \in 1..Digits |-> DigitByte(Digit(t, i))]
           f == << Dot >> \o d
<1>3. d \in Seq(Nat) /\ Len(d) = Digits
  BY <1>1, <1>2 DEF DigitByte
<1>4. << Dot >> \in Seq(Nat) /\ << ZByte >> \in Seq(Nat)
  BY <1>1 DEF Dot, ZByte
<1>5. s = f \o << ZByte >>
  BY <1>1 DEF FixedText, Fraction
<1>6. \A i \in 1..Digits : d[i] = DigitByte(Digit(t, i))
  OBVIOUS
<1>7. f \in Seq(Nat) /\ Len(f) = Digits + 1 /\ f[1] = Dot /\ \A i \in 1..Digits : f[i + 1] = d[i]
  <2> HIDE DEF d
  <2> QED BY <1>1, <1>3, <1>4
<1> HIDE DEF f, d
<1>8. /\ Len(s) = Digits + 2 /\ s[Digits + 2] = ZByte
      /\ \A i \in 1..Digits + 1 : s[i] = f[i]
  BY <1>1, <1>4, <1>5, <1>7
<1>9. \A i \in 1..Digits : i + 1 \in 1..Digits + 1
  BY <1>1
<1> QED BY <1>1, <1>6, <1>7, <1>8, <1>9

LEMMA FixedBytesLess ==
  ASSUME NEW t \in Nat, NEW u \in Nat
  PROVE  BytesLess(FixedText(t), FixedText(u)) <=> Ahead(t, u, Digits)
<1>1. PICK s, v : s = FixedText(t) /\ v = FixedText(u)
  OBVIOUS
<1>2. Digits \in Nat
  BY TimeTextAssumption
<1>3. /\ Len(s) = Digits + 2 /\ Len(v) = Digits + 2
      /\ s[1] = v[1] /\ s[1] \in Nat
      /\ s[Digits + 2] = v[Digits + 2] /\ s[Digits + 2] \in Nat
  BY <1>1, FixedBytes, TimeTextAssumption DEF Dot, ZByte
<1>4. \A i \in 1..Digits : /\ s[i + 1] < v[i + 1] <=> Digit(t, i) < Digit(u, i)
                           /\ s[i + 1] = v[i + 1] <=> Digit(t, i) = Digit(u, i)
  <2> SUFFICES ASSUME NEW i \in 1..Digits
               PROVE  /\ s[i + 1] < v[i + 1] <=> Digit(t, i) < Digit(u, i)
                      /\ s[i + 1] = v[i + 1] <=> Digit(t, i) = Digit(u, i)
    OBVIOUS
  <2>1. s[i + 1] = Digit(t, i) + 1 /\ v[i + 1] = Digit(u, i) + 1
    BY <1>1, FixedBytes DEF DigitByte
  <2>2. Digit(t, i) \in Nat /\ Digit(u, i) \in Nat
    <3>1. Digit(t, i) \in 0..Base - 1 /\ Digit(u, i) \in 0..Base - 1
      BY PrefixGrows
    <3> QED BY <3>1, TimeTextAssumption
  <2> HIDE DEF Digit
  <2> QED BY <2>1, <2>2
<1>5. BytesLess(s, v) <=>
        \E i \in 1..Digits + 2 : s[i] < v[i] /\ \A j \in 1..i - 1 : s[j] = v[j]
  BY <1>2, <1>3 DEF BytesLess
<1>6. ASSUME NEW i \in 1..Digits + 2, s[i] < v[i], \A j \in 1..i - 1 : s[j] = v[j]
      PROVE  Ahead(t, u, Digits)
  <2>1. i # 1 /\ i # Digits + 2
    BY <1>3, <1>6
  <2>2. i - 1 \in 1..Digits /\ (i - 1) + 1 = i
    BY <1>2, <2>1
  <2>3. Digit(t, i - 1) < Digit(u, i - 1)
    BY <1>4, <1>6, <2>2
  <2>4. ASSUME NEW j \in 1..(i - 1) - 1 PROVE Digit(t, j) = Digit(u, j)
    <3>1. j \in 1..Digits /\ j + 1 \in 1..i - 1
      BY <1>2, <2>2
    <3> QED BY <1>4, <1>6, <3>1
  <2> QED BY <2>2, <2>3, <2>4 DEF Ahead
<1>7. ASSUME NEW i \in 1..Digits, Digit(t, i) < Digit(u, i), Alike(t, u, i - 1)
      PROVE  \E m \in 1..Digits + 2 : s[m] < v[m] /\ \A j \in 1..m - 1 : s[j] = v[j]
  <2>1. s[i + 1] < v[i + 1]
    BY <1>4, <1>7
  <2>2. ASSUME NEW j \in 1..(i + 1) - 1 PROVE s[j] = v[j]
    <3>1. CASE j = 1
      BY <1>3, <3>1
    <3>2. CASE j # 1
      <4>1. j - 1 \in 1..i - 1 /\ j - 1 \in 1..Digits /\ (j - 1) + 1 = j
        BY <1>2, <3>2
      <4> QED BY <1>4, <1>7, <4>1 DEF Alike
    <3> QED BY <3>1, <3>2
  <2>3. i + 1 \in 1..Digits + 2
    BY <1>2
  <2> QED BY <2>1, <2>2, <2>3
<1> QED BY <1>1, <1>5, <1>6, <1>7 DEF Ahead, Alike

LEMMA PartOfMeasures == [FactoryNext]_everything => part' = part
BY DEF FactoryNext, everything, Time, Authorize, AssignWork, PassArtifacts, KeepRegistry,
       SelectRoutes, KeepEvidence, CaptureUsage, Dispatch, Judge

\* Texts of the fixed layout order as the instants do, for any base, number of
\* places and pair of instants.
THEOREM FixedTextOrdersCorrect == FactorySpec => []FixedTextIsChronological
<1> DEFINE Instants == part = "time" => first \in Nat /\ second \in Nat
<1>1. FactoryInit => Instants
  BY DEF FactoryInit
<1>2. Instants /\ [FactoryNext]_everything => Instants'
  <2> SUFFICES ASSUME Instants, [FactoryNext]_everything, part = "time" PROVE Instants'
    BY PartOfMeasures
  <2>1. Time \/ UNCHANGED << first, second >>
    BY DEF FactoryNext, everything, ticks, Authorize, AssignWork, PassArtifacts, KeepRegistry,
           SelectRoutes, KeepEvidence, CaptureUsage, Dispatch, Judge
  <2> QED BY <2>1 DEF Time, TickFirst, TickSecond
<1>3. Instants => FixedTextIsChronological
  <2> SUFFICES ASSUME first \in Nat, second \in Nat
               PROVE  FixedLess(first, second) <=> first < second
    BY DEF FixedTextIsChronological
  <2>1. Digits \in Nat /\ Digits \in 0..Digits
    BY TimeTextAssumption
  <2>2. Prefix(first, Digits) = first /\ Prefix(second, Digits) = second
    BY PrefixGrows
  <2> HIDE DEF Prefix, Second
  <2> QED BY <2>1, <2>2, PrefixDecides, FixedBytesLess DEF FixedLess
<1> QED BY <1>1, <1>2, <1>3, PTL DEF FactorySpec

-----------------------------------------------------------------------------
(***************************************************************************)
(* The bill.  Sums over turns are folds: each is the sum of a function on  *)
(* the set, of which the proof needs its type, that zeros add up to zero,  *)
(* and that a set of one has one summand.                                  *)
(***************************************************************************)
Turns == [model : Models, tokens : Consumptions]

LEMMA TurnsSum ==
  ASSUME NEW n \in Nat, turns \in [1..n -> Turns], NEW K \in SUBSET (1..n), NEW p \in U!Parts
  PROVE  /\ U!Sum(p, K) \in Nat
         /\ (\A k \in K : turns[k].tokens[p] = 0) => U!Sum(p, K) = 0
<1> DEFINE v == [k \in K |-> turns[k].tokens[p]]
           Is(f) == f = [s \in SUBSET K |-> IF s = {} THEN 0
                           ELSE turns[CHOOSE x \in s : TRUE].tokens[p]
                                + f[s \ {CHOOSE x \in s : TRUE}]]
           iter == CHOOSE f : Is(f)
<1>1. IsFiniteSet(K) /\ v \in [K -> Nat]
  <2>1. IsFiniteSet(1..n)
    BY FS_Interval
  <2>2. \A k \in K : turns[k].tokens[p] \in Nat
    BY FactoryAssumption DEF U!Assumption, Turns
  <2> QED BY <2>1, <2>2, FS_Subset
<1>2. U!Sum(p, K) = iter[K]
  BY DEF U!Sum, U!MapThenSumSet, U!MapThenFoldSet
<1>3. PICK g : Sums(g, v, K) /\ SumOf(v, K) = g[K]
  <2> HIDE DEF v
  <2> QED BY <1>1, FoldIsSum
<1>4. Is(g)
  <2>1. ASSUME NEW s \in SUBSET K
        PROVE  g[s] = IF s = {} THEN 0 ELSE turns[OneOf(s)].tokens[p] + g[s \ {OneOf(s)}]
    <3>1. CASE s = {}
      BY <1>3, <3>1 DEF Sums
    <3>2. CASE s # {}
      <4>1. g[s] = v[OneOf(s)] + g[s \ {OneOf(s)}] /\ OneOf(s) \in K
        BY <1>3, <3>2, OneOfIsMember DEF Sums
      <4> QED BY <3>2, <4>1
    <3> QED BY <3>1, <3>2
  <2>2. g = [s \in SUBSET K |-> g[s]]
    BY <1>3 DEF Sums
  <2> HIDE DEF v
  <2> QED BY <2>1, <2>2 DEF OneOf
<1>5. Is(iter)
  <2> HIDE DEF Is
  <2> QED BY <1>4
<1>6. /\ iter = [s \in SUBSET K |-> iter[s]] /\ iter[{}] = 0
      /\ \A s \in SUBSET K : s # {} => iter[s] = v[OneOf(s)] + iter[s \ {OneOf(s)}]
  <2> HIDE DEF iter
  <2>1. iter = [s \in SUBSET K |-> iter[s]] /\ iter[{}] = 0
    BY <1>5
  <2>2. ASSUME NEW s \in SUBSET K, s # {} PROVE iter[s] = v[OneOf(s)] + iter[s \ {OneOf(s)}]
    <3>1. iter[s] = turns[OneOf(s)].tokens[p] + iter[s \ {OneOf(s)}]
      BY <1>5, <2>2 DEF OneOf
    <3>2. OneOf(s) \in K
      BY <2>2, OneOfIsMember
    <3> QED BY <3>1, <3>2
  <2> QED BY <2>1, <2>2
<1>7. Sums(iter, v, K)
  <2> HIDE DEF iter, v
  <2> QED BY <1>1, <1>6, TableOfSums
<1>8. iter[K] = g[K]
  <2> HIDE DEF iter, v
  <2> QED BY <1>1, <1>3, <1>7, SumsAgree
<1>9. (\A k \in K : turns[k].tokens[p] = 0) => SumOf(v, K) = 0
  <2> SUFFICES ASSUME \A k \in K : turns[k].tokens[p] = 0 PROVE SumOf(v, K) = 0
    OBVIOUS
  <2>1. \A k \in K : v[k] = 0
    OBVIOUS
  <2> HIDE DEF v
  <2> QED BY <1>1, <2>1, SumOfZeros
<1>10. SumOf(v, K) \in Nat
  <2> HIDE DEF v
  <2> QED BY <1>1, SumFacts
<1> HIDE DEF v, iter
<1> QED BY <1>2, <1>3, <1>8, <1>9, <1>10

\* The rows of a session of one model are one row.
LEMMA RowsOfOne ==
  ASSUME NEW line, line.rows = {Launched}, NEW row, row = U!Row(line, U!All),
         U!Used = {Launched}, row.exact \in Int \cup {Unknown}, row.least \in Int
  PROVE  /\ U!ModelRows(line).refused = row.refused
         /\ U!ModelRows(line).exact = row.exact
         /\ U!ModelRows(line).least = row.least
<1> DEFINE rows == [m \in line.rows |-> U!Row(line, {k \in U!All : turns[k].model = m})]
           K == {Launched}
           Exact(f) == f = [s \in SUBSET K |-> IF s = {} THEN 0
                              ELSE rows[OneOf(s)].exact + f[s \ {OneOf(s)}]]
           Least_(f) == f = [s \in SUBSET K |-> IF s = {} THEN 0
                               ELSE rows[OneOf(s)].least + f[s \ {OneOf(s)}]]
           exact == CHOOSE f : Exact(f)
           least == CHOOSE f : Least_(f)
<1>1. \A k \in U!All : turns[k].model = Launched
  BY DEF U!Used
<1>2. {k \in U!All : turns[k].model = Launched} = U!All
  BY <1>1
<1>3. rows[Launched] = row
  BY <1>2
<1>4. /\ OneOf(K) = Launched /\ K \ {OneOf(K)} = {}
      /\ \A s \in SUBSET K : s # {} => s = K
  BY DEF OneOf
<1>0. {} \in SUBSET K /\ K \in SUBSET K /\ K # {}
  OBVIOUS
<1> HIDE DEF rows, K
<1>5. row.exact \in Int => exact[K] = row.exact
  <2> SUFFICES ASSUME row.exact \in Int PROVE exact[K] = row.exact
    OBVIOUS
  <2> DEFINE g == [s \in SUBSET K |-> IF s = {} THEN 0 ELSE row.exact]
  <2>1. g[{}] = 0 /\ g[K] = row.exact
    BY <1>0
  <2>2. ASSUME NEW s \in SUBSET K
        PROVE  g[s] = IF s = {} THEN 0 ELSE rows[OneOf(s)].exact + g[s \ {OneOf(s)}]
    <3> HIDE DEF g
    <3>1. CASE s = {}
      BY <2>1, <3>1
    <3>2. CASE s # {}
      <4>1. s = K /\ g[s \ {OneOf(s)}] = 0 /\ rows[OneOf(s)].exact = row.exact
        BY <1>3, <1>4, <2>1, <3>2
      <4> QED BY <2>1, <3>2, <4>1
    <3> QED BY <3>1, <3>2
  <2>3. Exact(g)
    BY <2>2
  <2>4. Exact(exact)
    <3> HIDE DEF Exact, g
    <3> QED BY <2>3
  <2> HIDE DEF exact
  <2>5. exact[{}] = 0 /\ exact[K] = rows[OneOf(K)].exact + exact[K \ {OneOf(K)}]
    BY <1>0, <2>4
  <2>6. exact[K \ {OneOf(K)}] = exact[{}]
    BY <1>4
  <2>7. rows[OneOf(K)] = row
    BY <1>3, <1>4
  <2> HIDE DEF Exact, Least_
  <2> QED BY <2>5, <2>6, <2>7
<1>6. least[K] = row.least
  <2> DEFINE g == [s \in SUBSET K |-> IF s = {} THEN 0 ELSE row.least]
  <2>1. g[{}] = 0 /\ g[K] = row.least
    BY <1>0
  <2>2. ASSUME NEW s \in SUBSET K
        PROVE  g[s] = IF s = {} THEN 0 ELSE rows[OneOf(s)].least + g[s \ {OneOf(s)}]
    <3> HIDE DEF g
    <3>1. CASE s = {}
      BY <2>1, <3>1
    <3>2. CASE s # {}
      <4>1. s = K /\ g[s \ {OneOf(s)}] = 0 /\ rows[OneOf(s)].least = row.least
        BY <1>3, <1>4, <2>1, <3>2
      <4> QED BY <2>1, <3>2, <4>1
    <3> QED BY <3>1, <3>2
  <2>3. Least_(g)
    BY <2>2
  <2>4. Least_(least)
    <3> HIDE DEF Least_, g
    <3> QED BY <2>3
  <2> HIDE DEF least
  <2>5. least[{}] = 0 /\ least[K] = rows[OneOf(K)].least + least[K \ {OneOf(K)}]
    BY <1>0, <2>4
  <2>6. least[K \ {OneOf(K)}] = least[{}]
    BY <1>4
  <2>7. rows[OneOf(K)] = row
    BY <1>3, <1>4
  <2> HIDE DEF Exact, Least_
  <2> QED BY <2>5, <2>6, <2>7
<1>7. /\ U!ModelRows(line).refused = \E m \in K : rows[m].refused
      /\ U!ModelRows(line).exact = IF \A m \in K : rows[m].exact # Unknown THEN exact[K] ELSE Unknown
      /\ U!ModelRows(line).least = least[K]
  BY DEF K, U!ModelRows, U!MapThenSumSet, U!MapThenFoldSet, rows, OneOf
<1> HIDE DEF exact, least
<1>8. row.exact # Unknown <=> row.exact \in Int
  BY FactoryAssumption DEF U!Assumption
<1>9. U!ModelRows(line).exact = row.exact
  BY <1>3, <1>5, <1>7, <1>8 DEF K
<1>10. U!ModelRows(line).refused = row.refused
  <2>1. row.refused \in BOOLEAN
    BY DEF U!Row
  <2> QED BY <1>3, <1>7, <2>1 DEF K
<1> QED BY <1>6, <1>7, <1>9, <1>10

Kinds == {"step", "receipt", "failed", "garbled"}
Lines == [kind : Kinds, turns : SUBSET Nat, has : Fields, rows : (SUBSET Models) \cup {Unknown},
          event : BOOLEAN, slip : {0, 1}]

\* The models of a session: what a route without rows may have used, and where
\* a session with a message for each turn began.
ModelsKnown ==
  /\ harness \notin {"claude", "pi", "omp"} => \A k \in U!All : turns[k].model = Launched
  /\ harness \in {"pi", "omp"} /\ 1 \in U!All => turns[1].model = Launched

\* What a harness never reports is not there.
NothingApart ==
  \A k \in U!All :
    /\ harness = "codex" => turns[k].tokens["write"] = 0
    /\ harness # "opencode" => turns[k].tokens["reasoning"] = 0

\* Every turn of a stepwise harness has its line; a summary comes after the
\* last turn, with a row for each model or of the one model of the route.
LinesMatch(i) ==
  /\ harness \in U!Stepwise =>
       lines[i].kind \in {"step", "garbled"} /\ lines[i].turns \subseteq U!All
  /\ harness \notin U!Stepwise => lines[i].kind # "step"
  /\ harness = "claude" /\ lines[i].kind \in {"receipt", "failed"} =>
       \/ lines[i].rows = U!Used
       \/ lines[i].rows = Unknown /\ U!Used = {Launched}

SessionInv ==
  /\ harness \in U!Harnesses
  /\ turns \in Seq(Turns) /\ lines \in Seq(Lines)
  /\ ModelsKnown /\ NothingApart
  /\ \A i \in DOMAIN lines : LinesMatch(i)
  /\ harness \in U!Stepwise =>
       \A k \in U!All : \E i \in DOMAIN lines : lines[i].turns = {k}
  /\ U!BilledInFull

LEMMA SessionInit == ASSUME U!Init PROVE SessionInv
BY DEF U!Init, SessionInv, ModelsKnown, NothingApart, LinesMatch, U!All, U!BilledInFull

\* What the parsers have to sum: every part of the session is a number, and the
\* parts a harness does not have add up to nothing.
LEMMA SessionSums ==
  ASSUME SessionInv
  PROVE  /\ \A p \in U!Parts : U!Sum(p, U!All) \in Nat
         /\ harness = "codex" => U!Sum("write", U!All) = 0
         /\ harness # "opencode" => U!Sum("reasoning", U!All) = 0
<1>1. PICK n \in Nat : turns \in [1..n -> Turns]
  BY DEF SessionInv
<1>2. U!All = 1..n
  BY <1>1 DEF U!All
<1>3. \A p \in U!Parts : /\ U!Sum(p, U!All) \in Nat
                         /\ (\A k \in U!All : turns[k].tokens[p] = 0) => U!Sum(p, U!All) = 0
  BY <1>1, <1>2, TurnsSum
<1>4. NothingApart /\ "write" \in U!Parts /\ "reasoning" \in U!Parts
  BY DEF SessionInv, U!Parts
<1> QED BY <1>3, <1>4 DEF NothingApart

\* Nothing is lost of a session with a message for each turn, unless a line is.
LEMMA AllCounted ==
  ASSUME SessionInv, harness \in U!Stepwise, U!Of({"garbled"}) = {}
  PROVE  U!Counted = U!All
<1>1. \A i \in DOMAIN lines : lines[i].kind = "step" /\ lines[i].turns \subseteq U!All
  BY DEF SessionInv, LinesMatch, U!Of
<1>2. \A i \in DOMAIN lines : lines[i] \in U!Steps
  BY <1>1 DEF U!Steps, U!Of
<1>3. U!Counted \subseteq U!All
  BY <1>1 DEF U!Counted, U!Steps, U!Of
<1>4. U!All \subseteq U!Counted
  BY <1>2 DEF SessionInv, U!Counted
<1> QED BY <1>3, <1>4

\* What a bill says, for the parts it is made of.
LEMMA Priced ==
  ASSUME NEW u, NEW models, NEW price, NEW b, b = U!AttemptCost(u, models, price), b # Unknown
  PROVE  /\ u # Unknown
         /\ models = Unknown \/ models = {Launched}
         /\ U!CacheAccounted(u, price) /\ U!TotalAccounted(u)
         /\ LET cached == IF u.cached = Unknown THEN 0 ELSE u.cached
            IN  b = [input |-> IF harness = "codex" THEN u.input - cached ELSE u.input,
                     cached |-> cached, write |-> 0,
                     output |-> u.output + (IF harness = "opencode" THEN u.reasoning ELSE 0)]
BY DEF U!AttemptCost

\* It is the truth if the parts are, those that are not reported are zero, and
\* nothing was written to the cache.
LEMMA TrueIfPartsAre ==
  ASSUME SessionInv, NEW u, NEW price, NEW b, b = U!AttemptCost(u, U!AggregateModels, price),
         b # Unknown,
         u.input = IF harness = "codex" THEN U!Sum("input", U!All) + U!Sum("cached", U!All)
                   ELSE U!Sum("input", U!All),
         u.output = U!Sum("output", U!All),
         u.cached = U!Sum("cached", U!All) \/ (u.cached = Unknown /\ U!Sum("cached", U!All) = 0),
         U!Sum("write", U!All) = 0,
         harness = "opencode" => u.reasoning = U!Sum("reasoning", U!All)
  PROVE  b = U!Truth
<1>1. /\ U!Sum("input", U!All) \in Nat /\ U!Sum("cached", U!All) \in Nat
      /\ U!Sum("output", U!All) \in Nat /\ U!Sum("reasoning", U!All) \in Nat
      /\ harness # "opencode" => U!Sum("reasoning", U!All) = 0
  BY SessionSums DEF U!Parts
<1>2. Unknown \notin Int
  BY FactoryAssumption DEF U!Assumption
<1> DEFINE cached == IF u.cached = Unknown THEN 0 ELSE u.cached
<1>3. b = [input |-> IF harness = "codex" THEN u.input - cached ELSE u.input,
           cached |-> cached, write |-> 0,
           output |-> u.output + (IF harness = "opencode" THEN u.reasoning ELSE 0)]
  BY Priced
<1>4. cached = U!Sum("cached", U!All)
  BY <1>1, <1>2
<1> HIDE DEF cached
<1>5. /\ (IF harness = "codex" THEN u.input - cached ELSE u.input) = U!Sum("input", U!All)
      /\ u.output + (IF harness = "opencode" THEN u.reasoning ELSE 0)
           = U!Sum("output", U!All) + U!Sum("reasoning", U!All)
  BY <1>1, <1>4
<1> QED BY <1>3, <1>4, <1>5 DEF U!Truth

LEMMA CodexBill ==
  ASSUME SessionInv, harness = "codex", NEW u, u = U!CodexUsage,
         NEW price, NEW b, b = U!AttemptCost(u, U!AggregateModels, price), b # Unknown
  PROVE  b = U!Truth
<1>1. u # Unknown /\ u.cached # Unknown
  BY Priced DEF U!CacheAccounted
<1>2. /\ u.input = U!Sum("input", U!All) + U!Sum("cached", U!All)
      /\ u.output = U!Sum("output", U!All)
      /\ u.cached \in {U!Sum("cached", U!All), Unknown}
  BY <1>1 DEF U!CodexUsage, U!Usage, U!Reported
<1> QED BY <1>1, <1>2, SessionSums, TrueIfPartsAre

LEMMA MessageBill ==
  ASSUME SessionInv, harness \in {"pi", "omp"}, U!Of({"garbled"}) = {}, NEW u, u = U!MessageUsage,
         NEW price, NEW b, b = U!AttemptCost(u, U!AggregateModels, price), b # Unknown
  PROVE  b = U!Truth
<1>1. u # Unknown /\ U!TotalAccounted(u)
  BY Priced
<1>2. U!Counted = U!All
  BY AllCounted DEF U!Stepwise
<1>3. /\ u.input = U!Sum("input", U!All) /\ u.output = U!Sum("output", U!All)
      /\ u.cached = U!Sum("cached", U!All)
      /\ u.total = U!Sum("input", U!All) + U!Sum("output", U!All) + U!Sum("cached", U!All)
                   + U!Sum("write", U!All)
  BY <1>1, <1>2 DEF U!MessageUsage, U!Usage
<1>4. \A p \in U!Parts : U!Sum(p, U!All) \in Nat
  BY SessionSums
<1>5. /\ U!Sum("input", U!All) \in Nat /\ U!Sum("cached", U!All) \in Nat
      /\ U!Sum("output", U!All) \in Nat /\ U!Sum("write", U!All) \in Nat
  BY <1>4 DEF U!Parts
<1>6. u.total = u.input + u.output + u.cached
  BY <1>1, <1>3, <1>5, FactoryAssumption DEF U!TotalAccounted, U!TotalIncludesCache, U!Assumption
<1>7. U!Sum("write", U!All) = 0
  BY <1>3, <1>5, <1>6
<1> QED BY <1>3, <1>7, TrueIfPartsAre

LEMMA StepBill ==
  ASSUME SessionInv, harness = "opencode", U!Of({"garbled"}) = {}, NEW u, u = U!StepUsage,
         NEW price, NEW b, b = U!AttemptCost(u, U!AggregateModels, price), b # Unknown
  PROVE  b = U!Truth
<1>1. /\ u # Unknown /\ u.cached # Unknown /\ u.write = 0 /\ u.reasoning # Unknown
  BY Priced DEF U!CacheAccounted
<1>2. U!Counted = U!All
  BY AllCounted DEF U!Stepwise
<1>3. /\ u.input = U!Sum("input", U!All) /\ u.output = U!Sum("output", U!All)
      /\ u.cached \in {U!Sum("cached", U!All), Unknown}
      /\ u.write \in {U!Sum("write", U!All), Unknown}
      /\ u.reasoning \in {U!Sum("reasoning", U!All), Unknown}
  BY <1>1, <1>2 DEF U!StepUsage, U!Usage, U!Every
<1>4. U!Sum("write", U!All) = 0
  BY <1>1, <1>3, FactoryAssumption DEF U!Assumption
<1> QED BY <1>1, <1>3, <1>4, TrueIfPartsAre

LEMMA ReceiptBill ==
  ASSUME SessionInv, harness = "agy", NEW u, u = U!AgyUsage,
         NEW price, NEW b, b = U!AttemptCost(u, U!AggregateModels, price), b # Unknown
  PROVE  b = U!Truth
<1>1. u # Unknown /\ u.cached # Unknown /\ u.write = 0
  BY Priced DEF U!CacheAccounted
<1>2. PICK line : u = U!ReceiptUsage(line)
  BY <1>1 DEF U!AgyUsage
<1>3. /\ u.input = U!Sum("input", U!All) /\ u.output = U!Sum("output", U!All)
      /\ u.cached \in {U!Sum("cached", U!All), Unknown}
      /\ u.write \in {U!Sum("write", U!All), Unknown}
  BY <1>1, <1>2 DEF U!ReceiptUsage, U!Usage, U!Reported
<1>4. U!Sum("write", U!All) = 0
  BY <1>1, <1>3, FactoryAssumption DEF U!Assumption
<1> QED BY <1>1, <1>3, <1>4, TrueIfPartsAre

\* A mapping that can be believed either states its total or bounds it below.
LEMMA RowSums ==
  ASSUME SessionInv, NEW line, NEW row, row = U!Row(line, U!All),
         line.slip \in {0, 1}, line.slip = 0 \/ {"cached", "write", "total"} \subseteq line.has,
         NEW all, all = U!Sum("input", U!All) + U!Sum("output", U!All)
                        + U!Sum("cached", U!All) + U!Sum("write", U!All)
  PROVE  /\ row.exact \in Int \cup {Unknown} /\ row.least \in Int
         /\ ~row.refused /\ row.exact # Unknown => row.exact = all
<1>1. \A p \in U!Parts : U!Sum(p, U!All) \in Nat
  BY SessionSums
<1>2. PICK in, ou, ca, wr \in Nat :
        /\ in = U!Sum("input", U!All) /\ ou = U!Sum("output", U!All)
        /\ ca = U!Sum("cached", U!All) /\ wr = U!Sum("write", U!All)
  BY <1>1 DEF U!Parts
<1>3. /\ U!Stated(line, U!All) = in + ou + ca + wr - line.slip
      /\ U!KnownComponents(line, U!All) = in + ou + (IF "cached" \in line.has THEN ca ELSE 0)
                                          + (IF "write" \in line.has THEN wr ELSE 0)
  BY <1>2 DEF U!Stated, U!KnownComponents
<1>4. U!Stated(line, U!All) \in Int /\ U!KnownComponents(line, U!All) \in Int
  BY <1>3
<1>5. row.exact \in Int \cup {Unknown} /\ row.least \in Int
  BY <1>4 DEF U!Row
<1>6. ASSUME ~row.refused, row.exact # Unknown PROVE row.exact = all
  <2>1. CASE "total" \in line.has /\ {"cached", "write"} \subseteq line.has
    BY <1>2, <1>3, <1>6, <2>1 DEF U!Row
  <2>2. CASE "total" \in line.has /\ ~({"cached", "write"} \subseteq line.has)
    <3>1. line.slip = 0
      BY <2>2
    <3> QED BY <1>2, <1>3, <2>2, <3>1 DEF U!Row
  <2>3. CASE "total" \notin line.has
    <3>1. {"cached", "write"} \subseteq line.has /\ row.exact = U!KnownComponents(line, U!All)
      BY <1>6, <2>3 DEF U!Row
    <3> QED BY <1>2, <1>3, <3>1
  <2> QED BY <2>1, <2>2, <2>3
<1> QED BY <1>5, <1>6

LEMMA UsedIsKnown ==
  ASSUME SessionInv
  PROVE  U!Used \in SUBSET Models /\ U!Used # Unknown
<1>1. PICK n \in Nat : turns \in [1..n -> Turns]
  BY DEF SessionInv
<1>2. \A k \in U!All : turns[k].model \in Models
  BY <1>1 DEF U!All, Turns
<1>3. U!Used \in SUBSET Models
  BY <1>2 DEF U!Used
<1> QED BY <1>3, FactoryAssumption DEF U!Assumption

LEMMA ClaudeBill ==
  ASSUME SessionInv, harness = "claude", U!Believable, NEW u, u = U!ClaudeUsage,
         NEW price, NEW b, b = U!AttemptCost(u, U!AggregateModels, price), b # Unknown
  PROVE  b = U!Truth
<1> DEFINE line == U!LastResult
           row == U!Row(line, U!All)
           sum == IF line.rows = Unknown THEN U!SessionRow(line) ELSE U!ModelRows(line)
           event == U!Stated(line, U!All)
           total == IF sum.exact = Unknown /\ line.event THEN event ELSE sum.exact
<1>1. /\ u # Unknown /\ U!TotalAccounted(u)
      /\ U!AggregateModels = Unknown \/ U!AggregateModels = {Launched}
  BY Priced
<1>2. /\ line # Unknown /\ ~sum.refused
      /\ line.event => (IF sum.exact # Unknown THEN event = sum.exact ELSE ~(event < sum.least))
      /\ u = U!Usage(U!Sum("input", U!All), U!Sum("output", U!All),
                     U!Reported(line, "cached", U!Sum("cached", U!All)), Unknown, Unknown, total)
  BY <1>1 DEF U!ClaudeUsage
<1>3. PICK i \in DOMAIN lines : line = lines[i] /\ lines[i].kind \in {"receipt", "failed"}
  <2> DEFINE I == U!Of({"receipt", "failed"})
  <2>1. I # {} /\ line = lines[Max(I)]
    BY <1>2 DEF U!LastResult, U!Max, Max
  <2>2. PICK n \in Nat : DOMAIN lines = 1..n
    BY DEF SessionInv
  <2>3. I \subseteq 0..n
    BY <2>2 DEF U!Of
  <2>4. Max(I) \in I
    <3>1. \E x \in I : \A y \in I : x >= y
      <4>1. PICK x \in I : \A y \in I : y <= x
        <5> HIDE DEF I
        <5> QED BY <2>1, <2>3, GreatestNumber
      <4>2. \A y \in I : x \in Nat /\ y \in Nat
        BY <2>3
      <4> HIDE DEF I
      <4> QED BY <4>1, <4>2
    <3> HIDE DEF I
    <3> QED BY <3>1 DEF Max
  <2> QED BY <2>1, <2>4 DEF U!Of
<1>4. /\ line.rows = U!Used \/ (line.rows = Unknown /\ U!Used = {Launched})
      /\ line.slip \in {0, 1}
      /\ line.slip = 0 \/ {"cached", "write", "total"} \subseteq line.has
  <2>1. lines[i] \in Lines /\ LinesMatch(i)
    BY DEF SessionInv
  <2> QED BY <1>3, <2>1 DEF LinesMatch, Lines, U!Believable
<1>5. U!Used = {Launched} /\ (line.rows = Unknown \/ line.rows = {Launched})
  <2>1. U!AggregateModels = line.rows
    BY <1>2 DEF U!AggregateModels
  <2>2. U!Used # Unknown
    BY UsedIsKnown
  <2> HIDE DEF line
  <2> QED BY <1>1, <1>4, <2>1, <2>2
<1> HIDE DEF line
<1>6. PICK in, ou, ca, wr \in Nat :
        /\ in = U!Sum("input", U!All) /\ ou = U!Sum("output", U!All)
        /\ ca = U!Sum("cached", U!All) /\ wr = U!Sum("write", U!All)
  BY SessionSums DEF U!Parts
<1>7. /\ row.exact \in Int \cup {Unknown} /\ row.least \in Int
      /\ ~row.refused /\ row.exact # Unknown => row.exact = in + ou + ca + wr
  BY <1>4, <1>6, RowSums
<1>8. sum.exact = row.exact /\ sum.least = row.least /\ sum.refused = row.refused
  <2>1. CASE line.rows = Unknown
    BY <2>1 DEF U!SessionRow
  <2>2. CASE line.rows # Unknown
    <3>1. line.rows = {Launched}
      BY <1>5, <2>2
    <3> HIDE DEF row
    <3>2. row = U!Row(line, U!All)
      BY DEF row
    <3> QED BY <1>5, <1>7, <2>2, <3>1, <3>2, RowsOfOne
  <2> QED BY <2>1, <2>2
<1>9. total # Unknown /\ u.total = total
  BY <1>1, <1>2 DEF U!TotalAccounted, U!TotalIncludesCache, U!Usage
<1>10. total = in + ou + ca + wr
  <2> HIDE DEF row, sum
  <2>1. CASE row.exact # Unknown
    BY <1>2, <1>7, <1>8, <1>9, <2>1
  <2>2. CASE row.exact = Unknown
    <3>1. line.event /\ total = event
      BY <1>8, <1>9, <2>2
    <3>2. line.slip = 0
      <4> SUFFICES ASSUME {"cached", "write", "total"} \subseteq line.has PROVE FALSE
        BY <1>4
      <4>1. row.exact = event
        BY DEF row, U!Row
      <4>2. event \in Int
        BY <1>4, <1>6 DEF U!Stated
      <4> QED BY <2>2, <4>1, <4>2, FactoryAssumption DEF U!Assumption
    <3> QED BY <1>6, <3>1, <3>2 DEF U!Stated
  <2> QED BY <2>1, <2>2
<1> HIDE DEF row, sum, event, total
<1>11. /\ u.input = in /\ u.output = ou
       /\ u.cached = IF "cached" \in line.has THEN ca ELSE Unknown
  BY <1>2, <1>6 DEF U!Usage, U!Reported
<1>12. u.total = u.input + u.output + (IF u.cached = Unknown THEN 0 ELSE u.cached)
  BY <1>1 DEF U!TotalAccounted, U!TotalIncludesCache
<1>13. wr = 0 /\ (u.cached = ca \/ (u.cached = Unknown /\ ca = 0))
  BY <1>6, <1>9, <1>10, <1>11, <1>12, FactoryAssumption DEF U!Assumption
<1> QED BY <1>6, <1>11, <1>13, TrueIfPartsAre

\* Each harness has its parser; a bill that can be made is the truth.
LEMMA SettledInFull ==
  ASSUME SessionInv, U!Believable, harness \in U!Stepwise => U!Of({"garbled"}) = {},
         NEW price, NEW b, b = U!AttemptCost(U!UsageForHarness, U!AggregateModels, price),
         b # Unknown
  PROVE  b = U!Truth
<1>1. harness \in {"codex", "claude", "pi", "omp", "opencode", "agy"}
  BY DEF SessionInv, U!Harnesses
<1>2. CASE harness = "codex"
  BY <1>2, CodexBill DEF U!UsageForHarness
<1>3. CASE harness = "claude"
  BY <1>3, ClaudeBill DEF U!UsageForHarness
<1>4. CASE harness \in {"pi", "omp"}
  <2>1. U!UsageForHarness = U!MessageUsage
    BY <1>4 DEF U!UsageForHarness, U!OmpUsage
  <2>2. U!Of({"garbled"}) = {}
    BY <1>4 DEF U!Stepwise
  <2> QED BY <1>4, <2>1, <2>2, MessageBill
<1>5. CASE harness = "opencode"
  <2>1. U!Of({"garbled"}) = {}
    BY <1>5 DEF U!Stepwise
  <2> QED BY <1>5, <2>1, StepBill DEF U!UsageForHarness
<1>6. CASE harness = "agy"
  BY <1>6, ReceiptBill DEF U!UsageForHarness
<1> QED BY <1>1, <1>2, <1>3, <1>4, <1>5, <1>6

LEMMA SettleStep ==
  ASSUME SessionInv, NEW price, U!Settle(price)
  PROVE  SessionInv'
<1>1. UNCHANGED << harness, turns, lines >>
  BY DEF U!Settle
<1>2. bill' = U!AttemptCost(U!UsageForHarness, U!AggregateModels, price)
  BY DEF U!Settle
<1>3. U!BilledInFull'
  <2> SUFFICES ASSUME bill' \notin {Open, Unknown},
                      harness \in U!Stepwise => U!Of({"garbled"}) = {}, U!Believable
               PROVE  bill' = U!Truth
    <3>1. U!Truth' = U!Truth
      BY <1>1 DEF U!Truth, U!Sum, U!All, U!MapThenSumSet, U!MapThenFoldSet
    <3>2. U!Of({"garbled"})' = U!Of({"garbled"}) /\ U!Believable' = U!Believable
      BY <1>1 DEF U!Of, U!Believable
    <3> QED BY <1>1, <3>1, <3>2 DEF U!BilledInFull
  <2> QED BY <1>2, SettledInFull
<1>4. U!All' = U!All /\ U!Used' = U!Used
  BY <1>1 DEF U!All, U!Used
<1>5. ModelsKnown' /\ NothingApart'
  BY <1>1, <1>4 DEF SessionInv, ModelsKnown, NothingApart
<1>6. \A i \in DOMAIN lines : LinesMatch(i)'
  BY <1>1, <1>4 DEF SessionInv, LinesMatch
<1> QED BY <1>1, <1>3, <1>4, <1>5, <1>6 DEF SessionInv

\* While the worker is not over, there is no bill.
LEMMA NoBillYet == ASSUME bill' = Open PROVE U!BilledInFull'
BY DEF U!BilledInFull

LEMMA Appended ==
  ASSUME NEW D, NEW s \in Seq(D), NEW x \in D, NEW t, t = Append(s, x), NEW m, m = Len(s)
  PROVE  /\ m \in Nat /\ DOMAIN s = 1..m /\ DOMAIN t = 1..m + 1 /\ t \in Seq(D)
         /\ t[m + 1] = x
         /\ \A i \in DOMAIN s : i \in DOMAIN t /\ t[i] = s[i]
         /\ \A i \in DOMAIN t : i \in DOMAIN s \/ i = m + 1
         /\ m + 1 \in DOMAIN t
OBVIOUS

LEMMA TurnStep ==
  ASSUME SessionInv, NEW model \in Models, NEW tokens \in Consumptions, NEW has \in Fields,
         NEW slip \in {0, 1}, U!Turn(model, tokens, has, slip)
  PROVE  SessionInv'
<1> DEFINE turn == [model |-> model, tokens |-> tokens]
           n == Len(turns)
<1>1. /\ harness' = harness /\ bill' = Open /\ U!BilledInFull'
      /\ turns' = Append(turns, turn) /\ turn \in Turns
      /\ \A i \in DOMAIN lines : lines[i].kind = "step"
  BY NoBillYet DEF U!Turn, U!CanEmit, U!Terminal, Turns
<1>2. /\ n \in Nat /\ U!All = 1..n /\ U!All' = 1..n + 1 /\ turns' \in Seq(Turns)
      /\ turns'[n + 1] = turn /\ \A k \in U!All : turns'[k] = turns[k]
  BY <1>1, Appended DEF SessionInv, U!All
<1>7. \A k \in U!All' : k \in U!All \/ k = n + 1
  BY <1>2
<1>8. n # 0 => 1 \in U!All
  BY <1>2
<1>3. ModelsKnown'
  <2>1. harness \notin {"claude", "pi", "omp"} => model = Launched
    BY DEF U!Turn
  <2>2. harness \in {"pi", "omp"} /\ turns = <<>> => model = Launched
    BY DEF U!Turn
  <2>3. n = 0 => turns = <<>>
    BY DEF SessionInv
  <2> HIDE DEF turn, n
  <2>4. turn.model = model
    BY DEF turn
  <2>5. n = 0 => n + 1 = 1
    BY <1>2
  <2>6. ModelsKnown
    BY DEF SessionInv
  <2>7. ASSUME harness \notin {"claude", "pi", "omp"}, NEW k \in U!All'
        PROVE  turns'[k].model = Launched
    <3>1. CASE k \in U!All
      BY <1>2, <2>6, <2>7, <3>1 DEF ModelsKnown
    <3>2. CASE k = n + 1
      BY <1>2, <2>1, <2>4, <2>7, <3>2
    <3> QED BY <1>7, <3>1, <3>2
  <2>8. ASSUME harness \in {"pi", "omp"} PROVE turns'[1].model = Launched
    <3>1. CASE n = 0
      BY <1>2, <2>2, <2>3, <2>4, <2>5, <2>8, <3>1
    <3>2. CASE n # 0
      BY <1>2, <1>8, <2>6, <2>8, <3>2 DEF ModelsKnown
    <3> QED BY <3>1, <3>2
  <2> QED BY <1>1, <2>7, <2>8 DEF ModelsKnown
<1>4. NothingApart'
  <2>1. /\ harness = "codex" => tokens["write"] = 0
        /\ harness # "opencode" => tokens["reasoning"] = 0
    BY DEF U!Turn
  <2>2. turn.tokens = tokens
    OBVIOUS
  <2> HIDE DEF turn, n
  <2>3. NothingApart
    BY DEF SessionInv
  <2> SUFFICES ASSUME NEW k \in U!All'
               PROVE  /\ harness = "codex" => turns'[k].tokens["write"] = 0
                      /\ harness # "opencode" => turns'[k].tokens["reasoning"] = 0
    BY <1>1 DEF NothingApart
  <2>4. CASE k \in U!All
    BY <1>2, <2>3, <2>4 DEF NothingApart
  <2>5. CASE k = n + 1
    BY <1>2, <2>1, <2>2, <2>5
  <2> QED BY <1>7, <2>4, <2>5
<1>5. CASE harness \in U!Stepwise
  <2> DEFINE line == U!Line("step", {n + 1}, has, Unknown, FALSE, slip)
             m == Len(lines)
  <2>1. lines' = Append(lines, line) /\ line \in Lines
    <3>1. lines' = Append(lines, line)
      BY <1>5 DEF U!Turn
    <3>2. {n + 1} \in SUBSET Nat
      BY <1>2
    <3> HIDE DEF n
    <3> QED BY <3>1, <3>2 DEF U!Line, Lines, Kinds
  <2>2. /\ lines' \in Seq(Lines) /\ lines'[m + 1] = line /\ m + 1 \in DOMAIN lines'
        /\ \A i \in DOMAIN lines : i \in DOMAIN lines' /\ lines'[i] = lines[i]
        /\ \A i \in DOMAIN lines' : i \in DOMAIN lines \/ i = m + 1
    <3> HIDE DEF line
    <3> QED BY <2>1, Appended DEF SessionInv
  <2>3. line.kind = "step" /\ line.turns = {n + 1}
    BY DEF U!Line
  <2>4. harness # "claude"
    BY <1>5 DEF U!Stepwise
  <2> HIDE DEF line, m, n, turn
  <2>5. \A i \in DOMAIN lines' : LinesMatch(i)'
    <3>1. harness' = harness /\ \A i \in DOMAIN lines : LinesMatch(i)
      BY <1>1 DEF SessionInv
    <3>2. U!All \subseteq U!All' /\ {n + 1} \subseteq U!All'
      BY <1>2
    <3> SUFFICES ASSUME NEW i \in DOMAIN lines' PROVE LinesMatch(i)'
      OBVIOUS
    <3>3. CASE i \in DOMAIN lines
      <4>1. lines[i].kind = "step" /\ lines'[i] = lines[i] /\ LinesMatch(i)
        BY <1>1, <2>2, <3>1, <3>3
      <4> QED BY <1>5, <2>4, <3>1, <3>2, <4>1 DEF LinesMatch
    <3>4. CASE i = m + 1
      BY <1>5, <2>2, <2>3, <2>4, <3>1, <3>2, <3>4 DEF LinesMatch
    <3> QED BY <2>2, <3>3, <3>4
  <2>6. \A k \in U!All' : \E i \in DOMAIN lines' : lines'[i].turns = {k}
    <3>1. \A k \in U!All : \E i \in DOMAIN lines : lines[i].turns = {k}
      BY <1>5 DEF SessionInv
    <3>2. \A k \in U!All' : k \in U!All \/ k = n + 1
      BY <1>2
    <3> QED BY <2>2, <2>3, <3>1, <3>2
  <2> QED BY <1>1, <1>2, <1>3, <1>4, <2>2, <2>5, <2>6 DEF SessionInv
<1>6. CASE harness \notin U!Stepwise
  <2>1. lines' = lines /\ DOMAIN lines = {}
    BY <1>1, <1>6 DEF U!Turn, SessionInv, LinesMatch
  <2> HIDE DEF n, turn
  <2> QED BY <1>1, <1>2, <1>3, <1>4, <1>6, <2>1 DEF SessionInv
<1> QED BY <1>5, <1>6

\* The steps that write no turn leave what the turns are.
LEMMA TurnsFrame ==
  ASSUME SessionInv, UNCHANGED << harness, turns >>
  PROVE  /\ harness' \in U!Harnesses /\ turns' \in Seq(Turns)
         /\ U!All' = U!All /\ U!Used' = U!Used
         /\ ModelsKnown' /\ NothingApart'
<1>1. U!All' = U!All /\ U!Used' = U!Used
  BY DEF U!All, U!Used
<1> QED BY <1>1 DEF SessionInv, ModelsKnown, NothingApart

LEMMA ReceiptStep ==
  ASSUME SessionInv, NEW kind \in {"receipt", "failed"}, NEW has \in Fields,
         NEW byModel \in BOOLEAN, NEW event \in BOOLEAN, NEW slip \in {0, 1},
         U!Receipt(kind, has, byModel, event, slip)
  PROVE  SessionInv'
<1> DEFINE rows == IF byModel THEN U!Used ELSE Unknown
           line == U!Line(kind, U!All, has, rows, event, slip)
           m == Len(lines)
<1>1. /\ UNCHANGED << harness, turns >> /\ bill' = Open /\ U!BilledInFull'
      /\ harness \notin U!Stepwise /\ lines' = Append(lines, line)
  BY NoBillYet DEF U!Receipt, U!CanEmit
<1>2. line \in Lines
  <2>1. U!All \in SUBSET Nat
    BY DEF SessionInv, U!All
  <2> QED BY <2>1, UsedIsKnown DEF U!Line, Lines, Kinds
<1>3. /\ lines' \in Seq(Lines) /\ lines'[m + 1] = line /\ m + 1 \in DOMAIN lines'
      /\ \A i \in DOMAIN lines : i \in DOMAIN lines' /\ lines'[i] = lines[i]
      /\ \A i \in DOMAIN lines' : i \in DOMAIN lines \/ i = m + 1
  <2> HIDE DEF line
  <2> QED BY <1>1, <1>2, Appended DEF SessionInv
<1>4. /\ line.kind = kind
      /\ harness = "claude" => line.rows = U!Used \/ (line.rows = Unknown /\ U!Used = {Launched})
  BY DEF U!Line, U!Receipt
<1> HIDE DEF line, rows, m
<1>5. \A i \in DOMAIN lines' : LinesMatch(i)'
  BY <1>1, <1>3, <1>4, TurnsFrame DEF SessionInv, LinesMatch
<1> QED BY <1>1, <1>3, <1>5, TurnsFrame DEF SessionInv

LEMMA RepeatStep ==
  ASSUME SessionInv, NEW j \in DOMAIN lines, U!Repeat(j)
  PROVE  SessionInv'
<1> DEFINE m == Len(lines)
<1>1. /\ UNCHANGED << harness, turns >> /\ bill' = Open /\ U!BilledInFull'
      /\ harness \in {"pi", "omp"} /\ lines' = Append(lines, lines[j])
  BY NoBillYet DEF U!Repeat, U!CanEmit
<1>2. /\ lines' \in Seq(Lines) /\ lines'[m + 1] = lines[j] /\ m + 1 \in DOMAIN lines'
      /\ \A i \in DOMAIN lines : i \in DOMAIN lines' /\ lines'[i] = lines[i]
      /\ \A i \in DOMAIN lines' : i \in DOMAIN lines \/ i = m + 1
  <2>1. lines[j] \in Lines
    BY DEF SessionInv
  <2> QED BY <1>1, <2>1, Appended DEF SessionInv
<1>3. LinesMatch(j)
  BY DEF SessionInv
<1> HIDE DEF m
<1>4. ASSUME NEW i \in DOMAIN lines' PROVE LinesMatch(i)'
  <2>1. PICK e \in DOMAIN lines : lines'[i] = lines[e]
    BY <1>2
  <2>2. LinesMatch(e)
    BY DEF SessionInv
  <2>3. U!All' = U!All /\ U!Used' = U!Used
    BY <1>1, TurnsFrame
  <2> QED BY <1>1, <2>1, <2>2, <2>3 DEF LinesMatch
<1>5. ASSUME harness \in U!Stepwise, NEW k \in U!All'
      PROVE  \E i \in DOMAIN lines' : lines'[i].turns = {k}
  <2>1. U!All' = U!All
    BY <1>1, TurnsFrame
  <2>2. PICK e \in DOMAIN lines : lines[e].turns = {k}
    BY <1>5, <2>1 DEF SessionInv
  <2> QED BY <1>2, <2>2
<1> QED BY <1>1, <1>2, <1>4, <1>5, TurnsFrame DEF SessionInv

LEMMA GarbleStep ==
  ASSUME SessionInv, NEW j \in DOMAIN lines, U!Garble(j)
  PROVE  SessionInv'
<1>1. /\ UNCHANGED << harness, turns >> /\ bill' = Open /\ U!BilledInFull'
      /\ lines' = [lines EXCEPT ![j].kind = "garbled"]
  BY NoBillYet DEF U!Garble
<1>2. /\ DOMAIN lines' = DOMAIN lines /\ lines' \in Seq(Lines)
      /\ lines'[j].kind = "garbled" /\ lines'[j].turns = lines[j].turns
      /\ \A i \in DOMAIN lines : i # j => lines'[i] = lines[i]
  <2>1. PICK m \in Nat : lines \in [1..m -> Lines]
    BY DEF SessionInv
  <2>2. lines[j] \in Lines /\ j \in 1..m
    BY <2>1
  <2>3. lines' = [lines EXCEPT ![j] = [lines[j] EXCEPT !.kind = "garbled"]]
    BY <1>1
  <2>4. PICK line : line = [lines[j] EXCEPT !.kind = "garbled"]
    OBVIOUS
  <2>5. line \in Lines /\ line.kind = "garbled" /\ line.turns = lines[j].turns
    BY <2>2, <2>4 DEF Lines, Kinds
  <2>6. lines' \in [1..m -> Lines] /\ lines'[j] = line /\ DOMAIN lines = 1..m
        /\ \A i \in 1..m : i # j => lines'[i] = lines[i]
    BY <2>1, <2>2, <2>3, <2>4, <2>5
  <2> QED BY <2>5, <2>6
<1>3. \A i \in DOMAIN lines' : LinesMatch(i)'
  BY <1>1, <1>2, TurnsFrame DEF SessionInv, LinesMatch
<1>4. harness \in U!Stepwise => \A k \in U!All' : \E i \in DOMAIN lines' : lines'[i].turns = {k}
  BY <1>1, <1>2, TurnsFrame DEF SessionInv
<1> QED BY <1>1, <1>2, <1>3, <1>4, TurnsFrame DEF SessionInv

LEMMA SessionStep == ASSUME SessionInv, U!Next PROVE SessionInv'
BY TurnStep, ReceiptStep, RepeatStep, GarbleStep, SettleStep DEF U!Next

\* A session that rests stays as it is.
LEMMA SessionRests ==
  ASSUME SessionInv, UNCHANGED session
  PROVE  SessionInv'
<1>1. UNCHANGED << harness, turns, lines, bill >>
  BY DEF session
<1>2. U!Truth' = U!Truth /\ U!Of({"garbled"})' = U!Of({"garbled"}) /\ U!Believable' = U!Believable
  BY <1>1 DEF U!Truth, U!Sum, U!All, U!MapThenSumSet, U!MapThenFoldSet, U!Of, U!Believable
<1>3. U!BilledInFull'
  BY <1>1, <1>2 DEF SessionInv, U!BilledInFull
<1>4. \A i \in DOMAIN lines' : LinesMatch(i)'
  BY <1>1, TurnsFrame DEF SessionInv, LinesMatch
<1> QED BY <1>1, <1>3, <1>4, TurnsFrame DEF SessionInv

\* A bill covers what the session used, for any sessions, models and receipts.
THEOREM BilledInFullCorrect == FactorySpec => []BilledInFull
<1> DEFINE Session == part = "usage" => SessionInv
<1>1. FactoryInit => Session
  BY SessionInit DEF FactoryInit
<1>2. Session /\ [FactoryNext]_everything => Session'
  <2> SUFFICES ASSUME SessionInv, part = "usage", [FactoryNext]_everything PROVE SessionInv'
    BY PartOfMeasures
  <2>1. U!Next \/ UNCHANGED session
    BY DEF FactoryNext, everything, Time, Authorize, AssignWork, PassArtifacts, KeepRegistry,
           SelectRoutes, KeepEvidence, CaptureUsage, Dispatch, Judge
  <2> QED BY <2>1, SessionStep, SessionRests
<1>3. Session => BilledInFull
  BY DEF SessionInv, BilledInFull
<1> QED BY <1>1, <1>2, <1>3, PTL DEF FactorySpec
-----------------------------------------------------------------------------
(***************************************************************************)
(* The readers of the ledger count alike.  Each leaves superseded lines    *)
(* out in its own order, before or after it takes the lines of a month; so *)
(* all lines of one run have to be of one month.  A line of the old shape  *)
(* and its correction are: the correction is made of the first row of its  *)
(* run that settles it, because a later one finds it in the ledger.        *)
(***************************************************************************)
Bench(l) == E!SourceRun(l) # None

LinesDated ==
  \A l \in ledger : l.date \in Nat /\ E!IsClass(l.class)

\* The lines of the old shape are those there were; a correction corrects one.
Corrects ==
  /\ \A l \in ledger : l.shape = "legacy" => l \in Legacy
  /\ \A l \in ledger : l.shape = "v6" /\ l.id = E!Correction(l.run) =>
       \E o \in Legacy : o.id = E!Plain(l.run)

OneMonthEach ==
  \A l, o \in ledger : Bench(l) /\ E!SourceRun(l) = E!SourceRun(o) =>
    E!Month(l.date) = E!Month(o.date)

MonthsKept == IsFiniteSet(ledger) /\ Legacy \subseteq ledger /\ LinesDated /\ Corrects /\ OneMonthEach

LEMMA FiniteAlike == ASSUME NEW s PROVE E!IsFiniteSet(s) <=> IsFiniteSet(s)
BY DEF E!IsFiniteSet, IsFiniteSet

LEMMA CardinalityAlike == ASSUME NEW s PROVE E!Cardinality(s) = Cardinality(s)
BY DEF E!Cardinality, Cardinality

\* The run of a line and its id tell each other.
LEMMA RunAndId ==
  ASSUME NEW l, Identified(l), Bench(l)
  PROVE  \/ l.shape = "legacy" /\ l.id = E!Plain(E!SourceRun(l))
         \/ /\ l.shape = "v6" /\ l.run = E!SourceRun(l)
            /\ l.id \in {E!Plain(l.run), E!Correction(l.run)}
<1>1. CASE l.shape = "legacy"
  <2>1. l.id = E!Plain(l.id[2]) /\ l.id[1] = "benchmark"
    BY <1>1 DEF Identified, E!Plain
  <2> QED BY <1>1, <2>1 DEF E!SourceRun
<1>2. CASE l.shape = "v6"
  BY <1>2 DEF Identified, E!SourceRun
<1>3. CASE l.shape = "raw"
  BY <1>3 DEF Bench, E!SourceRun
<1> QED BY <1>1, <1>2, <1>3 DEF Identified

LEMMA TwoIds ==
  ASSUME NEW run, NEW other
  PROVE  /\ E!Plain(run) # E!Correction(other)
         /\ E!Plain(run) = E!Plain(other) => run = other
BY DEF E!Plain, E!Correction

LEMMA MonthsStart == ASSUME E!Init PROVE MonthsKept
<1>1. /\ IsFiniteSet(Legacy)
      /\ \A l \in Legacy : /\ l.shape = "legacy" /\ l.id = E!Plain(l.id[2])
                           /\ l.date \in Nat /\ E!IsClass(l.class)
      /\ \A l, o \in Legacy : l.id = o.id => l = o
  BY FactoryAssumption, FiniteAlike DEF E!Assumption
<1>2. \A l \in Legacy : Identified(l)
  BY <1>1 DEF Identified
<1>3. \A l, o \in Legacy : Bench(l) /\ E!SourceRun(l) = E!SourceRun(o) => l = o
  <2> SUFFICES ASSUME NEW l \in Legacy, NEW o \in Legacy, Bench(l), E!SourceRun(l) = E!SourceRun(o)
               PROVE  l.id = o.id
    BY <1>1
  <2> QED BY <1>1, <1>2, RunAndId DEF Bench
<1>4. ledger = Legacy
  BY DEF E!Init
<1> QED BY <1>1, <1>3, <1>4 DEF MonthsKept, LinesDated, Corrects, OneMonthEach

\* A line of no run of the benchmark disturbs nothing.
LEMMA MonthsWithPlainLine ==
  ASSUME MonthsKept, NEW line, ledger' = ledger \cup {line},
         line.shape = "raw", line.date \in Nat, E!IsClass(line.class)
  PROVE  MonthsKept'
<1>1. ~Bench(line) /\ E!SourceRun(line) = None
  BY DEF Bench, E!SourceRun
<1>2. IsFiniteSet(ledger')
  BY FS_AddElement DEF MonthsKept
<1>3. LinesDated' /\ Corrects' /\ (Legacy \subseteq ledger)'
  BY DEF MonthsKept, LinesDated, Corrects
<1>4. OneMonthEach'
  BY <1>1 DEF MonthsKept, OneMonthEach, Bench
<1> QED BY <1>2, <1>3, <1>4 DEF MonthsKept

\* The row that settles a run is the first of its source, if an old line waits.
LEMMA FirstSettles ==
  ASSUME LedgerKept, MonthsKept, NEW p \in Importers, pc[p] = "importing",
         NEW i \in 1..Len(Rows[p]), i = at[p], ToSettle(p, i),
         NEW old \in Legacy, old.id = E!Plain(Rows[p][i].run),
         \A l \in ledger : l.id # E!Correction(Rows[p][i].run)
  PROVE  E!FirstOfRun(p, i)
<1> DEFINE run == Rows[p][i].run
<1>1. Len(Rows[p]) \in Nat /\ i \in Nat
  BY RowFacts
<1> SUFFICES ASSUME NEW j \in 1..i - 1, ToSettle(p, j), Rows[p][j].run = run
             PROVE  FALSE
  BY DEF E!FirstOfRun, ToSettle
<1>2. j \in 1..Len(Rows[p]) /\ j \in Nat /\ j < at[p]
  BY <1>1
<1>3. PICK l \in ledger : l.shape = "v6" /\ l.run = run
  BY <1>2 DEF LedgerKept, RowsOK, Settled
<1>4. l.id = E!Plain(run)
  BY <1>3 DEF LedgerKept, LinesOK, Identified
<1>5. l = old /\ old.shape = "legacy"
  <2>1. old \in ledger
    BY DEF MonthsKept
  <2>2. l = old
    BY <1>4, <2>1 DEF LedgerKept, LinesOK
  <2>3. old.shape = "legacy"
    BY FactoryAssumption DEF E!Assumption
  <2> QED BY <2>2, <2>3
<1> QED BY <1>3, <1>5

\* A new line of a run of the benchmark has the month of the old one.
LEMMA CorrectedInItsMonth ==
  \A l \in Legacy, p \in Importers : \A i \in DOMAIN Rows[p] :
    E!FirstOfRun(p, i) /\ Rows[p][i].run = l.id[2] => E!Month(Rows[p][i].date) = E!Month(l.date)
BY FactoryAssumption DEF E!Assumption

LEMMA SettledIsDated ==
  ASSUME NEW p, NEW i, ToSettle(p, i)
  PROVE  Rows[p][i].date # None
BY DEF ToSettle, E!Importable, E!Wellformed

\* The id of a new line is free, and a correction corrects a line.
LEMMA FreeId ==
  ASSUME NEW kept, NEW run, NEW id, id = E!BenchmarkId(kept, run), id # None
  PROVE  \/ id = E!Plain(run) /\ \A l \in kept : l.id # E!Plain(run)
         \/ /\ id = E!Correction(run)
            /\ \A l \in kept : l.id # E!Correction(run)
            /\ \E l \in kept : l.shape = "legacy" /\ l.id = E!Plain(run)
<1>1. CASE E!LineOf(kept, E!Plain(run)) = {}
  <2>1. id = E!Plain(run)
    BY <1>1 DEF E!BenchmarkId
  <2>2. \A l \in kept : l.id # E!Plain(run)
    BY <1>1 DEF E!LineOf
  <2> QED BY <2>1, <2>2
<1>2. CASE E!LineOf(kept, E!Plain(run)) # {}
  <2>1. /\ \E l \in E!LineOf(kept, E!Plain(run)) : l.shape = "legacy"
        /\ E!LineOf(kept, E!Correction(run)) = {}
        /\ id = E!Correction(run)
    BY <1>2 DEF E!BenchmarkId
  <2>2. \A l \in kept : l.id # E!Correction(run)
    BY <2>1 DEF E!LineOf
  <2>3. \E l \in kept : l.shape = "legacy" /\ l.id = E!Plain(run)
    BY <2>1 DEF E!LineOf
  <2> QED BY <2>1, <2>2, <2>3
<1> QED BY <1>1, <1>2

LEMMA MonthsWithRunLine ==
  ASSUME LedgerKept, MonthsKept, NEW p \in Importers, pc[p] = "importing",
         NEW i \in 1..Len(Rows[p]), i = at[p], ToSettle(p, i),
         NEW line, ledger' = ledger \cup {line},
         NEW run, run = Rows[p][i].run,
         NEW id, id = E!BenchmarkId(ledger, run), id # None,
         line = E!BenchmarkLine(Rows[p][i], id, << p, i >>)
  PROVE  MonthsKept'
<1>1. /\ line.shape = "v6" /\ line.run = run /\ line.id = id /\ line.date = Rows[p][i].date
      /\ line.class = Rows[p][i].class
  BY DEF E!BenchmarkLine
<1>2. run # None /\ E!Plain(run) # None /\ E!Correction(run) # None
  BY RowFacts DEF ToSettle
<1>3. i \in DOMAIN Rows[p]
  BY RowFacts
<1>4. line.date \in Nat /\ E!IsClass(line.class)
  <2>1. Rows[p][i].date \in Nat \cup {None} /\ E!IsClass(Rows[p][i].class)
    BY <1>3, FactoryAssumption DEF E!Assumption, ToSettle
  <2>2. Rows[p][i].date # None
    BY SettledIsDated
  <2> QED BY <1>1, <2>1, <2>2
<1>5. E!SourceRun(line) = run /\ Bench(line)
  BY <1>1, <1>2 DEF E!SourceRun, Bench
<1>6. IsFiniteSet(ledger')
  BY FS_AddElement DEF MonthsKept
<1>7. LinesDated' /\ (Legacy \subseteq ledger)'
  BY <1>4 DEF MonthsKept, LinesDated
<1>8. CASE id = E!Plain(run)
  <2>1. \A l \in ledger : l.id # E!Plain(run)
    <3>1. id # E!Correction(run)
      BY <1>8, TwoIds
    <3> QED BY <3>1, FreeId
  <2>2. \A o \in Legacy : o.id # E!Plain(run)
    BY <2>1 DEF MonthsKept
  <2>3. \A l \in ledger : Bench(l) => E!SourceRun(l) # run
    <3> SUFFICES ASSUME NEW l \in ledger, Bench(l), E!SourceRun(l) = run PROVE FALSE
      OBVIOUS
    <3>1. l.shape = "v6" /\ l.run = run /\ l.id = E!Correction(run)
      BY <2>1, RunAndId DEF LedgerKept, LinesOK
    <3> QED BY <2>2, <3>1 DEF MonthsKept, Corrects
  <2>4. \A l \in ledger : E!SourceRun(l) # run
    BY <1>2, <2>3 DEF Bench
  <2>5. Corrects'
    BY <1>1, <1>8, TwoIds DEF MonthsKept, Corrects
  <2>6. OneMonthEach'
    BY <1>5, <2>4 DEF MonthsKept, OneMonthEach, Bench
  <2> QED BY <1>6, <1>7, <2>5, <2>6 DEF MonthsKept
<1>9. CASE id # E!Plain(run)
  <2>1. /\ id = E!Correction(run)
        /\ \A l \in ledger : l.id # E!Correction(run)
        /\ \E l \in ledger : l.shape = "legacy" /\ l.id = E!Plain(run)
    BY <1>9, FreeId
  <2>2. PICK old \in Legacy : old \in ledger /\ old.id = E!Plain(run)
    BY <2>1 DEF MonthsKept, Corrects
  <2>3. E!Month(line.date) = E!Month(old.date)
    <3>1. E!FirstOfRun(p, i)
      BY <2>1, <2>2, FirstSettles
    <3>2. run = old.id[2]
      BY <2>2 DEF E!Plain
    <3>3. E!Month(Rows[p][i].date) = E!Month(old.date)
      BY <1>3, <3>1, <3>2, CorrectedInItsMonth
    <3> QED BY <1>1, <3>3
  <2>4. \A l \in ledger : E!SourceRun(l) = run => l = old
    <3> SUFFICES ASSUME NEW l \in ledger, E!SourceRun(l) = run PROVE l.id = old.id
      BY <2>2 DEF LedgerKept, LinesOK
    <3>1. Bench(l)
      BY <1>2 DEF Bench
    <3>2. Identified(l)
      BY DEF LedgerKept, LinesOK
    <3> QED BY <2>1, <2>2, <3>1, <3>2, RunAndId
  <2>5. Corrects'
    BY <1>1, <2>2 DEF MonthsKept, Corrects
  <2>6. OneMonthEach'
    BY <1>5, <2>3, <2>4 DEF MonthsKept, OneMonthEach, Bench
  <2> QED BY <1>6, <1>7, <2>5, <2>6 DEF MonthsKept
<1> QED BY <1>8, <1>9

LEMMA MonthsStep ==
  ASSUME LedgerKept, MonthsKept, E!Next
  PROVE  MonthsKept'
<1>1. ASSUME NEW p \in Importers, E!ImportRow(p) PROVE MonthsKept'
  <2> DEFINE i == at[p]
             line == E!NewLine(p, i)
             row == Rows[p][i]
  <2>1. /\ pc[p] = "importing" /\ i <= Len(Rows[p])
        /\ ledger' = IF line = None THEN ledger ELSE ledger \cup {line}
    BY <1>1 DEF E!ImportRow
  <2>2. recalled[p] = ledger /\ i \in 1..Len(Rows[p]) /\ i \in DOMAIN Rows[p]
    BY <2>1, RowFacts DEF LedgerKept, HolderOK
  <2>3. CASE line = None
    BY <2>1, <2>3 DEF MonthsKept, LinesDated, Corrects, OneMonthEach
  <2>4. CASE line # None /\ row.source = "benchmark"
    <3>1. /\ E!BenchmarkId(ledger, row.run) # None /\ E!Importable(row)
          /\ line = E!BenchmarkLine(row, E!BenchmarkId(ledger, row.run), << p, i >>)
      BY <2>2, <2>4 DEF E!NewLine, E!BenchmarkRow
    <3>2. ToSettle(p, i) /\ ledger' = ledger \cup {line}
      BY <2>1, <2>4, <3>1 DEF ToSettle
    <3> HIDE DEF line, i
    <3> QED BY <2>1, <2>2, <3>1, <3>2, MonthsWithRunLine DEF i
  <2>5. CASE line # None /\ row.source # "benchmark"
    <3>1. E!Recent(row) /\ line = E!AttemptLine(row, << p, i >>)
      BY <2>5 DEF E!NewLine, E!AttemptRow
    <3>2. line.shape = "raw" /\ line.date = row.date /\ line.class = None
      BY <3>1 DEF E!AttemptLine
    <3>3. row.date \in Nat
      BY <2>2, <2>5, <3>1, FactoryAssumption DEF E!Assumption
    <3>4. E!IsClass(line.class) /\ ledger' = ledger \cup {line}
      BY <2>1, <2>5, <3>2 DEF E!IsClass
    <3> HIDE DEF line
    <3> QED BY <3>2, <3>3, <3>4, MonthsWithPlainLine
  <2> QED BY <2>3, <2>4, <2>5
<1>2. ASSUME NEW line \in Runs, E!AppendRun(line) PROVE MonthsKept'
  <2>1. line.shape = "raw" /\ line.date \in Nat /\ E!IsClass(line.class)
    BY FactoryAssumption DEF E!Assumption
  <2> QED BY <1>2, <2>1, MonthsWithPlainLine DEF E!AppendRun
<1>3. CASE ledger' = ledger
  BY <1>3 DEF MonthsKept, LinesDated, Corrects, OneMonthEach
<1>4. ASSUME NEW p \in Importers,
             E!RefuseSource(p) \/ E!Begin(p) \/ E!LockTimeout(p) \/ E!Abort(p) \/ E!Finish(p)
      PROVE  ledger' = ledger
  BY <1>4 DEF E!RefuseSource, E!Begin, E!LockTimeout, E!Abort, E!Finish
<1> QED BY <1>1, <1>2, <1>3, <1>4 DEF E!Next, E!WriteReceipt, E!DeriveReads, E!DeriveEnds

-----------------------------------------------------------------------------
\* A date is in the month it is divided into.
LEMMA InMonthIs ==
  ASSUME NEW date \in Nat, NEW m \in Nat
  PROVE  E!Month(date) \in Nat /\ (E!InMonth(date, m) <=> m = E!Month(date))
<1> DEFINE n == MonthLength
           q == date \div n
           r == date % n
<1>1. n \in Nat /\ n > 0
  BY FactoryAssumption DEF E!Assumption
<1>2. q \in Nat /\ r \in 0..n - 1 /\ date = n * q + r
  BY <1>1, Divided
<1>3. /\ E!InMonth(date, m) <=> n * m <= date /\ date < n * m + n
      /\ E!Month(date) = q
  BY <1>1 DEF E!InMonth, E!Month
<1> HIDE DEF n, q, r
<1>4. n * m \in Nat /\ n * q \in Nat
  BY <1>1, <1>2
<1>5. m = q => n * m <= date /\ date < n * m + n
  BY <1>1, <1>2, <1>4
<1>6. m < q => ~(date < n * m + n)
  BY <1>1, <1>2, <1>4, Scaled
<1>7. q < m => ~(n * m <= date)
  BY <1>1, <1>2, <1>4, Scaled
<1>8. m = q \/ m < q \/ q < m
  BY <1>2
<1> QED BY <1>2, <1>3, <1>5, <1>6, <1>7, <1>8

\* Superseded lines may be left out before the month is taken, or after.
LEMMA OfMonthIs ==
  ASSUME MonthsKept, NEW m \in Nat
  PROVE  E!OfMonth(ledger, m) = { l \in E!Effective(ledger) : E!Month(l.date) = m }
<1> DEFINE taken == { l \in ledger : E!InMonth(l.date, m) }
<1>1. \A l \in ledger : E!InMonth(l.date, m) <=> E!Month(l.date) = m
  BY InMonthIs DEF MonthsKept, LinesDated
<1>2. \A l, o \in ledger : Bench(l) /\ E!SourceRun(l) = E!SourceRun(o) =>
        (l \in taken <=> o \in taken)
  BY <1>1 DEF MonthsKept, OneMonthEach
<1>3. \A l \in taken : l \in ledger
  OBVIOUS
<1>4. ASSUME NEW l \in ledger
      PROVE  l \in E!Effective(taken) <=> l \in E!Effective(ledger) /\ l \in taken
  <2>1. CASE ~Bench(l)
    BY <2>1 DEF E!Effective, Bench
  <2>2. CASE Bench(l)
    <3> HIDE DEF taken
    <3>1. l \in E!Effective(taken) <=>
            l \in taken /\ \A o \in taken : Bench(o) /\ E!SourceRun(o) = E!SourceRun(l) =>
                             E!Rank(l) <= E!Rank(o)
      BY <2>2 DEF E!Effective, Bench
    <3>2. l \in E!Effective(ledger) <=>
            \A o \in ledger : Bench(o) /\ E!SourceRun(o) = E!SourceRun(l) =>
                             E!Rank(l) <= E!Rank(o)
      BY <2>2 DEF E!Effective, Bench
    <3> QED BY <1>2, <1>3, <2>2, <3>1, <3>2
  <2> QED BY <2>1, <2>2
<1>5. \A l \in E!Effective(taken) : l \in ledger
  BY DEF E!Effective
<1>6. \A l \in E!Effective(ledger) : l \in ledger
  BY DEF E!Effective
<1>7. E!OfMonth(ledger, m) = E!Effective(taken)
  BY DEF E!OfMonth
<1>8. \A l \in ledger : l \in taken <=> E!Month(l.date) = m
  BY <1>1
<1> HIDE DEF taken
<1> QED BY <1>4, <1>5, <1>6, <1>7, <1>8

\* What the library's sum of a function is.
LEMMA FunctionSum ==
  ASSUME NEW K, IsFiniteSet(K), NEW v, \A x \in K : v[x] \in Nat
  PROVE  E!SumFunctionOnSet(v, K) = SumOf([x \in K |-> v[x]], K)
<1> DEFINE w == [x \in K |-> v[x]]
           Is(f) == f = [s \in SUBSET K |-> IF s = {} THEN 0
                           ELSE v[CHOOSE x \in s : TRUE] + f[s \ {CHOOSE x \in s : TRUE}]]
           iter == CHOOSE f : Is(f)
<1>1. w \in [K -> Nat]
  OBVIOUS
<1>2. E!SumFunctionOnSet(v, K) = iter[K]
  BY DEF E!SumFunctionOnSet, E!FoldFunctionOnSet, E!MapThenFoldSet
<1>3. PICK g : Sums(g, w, K) /\ SumOf(w, K) = g[K]
  <2> HIDE DEF w
  <2> QED BY <1>1, FoldIsSum
<1>4. Is(g)
  <2>1. ASSUME NEW s \in SUBSET K
        PROVE  g[s] = IF s = {} THEN 0 ELSE v[OneOf(s)] + g[s \ {OneOf(s)}]
    <3>1. CASE s = {}
      BY <1>3, <3>1 DEF Sums
    <3>2. CASE s # {}
      <4>1. g[s] = w[OneOf(s)] + g[s \ {OneOf(s)}] /\ OneOf(s) \in K
        BY <1>3, <3>2, OneOfIsMember DEF Sums
      <4> QED BY <3>2, <4>1
    <3> QED BY <3>1, <3>2
  <2>2. g = [s \in SUBSET K |-> g[s]]
    BY <1>3 DEF Sums
  <2> HIDE DEF w
  <2> QED BY <2>1, <2>2 DEF OneOf
<1>5. Is(iter)
  <2> HIDE DEF Is
  <2> QED BY <1>4
<1>6. /\ iter = [s \in SUBSET K |-> iter[s]] /\ iter[{}] = 0
      /\ \A s \in SUBSET K : s # {} => iter[s] = w[OneOf(s)] + iter[s \ {OneOf(s)}]
  <2> HIDE DEF iter
  <2>1. iter = [s \in SUBSET K |-> iter[s]] /\ iter[{}] = 0
    BY <1>5
  <2>2. ASSUME NEW s \in SUBSET K, s # {} PROVE iter[s] = w[OneOf(s)] + iter[s \ {OneOf(s)}]
    <3>1. iter[s] = v[OneOf(s)] + iter[s \ {OneOf(s)}]
      BY <1>5, <2>2 DEF OneOf
    <3>2. OneOf(s) \in K
      BY <2>2, OneOfIsMember
    <3> QED BY <3>1, <3>2
  <2> QED BY <2>1, <2>2
<1>7. Sums(iter, w, K)
  <2> HIDE DEF iter, w
  <2> QED BY <1>1, <1>6, TableOfSums
<1>8. iter[K] = g[K]
  <2> HIDE DEF iter, w
  <2> QED BY <1>1, <1>3, <1>7, SumsAgree
<1> HIDE DEF w, iter
<1> QED BY <1>2, <1>3, <1>8 DEF w

\* Counting the parts counts the whole.
LEMMA CountOfParts ==
  ASSUME NEW K, IsFiniteSet(K), NEW f, NEW v,
         \A x \in K : IsFiniteSet(f[x]) /\ v[x] = E!Cardinality(f[x]),
         \A x, y \in K : x # y => f[x] \cap f[y] = {}
  PROVE  E!SumFunctionOnSet(v, K) = E!Cardinality(UNION { f[x] : x \in K })
<1>1. \A x \in K : v[x] = Cardinality(f[x]) /\ v[x] \in Nat
  BY FS_CardinalityType, CardinalityAlike
<1>2. [x \in K |-> v[x]] = [x \in K |-> Cardinality(f[x])]
  BY <1>1
<1>3. SumOf([x \in K |-> Cardinality(f[x])], K) = Cardinality(UNION { f[x] : x \in K })
  BY SumOfParts
<1>4. E!SumFunctionOnSet(v, K) = SumOf([x \in K |-> v[x]], K)
  BY <1>1, FunctionSum
<1> QED BY <1>2, <1>3, <1>4, CardinalityAlike

LEMMA EffectiveIsFinite ==
  ASSUME MonthsKept
  PROVE  IsFiniteSet(E!Effective(ledger)) /\ E!Effective(ledger) \subseteq ledger
<1>1. E!Effective(ledger) \subseteq ledger
  BY DEF E!Effective
<1> QED BY <1>1, FS_Subset DEF MonthsKept

\* The report's rows of a month together hold what the rollup counts in it.
LEMMA MonthCounts ==
  ASSUME MonthsKept, NEW m \in Nat, NEW key, NEW v,
         \A r \in E!ReportRows(ledger, m) : v[r] = E!Cardinality(E!RowMembers(ledger, m, r))
  PROVE  E!SumFunctionOnSet(v, { r \in E!ReportRows(ledger, m) : << r[1], r[2] >> = key })
           = E!Cardinality({ l \in E!Group(ledger, key) : E!Month(l.date) = m })
<1> DEFINE month == E!OfMonth(ledger, m)
           Row(l) == << l.route, l.class, l.instance >>
           rows == { Row(l) : l \in month }
           K == { r \in rows : << r[1], r[2] >> = key }
           f == [r \in K |-> { l \in month : Row(l) = r }]
<1>1. month = { l \in E!Effective(ledger) : E!Month(l.date) = m } /\ IsFiniteSet(month)
  BY OfMonthIs, EffectiveIsFinite, FS_Subset
<1>2. E!ReportRows(ledger, m) = rows
  BY DEF E!ReportRows
<1>3. \A r \in rows : E!RowMembers(ledger, m, r) = { l \in month : Row(l) = r }
  BY DEF E!RowMembers
<1> HIDE DEF month
<1>4. IsFiniteSet(K)
  <2>1. IsFiniteSet(rows)
    <3> DEFINE row == [l \in month |-> Row(l)]
    <3>1. row \in Surjection(month, rows)
      BY DEF Surjection
    <3> HIDE DEF row, rows
    <3> QED BY <1>1, <3>1, FS_Surjection
  <2> QED BY <2>1, FS_Subset
<1>5. \A r \in K : IsFiniteSet(f[r]) /\ v[r] = E!Cardinality(f[r])
  <2>1. \A r \in K : f[r] \subseteq month
    OBVIOUS
  <2> QED BY <1>1, <1>2, <1>3, <2>1, FS_Subset
<1>6. \A x, y \in K : x # y => f[x] \cap f[y] = {}
  OBVIOUS
<1>7. E!SumFunctionOnSet(v, K) = E!Cardinality(UNION { f[r] : r \in K })
  <2> HIDE DEF K, f
  <2> QED BY <1>4, <1>5, <1>6, CountOfParts
<1>8. UNION { f[r] : r \in K } = { l \in month : << l.route, l.class >> = key }
  <2>1. \A l \in month : Row(l) \in rows /\ << Row(l)[1], Row(l)[2] >> = << l.route, l.class >>
    OBVIOUS
  <2>2. \A l \in month : << l.route, l.class >> = key => Row(l) \in K /\ l \in f[Row(l)]
    BY <2>1
  <2>3. \A r \in K : \A l \in f[r] : l \in month /\ << l.route, l.class >> = key
    BY <2>1
  <2> HIDE DEF K, f
  <2> QED BY <2>2, <2>3
<1>9. { l \in month : << l.route, l.class >> = key }
        = { l \in E!Group(ledger, key) : E!Month(l.date) = m }
  BY <1>1 DEF E!Group
<1> HIDE DEF f
<1> QED BY <1>2, <1>7, <1>8, <1>9

\* The months together hold what the rollup counts in all.
LEMMA MonthsCount ==
  ASSUME MonthsKept, NEW key
  PROVE  E!SumFunction([m \in { E!Month(l.date) : l \in ledger } |->
                          E!Cardinality({ l \in E!Group(ledger, key) : E!Month(l.date) = m })])
           = E!Cardinality(E!Group(ledger, key))
<1> DEFINE all == E!Group(ledger, key)
           months == { E!Month(l.date) : l \in ledger }
           v == [m \in months |-> E!Cardinality({ l \in all : E!Month(l.date) = m })]
           f == [m \in months |-> { l \in all : E!Month(l.date) = m }]
<1>1. IsFiniteSet(all) /\ all \subseteq ledger
  <2>1. all \subseteq E!Effective(ledger)
    BY DEF E!Group
  <2> QED BY <2>1, EffectiveIsFinite, FS_Subset
<1> HIDE DEF all
<1>2. IsFiniteSet(months)
  <2> DEFINE month == [l \in ledger |-> E!Month(l.date)]
  <2>1. month \in Surjection(ledger, months)
    BY DEF Surjection
  <2> HIDE DEF month, months
  <2> QED BY <2>1, FS_Surjection DEF MonthsKept
<1>3. \A m \in months : IsFiniteSet(f[m]) /\ v[m] = E!Cardinality(f[m])
  <2>1. \A m \in months : f[m] \subseteq all
    OBVIOUS
  <2>2. \A m \in months : v[m] = E!Cardinality(f[m])
    OBVIOUS
  <2> HIDE DEF v, months
  <2> QED BY <1>1, <2>1, <2>2, FS_Subset
<1>4. \A x, y \in months : x # y => f[x] \cap f[y] = {}
  OBVIOUS
<1>5. E!SumFunctionOnSet(v, months) = E!Cardinality(UNION { f[m] : m \in months })
  <2> HIDE DEF f, v, months
  <2> QED BY <1>2, <1>3, <1>4, CountOfParts
<1>6. UNION { f[m] : m \in months } = all
  <2>1. \A l \in all : E!Month(l.date) \in months /\ l \in f[E!Month(l.date)]
    BY <1>1
  <2>2. \A m \in months : f[m] \subseteq all
    OBVIOUS
  <2> HIDE DEF f
  <2> QED BY <2>1, <2>2
<1>7. E!SumFunction(v) = E!SumFunctionOnSet(v, months)
  <2>1. DOMAIN v = months
    OBVIOUS
  <2> QED BY <2>1 DEF E!SumFunction
<1> HIDE DEF f, v
<1>8. E!SumFunction(v) = E!Cardinality(all)
  BY <1>5, <1>6, <1>7
<1> QED BY <1>8 DEF all, months, v

\* The join takes the whole class where there is evidence of it, and whole
\* groups in any case.
LEMMA JoinTakesGroups ==
  ASSUME MonthsKept, NEW key \in E!Keys(ledger), key[2] # None, NEW route
  PROVE  LET joined == E!Join(ledger, route, key[2])
         IN  IF << route, key[2] >> \in E!Keys(ledger)
             THEN joined = [width |-> Len(key[2]), members |-> E!Group(ledger, << route, key[2] >>)]
             ELSE \A other \in E!Keys(ledger) :
                    E!Group(ledger, other) \cap joined.members
                      \in {{}, E!Group(ledger, other)}
<1> DEFINE class == key[2]
           joining == { w \in E!Widths(class) : E!Matching(ledger, route, class, w) # {} }
           joined == E!Join(ledger, route, class)
<1>1. Len(class) \in Nat
  <2>1. PICK l \in E!Effective(ledger) : key = << l.route, l.class >>
    BY DEF E!Keys
  <2>2. class = l.class /\ E!IsClass(l.class)
    BY <2>1, EffectiveIsFinite DEF MonthsKept, LinesDated
  <2>3. class \in Seq(E!Range(class))
    BY <2>2 DEF E!IsClass
  <2> HIDE DEF class
  <2> QED BY <2>3
<1>2. joined = IF joining = {} THEN [width |-> 0, members |-> {}]
               ELSE [width |-> E!Max(joining),
                     members |-> E!Matching(ledger, route, class, E!Max(joining))]
  BY DEF E!Join
<1>3. CASE << route, class >> \in E!Keys(ledger)
  <2>1. E!Matching(ledger, route, class, Len(class)) = E!Group(ledger, << route, class >>)
    <3>1. \A l : l.route = route /\ l.class = class <=> << l.route, l.class >> = << route, class >>
      OBVIOUS
    <3>2. class # None /\ Len(class) >= Len(class)
      BY <1>1
    <3> HIDE DEF class
    <3> QED BY <3>1, <3>2 DEF E!Matching, E!Group
  <2>2. E!Group(ledger, << route, class >>) # {}
    BY <1>3 DEF E!Keys, E!Group
  <2>3. Len(class) \in joining /\ \A w \in joining : w \in Nat /\ w <= Len(class)
    BY <1>1, <2>1, <2>2 DEF E!Widths
  <2> HIDE DEF joining, joined, class
  <2>4. E!Max(joining) = Len(class)
    <3>1. E!Max(joining) = CHOOSE x \in joining : \A y \in joining : x >= y
      BY DEF E!Max
    <3>2. \A x \in joining : (\A y \in joining : x >= y) => x = Len(class)
      BY <1>1, <2>3
    <3>3. \A y \in joining : Len(class) >= y
      BY <1>1, <2>3
    <3> QED BY <2>3, <3>1, <3>2, <3>3
  <2>5. joined = [width |-> Len(class), members |-> E!Group(ledger, << route, class >>)]
    BY <1>2, <2>1, <2>3, <2>4
  <2> QED BY <1>3, <2>5 DEF joined, class
<1>4. CASE << route, class >> \notin E!Keys(ledger)
  <2> SUFFICES ASSUME NEW other \in E!Keys(ledger)
               PROVE  E!Group(ledger, other) \cap joined.members
                        \in {{}, E!Group(ledger, other)}
    BY <1>4
  <2>1. CASE joining = {}
    <3>1. joined.members = {}
      BY <1>2, <2>1
    <3> QED BY <3>1
  <2>2. CASE joining # {}
    <3> DEFINE w == E!Max(joining)
    <3>1. joined.members = E!Matching(ledger, route, class, w)
      BY <1>2, <2>2
    <3> HIDE DEF w, joining, joined
    <3>2. \A l, o \in E!Group(ledger, other) : l.route = o.route /\ l.class = o.class
      BY DEF E!Group
    <3>3. \A l, o \in E!Group(ledger, other) :
            l \in E!Matching(ledger, route, class, w) => o \in E!Matching(ledger, route, class, w)
      <4> HIDE DEF class
      <4>1. \A l \in E!Group(ledger, other) : l \in E!Effective(ledger)
        BY DEF E!Group
      <4> QED BY <3>2, <4>1 DEF E!Matching
    <3> QED BY <3>1, <3>3
  <2> QED BY <2>1, <2>2
<1> QED BY <1>3, <1>4

LEMMA CountedAlike ==
  ASSUME MonthsKept
  PROVE  E!ReadersCountAlike
<1> DEFINE months == { E!Month(l.date) : l \in ledger }
           group == [key \in E!Keys(ledger) |-> E!Group(ledger, key)]
           reported == [m \in months |-> [r \in E!ReportRows(ledger, m) |->
                                            E!Cardinality(E!RowMembers(ledger, m, r))]]
           total(key, m) ==
             E!SumFunctionOnSet(reported[m],
                                { r \in DOMAIN reported[m] : << r[1], r[2] >> = key })
<1>1. \A m \in months : m \in Nat
  BY InMonthIs DEF MonthsKept, LinesDated
<1>2. ASSUME NEW key, NEW m \in months
      PROVE  total(key, m)
               = E!Cardinality({ l \in E!Group(ledger, key) : E!Month(l.date) = m })
  <2> DEFINE v == [r \in E!ReportRows(ledger, m) |-> E!Cardinality(E!RowMembers(ledger, m, r))]
  <2>1. reported[m] = v /\ DOMAIN v = E!ReportRows(ledger, m)
    BY <1>2
  <2>2. \A r \in E!ReportRows(ledger, m) : v[r] = E!Cardinality(E!RowMembers(ledger, m, r))
    OBVIOUS
  <2> HIDE DEF reported, v
  <2>3. E!SumFunctionOnSet(v, { r \in E!ReportRows(ledger, m) : << r[1], r[2] >> = key })
          = E!Cardinality({ l \in E!Group(ledger, key) : E!Month(l.date) = m })
    BY <1>1, <1>2, <2>2, MonthCounts
  <2> QED BY <2>1, <2>3
<1>3. ASSUME NEW key \in E!Keys(ledger)
      PROVE  E!SumFunction([m \in months |-> total(key, m)]) = E!Cardinality(group[key])
  <2> HIDE DEF total
  <2>1. [m \in months |-> total(key, m)]
          = [m \in months |-> E!Cardinality({ l \in E!Group(ledger, key) : E!Month(l.date) = m })]
    BY <1>2
  <2>2. group[key] = E!Group(ledger, key)
    BY <1>3
  <2> QED BY <2>1, <2>2, MonthsCount
<1>4. DOMAIN group = E!Keys(ledger) /\ \A key \in DOMAIN group : group[key] = E!Group(ledger, key)
  OBVIOUS
<1>5. ASSUME NEW key \in DOMAIN group, NEW route, key[2] # None
      PROVE  LET joined == E!Join(ledger, route, key[2])
             IN  IF << route, key[2] >> \in DOMAIN group
                 THEN joined = [width |-> Len(key[2]), members |-> group[<< route, key[2] >>]]
                 ELSE \A other \in DOMAIN group :
                        group[other] \cap joined.members \in {{}, group[other]}
  <2> HIDE DEF group
  <2> QED BY <1>4, <1>5, JoinTakesGroups
<1>6. \A key \in DOMAIN group :
        E!SumFunction([m \in months |-> total(key, m)]) = E!Cardinality(group[key])
  BY <1>3, <1>4
<1> HIDE DEF group, total
<1>7. \A key \in DOMAIN group : \A route \in { other[1] : other \in DOMAIN group } :
        key[2] # None =>
          LET joined == E!Join(ledger, route, key[2])
          IN  IF << route, key[2] >> \in DOMAIN group
              THEN joined = [width |-> Len(key[2]), members |-> group[<< route, key[2] >>]]
              ELSE \A other \in DOMAIN group :
                     group[other] \cap joined.members \in {{}, group[other]}
  BY <1>5
<1> QED BY <1>6, <1>7 DEF E!ReadersCountAlike, group, total

-----------------------------------------------------------------------------
CountInv == LedgerInv /\ (part = "evidence" => MonthsKept)

LEMMA CountsHold == FactorySpec => []CountInv
<1>1. FactoryInit => CountInv
  BY LedgerStarts, MonthsStart DEF FactoryInit, CountInv, LedgerInv
<1>2. CountInv /\ [FactoryNext]_everything => CountInv'
  <2> SUFFICES ASSUME CountInv, [FactoryNext]_everything, part' = "evidence"
               PROVE  LedgerKept' /\ MonthsKept'
    BY DEF CountInv, LedgerInv
  <2>1. part = "evidence" /\ LedgerKept /\ MonthsKept
    BY PartOfMeasures DEF CountInv, LedgerInv
  <2>2. E!Next \/ UNCHANGED ledgers
    BY <2>1 DEF FactoryNext, everything, Time, Authorize, AssignWork, PassArtifacts,
                KeepRegistry, SelectRoutes, KeepEvidence, CaptureUsage, Dispatch, Judge
  <2>3. CASE UNCHANGED ledgers
    BY <2>1, <2>3, LedgerIdles
       DEF ledgers, MonthsKept, LinesDated, Corrects, OneMonthEach
  <2> QED BY <2>1, <2>2, <2>3, LedgerStep, MonthsStep
<1> QED BY <1>1, <1>2, PTL DEF FactorySpec

\* Rollup, reports and join count the same lines, for any ledger, months, routes
\* and classes (rollup.py, evidence_report.py and evidence.py, each its own copy
\* of the rule which lines are superseded).
THEOREM CountedAlikeCorrect == FactorySpec => []ReadersCountAlike
<1>1. CountInv => ReadersCountAlike
  BY CountedAlike DEF CountInv, ReadersCountAlike
<1> QED BY <1>1, CountsHold, PTL
-----------------------------------------------------------------------------
(***************************************************************************)
(* Ladder and report.  The ladder averages over all successes of a route,  *)
(* the report over its instances, weighted by theirs; the sums are of the  *)
(* same parts.  A rung stands where the order of fractions puts it, which  *)
(* is total because no two rungs are of one route.                         *)
(***************************************************************************)
Costs == Nat \X (Nat \ {0})

\* A line without a route has no price.
LinesPriced ==
  \A l \in ledger :
    /\ l.marginal \in Nat \cup {None}
    /\ l.route \in Nat \/ (l.route = None /\ (l.passed => l.marginal = None))

\* What the deriver counted is still there when it reads the ledger again.
CountedStays == counted # None => counted \subseteq ledger

PricesKept == LinesPriced /\ CountedStays

LEMMA NotACost == None \notin Costs /\ None \notin Nat
BY FactoryAssumption DEF E!Assumption, Costs

LEMMA PricesStart == ASSUME E!Init PROVE PricesKept
BY FactoryAssumption DEF E!Assumption, E!Init, PricesKept, LinesPriced, CountedStays

LEMMA PricesStep ==
  ASSUME PricesKept, E!Next
  PROVE  PricesKept'
<1>1. ASSUME NEW line, ledger' = ledger \cup {line}, line.marginal \in Nat \cup {None},
             line.route \in Nat \/ (line.route = None /\ (line.passed => line.marginal = None)),
             counted' = counted
      PROVE  PricesKept'
  BY <1>1 DEF PricesKept, LinesPriced, CountedStays
<1>2. ASSUME NEW p \in Importers, E!ImportRow(p) PROVE PricesKept'
  <2> DEFINE i == at[p]
             line == E!NewLine(p, i)
  <2>1. counted' = counted /\ ledger' = IF line = None THEN ledger ELSE ledger \cup {line}
    BY <1>2 DEF E!ImportRow
  <2>2. CASE line = None
    BY <2>1, <2>2 DEF PricesKept, LinesPriced, CountedStays
  <2>3. CASE line # None
    <3>1. line.route = None /\ line.marginal = None
      BY <2>3 DEF E!NewLine, E!BenchmarkRow, E!AttemptRow, E!BenchmarkLine, E!AttemptLine
    <3> HIDE DEF line
    <3> QED BY <1>1, <2>1, <2>3, <3>1
  <2> QED BY <2>2, <2>3
<1>3. ASSUME NEW line \in Runs, E!AppendRun(line) PROVE PricesKept'
  <2>1. /\ line.marginal \in Nat \cup {None}
        /\ line.route \in Nat \/ (line.route = None /\ (line.passed => line.marginal = None))
    BY FactoryAssumption DEF E!Assumption
  <2> QED BY <1>1, <1>3, <2>1 DEF E!AppendRun
<1>4. ASSUME UNCHANGED ledger, counted' \in {counted, ledger, None} PROVE PricesKept'
  BY <1>4 DEF PricesKept, LinesPriced, CountedStays
<1>5. ASSUME NEW p \in Importers,
             E!RefuseSource(p) \/ E!Begin(p) \/ E!LockTimeout(p) \/ E!Abort(p) \/ E!Finish(p)
      PROVE  UNCHANGED << ledger, counted >>
  BY <1>5 DEF E!RefuseSource, E!Begin, E!LockTimeout, E!Abort, E!Finish
<1> QED BY <1>2, <1>3, <1>4, <1>5 DEF E!Next, E!WriteReceipt, E!DeriveReads, E!DeriveEnds

-----------------------------------------------------------------------------
\* Comparing fractions crosswise is an order.
LEMMA CrossTransitive ==
  ASSUME NEW a \in Nat, NEW b \in Nat, NEW c \in Nat,
         NEW x \in Nat \ {0}, NEW y \in Nat \ {0}, NEW z \in Nat \ {0},
         a * y <= b * x, b * z <= c * y
  PROVE  a * z <= c * x
<1> SUFFICES ASSUME c * x < a * z PROVE FALSE
  <2>1. a * z \in Nat /\ c * x \in Nat
    OBVIOUS
  <2> QED BY <2>1
<1>1. \A p, q, k \in Nat : p <= q => k * p <= k * q
  OBVIOUS
<1>2. z * (a * y) <= z * (b * x)
  BY <1>1
<1>3. x * (b * z) <= x * (c * y)
  BY <1>1
<1>4. z * (a * y) = y * (a * z) /\ z * (b * x) = x * (b * z) /\ x * (c * y) = y * (c * x)
  OBVIOUS
<1>5. y * (c * x) + y <= y * (a * z)
  <2>1. a * z \in Nat /\ c * x \in Nat
    OBVIOUS
  <2> QED BY <2>1, Scaled
<1>6. y * (a * z) \in Nat /\ x * (b * z) \in Nat /\ y * (c * x) \in Nat
  OBVIOUS
<1> QED BY <1>2, <1>3, <1>4, <1>5, <1>6

LEMMA LessOrders ==
  ASSUME NEW a \in Costs, NEW b \in Costs, NEW c \in Costs
  PROVE  /\ E!Less(a, b) => ~E!Less(b, a)
         /\ ~E!Less(b, a) /\ ~E!Less(c, b) => ~E!Less(c, a)
<1>1. /\ a[1] \in Nat /\ b[1] \in Nat /\ c[1] \in Nat
      /\ a[2] \in Nat \ {0} /\ b[2] \in Nat \ {0} /\ c[2] \in Nat \ {0}
  BY DEF Costs
<1>2. \A p, q \in Nat : p * q \in Nat
  OBVIOUS
<1>3. E!Less(a, b) => ~E!Less(b, a)
  BY <1>1, <1>2 DEF E!Less
<1>4. ASSUME ~E!Less(b, a), ~E!Less(c, b) PROVE ~E!Less(c, a)
  <2> DEFINE p == a[1]  q == b[1]  r == c[1]
             x == a[2]  y == b[2]  z == c[2]
  <2>1. p * y <= q * x /\ q * z <= r * y
    BY <1>1, <1>2, <1>4 DEF E!Less
  <2>2. /\ p \in Nat /\ q \in Nat /\ r \in Nat
        /\ x \in Nat \ {0} /\ y \in Nat \ {0} /\ z \in Nat \ {0}
    BY <1>1
  <2>3. p * z <= r * x
    <3> HIDE DEF p, q, r, x, y, z
    <3> QED BY <2>1, <2>2, CrossTransitive
  <2> QED BY <1>1, <1>2, <2>3 DEF E!Less
<1> QED BY <1>3, <1>4

IsRung(r) ==
  r.route \in Nat /\ r.n \in Nat \ {0} /\ r.pass \in Nat /\ r.cost \in Costs \cup {None}

\* The sort key of a ladder is a total order of rungs of different routes.
LEMMA BeforeOrders ==
  ASSUME NEW K, \A r \in K : IsRung(r), \A r, s \in K : r.route = s.route => r = s
  PROVE  /\ \A r \in K : ~E!Before(r, r)
         /\ \A r, s \in K : r = s \/ E!Before(r, s) \/ E!Before(s, r)
         /\ \A r, s, t \in K : E!Before(r, s) /\ E!Before(s, t) => E!Before(r, t)
<1> DEFINE More(r, s) == r.pass * s.n > s.pass * r.n
<1>1. ASSUME NEW r \in K, NEW s \in K, NEW t \in K
      PROVE  /\ E!Cheaper(r, s) => ~E!Cheaper(s, r)
             /\ ~E!Cheaper(s, r) /\ ~E!Cheaper(t, s) => ~E!Cheaper(t, r)
  BY <1>1, LessOrders, NotACost DEF E!Cheaper, IsRung
<1>2. ASSUME NEW r \in K, NEW s \in K, NEW t \in K
      PROVE  /\ More(r, s) => ~More(s, r)
             /\ ~More(s, r) /\ ~More(t, s) => ~More(t, r)
  <2> DEFINE rate(q) == << q.pass, q.n >>
  <2>1. rate(r) \in Costs /\ rate(s) \in Costs /\ rate(t) \in Costs
    BY DEF Costs, IsRung
  <2>2. /\ E!Less(rate(s), rate(r)) => ~E!Less(rate(r), rate(s))
        /\ ~E!Less(rate(s), rate(t)) /\ ~E!Less(rate(r), rate(s)) => ~E!Less(rate(r), rate(t))
    <3> HIDE DEF rate
    <3> QED BY <2>1, LessOrders
  <2>3. \A p, q \in {r, s, t} : More(p, q) <=> E!Less(rate(q), rate(p))
    <3> SUFFICES ASSUME NEW p \in {r, s, t}, NEW q \in {r, s, t}
                 PROVE  More(p, q) <=> E!Less(rate(q), rate(p))
      OBVIOUS
    <3>1. p.pass * q.n \in Nat /\ q.pass * p.n \in Nat
      BY DEF IsRung
    <3> QED BY <3>1 DEF E!Less
  <2> HIDE DEF rate, More
  <2> QED BY <2>2, <2>3
<1>3. ASSUME NEW r \in K, NEW s \in K
      PROVE  E!Before(r, s) <=>
               \/ E!Cheaper(r, s)
               \/ ~E!Cheaper(s, r) /\ (More(r, s) \/ (~More(r, s) /\ ~More(s, r) /\ r.route < s.route))
  <2>1. r.pass * s.n \in Nat /\ s.pass * r.n \in Nat
    BY DEF IsRung
  <2>2. r.pass * s.n = s.pass * r.n <=> ~More(r, s) /\ ~More(s, r)
    BY <2>1
  <2> QED BY <2>2 DEF E!Before
<1>4. \A r, s \in K : r.route \in Nat /\ (r = s \/ r.route # s.route)
  BY DEF IsRung
<1>5. \A r, s \in K : r = s \/ r.route < s.route \/ s.route < r.route
  BY <1>4
<1>6. \A r, s, t \in K : /\ ~(r.route < r.route)
                         /\ r.route < s.route /\ s.route < t.route => r.route < t.route
  BY <1>4
<1> HIDE DEF More
<1>7. \A r \in K : ~E!Before(r, r)
  BY <1>1, <1>2, <1>3, <1>6
<1>8. \A r, s \in K : r = s \/ E!Before(r, s) \/ E!Before(s, r)
  BY <1>3, <1>5
<1>9. ASSUME NEW r \in K, NEW s \in K, NEW t \in K, E!Before(r, s), E!Before(s, t)
      PROVE  E!Before(r, t)
  <2>1. ~E!Cheaper(s, r) /\ ~E!Cheaper(t, s) /\ ~E!Cheaper(t, r)
    BY <1>1, <1>3, <1>9
  <2>2. CASE E!Cheaper(r, s) \/ E!Cheaper(s, t)
    <3>1. E!Cheaper(r, t)
      BY <1>1, <2>1, <2>2
    <3> QED BY <1>3, <3>1
  <2>3. CASE ~E!Cheaper(r, s) /\ ~E!Cheaper(s, t)
    <3>1. ~More(s, r) /\ ~More(t, s)
      BY <1>2, <1>3, <1>9, <2>3
    <3>2. ~More(t, r)
      BY <1>2, <3>1
    <3>3. CASE More(r, s) \/ More(s, t)
      <4>1. More(r, t)
        BY <1>2, <3>1, <3>3
      <4> QED BY <1>3, <2>1, <4>1
    <3>4. CASE ~More(r, s) /\ ~More(s, t)
      <4>1. r.route < s.route /\ s.route < t.route
        BY <1>3, <1>9, <2>3, <3>4
      <4>2. r.route < t.route
        BY <1>6, <4>1
      <4> QED BY <1>3, <2>1, <3>2, <4>2
    <3> QED BY <3>3, <3>4
  <2> QED BY <2>2, <2>3
<1> QED BY <1>7, <1>8, <1>9

LEMMA RungsInOrder ==
  ASSUME NEW K, IsFiniteSet(K), \A r \in K : IsRung(r),
         \A r, s \in K : r.route = s.route => r = s
  PROVE  /\ E!Sorted(K) \in [1..Cardinality(K) -> K]
         /\ \A i, j \in 1..Cardinality(K) :
              i < j => E!Before(E!Sorted(K)[i], E!Sorted(K)[j])
<1> DEFINE Order == { p \in K \X K : E!Before(p[1], p[2]) }
<1>1. \A r, s \in K : << r, s >> \in Order <=> E!Before(r, s)
  OBVIOUS
<1>2. /\ \A r \in K : << r, r >> \notin Order
      /\ \A r, s \in K : r = s \/ << r, s >> \in Order \/ << s, r >> \in Order
      /\ \A r, s, t \in K : << r, s >> \in Order /\ << s, t >> \in Order => << r, t >> \in Order
  <2> HIDE DEF Order
  <2> QED BY <1>1, BeforeOrders
<1>3. \E s \in [1..Cardinality(K) -> K] :
        \A i, j \in 1..Cardinality(K) : i < j => << s[i], s[j] >> \in Order
  <2> HIDE DEF Order
  <2> QED BY <1>2, SortedExists
<1>4. \E s \in [1..Cardinality(K) -> K] :
        \A i, j \in DOMAIN s : i < j => E!Before(s[i], s[j])
  <2> HIDE DEF Order
  <2>1. PICK s \in [1..Cardinality(K) -> K] :
          \A i, j \in 1..Cardinality(K) : i < j => << s[i], s[j] >> \in Order
    BY <1>3
  <2>2. \A i, j \in DOMAIN s : i < j => E!Before(s[i], s[j])
    BY <1>1, <2>1
  <2> QED BY <2>2
<1>5. E!Cardinality(K) = Cardinality(K)
  BY CardinalityAlike
<1> QED BY <1>4, <1>5 DEF E!Sorted

LEMMA CheapestExists ==
  ASSUME NEW compared, IsFiniteSet(compared), compared # {}, compared \subseteq Nat,
         NEW cost, \A r \in compared : cost[r] \in Costs
  PROVE  \E r \in compared : \A o \in compared :
           ~E!Less(cost[o], cost[r]) /\ (E!Less(cost[r], cost[o]) \/ r <= o)
<1> DEFINE Good(r, o) == ~E!Less(cost[o], cost[r]) /\ (E!Less(cost[r], cost[o]) \/ r <= o)
           Order == { p \in compared \X compared : Good(p[1], p[2]) }
<1>1. \A r, o \in compared : << r, o >> \in Order <=> Good(r, o)
  OBVIOUS
<1>2. \A r, o \in compared : r <= o \/ o <= r
  OBVIOUS
<1>3. \A r, o \in compared : Good(r, o) \/ Good(o, r)
  BY <1>2, LessOrders
<1>4. \A r, o, q \in compared : r <= o /\ o <= q => r <= q
  OBVIOUS
<1>5. \A r, o, q \in compared : Good(r, o) /\ Good(o, q) => Good(r, q)
  BY <1>4, LessOrders
<1>6. \E r \in compared : \A o \in compared : << r, o >> \in Order
  <2> HIDE DEF Good
  <2>1. /\ \A r, o \in compared : << r, o >> \in Order \/ << o, r >> \in Order
        /\ \A r, o, q \in compared : << r, o >> \in Order /\ << o, q >> \in Order => << r, q >> \in Order
    <3> HIDE DEF Order
    <3> QED BY <1>1, <1>3, <1>5
  <2> HIDE DEF Order
  <2> QED BY <2>1, GreatestMember
<1> QED BY <1>1, <1>6

-----------------------------------------------------------------------------
LEMMA SumIs ==
  ASSUME NEW K, IsFiniteSet(K), NEW v \in [K -> Nat]
  PROVE  E!SumFunction(v) = SumOf(v, K)
<1>1. DOMAIN v = K /\ v = [x \in K |-> v[x]] /\ \A x \in K : v[x] \in Nat
  OBVIOUS
<1>2. E!SumFunctionOnSet(v, K) = SumOf([x \in K |-> v[x]], K)
  BY <1>1, FunctionSum
<1> QED BY <1>1, <1>2 DEF E!SumFunction

\* A total is what any table of sums has for it.
LEMMA TotalIs ==
  ASSUME NEW won, IsFiniteSet(won), NEW v \in [won -> Nat], \A l \in won : v[l] = l.marginal,
         NEW g, Sums(g, v, won), NEW T \in SUBSET won
  PROVE  E!TotalMarginal(T) = g[T]
<1> DEFINE w == [l \in T |-> l.marginal]
<1>1. w \in [T -> Nat] /\ \A l \in T : v[l] = w[l]
  OBVIOUS
<1>2. IsFiniteSet(T)
  BY FS_Subset
<1>3. E!TotalMarginal(T) = E!SumFunction(w)
  BY DEF E!TotalMarginal
<1> HIDE DEF w
<1>4. E!SumFunction(w) = SumOf(w, T)
  BY <1>1, <1>2, SumIs
<1>5. PICK h : Sums(h, w, T) /\ SumOf(w, T) = h[T]
  BY <1>1, <1>2, FoldIsSum
<1>6. g[T] = h[T]
  BY <1>1, <1>2, <1>5, SumsAgree
<1> QED BY <1>3, <1>4, <1>5, <1>6

\* The successes of an instance, and what the report says of them.
Part(won, instance) == { l \in won : l.instance = instance }

Cost(won) == << E!TotalMarginal(won), E!Cardinality(won) >>

PartCost(won, instance) == [instance |-> instance, cost |-> Cost(Part(won, instance))]

\* Weighted by their successes, the means of the instances have the mean of all.
LEMMA MeanOfParts ==
  ASSUME NEW won, IsFiniteSet(won), won # {}, \A l \in won : l.marginal \in Nat
  PROVE  /\ E!Combined({ PartCost(won, l.instance) : l \in won }) = Cost(won)
         /\ Cost(won) \in Costs
<1> DEFINE costs == { PartCost(won, l.instance) : l \in won }
           f == [c \in costs |-> Part(won, c.instance)]
           v == [l \in won |-> l.marginal]
           w == [c \in costs |-> c.cost[1]]
           n == [c \in costs |-> c.cost[2]]
<1>1. PICK g : Sums(g, v, won)
  <2>1. v \in [won -> Nat]
    OBVIOUS
  <2> HIDE DEF v
  <2> QED BY <2>1, SumsExist
<1>2. \A T \in SUBSET won : E!TotalMarginal(T) = g[T] /\ g[T] \in Nat
  <2>1. v \in [won -> Nat] /\ \A l \in won : v[l] = l.marginal
    OBVIOUS
  <2> HIDE DEF v
  <2> SUFFICES ASSUME NEW T \in SUBSET won PROVE E!TotalMarginal(T) = g[T] /\ g[T] \in Nat
    OBVIOUS
  <2>2. E!TotalMarginal(T) = g[T]
    BY <1>1, <2>1, TotalIs
  <2>3. g[T] \in Nat
    BY <1>1 DEF Sums
  <2> QED BY <2>2, <2>3
<1>3. IsFiniteSet(costs)
  <2> DEFINE of == [l \in won |-> PartCost(won, l.instance)]
  <2>1. of \in Surjection(won, costs)
    BY DEF Surjection
  <2> HIDE DEF of, costs
  <2> QED BY <2>1, FS_Surjection
<1>4. ASSUME NEW c \in costs
      PROVE  /\ c = PartCost(won, c.instance)
             /\ f[c] = Part(won, c.instance) /\ f[c] \in SUBSET won
             /\ c.cost[1] = g[f[c]] /\ c.cost[1] \in Nat
             /\ c.cost[2] = Cardinality(f[c]) /\ c.cost[2] \in Nat
  <2>1. PICK l \in won : c = PartCost(won, l.instance)
    OBVIOUS
  <2>2. c.instance = l.instance /\ c.cost = Cost(Part(won, c.instance))
    BY <2>1 DEF PartCost
  <2>3. f[c] = Part(won, c.instance) /\ f[c] \in SUBSET won
    BY DEF Part
  <2> HIDE DEF f
  <2>4. c.cost[1] = E!TotalMarginal(f[c]) /\ c.cost[2] = E!Cardinality(f[c])
    BY <2>2, <2>3 DEF Cost
  <2>5. Cardinality(f[c]) \in Nat
    BY <2>3, FS_Subset, FS_CardinalityType
  <2> QED BY <1>2, <2>1, <2>2, <2>3, <2>4, <2>5, CardinalityAlike
<1>5. \A c, d \in costs : c # d => f[c] \cap f[d] = {}
  <2> SUFFICES ASSUME NEW c \in costs, NEW d \in costs, c # d, NEW l, l \in f[c], l \in f[d]
               PROVE  FALSE
    OBVIOUS
  <2>1. l.instance = c.instance /\ l.instance = d.instance
    BY DEF Part
  <2> HIDE DEF costs, f
  <2>2. c = PartCost(won, c.instance) /\ d = PartCost(won, d.instance)
    BY <1>4
  <2> QED BY <2>1, <2>2
<1>6. UNION { f[c] : c \in costs } = won
  <2>1. ASSUME NEW l \in won PROVE \E c \in costs : l \in f[c]
    <3>1. PartCost(won, l.instance) \in costs /\ PartCost(won, l.instance).instance = l.instance
      BY DEF PartCost
    <3>2. l \in Part(won, l.instance)
      BY DEF Part
    <3> QED BY <3>1, <3>2
  <2> HIDE DEF f
  <2> QED BY <1>4, <2>1
<1>7. E!SumFunction(w) = E!TotalMarginal(won)
  <2>1. w \in [costs -> Nat] /\ \A c \in costs : w[c] = g[f[c]]
    BY <1>4
  <2>2. v \in [won -> Nat]
    OBVIOUS
  <2>3. f \in [costs -> SUBSET won]
    BY DEF Part
  <2> HIDE DEF w, f, costs, v
  <2>4. \A l : l \in won <=> \E c \in costs : l \in f[c]
    BY <1>6
  <2>5. SumOf(w, costs) = g[won]
    BY <1>1, <1>3, <1>5, <2>1, <2>2, <2>3, <2>4, SumOfSums
  <2>6. E!TotalMarginal(won) = g[won]
    BY <1>2
  <2>7. E!SumFunction(w) = SumOf(w, costs)
    BY <1>3, <2>1, SumIs
  <2> QED BY <2>5, <2>6, <2>7
<1>8. E!SumFunction(n) = E!Cardinality(won)
  <2>1. n \in [costs -> Nat] /\ n = [c \in costs |-> Cardinality(f[c])]
    BY <1>4
  <2>2. \A c \in costs : IsFiniteSet(f[c])
    BY <1>4, FS_Subset
  <2> HIDE DEF n, f, costs
  <2>3. SumOf([c \in costs |-> Cardinality(f[c])], costs) = Cardinality(won)
    BY <1>3, <1>5, <1>6, <2>2, SumOfParts
  <2> QED BY <1>3, <2>1, <2>3, SumIs, CardinalityAlike
<1>9. E!Combined(costs) = << E!SumFunction(w), E!SumFunction(n) >>
  BY DEF E!Combined
<1>10. Cost(won) \in Costs
  <2>1. E!TotalMarginal(won) \in Nat
    BY <1>2
  <2>2. E!Cardinality(won) \in Nat \ {0}
    BY FS_CardinalityType, FS_EmptySet, CardinalityAlike
  <2> QED BY <2>1, <2>2 DEF Cost, Costs
<1> HIDE DEF w, n, costs
<1>11. E!Combined(costs) = Cost(won)
  BY <1>7, <1>8, <1>9 DEF Cost
<1> QED BY <1>10, <1>11 DEF costs

\* Where the report has a cost for a route, and knows all there is of it, it is
\* the cost the ladder has.
LEMMA RouteCostIsMean ==
  ASSUME MonthsKept, LinesPriced, NEW m \in Nat, NEW route, NEW class,
         \A l \in E!Group(ledger, << route, class >>) : E!Month(l.date) = m,
         E!RouteCost(ledger, m, route, class) # None
  PROVE  /\ E!MeanMarginal(E!Group(ledger, << route, class >>))
              = E!RouteCost(ledger, m, route, class)
         /\ E!RouteCost(ledger, m, route, class) \in Costs
<1> DEFINE all == E!Group(ledger, << route, class >>)
           won == E!Passes(all)
           members(r) == E!RowMembers(ledger, m, r)
           rows == { r \in E!ReportRows(ledger, m) :
                       /\ r[1] = route /\ r[2] = class
                       /\ E!Passes(members(r)) # {} }
           costs == { [instance |-> r[3], cost |-> E!RowCost(members(r))] : r \in rows }
<1>1. /\ rows # {}
      /\ \A r \in rows : E!RowCost(members(r)) # None
      /\ E!RouteCost(ledger, m, route, class) = E!Combined(costs)
  BY DEF E!RouteCost
<1>2. E!OfMonth(ledger, m) = { l \in E!Effective(ledger) : E!Month(l.date) = m }
  BY OfMonthIs
<1>3. /\ \A l \in all : l \in E!OfMonth(ledger, m) /\ l.route = route /\ l.class = class
      /\ \A l \in E!OfMonth(ledger, m) : l.route = route /\ l.class = class => l \in all
  BY <1>2 DEF E!Group
<1>4. ASSUME NEW r \in rows
      PROVE  /\ r = << route, class, r[3] >>
             /\ E!Passes(members(r)) = Part(won, r[3])
  <2>1. r = << route, class, r[3] >>
    BY DEF E!ReportRows
  <2>2. \A l : << l.route, l.class, l.instance >> = r <=>
                 l.route = route /\ l.class = class /\ l.instance = r[3]
    BY <2>1
  <2>3. members(r) = { l \in all : l.instance = r[3] }
    <3> HIDE DEF rows, all
    <3> QED BY <1>3, <2>2 DEF E!RowMembers
  <2> QED BY <2>1, <2>3 DEF E!Passes, Part
<1>5. IsFiniteSet(won) /\ won \subseteq ledger
  <2>1. won \subseteq E!Effective(ledger)
    BY DEF E!Passes, E!Group
  <2> QED BY <2>1, EffectiveIsFinite, FS_Subset
<1>6. ASSUME NEW l \in won
      PROVE  \E r \in rows : r[3] = l.instance /\ l \in Part(won, r[3])
  <2> DEFINE r == << route, class, l.instance >>
  <2>1. l \in all /\ l.passed
    BY <1>6 DEF E!Passes
  <2>2. r \in E!ReportRows(ledger, m)
    BY <1>3, <2>1 DEF E!ReportRows
  <2>3. l \in E!Passes(members(r))
    BY <1>3, <2>1 DEF E!Passes, E!RowMembers
  <2>4. r[1] = route /\ r[2] = class /\ r[3] = l.instance
    OBVIOUS
  <2>5. l \in Part(won, r[3])
    BY DEF Part
  <2> HIDE DEF r
  <2> QED BY <2>2, <2>3, <2>4, <2>5
<1>7. ASSUME NEW r \in rows
      PROVE  /\ Part(won, r[3]) # {}
             /\ \A l \in Part(won, r[3]) : l.marginal # None
             /\ [instance |-> r[3], cost |-> E!RowCost(members(r))] = PartCost(won, r[3])
  <2>1. E!Passes(members(r)) # {} /\ E!RowCost(members(r)) # None
    BY <1>1
  <2>2. E!RowCost(members(r)) = Cost(E!Passes(members(r)))
    BY <2>1 DEF E!RowCost, Cost
  <2>3. \A l \in E!Passes(members(r)) : l.marginal # None
    BY <2>1 DEF E!RowCost
  <2> HIDE DEF rows, won, members
  <2> QED BY <1>4, <2>1, <2>2, <2>3 DEF PartCost
<1>8. costs = { PartCost(won, l.instance) : l \in won }
  <2>1. \A r \in rows : \E l \in won : l.instance = r[3]
    <3> HIDE DEF rows, won
    <3> QED BY <1>7 DEF Part
  <2>2. costs = { PartCost(won, r[3]) : r \in rows }
    <3> HIDE DEF rows, won, members
    <3> QED BY <1>7
  <2>3. \A l \in won : \E r \in rows : r[3] = l.instance
    BY <1>6
  <2> HIDE DEF rows, won, members, costs
  <2> QED BY <2>1, <2>2, <2>3
<1>9. won # {} /\ \A l \in won : l.marginal \in Nat
  <2> HIDE DEF rows, won, members
  <2>1. won # {}
    BY <1>1, <1>7 DEF Part
  <2>2. \A l \in won : l.marginal # None
    BY <1>6, <1>7
  <2> QED BY <1>5, <2>1, <2>2 DEF LinesPriced
<1> HIDE DEF costs, rows, members
<1>10. E!Combined(costs) = Cost(won) /\ Cost(won) \in Costs
  <2> HIDE DEF won
  <2> QED BY <1>5, <1>8, <1>9, MeanOfParts
<1>11. E!MeanMarginal(all) = Cost(won)
  <2>1. { l \in won : l.marginal # None } = won
    BY <1>9, NotACost
  <2> HIDE DEF all
  <2> QED BY <1>9, <2>1 DEF E!MeanMarginal, Cost
<1> HIDE DEF won, all
<1> QED BY <1>1, <1>10, <1>11 DEF all

LEMMA MeanIsCost ==
  ASSUME MonthsKept, LinesPriced, NEW of \in SUBSET ledger
  PROVE  E!MeanMarginal(of) \in Costs \cup {None}
<1> DEFINE priced == { l \in E!Passes(of) : l.marginal # None }
<1>1. priced \subseteq ledger /\ \A l \in priced : l.marginal \in Nat
  BY DEF E!Passes, LinesPriced
<1>2. E!MeanMarginal(of) = IF priced = {} THEN None ELSE Cost(priced)
  BY DEF E!MeanMarginal, Cost
<1> HIDE DEF priced
<1>3. IsFiniteSet(priced)
  BY <1>1, FS_Subset DEF MonthsKept
<1>4. priced # {} => Cost(priced) \in Costs
  BY <1>1, <1>3, MeanOfParts
<1> QED BY <1>2, <1>4

-----------------------------------------------------------------------------
\* All there is of the routes of a class is of one month.
AllOfMonth(m, class) ==
  \A l \in ledger : l.class = class /\ l.route # None => E!InMonth(l.date, m)

LEMMA GroupOfMonth ==
  ASSUME MonthsKept, NEW m \in Nat, NEW class, AllOfMonth(m, class), NEW route \in Nat
  PROVE  \A l \in E!Group(ledger, << route, class >>) : E!Month(l.date) = m
<1> SUFFICES ASSUME NEW l \in E!Group(ledger, << route, class >>) PROVE E!Month(l.date) = m
  OBVIOUS
<1>1. l \in ledger /\ l.route = route /\ l.class = class
  BY DEF E!Group, E!Effective
<1>2. l.date \in Nat /\ E!InMonth(l.date, m)
  BY <1>1, NotACost DEF AllOfMonth, MonthsKept, LinesDated
<1> QED BY <1>2, InMonthIs

\* A line without a route makes no row with a cost.
LEMMA NoCostWithoutRoute ==
  ASSUME MonthsKept, LinesPriced, NEW m \in Nat, NEW class
  PROVE  E!RouteCost(ledger, m, None, class) = None
<1> DEFINE members(r) == E!RowMembers(ledger, m, r)
           rows == { r \in E!ReportRows(ledger, m) :
                       /\ r[1] = None /\ r[2] = class
                       /\ E!Passes(members(r)) # {} }
<1>1. ASSUME NEW r \in rows PROVE E!RowCost(members(r)) = None
  <2>1. PICK l : l \in members(r) /\ l.passed
    BY DEF E!Passes
  <2>2. l \in E!Effective(ledger) /\ << l.route, l.class, l.instance >> = r
    BY <2>1, OfMonthIs DEF E!RowMembers
  <2>3. l \in ledger
    BY <2>2, EffectiveIsFinite
  <2>4. l.route = None
    BY <2>2
  <2>5. l.marginal = None
    BY <2>1, <2>3, <2>4, NotACost DEF LinesPriced
  <2>6. l \in E!Passes(members(r))
    BY <2>1 DEF E!Passes
  <2> QED BY <2>5, <2>6 DEF E!RowCost
<1> QED BY <1>1 DEF E!RouteCost

LEMMA ComparedCosts ==
  ASSUME MonthsKept, LinesPriced, NEW m \in Nat, NEW class, AllOfMonth(m, class)
  PROVE  /\ IsFiniteSet(E!Compared(ledger, m, class))
         /\ \A r \in E!Compared(ledger, m, class) :
              /\ r \in Nat
              /\ E!RouteCost(ledger, m, r, class) \in Costs
              /\ E!MeanMarginal(E!Group(ledger, << r, class >>)) = E!RouteCost(ledger, m, r, class)
<1> DEFINE month == E!OfMonth(ledger, m)
           named == { l.route : l \in month }
<1>1. month \subseteq E!Effective(ledger) /\ month \subseteq ledger /\ IsFiniteSet(month)
  BY OfMonthIs, EffectiveIsFinite, FS_Subset
<1>2. IsFiniteSet(named)
  <2> DEFINE of == [l \in month |-> l.route]
  <2>1. of \in Surjection(month, named)
    BY DEF Surjection
  <2> HIDE DEF of, month, named
  <2> QED BY <1>1, <2>1, FS_Surjection
<1>3. \A r \in E!Compared(ledger, m, class) :
        r \in named /\ E!RouteCost(ledger, m, r, class) # None
  BY DEF E!Compared
<1>4. \A r \in named : r \in Nat \cup {None}
  BY <1>1 DEF LinesPriced
<1>5. ASSUME NEW r \in E!Compared(ledger, m, class)
      PROVE  /\ r \in Nat
             /\ E!RouteCost(ledger, m, r, class) \in Costs
             /\ E!MeanMarginal(E!Group(ledger, << r, class >>)) = E!RouteCost(ledger, m, r, class)
  <2> HIDE DEF month, named
  <2>1. r \in Nat /\ E!RouteCost(ledger, m, r, class) # None
    BY <1>3, <1>4, NoCostWithoutRoute
  <2> QED BY <2>1, GroupOfMonth, RouteCostIsMean
<1>6. IsFiniteSet(E!Compared(ledger, m, class))
  <2> HIDE DEF named
  <2>1. E!Compared(ledger, m, class) \subseteq named
    BY <1>3
  <2> QED BY <1>2, <2>1, FS_Subset
<1> QED BY <1>5, <1>6

\* What the report recommends is one of the routes it compared.
LEMMA RecommendedIsCompared ==
  ASSUME MonthsKept, LinesPriced, NEW m \in Nat, NEW class, AllOfMonth(m, class),
         E!Recommended(ledger, m, class) # None, E!Compared(ledger, m, class) # {}
  PROVE  E!Recommended(ledger, m, class) \in E!Compared(ledger, m, class)
<1> DEFINE compared == E!Compared(ledger, m, class)
           cost == [r \in compared |-> E!RouteCost(ledger, m, r, class)]
           Cheapest(r) == \A o \in compared :
             /\ ~E!Less(E!RouteCost(ledger, m, o, class), E!RouteCost(ledger, m, r, class))
             /\ \/ E!Less(E!RouteCost(ledger, m, r, class), E!RouteCost(ledger, m, o, class))
                \/ r <= o
<1>1. E!Recommended(ledger, m, class) = CHOOSE r \in compared : Cheapest(r)
  BY DEF E!Recommended
<1>2. \A r \in compared : cost[r] = E!RouteCost(ledger, m, r, class)
  OBVIOUS
<1>3. \E r \in compared : \A o \in compared :
        ~E!Less(cost[o], cost[r]) /\ (E!Less(cost[r], cost[o]) \/ r <= o)
  <2>1. IsFiniteSet(compared) /\ compared \subseteq Nat /\ \A r \in compared : cost[r] \in Costs
    BY <1>2, ComparedCosts
  <2> HIDE DEF compared, cost
  <2>2. compared # {}
    BY DEF compared
  <2> QED BY <2>1, <2>2, CheapestExists
<1>4. \E r \in compared : Cheapest(r)
  <2> HIDE DEF compared, cost
  <2> QED BY <1>2, <1>3
<1> HIDE DEF Cheapest
<1> QED BY <1>1, <1>4

-----------------------------------------------------------------------------
LEMMA RungsOrdered ==
  ASSUME MonthsKept, LinesPriced, NEW taken \in SUBSET ledger, NEW class
  PROVE  LET rungs == E!Rungs(taken, ledger, class)
         IN  /\ \A i, j \in 1..Len(rungs) : i < j => E!Before(rungs[i], rungs[j])
             /\ \A i \in 1..Len(rungs) :
                  /\ rungs[i].route \in Nat
                  /\ rungs[i].cost
                       = E!MeanMarginal(E!Group(ledger, << rungs[i].route, class >>))
<1> DEFINE keys == { k \in E!Keys(taken) :
                       /\ k[2] = class /\ k[1] # None
                       /\ E!Cardinality(E!Group(taken, k)) >= Least
                       /\ E!Passes(E!Group(taken, k)) # {} }
           Rung(k) == [route |-> k[1], n |-> E!Cardinality(E!Group(taken, k)),
                       pass |-> E!Cardinality(E!Passes(E!Group(taken, k))),
                       cost |-> E!MeanMarginal(E!Group(ledger, k))]
           K == { Rung(k) : k \in keys }
           rungs == E!Sorted(K)
<1>1. E!Rungs(taken, ledger, class) = rungs
  BY DEF E!Rungs
<1>2. E!Effective(taken) \subseteq ledger /\ IsFiniteSet(E!Effective(taken))
  <2>1. E!Effective(taken) \subseteq ledger
    BY DEF E!Effective
  <2> QED BY <2>1, FS_Subset DEF MonthsKept
<1>3. IsFiniteSet(K)
  <2>1. IsFiniteSet(E!Keys(taken))
    <3> DEFINE key == [l \in E!Effective(taken) |-> << l.route, l.class >>]
    <3>1. key \in Surjection(E!Effective(taken), E!Keys(taken))
      BY DEF Surjection, E!Keys
    <3> HIDE DEF key
    <3> QED BY <1>2, <3>1, FS_Surjection
  <2>2. IsFiniteSet(keys)
    BY <2>1, FS_Subset
  <2> DEFINE rung == [k \in keys |-> Rung(k)]
  <2>3. rung \in Surjection(keys, K)
    BY DEF Surjection
  <2> HIDE DEF rung, keys, K
  <2> QED BY <2>2, <2>3, FS_Surjection
<1>4. ASSUME NEW k \in keys
      PROVE  k = << k[1], class >> /\ k[1] \in Nat /\ IsRung(Rung(k))
  <2>1. PICK l \in E!Effective(taken) : k = << l.route, l.class >>
    BY DEF E!Keys
  <2>2. k = << k[1], class >> /\ k[1] \in Nat
    BY <1>2, <2>1 DEF LinesPriced
  <2>3. /\ E!Group(taken, k) \subseteq E!Effective(taken)
        /\ E!Passes(E!Group(taken, k)) \subseteq E!Group(taken, k)
        /\ E!Passes(E!Group(taken, k)) # {}
    BY DEF E!Group, E!Passes
  <2>4. IsFiniteSet(E!Group(taken, k)) /\ IsFiniteSet(E!Passes(E!Group(taken, k)))
    BY <1>2, <2>3, FS_Subset
  <2>5. E!Cardinality(E!Group(taken, k)) \in Nat \ {0}
    BY <2>3, <2>4, FS_CardinalityType, FS_EmptySet, CardinalityAlike
  <2>6. E!Cardinality(E!Passes(E!Group(taken, k))) \in Nat
    BY <2>4, FS_CardinalityType, CardinalityAlike
  <2>7. E!MeanMarginal(E!Group(ledger, k)) \in Costs \cup {None}
    <3>1. E!Group(ledger, k) \in SUBSET ledger
      BY DEF E!Group, E!Effective
    <3> QED BY <3>1, MeanIsCost
  <2> HIDE DEF keys
  <2> QED BY <2>2, <2>5, <2>6, <2>7 DEF IsRung
<1>5. ASSUME NEW r \in K
      PROVE  /\ IsRung(r)
             /\ r = Rung(<< r.route, class >>)
  <2>1. PICK k \in keys : r = Rung(k)
    OBVIOUS
  <2>2. r.route = k[1]
    BY <2>1
  <2> HIDE DEF Rung
  <2> QED BY <1>4, <2>1, <2>2
<1>6. \A r, s \in K : r.route = s.route => r = s
  BY <1>5
<1>7. /\ rungs \in [1..Cardinality(K) -> K]
      /\ \A i, j \in 1..Cardinality(K) : i < j => E!Before(rungs[i], rungs[j])
  <2> HIDE DEF K
  <2> QED BY <1>3, <1>5, <1>6, RungsInOrder
<1>8. Len(rungs) = Cardinality(K)
  <2>1. Cardinality(K) \in Nat
    BY <1>3, FS_CardinalityType
  <2> HIDE DEF K, rungs
  <2> QED BY <1>7, <2>1
<1>9. \A r \in K : r.cost = E!MeanMarginal(E!Group(ledger, << r.route, class >>))
  BY <1>5
<1>10. \A i \in 1..Len(rungs) : rungs[i] \in K
  <2> HIDE DEF K, rungs
  <2> QED BY <1>7, <1>8
<1> HIDE DEF K, rungs
<1>11. \A i \in 1..Len(rungs) :
         /\ rungs[i].route \in Nat
         /\ rungs[i].cost = E!MeanMarginal(E!Group(ledger, << rungs[i].route, class >>))
  BY <1>5, <1>9, <1>10 DEF IsRung
<1>12. \A i, j \in 1..Len(rungs) : i < j => E!Before(rungs[i], rungs[j])
  BY <1>7, <1>8
<1> QED BY <1>1, <1>11, <1>12

\* A rung that stands before another of a known cost is not the dearer one.
LEMMA BeforeIsNotDearer ==
  ASSUME NEW r, NEW s, r.cost \in Costs, s.cost \in Costs, E!Before(r, s)
  PROVE  ~E!Less(s.cost, r.cost)
<1>1. r.cost # None /\ s.cost # None
  BY NotACost
<1>2. E!Less(r.cost, s.cost) => ~E!Less(s.cost, r.cost)
  BY LessOrders
<1> QED BY <1>1, <1>2 DEF E!Before, E!Cheaper

LEMMA RungAgrees ==
  ASSUME MonthsKept, PricesKept
  PROVE  E!RungAgreed
<1> SUFFICES ASSUME counted # None, NEW class \in DOMAIN E!Derived,
                    NEW month \in { E!Month(l.date) : l \in ledger },
                    AllOfMonth(month, class)
             PROVE  LET rungs == E!Derived[class]
                        best == E!Recommended(ledger, month, class)
                    IN  \A i, j \in 1..Len(rungs) :
                          /\ i < j
                          /\ rungs[j].route = best
                          /\ rungs[i].route \in E!Compared(ledger, month, class)
                          => /\ ~E!Less(rungs[j].cost, rungs[i].cost)
                             /\ ~E!Less(E!RouteCost(ledger, month, best, class),
                                        E!RouteCost(ledger, month, rungs[i].route, class))
  BY DEF E!RungAgreed, E!DeriveEnds, AllOfMonth
<1> DEFINE rungs == E!Rungs(counted, ledger, class)
           best == E!Recommended(ledger, month, class)
           Told(route) == E!RouteCost(ledger, month, route, class)
<1>1. E!Derived[class] = rungs
  BY DEF E!Derived
<1>2. month \in Nat /\ LinesPriced /\ counted \in SUBSET ledger
  BY InMonthIs DEF MonthsKept, LinesDated, PricesKept, CountedStays
<1>3. /\ \A i, j \in 1..Len(rungs) : i < j => E!Before(rungs[i], rungs[j])
      /\ \A i \in 1..Len(rungs) :
           /\ rungs[i].route \in Nat
           /\ rungs[i].cost = E!MeanMarginal(E!Group(ledger, << rungs[i].route, class >>))
  BY <1>2, RungsOrdered
<1> HIDE DEF rungs
<1>4. ASSUME NEW i \in 1..Len(rungs), NEW j \in 1..Len(rungs), i < j,
             rungs[j].route = best, rungs[i].route \in E!Compared(ledger, month, class)
      PROVE  ~E!Less(rungs[j].cost, rungs[i].cost) /\ ~E!Less(Told(best), Told(rungs[i].route))
  <2>1. best # None
    BY <1>3, <1>4, NotACost
  <2>2. best \in E!Compared(ledger, month, class)
    BY <1>2, <1>4, <2>1, RecommendedIsCompared
  <2>3. /\ rungs[i].cost = Told(rungs[i].route) /\ rungs[i].cost \in Costs
        /\ rungs[j].cost = Told(best) /\ rungs[j].cost \in Costs
    <3>1. \A r \in E!Compared(ledger, month, class) :
            Told(r) \in Costs /\ E!MeanMarginal(E!Group(ledger, << r, class >>)) = Told(r)
      BY <1>2, ComparedCosts
    <3> HIDE DEF best, Told
    <3> QED BY <1>3, <1>4, <2>2, <3>1
  <2>4. ~E!Less(rungs[j].cost, rungs[i].cost)
    BY <1>3, <1>4, <2>3, BeforeIsNotDearer
  <2> QED BY <2>3, <2>4
<1> QED BY <1>1, <1>4

PriceInv == CountInv /\ (part = "evidence" => PricesKept)

LEMMA PricesHold == FactorySpec => []PriceInv
<1>1. FactoryInit => PriceInv
  BY LedgerStarts, MonthsStart, PricesStart DEF FactoryInit, PriceInv, CountInv, LedgerInv
<1>2. PriceInv /\ CountInv' /\ [FactoryNext]_everything => PriceInv'
  <2> SUFFICES ASSUME PriceInv, [FactoryNext]_everything, part' = "evidence"
               PROVE  PricesKept'
    BY DEF PriceInv
  <2>1. part = "evidence" /\ PricesKept
    BY PartOfMeasures DEF PriceInv
  <2>2. E!Next \/ UNCHANGED ledgers
    BY <2>1 DEF FactoryNext, everything, Time, Authorize, AssignWork, PassArtifacts,
                KeepRegistry, SelectRoutes, KeepEvidence, CaptureUsage, Dispatch, Judge
  <2>3. CASE UNCHANGED ledgers
    BY <2>1, <2>3 DEF ledgers, PricesKept, LinesPriced, CountedStays
  <2> QED BY <2>1, <2>2, <2>3, PricesStep
<1> QED BY <1>1, <1>2, CountsHold, PTL DEF FactorySpec

\* A recommendation of the report is not dearer in a ladder derived meanwhile
\* than a rung before it, for any ledger, prices, routes and classes
\* (_route_changes of evidence_report.py, _derive_class_ladder of
\* ladder_derivation.py).
THEOREM CheapestAgreedCorrect == FactorySpec => CheapestAgreed
<1>1. PriceInv => (part = "evidence" => E!RungAgreed)
  BY RungAgrees DEF PriceInv, CountInv
<1>2. PriceInv /\ [FactoryNext]_everything => [part = "evidence" => E!RungAgreed]_everything
  BY <1>1
<1> QED BY <1>2, PricesHold, PTL DEF FactorySpec, CheapestAgreed
=============================================================================
