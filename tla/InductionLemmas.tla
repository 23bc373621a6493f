--------------------------- MODULE InductionLemmas ---------------------------
(***************************************************************************)
(* Induction without an induction rule: every nonempty set of natural      *)
(* numbers has a least member, so a claim about all numbers holds unless   *)
(* there is a least number it fails for.  What follows is what the proofs  *)
(* about orders, recursive functions and sums over sets need of it.        *)
(***************************************************************************)
EXTENDS Integers, FiniteSetsExt, FiniteSetTheorems, WellFoundedInduction, TLAPS

LEMMA LeastNumber ==
  ASSUME NEW T, T \subseteq Nat, T # {}
  PROVE  \E x \in T : \A y \in T : x <= y
<1>1. PICK x \in T : \A y \in T : << y, x >> \notin OpToRel(<, Nat)
  BY NatLessThanWellFounded, WFMin
<1>2. ASSUME NEW y \in T PROVE x <= y
  <2>1. x \in Nat /\ y \in Nat
    OBVIOUS
  <2>2. ~(y < x)
    BY <1>1, <2>1 DEF OpToRel
  <2> QED BY <2>1, <2>2
<1> QED BY <1>2

\* A bounded one has a greatest member as well.
LEMMA GreatestNumber ==
  ASSUME NEW n \in Nat, NEW T, T \subseteq 0..n, T # {}
  PROVE  \E x \in T : \A y \in T : y <= x
<1> DEFINE Rest == { n - x : x \in T }
<1>1. Rest \subseteq Nat /\ Rest # {}
  <2>1. \A x \in T : x \in 0..n /\ n - x \in Nat
    OBVIOUS
  <2> QED BY <2>1
<1>2. PICK z \in Rest : \A w \in Rest : z <= w
  <2> HIDE DEF Rest
  <2> QED BY <1>1, LeastNumber
<1>3. PICK x \in T : z = n - x
  BY <1>2
<1>4. ASSUME NEW y \in T PROVE y <= x
  <2>1. n - x <= n - y
    BY <1>2, <1>3
  <2>2. x \in 0..n /\ y \in 0..n
    OBVIOUS
  <2> QED BY <2>1, <2>2
<1> QED BY <1>4

\* Of the members with the least key there is a first one.
LEMMA FirstOfLeast ==
  ASSUME NEW T, T \subseteq Nat, T # {}, NEW key \in [T -> Nat]
  PROVE  \E n \in T : \A m \in T : key[n] < key[m] \/ (key[n] = key[m] /\ n <= m)
<1> DEFINE Values == { key[n] : n \in T }
<1>1. PICK v \in Values : \A w \in Values : v <= w
  <2>1. Values \subseteq Nat /\ Values # {}
    OBVIOUS
  <2> HIDE DEF Values
  <2> QED BY <2>1, LeastNumber
<1> DEFINE First == { n \in T : key[n] = v }
<1>2. PICK n \in First : \A m \in First : n <= m
  <2>1. First \subseteq Nat /\ First # {}
    OBVIOUS
  <2> HIDE DEF First
  <2> QED BY <2>1, LeastNumber
<1>3. ASSUME NEW m \in T PROVE key[n] < key[m] \/ (key[n] = key[m] /\ n <= m)
  <2>1. key[m] \in Nat /\ v \in Nat /\ v <= key[m] /\ key[n] = v
    BY <1>1, <1>2
  <2>2. key[m] = v => n <= m
    BY <1>2
  <2> QED BY <2>1, <2>2
<1> QED BY <1>2, <1>3

\* A set of the numbers up to n that holds 0 and every successor holds them all.
LEMMA UpTo ==
  ASSUME NEW n \in Nat, NEW T, 0 \in T,
         \A i \in 1..n : i - 1 \in T => i \in T
  PROVE  0..n \subseteq T
<1> DEFINE Missing == (0..n) \ T
<1> SUFFICES ASSUME Missing # {} PROVE FALSE
  OBVIOUS
<1>1. Missing \subseteq Nat
  OBVIOUS
<1>2. PICK i \in Missing : \A j \in Missing : i <= j
  <2> HIDE DEF Missing
  <2> QED BY <1>1, LeastNumber
<1>3. i \in 1..n /\ i - 1 \in 0..n /\ ~(i <= i - 1)
  BY <1>2
<1> QED BY <1>2, <1>3

\* A relation that is total and transitive on a finite set has a greatest
\* member there.
LEMMA GreatestMember ==
  ASSUME NEW S, NEW R, IsFiniteSet(S), S # {},
         \A x, y \in S : << x, y >> \in R \/ << y, x >> \in R,
         \A x, y, z \in S : << x, y >> \in R /\ << y, z >> \in R => << x, z >> \in R
  PROVE  \E x \in S : \A y \in S : << x, y >> \in R
<1> DEFINE Bad(U) == U # {} /\ ~\E x \in U : \A y \in U : << x, y >> \in R
           Sizes == { n \in Nat : \E U \in SUBSET S : Bad(U) /\ Cardinality(U) = n }
<1> SUFFICES ASSUME Bad(S) PROVE FALSE
  OBVIOUS
<1>1. \A U \in SUBSET S : IsFiniteSet(U) /\ Cardinality(U) \in Nat
  BY FS_Subset, FS_CardinalityType
<1>2. Sizes # {} /\ Sizes \subseteq Nat
  BY <1>1
<1>3. PICK n \in Sizes : \A m \in Sizes : n <= m
  <2> HIDE DEF Sizes
  <2> QED BY <1>2, LeastNumber
<1>4. PICK U \in SUBSET S : Bad(U) /\ Cardinality(U) = n
  BY <1>3
<1>5. PICK u \in U : TRUE
  BY <1>4
<1> DEFINE Rest == U \ {u}
<1>6. Rest \in SUBSET S /\ Cardinality(Rest) = n - 1 /\ n - 1 \in Nat /\ n \in Nat
  <2>1. IsFiniteSet(U) /\ Rest \in SUBSET S
    BY <1>1
  <2>2. Cardinality(Rest) = Cardinality(U) - 1
    BY <2>1, FS_RemoveElement
  <2>3. Cardinality(Rest) \in Nat /\ Cardinality(U) \in Nat
    BY <1>1, <2>1
  <2> HIDE DEF Rest
  <2> QED BY <1>4, <2>1, <2>2, <2>3
<1>7. ~Bad(Rest)
  <2> SUFFICES ASSUME Bad(Rest) PROVE FALSE
    OBVIOUS
  <2>1. n - 1 \in Sizes
    <3> HIDE DEF Rest, Bad
    <3> QED BY <1>6
  <2>2. n <= n - 1
    <3> HIDE DEF Sizes, Rest, Bad
    <3> QED BY <1>3, <2>1
  <2> QED BY <1>6, <2>2
<1>8. CASE Rest = {}
  BY <1>4, <1>5, <1>8
<1>9. CASE Rest # {}
  <2>1. PICK x \in Rest : \A y \in Rest : << x, y >> \in R
    BY <1>7, <1>9
  <2>2. CASE << x, u >> \in R
    BY <1>4, <2>1, <2>2
  <2>3. CASE << u, x >> \in R
    <3>1. \A y \in U : << u, y >> \in R
      BY <1>4, <2>1, <2>3
    <3> QED BY <1>4, <3>1
  <2> QED BY <2>1, <2>2, <2>3
<1> QED BY <1>8, <1>9

\* What is computed in n steps, each from the step before it, exists.
LEMMA Iteration ==
  ASSUME NEW S, NEW base \in S, NEW n \in Nat, NEW F \in [1..n -> [S -> S]]
  PROVE  \E f \in [0..n -> S] : f[0] = base /\ \A i \in 1..n : f[i] = F[i][f[i - 1]]
<1> DEFINE Steps(m, f) == f[0] = base /\ \A i \in 1..m : f[i] = F[i][f[i - 1]]
           T == { m \in 0..n : \E f \in [0..m -> S] : Steps(m, f) }
<1>1. 0 \in T
  <2> DEFINE f == [i \in 0..0 |-> base]
  <2>1. f \in [0..0 -> S] /\ Steps(0, f)
    OBVIOUS
  <2>2. \E g \in [0..0 -> S] : Steps(0, g)
    <3> HIDE DEF f, Steps
    <3> QED BY <2>1
  <2> HIDE DEF Steps
  <2> QED BY <2>2
<1>2. ASSUME NEW m \in 1..n, m - 1 \in T PROVE m \in T
  <2>1. PICK f \in [0..m - 1 -> S] : Steps(m - 1, f)
    BY <1>2
  <2> DEFINE g == [i \in 0..m |-> IF i = m THEN F[m][f[m - 1]] ELSE f[i]]
  <2>2. f[m - 1] \in S
    OBVIOUS
  <2>3. F[m][f[m - 1]] \in S
    BY <2>2
  <2>4. g \in [0..m -> S]
    BY <2>3
  <2>5. Steps(m, g)
    <3>1. g[0] = base
      BY <2>1
    <3>2. ASSUME NEW i \in 1..m PROVE g[i] = F[i][g[i - 1]]
      <4>1. CASE i = m
        <5>1. g[m] = F[m][f[m - 1]] /\ g[m - 1] = f[m - 1]
          OBVIOUS
        <5> QED BY <4>1, <5>1
      <4>2. CASE i # m
        <5>1. i \in 1..m - 1 /\ i - 1 \in 0..m - 1
          BY <4>2
        <5> QED BY <2>1, <4>2, <5>1
      <4> QED BY <4>1, <4>2
    <3> QED BY <3>1, <3>2
  <2>6. \E h \in [0..m -> S] : Steps(m, h)
    <3> HIDE DEF g, Steps
    <3> QED BY <2>4, <2>5
  <2> HIDE DEF Steps
  <2> QED BY <2>6
<1>3. 0..n \subseteq T
  <2> HIDE DEF T
  <2> QED BY <1>1, <1>2, UpTo
<1>4. n \in T
  <2> HIDE DEF T
  <2> QED BY <1>3
<1> QED BY <1>4

\* What holds of the empty set and of every set all of whose members can be
\* left out holds of every finite set.
LEMMA FiniteInduction ==
  ASSUME NEW K, IsFiniteSet(K), NEW C,
         {} \in C,
         \A s \in SUBSET K : s # {} /\ (\A x \in s : s \ {x} \in C) => s \in C
  PROVE  SUBSET K \subseteq C
<1> DEFINE Sizes == { n \in Nat : \E s \in SUBSET K : s \notin C /\ Cardinality(s) = n }
<1> SUFFICES ASSUME NEW t \in SUBSET K, t \notin C PROVE FALSE
  OBVIOUS
<1>1. \A s \in SUBSET K : IsFiniteSet(s) /\ Cardinality(s) \in Nat
  BY FS_Subset, FS_CardinalityType
<1>2. Sizes # {} /\ Sizes \subseteq Nat
  BY <1>1
<1>3. PICK n \in Sizes : \A m \in Sizes : n <= m
  <2> HIDE DEF Sizes
  <2> QED BY <1>2, LeastNumber
<1>4. PICK s \in SUBSET K : s \notin C /\ Cardinality(s) = n
  BY <1>3
<1>5. ASSUME NEW x \in s PROVE s \ {x} \in C
  <2> DEFINE r == s \ {x}
  <2>1. r \in SUBSET K /\ Cardinality(r) = n - 1
    BY <1>1, <1>4, FS_RemoveElement
  <2>2. Cardinality(r) \in Nat /\ n \in Nat
    BY <1>1, <1>4, <2>1
  <2>3. r \notin C => n - 1 \in Sizes
    BY <2>1, <2>2
  <2>4. ~(n <= n - 1)
    BY <2>2
  <2> QED BY <1>3, <2>3, <2>4
<1> QED BY <1>4, <1>5

-----------------------------------------------------------------------------
(***************************************************************************)
(* Sums over finite sets, as MapThenSumSet takes them.  The fold chooses   *)
(* an order; the lemmas show that it does not matter.                      *)
(***************************************************************************)
SumOf(v, K) == MapThenSumSet(LAMBDA x : v[x], K)

OneOf(s) == CHOOSE x \in s : TRUE

\* g is a table of the sums of v over the subsets of K.
Sums(g, v, K) ==
  /\ g \in [SUBSET K -> Nat]
  /\ g[{}] = 0
  /\ \A s \in SUBSET K : s # {} => g[s] = v[OneOf(s)] + g[s \ {OneOf(s)}]

LEMMA OneOfIsMember == ASSUME NEW s, s # {} PROVE OneOf(s) \in s
BY DEF OneOf

\* Adding up n times, each time from the table before, is enough for the sets
\* of n members.
LEMMA SumsExist ==
  ASSUME NEW K, IsFiniteSet(K), NEW v \in [K -> Nat]
  PROVE  \E g : Sums(g, v, K)
<1> DEFINE D == [SUBSET K -> Nat]
           n == Cardinality(K)
           Better(h) == [s \in SUBSET K |-> IF s = {} THEN 0
                                            ELSE v[OneOf(s)] + h[s \ {OneOf(s)}]]
           F == [i \in 1..n |-> [h \in D |-> Better(h)]]
           base == [s \in SUBSET K |-> 0]
<1>1. n \in Nat /\ \A s \in SUBSET K : IsFiniteSet(s) /\ Cardinality(s) \in 0..n
  BY FS_CardinalityType, FS_Subset
<1>2. ASSUME NEW h \in D PROVE Better(h) \in D
  <2>1. ASSUME NEW s \in SUBSET K, s # {} PROVE v[OneOf(s)] + h[s \ {OneOf(s)}] \in Nat
    <3>1. OneOf(s) \in K /\ s \ {OneOf(s)} \in SUBSET K
      BY <2>1, OneOfIsMember
    <3>2. v[OneOf(s)] \in Nat /\ h[s \ {OneOf(s)}] \in Nat
      BY <3>1
    <3> QED BY <3>2
  <2> QED BY <2>1
<1>3. base \in D /\ F \in [1..n -> [D -> D]]
  <2> HIDE DEF D, Better
  <2>1. F \in [1..n -> [D -> D]]
    BY <1>2
  <2>2. base \in D
    BY DEF D
  <2> QED BY <2>1, <2>2
<1>4. PICK f \in [0..n -> D] : f[0] = base /\ \A i \in 1..n : f[i] = F[i][f[i - 1]]
  <2>1. n \in Nat
    BY <1>1
  <2>2. base \in D
    BY <1>3
  <2>3. F \in [1..n -> [D -> D]]
    BY <1>3
  <2> HIDE DEF F, D, base, n, Better
  <2> QED BY <2>1, <2>2, <2>3, Iteration, Z3
<1>5. ASSUME NEW i \in 1..n PROVE f[i - 1] \in D /\ f[i] \in D /\ f[i] = Better(f[i - 1])
  <2> HIDE DEF D, Better
  <2>1. i - 1 \in 0..n /\ i \in 0..n
    BY <1>1
  <2>2. f[i - 1] \in D /\ f[i] \in D
    BY <2>1
  <2>3. f[i] = F[i][f[i - 1]] /\ F[i] = [h \in D |-> Better(h)]
    BY <1>4
  <2> QED BY <2>2, <2>3
<1> DEFINE Fixed(s) == \A i \in 1..n : Cardinality(s) <= i - 1 => f[i][s] = f[i - 1][s]
           C == { s \in SUBSET K : Fixed(s) }
<1>6. ASSUME NEW s \in SUBSET K, s # {}, NEW i \in 1..n
      PROVE  /\ OneOf(s) \in s /\ s \ {OneOf(s)} \in SUBSET K
             /\ Cardinality(s \ {OneOf(s)}) = Cardinality(s) - 1
             /\ f[i][s] = v[OneOf(s)] + f[i - 1][s \ {OneOf(s)}]
  <2>1. OneOf(s) \in s
    BY <1>6, OneOfIsMember
  <2>2. Cardinality(s \ {OneOf(s)}) = Cardinality(s) - 1
    BY <1>1, <2>1, FS_RemoveElement
  <2>3. f[i][s] = v[OneOf(s)] + f[i - 1][s \ {OneOf(s)}]
    BY <1>5, <1>6
  <2> QED BY <2>1, <2>2, <2>3
<1>7. \A i \in 0..n : f[i][{}] = 0
  <2> SUFFICES ASSUME NEW i \in 0..n PROVE f[i][{}] = 0
    OBVIOUS
  <2>1. CASE i = 0
    BY <1>4, <2>1
  <2>2. CASE i # 0
    <3>1. i \in 1..n
      BY <1>1, <2>2
    <3>2. f[i] = Better(f[i - 1])
      BY <1>5, <3>1
    <3> QED BY <3>2
  <2> QED BY <2>1, <2>2
<1>8. SUBSET K \subseteq C
  <2>1. {} \in C
    <3>1. \A i \in 1..n : i \in 0..n /\ i - 1 \in 0..n
      BY <1>1
    <3> QED BY <1>7, <3>1
  <2>2. ASSUME NEW s \in SUBSET K, s # {}, \A x \in s : s \ {x} \in C PROVE s \in C
    <3> SUFFICES ASSUME NEW i \in 1..n, Cardinality(s) <= i - 1
                 PROVE  f[i][s] = f[i - 1][s]
      OBVIOUS
    <3> DEFINE r == s \ {OneOf(s)}
    <3>1. r \in SUBSET K /\ OneOf(s) \in s /\ Cardinality(r) = Cardinality(s) - 1
      BY <1>6, <2>2
    <3>2. Cardinality(r) \in Nat /\ Cardinality(s) \in Nat
      BY <1>1, <3>1
    <3>3. i - 1 \in 1..n /\ Cardinality(r) <= (i - 1) - 1
      BY <1>1, <3>1, <3>2
    <3>4. f[i - 1][r] = f[(i - 1) - 1][r]
      <4>1. Fixed(r)
        BY <2>2, <3>1
      <4> QED BY <3>3, <4>1
    <3>5. f[i][s] = v[OneOf(s)] + f[i - 1][r] /\ f[i - 1][s] = v[OneOf(s)] + f[(i - 1) - 1][r]
      BY <1>6, <2>2, <3>3
    <3> QED BY <3>4, <3>5
  <2> HIDE DEF C
  <2> QED BY <2>1, <2>2, FiniteInduction
<1>9. Sums(f[n], v, K)
  <2>1. n \in 0..n /\ f[n] \in D
    BY <1>1
  <2>2. f[n][{}] = 0
    BY <1>7, <2>1
  <2>3. ASSUME NEW s \in SUBSET K, s # {}
        PROVE  f[n][s] = v[OneOf(s)] + f[n][s \ {OneOf(s)}]
    <3> DEFINE r == s \ {OneOf(s)}
    <3>1. n \in 1..n
      <4>1. Cardinality(s) # 0
        BY <1>1, <2>3, FS_EmptySet
      <4>2. Cardinality(s) \in 0..n
        BY <1>1
      <4> QED BY <1>1, <4>1, <4>2
    <3>2. r \in SUBSET K /\ Cardinality(r) = Cardinality(s) - 1
      BY <1>6, <2>3, <3>1
    <3>3. Cardinality(r) <= n - 1
      <4>1. Cardinality(s) \in 0..n
        BY <1>1
      <4> HIDE DEF r, n
      <4> QED BY <1>1, <3>2, <4>1
    <3>4. f[n][r] = f[n - 1][r]
      <4>1. Fixed(r)
        BY <1>8, <3>2
      <4> QED BY <3>1, <3>3, <4>1
    <3> QED BY <1>6, <2>3, <3>1, <3>4
  <2> QED BY <2>1, <2>2, <2>3 DEF Sums
<1> QED BY <1>9

\* Any member may be the one that is added last.
LEMMA SumsAnyOrder ==
  ASSUME NEW K, IsFiniteSet(K), NEW v \in [K -> Nat], NEW g, Sums(g, v, K)
  PROVE  \A s \in SUBSET K : \A x \in s : g[s] = v[x] + g[s \ {x}]
<1> DEFINE C == { s \in SUBSET K : \A x \in s : g[s] = v[x] + g[s \ {x}] }
<1>1. {} \in C
  OBVIOUS
<1>2. ASSUME NEW s \in SUBSET K, s # {}, \A x \in s : s \ {x} \in C PROVE s \in C
  <2> SUFFICES ASSUME NEW x \in s PROVE g[s] = v[x] + g[s \ {x}]
    OBVIOUS
  <2>1. PICK y \in s : y = OneOf(s) /\ g[s] = v[y] + g[s \ {y}]
    BY <1>2, OneOfIsMember DEF Sums
  <2>2. CASE x = y
    BY <2>1, <2>2
  <2>3. CASE x # y
    <3> DEFINE r == (s \ {x}) \ {y}
    <3>1. r = (s \ {y}) \ {x} /\ r \in SUBSET K
      OBVIOUS
    <3>2. g[s \ {y}] = v[x] + g[r]
      <4>1. s \ {y} \in C /\ x \in s \ {y}
        BY <1>2, <2>3
      <4> QED BY <3>1, <4>1
    <3>3. g[s \ {x}] = v[y] + g[r]
      <4>1. s \ {x} \in C /\ y \in s \ {x}
        BY <1>2, <2>3
      <4> QED BY <4>1
    <3>4. v[x] \in Nat /\ v[y] \in Nat /\ g[r] \in Nat
      BY <3>1 DEF Sums
    <3> HIDE DEF r
    <3> QED BY <2>1, <3>2, <3>3, <3>4
  <2> QED BY <2>2, <2>3
<1> HIDE DEF C
<1>3. SUBSET K \subseteq C
  BY <1>1, <1>2, FiniteInduction
<1> QED BY <1>3 DEF C

\* Tables over different sets agree where their numbers do.
LEMMA SumsAgree ==
  ASSUME NEW K, NEW J, NEW v, NEW w, NEW g, NEW h,
         Sums(g, v, K), Sums(h, w, J),
         NEW T, T \subseteq K, T \subseteq J, IsFiniteSet(T), \A x \in T : v[x] = w[x]
  PROVE  g[T] = h[T]
<1> DEFINE C == { s \in SUBSET T : g[s] = h[s] }
<1>1. {} \in C
  BY DEF Sums
<1>2. ASSUME NEW s \in SUBSET T, s # {}, \A x \in s : s \ {x} \in C PROVE s \in C
  <2>1. OneOf(s) \in s
    BY <1>2, OneOfIsMember
  <2>2. g[s] = v[OneOf(s)] + g[s \ {OneOf(s)}] /\ h[s] = w[OneOf(s)] + h[s \ {OneOf(s)}]
    BY <1>2 DEF Sums
  <2>3. v[OneOf(s)] = w[OneOf(s)] /\ g[s \ {OneOf(s)}] = h[s \ {OneOf(s)}]
    BY <1>2, <2>1
  <2> QED BY <2>2, <2>3
<1> HIDE DEF C
<1>3. SUBSET T \subseteq C
  BY <1>1, <1>2, FiniteInduction
<1> QED BY <1>3 DEF C

\* What satisfies the recursion is such a table.
LEMMA TableOfSums ==
  ASSUME NEW K, IsFiniteSet(K), NEW v \in [K -> Nat], NEW g, g = [s \in SUBSET K |-> g[s]],
         g[{}] = 0,
         \A s \in SUBSET K : s # {} => g[s] = v[OneOf(s)] + g[s \ {OneOf(s)}]
  PROVE  Sums(g, v, K)
<1> DEFINE C == { s \in SUBSET K : g[s] \in Nat }
<1>1. ASSUME NEW s \in SUBSET K, s # {}, \A x \in s : s \ {x} \in C PROVE s \in C
  <2>1. OneOf(s) \in s /\ v[OneOf(s)] \in Nat
    BY <1>1, OneOfIsMember
  <2>2. g[s \ {OneOf(s)}] \in Nat
    BY <1>1, <2>1
  <2>3. g[s] = v[OneOf(s)] + g[s \ {OneOf(s)}]
    BY <1>1
  <2>4. g[s] \in Nat
    BY <2>1, <2>2, <2>3
  <2> QED BY <2>4
<1>2. SUBSET K \subseteq C
  <2>1. {} \in C
    OBVIOUS
  <2> HIDE DEF C
  <2> QED BY <1>1, <2>1, FiniteInduction
<1> QED BY <1>2 DEF Sums

\* The fold is read from such a table.
LEMMA FoldIsSum ==
  ASSUME NEW K, IsFiniteSet(K), NEW v \in [K -> Nat]
  PROVE  \E g : Sums(g, v, K) /\ SumOf(v, K) = g[K]
<1> DEFINE Is(f) == f = [s \in SUBSET K |-> IF s = {} THEN 0
                             ELSE v[CHOOSE x \in s : TRUE] + f[s \ {CHOOSE x \in s : TRUE}]]
           iter == CHOOSE f : Is(f)
<1>1. SumOf(v, K) = iter[K]
  BY DEF SumOf, MapThenSumSet, MapThenFoldSet
<1>2. PICK g : Sums(g, v, K)
  BY SumsExist
<1>3. Is(g)
  BY <1>2 DEF Sums, OneOf
<1>4. Is(iter)
  <2> HIDE DEF Is
  <2> QED BY <1>3
<1>5. /\ iter = [s \in SUBSET K |-> iter[s]] /\ iter[{}] = 0
      /\ \A s \in SUBSET K : s # {} => iter[s] = v[OneOf(s)] + iter[s \ {OneOf(s)}]
  BY <1>4 DEF OneOf
<1> HIDE DEF iter
<1> QED BY <1>1, <1>5, TableOfSums

LEMMA SumFacts ==
  ASSUME NEW K, IsFiniteSet(K), NEW v \in [K -> Nat]
  PROVE  /\ SumOf(v, K) \in Nat
         /\ K = {} => SumOf(v, K) = 0
         /\ \A x \in K : SumOf(v, K) = v[x] + SumOf([y \in K \ {x} |-> v[y]], K \ {x})
<1>1. PICK g : Sums(g, v, K) /\ SumOf(v, K) = g[K]
  BY FoldIsSum
<1>2. SumOf(v, K) \in Nat /\ (K = {} => SumOf(v, K) = 0)
  BY <1>1 DEF Sums
<1>3. ASSUME NEW x \in K
      PROVE  SumOf(v, K) = v[x] + SumOf([y \in K \ {x} |-> v[y]], K \ {x})
  <2> DEFINE J == K \ {x}
             w == [y \in J |-> v[y]]
  <2>1. IsFiniteSet(J) /\ w \in [J -> Nat]
    BY FS_Subset
  <2>2. PICK h : Sums(h, w, J) /\ SumOf(w, J) = h[J]
    <3> HIDE DEF J, w
    <3> QED BY <2>1, FoldIsSum
  <2>3. \A y \in J : v[y] = w[y]
    OBVIOUS
  <2>4. J \subseteq K /\ J \subseteq J
    OBVIOUS
  <2>5. g[J] = h[J]
    <3> HIDE DEF J, w
    <3> QED BY <1>1, <2>1, <2>2, <2>3, <2>4, SumsAgree
  <2>6. g[K] = v[x] + g[J]
    BY <1>1, SumsAnyOrder
  <2> QED BY <1>1, <2>2, <2>5, <2>6
<1> QED BY <1>2, <1>3

\* Nothing but zeros adds up to nothing.
LEMMA SumOfZeros ==
  ASSUME NEW K, IsFiniteSet(K), NEW v \in [K -> Nat], \A x \in K : v[x] = 0
  PROVE  SumOf(v, K) = 0
<1>1. PICK g : Sums(g, v, K) /\ SumOf(v, K) = g[K]
  BY FoldIsSum
<1> DEFINE C == { s \in SUBSET K : g[s] = 0 }
<1>2. {} \in C
  BY <1>1 DEF Sums
<1>3. ASSUME NEW s \in SUBSET K, s # {}, \A x \in s : s \ {x} \in C PROVE s \in C
  <2>1. OneOf(s) \in s /\ g[s] = v[OneOf(s)] + g[s \ {OneOf(s)}]
    BY <1>1, <1>3, OneOfIsMember DEF Sums
  <2>2. g[s \ {OneOf(s)}] = 0 /\ v[OneOf(s)] = 0
    BY <1>3, <2>1
  <2> QED BY <2>1, <2>2
<1>4. SUBSET K \subseteq C
  <2> HIDE DEF C
  <2> QED BY <1>2, <1>3, FiniteInduction
<1> QED BY <1>1, <1>4

\* The members of disjoint sets, counted apart and together.
LEMMA SumOfParts ==
  ASSUME NEW K, IsFiniteSet(K), NEW f,
         \A x \in K : IsFiniteSet(f[x]),
         \A x, y \in K : x # y => f[x] \cap f[y] = {}
  PROVE  SumOf([x \in K |-> Cardinality(f[x])], K) = Cardinality(UNION { f[x] : x \in K })
<1> DEFINE v == [x \in K |-> Cardinality(f[x])]
<1>0. v \in [K -> Nat]
  BY FS_CardinalityType
<1>1. PICK g : Sums(g, v, K) /\ SumOf(v, K) = g[K]
  <2> HIDE DEF v
  <2> QED BY <1>0, FoldIsSum
<1> DEFINE All(s) == UNION { f[x] : x \in s }
           C == { s \in SUBSET K : IsFiniteSet(All(s)) /\ g[s] = Cardinality(All(s)) }
<1>2. {} \in C
  <2>1. All({}) = {}
    OBVIOUS
  <2>2. g[{}] = 0
    BY <1>1 DEF Sums
  <2> QED BY <2>1, <2>2, FS_EmptySet
<1>3. ASSUME NEW s \in SUBSET K, s # {}, \A x \in s : s \ {x} \in C PROVE s \in C
  <2>1. PICK x \in s : g[s] = v[x] + g[s \ {x}]
    BY <1>1, <1>3, OneOfIsMember DEF Sums
  <2> DEFINE r == All(s \ {x})
  <2>2. s \ {x} \in C
    BY <1>3
  <2>3. IsFiniteSet(r) /\ g[s \ {x}] = Cardinality(r)
    BY <2>2
  <2>4. All(s) = f[x] \cup r /\ f[x] \cap r = {} /\ IsFiniteSet(f[x])
    OBVIOUS
  <2>5. v[x] = Cardinality(f[x])
    OBVIOUS
  <2>6. IsFiniteSet(f[x] \cup r) /\ Cardinality(f[x] \cup r)
          = Cardinality(f[x]) + Cardinality(r) - Cardinality(f[x] \cap r)
    <3> HIDE DEF r
    <3> QED BY <2>3, <2>4, FS_Union
  <2>7. Cardinality(f[x] \cap r) = 0 /\ Cardinality(f[x]) \in Nat /\ Cardinality(r) \in Nat
    <3> HIDE DEF r
    <3> QED BY <2>3, <2>4, FS_EmptySet, FS_CardinalityType
  <2>8. IsFiniteSet(All(s)) /\ g[s] = Cardinality(All(s))
    <3> HIDE DEF r, All, v
    <3> QED BY <2>1, <2>3, <2>4, <2>5, <2>6, <2>7
  <2> HIDE DEF All
  <2> QED BY <2>8
<1>4. SUBSET K \subseteq C
  <2> HIDE DEF C
  <2> QED BY <1>2, <1>3, FiniteInduction
<1>5. K \in C
  <2> HIDE DEF C
  <2> QED BY <1>4
<1> QED BY <1>1, <1>5
\* A table of sums adds over disjoint sets.
LEMMA SumOfTwo ==
  ASSUME NEW K, IsFiniteSet(K), NEW v \in [K -> Nat], NEW g, Sums(g, v, K),
         NEW A \in SUBSET K, NEW B \in SUBSET K, A \cap B = {}
  PROVE  g[A \cup B] = g[A] + g[B]
<1> DEFINE C == { s \in SUBSET B : g[A \cup s] = g[A] + g[s] }
<1>1. {} \in C
  <2>1. g[A] \in Nat /\ g[{}] = 0 /\ A \cup {} = A
    BY DEF Sums
  <2> QED BY <2>1
<1>2. ASSUME NEW s \in SUBSET B, s # {}, \A x \in s : s \ {x} \in C PROVE s \in C
  <2>1. PICK x \in s : TRUE
    BY <1>2
  <2> DEFINE r == s \ {x}
  <2>2. g[A \cup r] = g[A] + g[r]
    BY <1>2, <2>1
  <2>3. x \in A \cup s /\ A \cup s \in SUBSET K /\ (A \cup s) \ {x} = A \cup r
    BY <2>1
  <2>4. g[A \cup s] = v[x] + g[A \cup r]
    <3> HIDE DEF r
    <3> QED BY <2>3, SumsAnyOrder
  <2>5. s \in SUBSET K /\ g[s] = v[x] + g[r]
    BY <2>1, SumsAnyOrder
  <2>6. v[x] \in Nat /\ g[r] \in Nat /\ g[A] \in Nat
    <3>1. x \in K /\ r \in SUBSET K
      BY <2>1
    <3> HIDE DEF r
    <3> QED BY <3>1 DEF Sums
  <2> HIDE DEF r
  <2>7. g[A \cup s] = g[A] + g[s]
    BY <2>2, <2>4, <2>5, <2>6
  <2> QED BY <2>7
<1>3. IsFiniteSet(B)
  BY FS_Subset
<1> HIDE DEF C
<1>4. SUBSET B \subseteq C
  BY <1>1, <1>2, <1>3, FiniteInduction
<1> QED BY <1>4 DEF C

\* The sums of disjoint sets add up to the sum of their union.
LEMMA SumOfSums ==
  ASSUME NEW U, IsFiniteSet(U), NEW v \in [U -> Nat], NEW g, Sums(g, v, U),
         NEW K, IsFiniteSet(K), NEW f \in [K -> SUBSET U],
         \A x, y \in K : x # y => f[x] \cap f[y] = {},
         NEW w \in [K -> Nat], \A x \in K : w[x] = g[f[x]],
         NEW T, \A y : y \in T <=> \E x \in K : y \in f[x]
  PROVE  SumOf(w, K) = g[T]
<1>1. PICK h : Sums(h, w, K) /\ SumOf(w, K) = h[K]
  BY FoldIsSum
<1>5. \A A, B \in SUBSET U : A \cap B = {} => g[A \cup B] = g[A] + g[B]
  BY SumOfTwo
<1> DEFINE All(s) == UNION { f[x] : x \in s }
           C == { s \in SUBSET K : h[s] = g[All(s)] }
<1>2. {} \in C
  <2>1. All({}) = {}
    OBVIOUS
  <2> QED BY <1>1, <2>1 DEF Sums
<1>3. ASSUME NEW s \in SUBSET K, s # {}, \A x \in s : s \ {x} \in C PROVE s \in C
  <2>1. PICK x \in s : h[s] = w[x] + h[s \ {x}]
    BY <1>1, <1>3, OneOfIsMember DEF Sums
  <2> DEFINE r == All(s \ {x})
  <2>2. h[s \ {x}] = g[r]
    BY <1>3
  <2>3. All(s) = f[x] \cup r /\ f[x] \cap r = {}
    OBVIOUS
  <2>4. f[x] \in SUBSET U /\ r \in SUBSET U /\ w[x] = g[f[x]]
    OBVIOUS
  <2>5. g[f[x] \cup r] = g[f[x]] + g[r]
    <3> HIDE DEF r
    <3> QED BY <1>5, <2>3, <2>4
  <2>6. h[s] = g[All(s)]
    <3> HIDE DEF r, All
    <3> QED BY <2>1, <2>2, <2>3, <2>4, <2>5
  <2> QED BY <2>6
<1> HIDE DEF C
<1>4. SUBSET K \subseteq C
  BY <1>2, <1>3, FiniteInduction
<1>6. All(K) = T
  OBVIOUS
<1>7. h[K] = g[All(K)]
  <2> HIDE DEF All
  <2> QED BY <1>4 DEF C
<1> QED BY <1>1, <1>6, <1>7

-----------------------------------------------------------------------------
\* A finite set can be put in any order that is total: the place of a member is
\* the number of those before it.
LEMMA SortedExists ==
  ASSUME NEW S, IsFiniteSet(S), NEW R,
         \A x \in S : << x, x >> \notin R,
         \A x, y \in S : x = y \/ << x, y >> \in R \/ << y, x >> \in R,
         \A x, y, z \in S : << x, y >> \in R /\ << y, z >> \in R => << x, z >> \in R
  PROVE  \E s \in [1..Cardinality(S) -> S] :
           \A i, j \in 1..Cardinality(S) : i < j => << s[i], s[j] >> \in R
<1> DEFINE n == Cardinality(S)
           Below(x) == { y \in S : << y, x >> \in R }
           rank == [x \in S |-> Cardinality(Below(x)) + 1]
<1>1. n \in Nat
  BY FS_CardinalityType
<1>2. ASSUME NEW x \in S
      PROVE  /\ IsFiniteSet(Below(x)) /\ Cardinality(Below(x)) \in Nat
             /\ IsFiniteSet(Below(x) \cup {x})
             /\ Cardinality(Below(x) \cup {x}) = rank[x]
             /\ rank[x] \in 1..n
  <2>1. Below(x) \subseteq S /\ x \notin Below(x) /\ Below(x) \cup {x} \subseteq S
    OBVIOUS
  <2>2. rank[x] = Cardinality(Below(x)) + 1
    OBVIOUS
  <2> HIDE DEF Below, rank
  <2>3. IsFiniteSet(Below(x)) /\ Cardinality(Below(x)) \in Nat
    BY <2>1, FS_Subset, FS_CardinalityType
  <2>4. /\ IsFiniteSet(Below(x) \cup {x})
        /\ Cardinality(Below(x) \cup {x}) = Cardinality(Below(x)) + 1
    BY <2>1, <2>3, FS_AddElement
  <2>5. Cardinality(Below(x) \cup {x}) <= n
    BY <2>1, FS_Subset
  <2> QED BY <1>1, <2>2, <2>3, <2>4, <2>5
<1>3. ASSUME NEW x \in S, NEW y \in S, << x, y >> \in R PROVE rank[x] < rank[y]
  <2>1. Below(x) \cup {x} \subseteq Below(y)
    BY <1>3
  <2>2. rank[y] = Cardinality(Below(y)) + 1
    OBVIOUS
  <2> HIDE DEF Below, rank
  <2>3. rank[x] <= Cardinality(Below(y))
    <3>1. Cardinality(Below(x) \cup {x}) <= Cardinality(Below(y))
      BY <1>2, <2>1, FS_Subset
    <3> QED BY <1>2, <3>1
  <2>4. rank[x] \in 1..n /\ Cardinality(Below(y)) \in Nat
    BY <1>2
  <2> QED BY <2>2, <2>3, <2>4
<1>4. rank \in Injection(S, 1..n)
  <2>1. rank \in [S -> 1..n]
    <3>1. rank = [x \in S |-> rank[x]]
      OBVIOUS
    <3> HIDE DEF rank, Below
    <3> QED BY <1>2, <3>1
  <2>2. ASSUME NEW x \in S, NEW y \in S, rank[x] = rank[y] PROVE x = y
    <3>1. ~(rank[x] < rank[y]) /\ ~(rank[y] < rank[x])
      <4> HIDE DEF rank, Below
      <4>1. rank[x] \in 1..n
        BY <1>2
      <4> QED BY <1>1, <2>2, <4>1
    <3> HIDE DEF rank, Below
    <3> QED BY <1>3, <3>1
  <2> HIDE DEF rank
  <2> QED BY <2>1, <2>2 DEF Injection, IsInjective
<1>5. IsFiniteSet(1..n) /\ Cardinality(1..n) = n
  BY <1>1, FS_Interval
<1>6. \A i \in 1..n : \E x \in S : rank[x] = i
  <2>1. rank \in Surjection(S, 1..n)
    <3> HIDE DEF rank
    <3> QED BY <1>4, <1>5, FS_Injection
  <2> HIDE DEF rank
  <2> QED BY <2>1 DEF Surjection
<1> DEFINE s == [i \in 1..n |-> CHOOSE x \in S : rank[x] = i]
<1>7. \A i \in 1..n : s[i] \in S /\ rank[s[i]] = i
  <2> HIDE DEF rank
  <2> QED BY <1>6
<1>8. s \in [1..n -> S]
  <2>1. \A i \in 1..n : (CHOOSE x \in S : rank[x] = i) \in S
    BY <1>7
  <2> HIDE DEF rank, n
  <2> QED BY <2>1
<1>9. ASSUME NEW i \in 1..n, NEW j \in 1..n, i < j PROVE << s[i], s[j] >> \in R
  <2> HIDE DEF s, rank
  <2>1. s[i] \in S /\ s[j] \in S /\ rank[s[i]] = i /\ rank[s[j]] = j
    BY <1>7
  <2>2. s[i] # s[j]
    BY <1>1, <1>9, <2>1
  <2>3. << s[j], s[i] >> \notin R
    <3>1. ~(j < i)
      BY <1>1, <1>9
    <3> QED BY <1>3, <2>1, <3>1
  <2> QED BY <2>1, <2>2, <2>3
<1> HIDE DEF s, n
<1> QED BY <1>8, <1>9 DEF n
=============================================================================
