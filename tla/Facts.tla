--------------------------------- MODULE Facts ---------------------------------
(***************************************************************************)
(* What the proofs about several modules rest on.  First the laws of %     *)
(* with a symbolic modulus, which the backends do not know by themselves:  *)
(* for the masks 2^width and 2^64 of pmc.h and the slot arithmetic         *)
(* (i + 1) % count of the pointer rings, whatever their values.  Then what *)
(* the median makes of disturbed samples: as long as fewer than half of    *)
(* them are, it is the undisturbed value, however large or small the       *)
(* others came out, for an odd and an even number of samples.              *)
(***************************************************************************)
EXTENDS Median, FiniteSetTheorems, WellFoundedInduction, TLAPS

(* Remainders. *)

\* Division with remainder.
LEMMA DivMod ==
  ASSUME NEW a \in Int, NEW m \in Nat \ {0}
  PROVE a % m \in 0..(m-1) /\ \E q \in Int : a = m * q + (a % m)
<1>1. a % m \in 0..(m-1) /\ a \div m \in Int /\ a = m * (a \div m) + (a % m)
  OBVIOUS
<1> QED BY <1>1

\* The only multiple of m strictly between -m and m is 0.
LEMMA SmallMultiple ==
  ASSUME NEW m \in Nat \ {0}, NEW k \in Int,
         m * k < m, -m < m * k
  PROVE  k = 0
<1>1. CASE k >= 1
  <2>1. m * k >= m  BY <1>1
  <2> QED BY <2>1
<1>2. CASE k <= -1
  <2>1. m * k <= -m  BY <1>2
  <2> QED BY <2>1
<1> QED BY <1>1, <1>2

\* The remainder is unique.
LEMMA ModUnique ==
  ASSUME NEW m \in Nat \ {0}, NEW q \in Int, NEW r \in 0..(m-1)
  PROVE (m * q + r) % m = r
<1> DEFINE a == m * q + r
<1>1. a \in Int OBVIOUS
<1>2. PICK d \in Int : a = m * d + (a % m) BY <1>1, DivMod
<1>3. a % m \in 0..(m-1) BY <1>1, DivMod
<1>4. m * (q - d) = m * q - m * d OBVIOUS
<1>5. m * (q - d) = (a % m) - r
  <2> DEFINE x == m * q
             y == m * d
             z == a % m
  <2>1. x \in Int /\ y \in Int /\ z \in Int BY <1>3
  <2>2. x + r = y + z BY <1>2
  <2>3. x - y = z - r
     <3> HIDE DEF x, y, z
     <3> QED BY <2>1, <2>2
  <2> QED BY <1>4, <2>3
<1>6. m * (q - d) < m /\ -m < m * (q - d) BY <1>3, <1>5
<1>7. q - d = 0 
  <2> DEFINE k == q - d
  <2>1. k \in Int OBVIOUS
  <2>2. m * k < m /\ -m < m * k BY <1>6
  <2> HIDE DEF k
  <2> QED BY <2>1, <2>2, SmallMultiple DEF k
<1>8. m * (q - d) = 0 BY <1>7
<1> QED BY <1>3, <1>5, <1>8

\* Numbers that differ by a multiple of m have the same remainder.
LEMMA ModCongruence ==
  ASSUME NEW m \in Nat \ {0}, NEW a \in Int, NEW b \in Int, NEW k \in Int, a = b + m * k
  PROVE a % m = b % m
<1>1. PICK q \in Int : b = m * q + (b % m) BY DivMod
<1>2. b % m \in 0..(m-1) BY DivMod
<1>3. a = m * (q + k) + (b % m)
  <2>1. m * (q + k) = m * q + m * k OBVIOUS
  <2> DEFINE x == m * q
             y == m * k
             z == b % m
  <2>2. x \in Int /\ y \in Int /\ z \in Int BY <1>2
  <2>3. b = x + z /\ a = b + y BY <1>1
  <2>4. a = x + y + z
     <3> HIDE DEF x, y, z
     <3> QED BY <2>2, <2>3
  <2> QED BY <2>1, <2>4
<1>4. q + k \in Int OBVIOUS
<1> QED BY <1>2, <1>3, <1>4, ModUnique

\* Congruence is preserved when the same number is added on both sides.
LEMMA ModAdd ==
  ASSUME NEW m \in Nat \ {0}, NEW a \in Int, NEW b \in Int, NEW c \in Int, a % m = b % m
  PROVE (a + c) % m = (b + c) % m
<1>1. PICK p \in Int : a = m * p + (a % m) BY DivMod
<1>2. PICK q \in Int : b = m * q + (b % m) BY DivMod
<1>3. a % m \in 0..(m-1) BY DivMod
<1>4. a + c = (b + c) + m * (p - q)
  <2>1. m * (p - q) = m * p - m * q OBVIOUS
  <2> DEFINE x == m * p
             y == m * q
             z == a % m
  <2>2. x \in Int /\ y \in Int /\ z \in Int BY <1>3
  <2>3. a = x + z /\ b = y + z BY <1>1, <1>2
  <2>4. a + c = (b + c) + (x - y)
     <3> HIDE DEF x, y, z
     <3> QED BY <2>2, <2>3
  <2> QED BY <2>1, <2>4
<1> DEFINE u == a + c
           v == b + c
           k == p - q
<1>5. u \in Int /\ v \in Int /\ k \in Int OBVIOUS
<1>6. u = v + m * k BY <1>4
<1>7. \A x, y, z \in Int : x = y + m * z => x % m = y % m
  BY ModCongruence
<1>8. u % m = v % m
  <2> HIDE DEF u, v, k
  <2> QED BY <1>5, <1>6, <1>7
<1> QED BY <1>8

\* Reducing by a multiple of m first changes nothing.
LEMMA ModMod ==
  ASSUME NEW m \in Nat \ {0}, NEW n \in Nat \ {0}, n % m = 0, NEW a \in Int
  PROVE (a % n) % m = a % m
<1>1. PICK p \in Int : a = n * p + (a % n) BY DivMod
<1>2. PICK q \in Int : n = m * q BY DivMod
<1>3. a % n \in Int BY DivMod
<1>4. n * p = m * (q * p) BY <1>2
<1> DEFINE k == q * p
           r == a % n
<1>5. k \in Int /\ r \in Int BY <1>3
<1>6. a = r + m * k
  <2> DEFINE x == n * p
             y == m * (q * p)
  <2>1. x \in Int /\ y \in Int /\ x = y BY <1>4
  <2>2. a = x + r BY <1>1
  <2>3. a = r + y
    <3> HIDE DEF x, y, r
    <3> QED BY <1>5, <2>1, <2>2
  <2> QED BY <2>3
<1>7. a % m = r % m
  <2> HIDE DEF k, r
  <2> QED BY <1>5, <1>6, ModCongruence
<1> QED BY <1>7

\* A positive multiple of m is at least m, so its remainders include m's.
LEMMA MultipleAtLeast ==
  ASSUME NEW m \in Nat \ {0}, NEW n \in Nat \ {0}, n % m = 0
  PROVE  m <= n
<1>1. SUFFICES ASSUME n < m PROVE FALSE
  OBVIOUS
<1>2. n \in 0..(m - 1)
  BY <1>1
<1>3. (m * 0 + n) % m = n
  BY <1>2, ModUnique
<1> QED BY <1>3

\* A remainder is its own remainder.
LEMMA ModSmall ==
  ASSUME NEW m \in Nat \ {0}, NEW r \in 0..(m - 1)
  PROVE  r % m = r
<1>1. (m * 0 + r) % m = r
  BY ModUnique
<1> QED BY <1>1

\* Numbers less than m apart with the same remainder are equal.
LEMMA ModNear ==
  ASSUME NEW m \in Nat \ {0}, NEW a \in Int, NEW b \in Int,
         a % m = b % m, -m < a - b, a - b < m
  PROVE  a = b
<1>1. PICK p \in Int : a = m * p + (a % m) BY DivMod
<1>2. PICK q \in Int : b = m * q + (b % m) BY DivMod
<1>3. a % m \in 0..(m-1) BY DivMod
<1>4. m * (p - q) = a - b
  <2>1. m * (p - q) = m * p - m * q OBVIOUS
  <2> DEFINE x == m * p
             y == m * q
             z == a % m
  <2>2. x \in Int /\ y \in Int /\ z \in Int BY <1>3
  <2>3. a = x + z /\ b = y + z BY <1>1, <1>2
  <2>4. x - y = a - b
     <3> HIDE DEF x, y, z
     <3> QED BY <2>2, <2>3
  <2> QED BY <2>1, <2>4
<1> DEFINE k == p - q
<1>5. k \in Int /\ m * k < m /\ -m < m * k BY <1>4
<1>6. k = 0
  <2> HIDE DEF k
  <2> QED BY <1>5, SmallMultiple
<1>7. m * (p - q) = 0 BY <1>6
<1> QED BY <1>4, <1>7

\* One more step round a ring of m.
LEMMA ModStep ==
  ASSUME NEW m \in Nat \ {0}, NEW a \in Int
  PROVE  ((a % m) + 1) % m = (a + 1) % m
<1> DEFINE r == a % m
<1>1. r \in 0..(m - 1) BY DivMod
<1>2. r % m = r
  <2> HIDE DEF r
  <2> QED BY <1>1, ModSmall
<1>3. r \in Int /\ r % m = a % m BY <1>1, <1>2
<1>4. \A x, y, c \in Int : x % m = y % m => (x + c) % m = (y + c) % m
  BY ModAdd
<1>5. (r + 1) % m = (a + 1) % m
  <2>1. 1 \in Int OBVIOUS
  <2> HIDE DEF r
  <2> QED BY <1>3, <1>4, <2>1, Zenon
<1> QED BY <1>5

\* From any start, every place of a ring of m is fewer than m steps away.
LEMMA ModReach ==
  ASSUME NEW m \in Nat \ {0}, NEW s \in Int, NEW k \in 0..(m - 1)
  PROVE  \E d \in 0..(m - 1) : (s + d) % m = k
<1> DEFINE d == (k - s) % m
<1>1. k - s \in Int OBVIOUS
<1>2. d \in 0..(m - 1) BY <1>1, DivMod
<1>3. d % m = d
  <2> HIDE DEF d
  <2> QED BY <1>2, ModSmall
<1>4. d \in Int /\ d % m = (k - s) % m BY <1>2, <1>3
<1>5. (d + s) % m = ((k - s) + s) % m
  <2> HIDE DEF d
  <2> QED BY <1>1, <1>4, ModAdd
<1>6. (k - s) + s = k /\ d + s = s + d BY <1>2
<1>7. k % m = k BY ModSmall
<1>8. (s + d) % m = k BY <1>5, <1>6, <1>7
<1> QED BY <1>2, <1>8

-------------------------------------------------------------------------------
(* The median. *)

\* Each of the two ranks that TwiceMedian takes is that of the undisturbed value
\* w, if the samples off w are all among the fewer than half in bad.
LEMMA RankedIsUndisturbed ==
  ASSUME NEW N \in Nat \ {0}, NEW s \in [1..N -> Int], NEW w \in Int,
         NEW bad \in SUBSET (1..N), 2 * Cardinality(bad) < N,
         \A n \in (1..N) \ bad : s[n] = w,
         NEW k \in {(N + 1) \div 2, N \div 2 + 1}
  PROVE  Ranked(s, k) = w
<1> DEFINE values == {s[n] : n \in DOMAIN s}
           below(v) == {n \in DOMAIN s : s[n] < v}
           upto(v) == {n \in DOMAIN s : s[n] <= v}
           good == (1..N) \ bad
<1>1. /\ IsFiniteSet(1..N) /\ Cardinality(1..N) = N
      /\ IsFiniteSet(bad) /\ Cardinality(bad) \in Nat
      /\ IsFiniteSet(good) /\ Cardinality(good) = N - Cardinality(bad)
  <2>1. IsFiniteSet(1..N) /\ Cardinality(1..N) = N
    BY FS_Interval
  <2>2. IsFiniteSet(bad) /\ Cardinality(bad) \in Nat
    BY <2>1, FS_Subset, FS_CardinalityType
  <2>3. IsFiniteSet(good) /\ Cardinality(good) = Cardinality(1..N) - Cardinality((1..N) \cap bad)
    BY <2>1, FS_Difference
  <2>4. (1..N) \cap bad = bad
    OBVIOUS
  <2> QED BY <2>1, <2>2, <2>3, <2>4
<1>2. /\ k \in Nat
      /\ Cardinality(bad) < k
      /\ k <= Cardinality(good)
  BY <1>1
<1>3. \A T \in SUBSET (1..N) :
        /\ IsFiniteSet(T) /\ Cardinality(T) \in Nat
        /\ T \subseteq bad => Cardinality(T) <= Cardinality(bad)
        /\ good \subseteq T => Cardinality(good) <= Cardinality(T)
  BY <1>1, FS_Subset, FS_CardinalityType
<1>4. \A v \in Int : below(v) \in SUBSET (1..N) /\ upto(v) \in SUBSET (1..N)
  OBVIOUS
<1>5. w \in values
  <2>1. good # {}
    BY <1>1, <1>2, FS_EmptySet
  <2> QED BY <2>1
<1>6. Cardinality(below(w)) < k /\ Cardinality(upto(w)) >= k
  <2>1. below(w) \subseteq bad
    OBVIOUS
  <2>2. good \subseteq upto(w)
    OBVIOUS
  <2> HIDE DEF good, below, upto
  <2> QED BY <1>1, <1>2, <1>3, <1>4, <2>1, <2>2
<1>7. \A v \in values : Cardinality(below(v)) < k /\ Cardinality(upto(v)) >= k => v = w
  <2> SUFFICES ASSUME NEW v \in values, Cardinality(below(v)) < k, Cardinality(upto(v)) >= k,
                      v # w
               PROVE FALSE
    OBVIOUS
  <2>0. v \in Int
    OBVIOUS
  <2>1. CASE v < w
    <3>1. upto(v) \subseteq bad
      BY <2>0, <2>1
    <3>2. Cardinality(upto(v)) \in Nat /\ Cardinality(upto(v)) <= Cardinality(bad)
      BY ONLY <1>3, <1>4, <2>0, <3>1
    <3> QED BY <1>1, <1>2, <3>2
  <2>2. CASE v > w
    <3>1. good \subseteq below(v)
      BY <2>0, <2>2
    <3>2. Cardinality(below(v)) \in Nat /\ Cardinality(good) <= Cardinality(below(v))
      BY ONLY <1>3, <1>4, <2>0, <3>1
    <3> QED BY <1>1, <1>2, <3>2
  <2> HIDE DEF values
  <2> QED BY <2>0, <2>1, <2>2
<1>8. Ranked(s, k) = CHOOSE v \in values : Cardinality(below(v)) < k /\ Cardinality(upto(v)) >= k
  BY DEF Ranked
<1> HIDE DEF values, below, upto
<1> QED BY <1>5, <1>6, <1>7, <1>8

\* The median of samples of which fewer than half are disturbed is the
\* undisturbed value.
THEOREM MedianIsUndisturbed ==
  ASSUME NEW N \in Nat \ {0}, NEW s \in Seq(Int), Len(s) = N, NEW w \in Int,
         NEW bad \in SUBSET (1..N), 2 * Cardinality(bad) < N,
         \A n \in (1..N) \ bad : s[n] = w
  PROVE  TwiceMedian(s) = 2 * w
<1>1. s \in [1..N -> Int]
  OBVIOUS
<1>2. Ranked(s, (N + 1) \div 2) = w /\ Ranked(s, N \div 2 + 1) = w
  BY <1>1, RankedIsUndisturbed
<1> QED BY <1>2 DEF TwiceMedian

LEMMA LeastNat ==
  ASSUME NEW T \in SUBSET Nat, T # {}
  PROVE  \E x \in T : \A y \in T : x <= y
<1> DEFINE R == {ss \in Nat \X Nat : ss[1] < ss[2]}
<1>1. IsWellFoundedOn(R, Nat)
  BY NatLessThanWellFounded DEF OpToRel
<1>2. \E x \in T : \A y \in T : ~ (<<y, x>> \in R)
  <2> HIDE DEF R
  <2> QED BY <1>1, WFMin
<1>3. PICK x \in T : \A y \in T : <<y, x>> \notin R
  BY <1>2
<1>4. \A y \in T : y < x => <<y, x>> \in R
  OBVIOUS
<1>5. \A y \in T : y \in Nat /\ x \in Nat /\ ~ (y < x)
  <2> HIDE DEF R
  <2> QED BY <1>3, <1>4
<1> QED BY <1>5

LEMMA GreatestNat ==
  ASSUME NEW N \in Nat, NEW T \in SUBSET (0..N), T # {}
  PROVE  \E x \in T : \A y \in T : y <= x
<1> DEFINE U == {N - y : y \in T}
<1>1. U \in SUBSET Nat /\ U # {}
  <2>1. \A y \in T : N - y \in Nat
    OBVIOUS
  <2> QED BY <2>1
<1>2. PICK u \in U : \A y \in U : u <= y
  <2> HIDE DEF U
  <2> QED BY <1>1, LeastNat
<1>3. PICK x \in T : u = N - x
  OBVIOUS
<1>4. \A y \in T : N - x <= N - y
  BY <1>2, <1>3
<1> QED BY <1>4

\* Every rank is taken by one of the samples, so that a median is never more than
\* the largest sample or less than the smallest.
LEMMA RankedIsSample ==
  ASSUME NEW N \in Nat \ {0}, NEW s \in [1..N -> Int], NEW k \in 1..N
  PROVE  Ranked(s, k) \in {s[n] : n \in 1..N}
<1> DEFINE values == {s[n] : n \in 1..N}
           below(v) == {n \in 1..N : s[n] < v}
           upto(v) == {n \in 1..N : s[n] <= v}
           size(v) == Cardinality(upto(v))
<1>1. IsFiniteSet(1..N) /\ Cardinality(1..N) = N
  BY FS_Interval
<1>2. \A T \in SUBSET (1..N) : /\ IsFiniteSet(T) /\ Cardinality(T) \in 0..N
                                /\ \A S \in SUBSET T : /\ Cardinality(S) <= Cardinality(T)
                                                       /\ Cardinality(S) = Cardinality(T) => S = T
  <2> SUFFICES ASSUME NEW T \in SUBSET (1..N)
               PROVE /\ IsFiniteSet(T) /\ Cardinality(T) \in 0..N
                     /\ \A S \in SUBSET T : /\ Cardinality(S) <= Cardinality(T)
                                            /\ Cardinality(S) = Cardinality(T) => S = T
    OBVIOUS
  <2>1. IsFiniteSet(T) /\ Cardinality(T) <= N /\ Cardinality(T) \in Nat
    <3>1. IsFiniteSet(T) /\ Cardinality(T) <= Cardinality(1..N)
      BY <1>1, FS_Subset
    <3>2. Cardinality(T) \in Nat
      BY <3>1, FS_CardinalityType
    <3> QED BY <1>1, <3>1, <3>2
  <2>2. \A S \in SUBSET T : /\ Cardinality(S) <= Cardinality(T)
                            /\ Cardinality(S) = Cardinality(T) => S = T
    BY <2>1, FS_Subset
  <2> QED BY <2>1, <2>2
<1>3. /\ values \subseteq Int /\ values # {}
      /\ \A v \in Int : upto(v) \in SUBSET (1..N) /\ below(v) \in SUBSET upto(v)
  OBVIOUS
<1>4. \A v \in Int : size(v) \in 0..N
  BY <1>2, <1>3
\* Samples of more rank are larger.
<1>5. \A u, v \in values : u < v => upto(u) \in SUBSET below(v) /\ size(u) < size(v)
  <2> SUFFICES ASSUME NEW u \in values, NEW v \in values, u < v
               PROVE upto(u) \in SUBSET below(v) /\ size(u) < size(v)
    OBVIOUS
  <2>1. u \in Int /\ v \in Int
    OBVIOUS
  <2>2. upto(u) \in SUBSET below(v) /\ upto(u) \in SUBSET upto(v)
    BY <2>1
  <2>3. PICK n \in 1..N : v = s[n]
    OBVIOUS
  <2>4. n \in upto(v) /\ n \notin upto(u)
    BY <2>1, <2>3
  <2>5. upto(u) # upto(v)
    BY <2>4
  <2>6. upto(v) \in SUBSET (1..N)
    BY <1>3, <2>1
  <2>7. size(u) <= size(v) /\ size(u) # size(v)
    <3> HIDE DEF upto
    <3> QED BY <1>2, <2>2, <2>5, <2>6
  <2>8. size(u) \in 0..N /\ size(v) \in 0..N
    <3> HIDE DEF size
    <3> QED BY <1>4, <2>1
  <2>9. size(u) < size(v)
    <3> HIDE DEF size
    <3> QED BY <2>7, <2>8
  <2> QED BY <2>2, <2>9
\* A set of samples has one that none exceeds.
<1>6. \A T \in SUBSET values : T # {} => \E v \in T : \A u \in T : u <= v
  <2> SUFFICES ASSUME NEW T \in SUBSET values, T # {}
               PROVE \E v \in T : \A u \in T : u <= v
    OBVIOUS
  <2> DEFINE sizes == {size(v) : v \in T}
  <2> HIDE DEF values, size
  <2>1. sizes \in SUBSET (0..N) /\ sizes # {}
    BY <1>3, <1>4
  <2>2. PICK m \in sizes : \A x \in sizes : x <= m
    <3> HIDE DEF sizes
    <3> QED BY <2>1, GreatestNat
  <2>3. PICK v \in T : m = size(v)
    OBVIOUS
  <2>4. \A u \in T : size(u) <= size(v)
    BY <2>2, <2>3
  <2>5. \A u \in T : u \in Int /\ v \in Int /\ ~ (v < u)
    <3> TAKE u \in T
    <3>1. u \in values /\ v \in values /\ u \in Int /\ v \in Int
      BY <1>3
    <3>2. v < u => size(v) < size(u)
      BY <1>5, <3>1
    <3>3. size(u) \in 0..N /\ size(v) \in 0..N
      BY <1>4, <3>1
    <3> QED BY <2>4, <3>1, <3>2, <3>3
  <2>6. \A u \in T : u <= v
    BY <2>5
  <2> QED BY <2>6
<1> DEFINE enough == {v \in values : size(v) >= k}
<1>7. enough # {}
  <2>1. PICK v \in values : \A u \in values : u <= v
    <3> HIDE DEF values
    <3> QED BY <1>3, <1>6
  <2>2. upto(v) = 1..N
    BY <2>1
  <2>3. size(v) = N
    BY <1>1, <2>2
  <2>4. v \in enough
    <3> HIDE DEF size, values
    <3> QED BY <2>3
  <2> QED BY <2>4
<1>8. PICK w \in enough : \A u \in enough : size(w) <= size(u)
  <2> DEFINE sizes == {size(v) : v \in enough}
  <2>0. enough \subseteq values
    OBVIOUS
  <2> HIDE DEF values, size, enough
  <2>1. sizes \in SUBSET Nat /\ sizes # {}
    <3>1. \A v \in enough : size(v) \in Nat
      BY <1>3, <1>4, <2>0
    <3> QED BY <1>7, <3>1
  <2>2. PICK m \in sizes : \A x \in sizes : m <= x
    <3> HIDE DEF sizes
    <3> QED BY <2>1, LeastNat
  <2> QED BY <2>2
<1>9. Cardinality(below(w)) < k
  <2> SUFFICES ASSUME Cardinality(below(w)) >= k PROVE FALSE
    <3>1. Cardinality(below(w)) \in Int
      BY <1>2, <1>3
    <3> QED BY <3>1
  <2> DEFINE lower == {s[n] : n \in below(w)}
  <2>1. w \in Int
    OBVIOUS
  <2>2. lower \in SUBSET values /\ lower # {}
    <3>1. below(w) # {}
      <4>1. Cardinality({}) = 0
        BY FS_EmptySet
      <4>2. below(w) = {} => Cardinality(below(w)) = 0
        <5> HIDE DEF below
        <5> QED BY <4>1
      <4>3. k \in Int /\ k >= 1
        OBVIOUS
      <4> HIDE DEF below
      <4> QED BY <4>2, <4>3
    <3> QED BY <3>1
  <2>3. PICK u \in lower : \A v \in lower : v <= u
    <3> HIDE DEF lower, values
    <3> QED BY <1>6, <2>2
  <2>4. u < w /\ u \in values /\ below(w) \subseteq upto(u)
    BY <2>1, <2>3
  <2>5. size(u) >= k
    <3>1. upto(u) \in SUBSET (1..N) /\ below(w) \in SUBSET upto(u) /\ u \in Int
      BY <2>4
    <3> HIDE DEF below, upto, values
    <3>2. Cardinality(below(w)) <= size(u)
      BY <1>2, <3>1
    <3>3. Cardinality(below(w)) \in Int /\ size(u) \in Int
      BY <1>2, <3>1
    <3> QED BY <3>2, <3>3
  <2>6. size(u) < size(w) /\ size(u) \in Int /\ size(w) \in Int
    <3>1. w \in values
      OBVIOUS
    <3> HIDE DEF size, values
    <3> QED BY <1>3, <1>4, <1>5, <2>4, <3>1
  <2>7. size(w) <= size(u)
    <3> HIDE DEF size, values
    <3> QED BY <1>8, <2>4, <2>5
  <2> QED BY <2>6, <2>7
<1>10. Ranked(s, k) = CHOOSE v \in values : Cardinality(below(v)) < k /\ size(v) >= k
  BY DEF Ranked
<1>11. w \in values /\ size(w) >= k
  OBVIOUS
<1> HIDE DEF values, below, size, enough
<1>12. Ranked(s, k) \in values
  BY <1>9, <1>10, <1>11
<1> QED BY <1>12 DEF values

\* So the median is a whole number, twice as large, for any samples.
LEMMA MedianType ==
  ASSUME NEW N \in Nat \ {0}, NEW s \in Seq(Int), Len(s) = N
  PROVE  TwiceMedian(s) \in Int
<1>1. s \in [1..N -> Int]
  OBVIOUS
<1>2. (N + 1) \div 2 \in 1..N /\ N \div 2 + 1 \in 1..N
  OBVIOUS
<1>3. Ranked(s, (N + 1) \div 2) \in Int /\ Ranked(s, N \div 2 + 1) \in Int
  <2>1. \A k \in 1..N : Ranked(s, k) \in {s[n] : n \in 1..N}
    BY <1>1, RankedIsSample
  <2>2. {s[n] : n \in 1..N} \subseteq Int
    BY <1>1
  <2> QED BY <1>2, <2>1, <2>2
<1> QED BY <1>3 DEF TwiceMedian

===============================================================================
