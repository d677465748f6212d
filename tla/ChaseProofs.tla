------------------------------- MODULE ChaseProofs -------------------------------
(***************************************************************************)
(* The chase of src/uops_memory.cpp.  For every slot count, every outcome  *)
(* of the shuffle and every number of loads and calls: the chase visits    *)
(* every slot exactly once per lap, and each call loads from the same      *)
(* slots.  For every table of rows and any number of samples: rows are     *)
(* accounted for one by one, whatever mmap fails; no ring outlives its     *)
(* row; and a sample of a TLB row or of a working set of up to 4 MiB is a  *)
(* whole number of laps.  Between the two: what MemorySweep says of a call *)
(* of bench_chase is what Ring makes of it link by link.                   *)
(***************************************************************************)
EXTENDS MemorySweep, Ring, Facts

-------------------------------------------------------------------------------
(* The ring and one chase. *)

\* Places on the ring are slots of perm.
LEMMA RingPlace ==
  ASSUME count \in Nat \ {0}, NEW s \in Slots
  PROVE  \A m \in Int : (s + m) % count \in Slots
<1>1. ASSUME NEW m \in Int PROVE (s + m) % count \in Slots
  <2> DEFINE a == s + m
  <2>1. a \in Int BY DEF Slots
  <2>2. a % count \in 0..(count - 1)
    <3> HIDE DEF a
    <3> QED BY <2>1, DivMod
  <2> QED BY <2>2 DEF Slots
<1> QED BY <1>1

\* The places of a ring, counted from s: fewer than a lap apart they differ,
\* within a lap they are all there, and a whole number of laps leads back to s.
LEMMA Laps ==
  ASSUME count \in Nat \ {0}, NEW s \in Slots
  PROVE  /\ \A m, n \in Int : (s + m) % count = (s + n) % count
                               /\ -count < m - n /\ m - n < count => m = n
         /\ \A k \in Slots : \E d \in 0..(count - 1) : (s + d) % count = k
         /\ \A m \in Nat : (s + m) % count = s <=> m % count = 0
         /\ \A m \in Int : (((s + m) % count) + 1) % count = (s + (m + 1)) % count
<1> USE DEF Slots
<1>1. ASSUME NEW m \in Int, NEW n \in Int, (s + m) % count = (s + n) % count,
             -count < m - n, m - n < count
      PROVE  m = n
  <2> DEFINE a == s + m
             b == s + n
  <2>1. a \in Int /\ b \in Int /\ a - b = m - n
    OBVIOUS
  <2>2. a % count = b % count
    BY <1>1
  <2>3. a = b
    <3> HIDE DEF a, b
    <3> QED BY <1>1, <2>1, <2>2, ModNear
  <2> QED BY <2>1, <2>3
<1>2. ASSUME NEW k \in Slots
      PROVE  \E d \in 0..(count - 1) : (s + d) % count = k
  <2>1. \A x \in Int, y \in 0..(count - 1) : \E d \in 0..(count - 1) : (x + d) % count = y
    BY ModReach
  <2>2. s \in Int /\ k \in 0..(count - 1)
    OBVIOUS
  <2> QED BY <2>1, <2>2, Zenon
<1>3. s % count = s
  BY ModSmall
<1>4. 0 % count = 0
  BY ModSmall
<1>5. \A x, y, c \in Int : x % count = y % count => (x + c) % count = (y + c) % count
  BY ModAdd
<1>6. ASSUME NEW m \in Nat
      PROVE  (s + m) % count = s <=> m % count = 0
  <2>1. ASSUME (s + m) % count = s PROVE m % count = 0
    <3> DEFINE a == s + m
               c == -s
    <3>1. a \in Int /\ s \in Int /\ c \in Int /\ a + c = m /\ s + c = 0
      OBVIOUS
    <3>2. a % count = s % count
      BY <1>3, <2>1
    <3>3. (a + c) % count = (s + c) % count
      <4> HIDE DEF a, c
      <4> QED BY <1>5, <3>1, <3>2
    <3> QED BY <1>4, <3>1, <3>3
  <2>2. ASSUME m % count = 0 PROVE (s + m) % count = s
    <3>1. (m + s) % count = (0 + s) % count
      <4>1. m \in Int /\ 0 \in Int /\ s \in Int
        OBVIOUS
      <4>2. m % count = 0 % count
        BY <1>4, <2>2
      <4> QED BY <1>5, <4>1, <4>2, Zenon
    <3>2. m + s = s + m /\ 0 + s = s
      OBVIOUS
    <3> QED BY <1>3, <3>1, <3>2
  <2> QED BY <2>1, <2>2
<1>7. ASSUME NEW m \in Int
      PROVE  (((s + m) % count) + 1) % count = (s + (m + 1)) % count
  <2> DEFINE a == s + m
  <2>1. a \in Int /\ a + 1 = s + (m + 1)
    OBVIOUS
  <2>2. ((a % count) + 1) % count = (a + 1) % count
    <3> HIDE DEF a
    <3> QED BY <2>1, ModStep
  <2> QED BY <2>1, <2>2
<1> QED BY <1>1, <1>2, <1>6, <1>7

\* Exchanging two elements of a permutation leaves a permutation.
LEMMA SwapPermutes ==
  ASSUME count \in Nat \ {0}, perm \in [Slots -> Slots], Permutes,
         NEW a \in Slots, NEW b \in Slots, perm' = Swap(perm, a, b), count' = count
  PROVE  perm' \in [Slots -> Slots] /\ Permutes'
<1> DEFINE other(k) == CASE k = a -> b [] k = b -> a [] OTHER -> k
<1>1. \A k \in Slots : other(k) \in Slots /\ other(other(k)) = k
  OBVIOUS
<1>2. \A k \in Slots : perm'[k] = perm[other(k)]
  BY DEF Swap
<1>3. perm' \in [Slots -> Slots]
  BY DEF Swap
<1>4. Slots' = Slots
  BY DEF Slots
<1>5. ASSUME NEW k \in Slots, NEW l \in Slots, perm'[k] = perm'[l]
      PROVE  k = l
  <2> HIDE DEF other
  <2>1. perm[other(k)] = perm[other(l)]
    BY <1>2, <1>5
  <2>2. other(k) = other(l)
    BY <1>1, <2>1 DEF Permutes
  <2>3. other(other(k)) = other(other(l))
    BY <2>2
  <2> QED BY <1>1, <2>3
<1>6. ASSUME NEW t \in Slots
      PROVE  \E k \in Slots : perm'[k] = t
  <2> HIDE DEF other
  <2>1. PICK l \in Slots : perm[l] = t
    BY DEF Permutes
  <2>2. other(l) \in Slots /\ perm'[other(l)] = t
    BY <1>1, <1>2, <2>1
  <2> QED BY <2>2
<1> QED BY <1>3, <1>4, <1>5, <1>6 DEF Permutes

\* The invariant of init_ring_in_buffer and run_chase: the shuffle keeps perm a
\* permutation, the links made so far follow it, and a chase is a number of
\* links away from the start of the ring.
THEOREM RingInvariant == RingSpec => []RingInv
<1>1. RingInit => RingInv
  <2> SUFFICES ASSUME RingInit PROVE RingInv
    OBVIOUS
  <2> QED BY CountsAssumption, ChaseAssumption
          DEF RingInit, RingInv, RingTypeOK, Slots, Null, Base
<1>2. RingInv /\ [RingNext]_ringVars => RingInv'
  <2> SUFFICES ASSUME RingInv, [RingNext]_ringVars PROVE RingInv'
    OBVIOUS
  <2>0. /\ count \in Nat /\ RingTypeOK
        /\ Base \in Int
    BY CountsAssumption DEF RingInv, RingTypeOK, Base
  <2>1. CASE Alloc
    <3>1. /\ stage = "alloc" /\ perm = [s \in Slots |-> s] /\ perm' = perm
          /\ count' = count /\ Slots' = Slots
          /\ UNCHANGED <<next, p, load, pass, seen, first>>
      BY <2>1 DEF Alloc, RingInv, Slots
    <3>2. CASE HasSlots /\ stage' = "shuffle" /\ i' = count - 1
      <4>1. count > 0 /\ i' \in Slots
        BY <2>0, <3>2 DEF HasSlots, Slots
      <4>2. Permutes'
        BY <3>1 DEF Permutes
      <4>3. RingTypeOK'
        BY <2>0, <3>1, <3>2, <4>1 DEF RingTypeOK, Slots
      <4> QED BY <3>1, <3>2, <4>1, <4>2, <4>3 DEF RingInv
    <3>3. CASE stage' = "failed" /\ i' = i
      <4>1. RingTypeOK'
        BY <2>0, <3>1, <3>3 DEF RingTypeOK
      <4> QED BY <3>1, <3>3, <4>1 DEF RingInv
    <3> QED BY <2>1, <3>2, <3>3 DEF Alloc
  <2>2. CASE Shuffle
    <3>1. /\ stage = "shuffle" /\ count > 0 /\ Permutes /\ i \in Slots
          /\ p = Base /\ seen = {} /\ load = 0 /\ pass = 0
          /\ count' = count /\ Slots' = Slots
          /\ UNCHANGED <<next, p, load, pass, seen, first>>
      BY <2>2 DEF Shuffle, RingInv, Slots
    <3>2. CASE i > 0 /\ (\E j \in 0..i : perm' = Swap(perm, i, j)) /\ i' = i - 1 /\ stage' = stage
      <4>1. PICK j \in 0..i : perm' = Swap(perm, i, j)
        BY <3>2
      <4>2. j \in Slots
        BY <2>0, <3>1, <4>1 DEF Slots
      <4>3. perm' \in [Slots -> Slots] /\ Permutes'
        BY <2>0, <3>1, <4>1, <4>2, SwapPermutes DEF RingTypeOK
      <4>4. i' \in Slots
        BY <2>0, <3>1, <3>2 DEF Slots
      <4>5. i' \in 0..count
        BY <2>0, <4>4, <3>1 DEF Slots
      <4>6. RingTypeOK'
        BY <2>0, <3>1, <3>2, <4>3, <4>5 DEF RingTypeOK
      <4> QED BY <3>1, <3>2, <4>3, <4>4, <4>6 DEF RingInv
    <3>3. CASE i = 0 /\ stage' = "link" /\ UNCHANGED <<i, perm>>
      <4>1. RingTypeOK'
        BY <2>0, <3>1, <3>3 DEF RingTypeOK
      <4>2. Permutes'
        BY <3>1, <3>3 DEF Permutes
      <4>3. 0..(0 - 1) = {}
        OBVIOUS
      <4>4. Linked(i)'
        BY <3>3, <4>3 DEF Linked
      <4> QED BY <3>1, <3>3, <4>1, <4>2, <4>4 DEF RingInv
    <3> QED BY <2>2, <3>2, <3>3 DEF Shuffle
  <2>3. CASE Link
    <3>1. /\ stage = "link" /\ count > 0 /\ Permutes /\ Linked(i)
          /\ p = Base /\ seen = {} /\ load = 0 /\ pass = 0
          /\ count' = count /\ perm' = perm /\ Slots' = Slots /\ Permutes'
          /\ UNCHANGED <<p, load, pass, seen, first>>
      BY <2>3 DEF Link, RingInv, Slots, Permutes
    <3>2. CASE i < count /\ next' = [next EXCEPT ![perm[i]] = Successor(i)]
               /\ i' = i + 1 /\ stage' = stage
      <4>1. i \in Slots /\ i \in Nat
        BY <2>0, <3>2 DEF RingTypeOK, Slots
      <4>2. perm[i] \in Slots
        BY <2>0, <4>1 DEF RingTypeOK
      <4>3. Successor(i) \in Slots
        <5>1. (i + 1) % count \in Slots
          BY <2>0, <3>1, <4>1, RingPlace
        <5> QED BY <2>0, <5>1 DEF RingTypeOK, Successor
      <4>4. next' \in [Slots -> Slots \cup {Null}]
        BY <2>0, <3>2, <4>2, <4>3 DEF RingTypeOK
      <4>5. RingTypeOK'
        <5>1. i' \in 0..count
          BY <2>0, <3>2, <4>1
        <5> QED BY <2>0, <3>1, <3>2, <4>4, <5>1 DEF RingTypeOK
      <4>6. Linked(i)'
        <5> SUFFICES ASSUME NEW k \in 0..i
                     PROVE  next'[perm[k]] = Successor(k)
          BY <3>1, <3>2, <4>1 DEF Linked, Successor
        <5>1. k \in Slots /\ perm[k] \in Slots
          BY <2>0, <3>2, <4>1 DEF RingTypeOK, Slots
        <5>2. CASE k = i
          BY <2>0, <3>2, <4>2, <5>2 DEF RingTypeOK
        <5>3. CASE k # i
          <6>1. perm[k] # perm[i]
            BY <3>1, <4>1, <5>1, <5>3 DEF Permutes
          <6>2. k \in 0..(i - 1)
            BY <4>1, <5>3
          <6>3. next[perm[k]] = Successor(k)
            BY <3>1, <6>2 DEF Linked
          <6> QED BY <2>0, <3>2, <5>1, <6>1, <6>3 DEF RingTypeOK
        <5> QED BY <5>2, <5>3
      <4> QED BY <3>1, <3>2, <4>5, <4>6 DEF RingInv
    <3>3. CASE i = count /\ stage' = "chase" /\ UNCHANGED <<next, i>>
      <4>1. RingTypeOK'
        BY <2>0, <3>1, <3>3 DEF RingTypeOK
      <4>2. Linked(count)'
        BY <3>1, <3>3 DEF Linked, Successor
      <4>3. PICK s \in Slots : perm[s] = Base
        <5>1. Base \in Slots
          BY <2>0, <3>1 DEF Base, Slots
        <5> QED BY <3>1, <5>1 DEF Permutes
      <4>4. Chasing(s)'
        <5>1. s + 0 = s /\ s % count = s
          BY <2>0, <3>1, ModSmall DEF Slots
        <5>2. At(s, 0) = Base
          BY <4>3, <5>1 DEF At
        <5>3. {At(s, m) : m \in 0..(0 - 1)} = {}
          OBVIOUS
        <5> QED BY <3>1, <4>3, <5>2, <5>3 DEF Chasing, At
      <4>5. pass' < Passes
        BY <3>1, ChaseAssumption
      <4> QED BY <3>1, <3>3, <4>1, <4>2, <4>3, <4>4, <4>5 DEF RingInv
    <3> QED BY <2>3, <3>2, <3>3 DEF Link
  <2>4. CASE Load
    <3> USE <2>4 DEF Load
    <3>1. /\ count > 0 /\ Permutes /\ Linked(count) /\ pass < Passes
          /\ Slots' = Slots /\ Permutes' /\ Linked(count)'
      BY DEF RingInv, Slots, Permutes, Linked, Successor
    <3>2. PICK s \in Slots : Chasing(s)
      BY DEF RingInv
    <3>3. load \in Nat /\ load' \in 0..CallLoads
      BY <2>0, ChaseAssumption DEF RingTypeOK
    <3> DEFINE k == (s + load) % count
    <3>4. k \in Slots /\ p = perm[k] /\ p \in Slots
      BY <2>0, <3>1, <3>2, <3>3, RingPlace DEF Chasing, At, RingTypeOK
    <3>5. next[p] = At(s, load + 1)
      <4>1. (k + 1) % count = (s + (load + 1)) % count
        BY <2>0, <3>1, <3>3, Laps
      <4> HIDE DEF k
      <4>2. next[perm[k]] = Successor(k)
        BY <2>0, <3>1, <3>4 DEF Linked, Slots
      <4> QED BY <3>4, <4>1, <4>2 DEF Successor, At
    <3>6. At(s, load + 1) \in Slots
      BY <2>0, <3>1, <3>3, RingPlace DEF At, RingTypeOK
    <3>7. seen' = {At(s, m) : m \in 0..load}
      <4>1. 0..load = (0..(load - 1)) \cup {load}
        BY <3>3
      <4> QED BY <3>2, <4>1 DEF Chasing
    <3>8. Chasing(s)'
      <4>1. load' - 1 = load
        BY <3>3
      <4> QED BY <3>2, <3>5, <3>7, <4>1 DEF Chasing, At
    <3>9. RingTypeOK'
      BY <2>0, <3>1, <3>3, <3>4, <3>5, <3>6 DEF RingTypeOK
    <3> QED BY <3>1, <3>2, <3>8, <3>9 DEF RingInv
  <2>5. CASE EndPass
    <3> USE <2>5 DEF EndPass
    <3>1. /\ count > 0 /\ Permutes /\ Linked(count) /\ pass < Passes
          /\ Slots' = Slots /\ Permutes' /\ Linked(count)'
      BY DEF RingInv, Slots, Permutes, Linked, Successor
    <3>2. PICK s \in Slots : Chasing(s)
      BY DEF RingInv
    <3>3. pass \in Nat /\ pass' \in 0..Passes /\ (stage' = "chase" => pass' < Passes)
      BY <2>0, <3>1, ChaseAssumption DEF RingTypeOK
    <3>4. Chasing(s)'
      <4>1. s + 0 = s /\ s % count = s
        BY <2>0, <3>1, ModSmall DEF Slots
      <4>2. At(s, 0) = Base
        BY <3>2, <4>1 DEF At, Chasing
      <4>3. {At(s, m) : m \in 0..(0 - 1)} = {}
        OBVIOUS
      <4>4. first' = {At(s, m) : m \in 0..(CallLoads - 1)}
        BY <3>2, <3>3 DEF Chasing
      <4> QED BY <3>2, <4>2, <4>3, <4>4 DEF Chasing, At, Restart
    <3>5. RingTypeOK'
      BY <2>0, <3>1, <3>3, ChaseAssumption DEF RingTypeOK, Restart
    <3> QED BY <3>1, <3>2, <3>3, <3>4, <3>5 DEF RingInv
  <2>6. CASE UNCHANGED ringVars
    <3>1. /\ UNCHANGED <<stage, count, perm, i, next, p, load, pass, seen, first>>
          /\ Slots' = Slots
      BY <2>6 DEF ringVars, Slots
    <3>2. RingTypeOK' /\ (Permutes <=> Permutes')
      BY <2>0, <3>1 DEF RingTypeOK, Permutes
    <3>3. /\ Linked(i) <=> Linked(i)'
          /\ Linked(count) <=> Linked(count)'
          /\ \A s : Chasing(s) <=> Chasing(s)'
      BY <3>1 DEF Linked, Successor, Chasing, At
    <3> QED BY <3>1, <3>2, <3>3 DEF RingInv
  <2> QED BY <2>1, <2>2, <2>3, <2>4, <2>5, <2>6 DEF RingNext
<1> QED BY <1>1, <1>2, PTL DEF RingSpec

\* Slots, pointers and counters stay in range: no i = -1, no slot outside the
\* ring, no chase through an unlinked slot.
THEOREM RingTypeCorrect == RingSpec => []RingTypeOK
<1>1. RingInv => RingTypeOK
  BY DEF RingInv
<1> QED BY <1>1, RingInvariant, PTL

\* A chase that keeps to the links of a permutation visits every slot once per lap.
LEMMA RingVisits == RingInv => VisitsAllOnce
<1> SUFFICES ASSUME RingInv, stage = "chase"
             PROVE  /\ load < count => p \notin seen
                    /\ load >= count => seen = Slots
                    /\ p = Base <=> load % count = 0
  BY DEF VisitsAllOnce
<1>1. /\ count \in Nat \ {0} /\ load \in Nat /\ perm \in [Slots -> Slots] /\ Permutes
  BY CountsAssumption DEF RingInv, RingTypeOK
<1>2. PICK s \in Slots : Chasing(s)
  BY DEF RingInv
<1>3. \A m \in Int : (s + m) % count \in Slots
  BY <1>1, RingPlace
<1> DEFINE place(m) == (s + m) % count
<1>4. /\ \A m, n \in Int : place(m) = place(n) /\ -count < m - n /\ m - n < count => m = n
      /\ \A k \in Slots : \E d \in 0..(count - 1) : place(d) = k
      /\ \A m \in Nat : place(m) = s <=> m % count = 0
  BY <1>1, Laps
<1>5. \A m \in Int : place(m) \in Slots /\ At(s, m) = perm[place(m)]
  BY <1>3 DEF At
<1>6. p = perm[place(load)] /\ seen = {At(s, m) : m \in 0..(load - 1)} /\ perm[s] = Base
  BY <1>1, <1>2, <1>5 DEF Chasing
<1> HIDE DEF place
<1>7. ASSUME load < count, p \in seen PROVE FALSE
  <2>1. PICK m \in 0..(load - 1) : p = At(s, m)
    BY <1>6, <1>7
  <2>2. m \in Int /\ load \in Int /\ m # load /\ -count < m - load /\ m - load < count
    BY <1>1, <1>7
  <2>3. place(m) = place(load)
    <3>1. place(m) \in Slots /\ place(load) \in Slots
      BY <1>5, <2>2
    <3>2. perm[place(m)] = perm[place(load)]
      BY <1>5, <1>6, <2>1, <2>2
    <3> QED BY <1>1, <3>1, <3>2 DEF Permutes
  <2> QED BY <1>4, <2>2, <2>3
<1>8. ASSUME load >= count PROVE seen = Slots
  <2>1. seen \subseteq Slots
    BY DEF RingInv, RingTypeOK
  <2>2. ASSUME NEW t \in Slots PROVE t \in seen
    <3>1. PICK k \in Slots : perm[k] = t
      BY <1>1 DEF Permutes
    <3>2. PICK d \in 0..(count - 1) : place(d) = k
      BY <1>4
    <3>3. d \in 0..(load - 1) /\ d \in Int
      BY <1>1, <1>8
    <3>4. At(s, d) = t
      BY <1>5, <3>1, <3>2, <3>3
    <3> QED BY <1>6, <3>3, <3>4
  <2> QED BY <2>1, <2>2
<1>9. p = Base <=> load % count = 0
  <2>1. load \in Int /\ place(load) \in Slots
    BY <1>1, <1>5
  <2>2. p = Base <=> place(load) = s
    BY <1>1, <1>6, <2>1 DEF Permutes
  <2> QED BY <1>1, <1>4, <2>2
<1> QED BY <1>7, <1>8, <1>9

\* The promise of the comment at init_ring_in_buffer: a dependent chase visits
\* all slots exactly once before returning to the start.
THEOREM ChaseVisitsAllOnce == RingSpec => []VisitsAllOnce
  BY RingInvariant, RingVisits, PTL

\* Every bench_chase call of run_chase loads from the same slots as the first.
THEOREM PassesDoTheSameWork == RingSpec => []SameWork
<1>1. RingInv => SameWork
  <2> SUFFICES ASSUME RingInv, stage = "chase", load = CallLoads, pass > 0
               PROVE  seen = first
    BY DEF SameWork
  <2>1. PICK s \in Slots : Chasing(s)
    BY DEF RingInv
  <2> QED BY <2>1 DEF Chasing
<1> QED BY <1>1, RingInvariant, PTL

-------------------------------------------------------------------------------
(* The sweeps. *)

\* A row of the tables.
LEMMA RowType ==
  ASSUME NEW k \in 1..Len(Rows)
  PROVE  /\ Rows[k].section \in {"A", "B1", "B2"}
         /\ Rows[k].slots \in Nat \ {0} /\ Rows[k].kib \in Nat \ {0}
<1> DEFINE S == [section : {"A", "B1", "B2"}, slots : Nat \ {0}, kib : Nat \ {0}]
<1>1. Rows \in Seq(S)
  BY RowsAssumption
<1>2. Rows[k] \in S
  <2> HIDE DEF S
  <2> QED BY <1>1
<1> QED BY <1>2

LEMMA TableLength == Len(Rows) \in Nat \ {0}
<1> DEFINE S == [section : {"A", "B1", "B2"}, slots : Nat \ {0}, kib : Nat \ {0}]
<1>1. Rows \in Seq(S) /\ Rows # <<>>
  BY RowsAssumption
<1> HIDE DEF S
<1> QED BY <1>1

\* The rules for the number of iterations leave no size out.
LEMMA IterRange ==
  ASSUME NEW k \in 1..Len(Rows)
  PROVE  /\ Iters(Rows[k]) \in {256, 512, 1024, 2048, 4096}
         /\ Rows[k].kib <= 4 * MiB /\ Rows[k].section = "A" =>
              Iters(Rows[k]) \in {2048, 4096}
<1> DEFINE kib == Rows[k].kib
<1>1. kib \in Nat
  BY RowType
<1> HIDE DEF kib
<1>2. /\ choose_iters(kib) \in {256, 512, 1024, 2048, 4096}
      /\ kib <= 4 * MiB => choose_iters(kib) \in {2048, 4096}
  BY <1>1 DEF choose_iters, MiB
<1> QED BY <1>2 DEF Iters, kib

LEMMA LoadsType ==
  ASSUME NEW k \in 1..Len(Rows)
  PROVE  /\ Loads(Rows[k]) \in Nat \ {0}
         /\ Loads(Rows[k]) % 16384 = 0
         /\ Rows[k].kib <= 4 * MiB /\ Rows[k].section = "A" => Loads(Rows[k]) % 65536 = 0
BY IterRange DEF Loads, OPS_PER_ITER

LEMMA RoundedType ==
  ASSUME NEW k \in 1..Len(Rows)
  PROVE  Rounded(Rows[k].kib) \in Nat
<1> DEFINE kib == Rows[k].kib
<1>1. kib \in Nat
  BY RowType
<1> HIDE DEF kib
<1>2. Rounded(kib) \in Nat
  BY <1>1 DEF Rounded, MiB
<1> QED BY <1>2 DEF kib

\* One more row is left out or not.
LEMMA LeftOutStep ==
  ASSUME NEW k \in Nat \ {0}
  PROVE  /\ LeftOut(0) = 0 /\ LeftOut(k - 1) \in Nat
         /\ LeftOut(k) = IF TooSmall(Rows[k]) THEN LeftOut(k - 1) + 1 ELSE LeftOut(k - 1)
<1> DEFINE left(n) == {r \in 1..n : TooSmall(Rows[r])}
<1>1. left(0) = {}
  OBVIOUS
<1>2. IsFiniteSet(left(k - 1)) /\ Cardinality(left(k - 1)) \in Nat
  <2>1. IsFiniteSet(1..(k - 1)) /\ left(k - 1) \subseteq 1..(k - 1)
    BY FS_Interval
  <2> HIDE DEF left
  <2> QED BY <2>1, FS_Subset, FS_CardinalityType
<1>3. k \notin left(k - 1)
  OBVIOUS
<1>4. left(k) = IF TooSmall(Rows[k]) THEN left(k - 1) \cup {k} ELSE left(k - 1)
  OBVIOUS
<1>5. Cardinality(left(k - 1) \cup {k}) = Cardinality(left(k - 1)) + 1
  <2> HIDE DEF left
  <2> QED BY <1>2, <1>3, FS_AddElement
<1>6. Cardinality({}) = 0
  BY FS_EmptySet
<1> QED BY <1>1, <1>2, <1>4, <1>5, <1>6 DEF LeftOut

\* What divides a divisor divides the number.
LEMMA Divides ==
  ASSUME NEW m \in Nat \ {0}, NEW n \in Nat \ {0}, n % m = 0, NEW a \in Nat, a % n = 0
  PROVE  a % m = 0
<1>1. a \in Int
  OBVIOUS
<1>2. (a % n) % m = a % m
  BY <1>1, ModMod
<1>3. 0 % m = 0
  <2>1. 0 \in 0..(m - 1)
    OBVIOUS
  <2> QED BY <2>1, ModSmall
<1> QED BY <1>2, <1>3

\* A call comes to a whole number of laps if the slots divide its loads.
LEMMA CallIsWholeLaps ==
  ASSUME NEW k \in 1..Len(Rows), Rows[k].section # "A" \/ Rows[k].kib <= 4 * MiB
  PROVE  /\ EndsAt(Loads(Rows[k]), Rows[k].slots) = 0
         /\ SlotsLoaded(Loads(Rows[k]), Rows[k].slots) = Rows[k].slots
<1> DEFINE slots == Rows[k].slots
           loads == Loads(Rows[k])
<1>1. slots \in Nat \ {0} /\ loads \in Nat \ {0}
  BY RowType, LoadsType
<1>2. \E n \in Nat \ {0} : n % slots = 0 /\ loads % n = 0
  <2>1. CASE Rows[k].section = "A"
    BY <2>1, LoadsType, TablesAssumption
  <2>2. CASE Rows[k].section # "A"
    BY <2>2, LoadsType, TablesAssumption
  <2> QED BY <2>1, <2>2
<1> HIDE DEF slots, loads
<1>3. PICK n \in Nat \ {0} : n % slots = 0 /\ loads % n = 0
  BY <1>2
<1>4. loads % slots = 0
  BY <1>1, <1>3, Divides
<1>5. slots <= loads
  BY <1>1, <1>4, MultipleAtLeast
<1>6. EndsAt(loads, slots) = 0 /\ SlotsLoaded(loads, slots) = slots
  BY <1>1, <1>4, <1>5 DEF EndsAt, SlotsLoaded
<1> QED BY <1>6 DEF slots, loads

-------------------------------------------------------------------------------

\* What SweepInv says of the ring at hand, and of the rows so far.
Place == row \in 1..Len(Rows) /\ pc \in {"calibrate", "row", "chase", "print", "done"}

Accounted ==
  /\ EveryRowPrinted
  /\ pc \in {"calibrate", "chase"} => printed + LeftOut(row - 1) = row - 1
  /\ pc = "print" => printed + LeftOut(row - 1) = row
  /\ pc \in {"chase", "print"} => ~TooSmall(Rows[row])

InRing ==
  IF pc \in {"chase", "print"} /\ calls > 0
    THEN /\ at = EndsAt(Loads(Rows[row]), Rows[row].slots)
         /\ covered = SlotsLoaded(Loads(Rows[row]), Rows[row].slots)
    ELSE at = 0 /\ covered = 0

LEMMA PlaceInit == Init => Place
BY TableLength DEF Init, Place

LEMMA PlaceStep ==
  ASSUME Place, [Next]_vars
  PROVE  Place'
<1> DEFINE L == Len(Rows)
<1>1. L \in Nat \ {0}
  BY TableLength
<1>2. row \in 1..L /\ pc \in {"calibrate", "row", "chase", "print", "done"}
  BY DEF Place
<1> HIDE DEF L
<1>3. NextRow => row' \in 1..L /\ pc' \in {"row", "done"}
  <2> SUFFICES (IF row < L THEN row' = row + 1 /\ pc' = "row" ELSE row' = row /\ pc' = "done")
               => row' \in 1..L /\ pc' \in {"row", "done"}
    BY DEF NextRow, L
  <2> QED BY <1>1, <1>2
<1>4. row' \in 1..L /\ pc' \in {"calibrate", "row", "chase", "print", "done"}
  <2>1. CASE Calibrate
    BY <2>1, <1>2 DEF Calibrate
  <2>2. CASE SkipRow
    BY <2>2, <1>3 DEF SkipRow
  <2>3. CASE AllocRow
    BY <2>3, <1>2, <1>3 DEF AllocRow, AfterFailure
  <2>4. CASE Chase
    BY <2>4, <1>2 DEF Chase
  <2>5. CASE PrintRow
    BY <2>5, <1>2 DEF PrintRow
  <2>6. CASE FreeRow
    BY <2>6, <1>3 DEF FreeRow
  <2>7. CASE UNCHANGED vars
    BY <2>7, <1>2 DEF vars
  <2> QED BY <2>1, <2>2, <2>3, <2>4, <2>5, <2>6, <2>7 DEF Next
<1> QED BY <1>4 DEF Place, L

LEMMA AccountedInit == Init => Accounted /\ printed \in Nat
<1>1. LeftOut(0) = 0
  <2>1. 1 \in Nat \ {0}
    OBVIOUS
  <2> QED BY <2>1, LeftOutStep
<1> SUFFICES ASSUME Init PROVE Accounted /\ printed \in Nat
  OBVIOUS
<1>2. pc = "calibrate" /\ row = 1 /\ printed = 0 /\ row - 1 = 0
  BY DEF Init
<1> QED BY <1>1, <1>2 DEF Accounted, EveryRowPrinted

\* When the row at hand is accounted for, the next one may begin.
LEMMA NextRowAccounted ==
  ASSUME Place, NextRow, printed' + LeftOut(row) = row
  PROVE  Accounted'
<1> DEFINE L == Len(Rows)
<1>1. L \in Nat \ {0} /\ row \in 1..L
  BY TableLength DEF Place
<1>2. IF row < L THEN row' = row + 1 /\ pc' = "row" ELSE row' = row /\ pc' = "done"
  BY DEF NextRow
<1> HIDE DEF L
<1>3. CASE row < L
  <2>1. pc' = "row" /\ row' - 1 = row
    BY <1>1, <1>2, <1>3
  <2> QED BY <2>1 DEF Accounted, EveryRowPrinted
<1>4. CASE ~(row < L)
  <2>1. pc' = "done" /\ L = row
    BY <1>1, <1>2, <1>4
  <2> QED BY <2>1 DEF Accounted, EveryRowPrinted, L
<1> QED BY <1>3, <1>4

LEMMA AccountedStep ==
  ASSUME Place, Accounted, printed \in Nat, [Next]_vars
  PROVE  Accounted' /\ printed' \in Nat
<1>1. row \in Nat \ {0} /\ row \in Int
  BY TableLength DEF Place
<1>2. /\ LeftOut(row - 1) \in Nat
      /\ LeftOut(row) = IF TooSmall(Rows[row]) THEN LeftOut(row - 1) + 1 ELSE LeftOut(row - 1)
  BY <1>1, LeftOutStep
<1>3. CASE Calibrate
  <2>1. /\ pc = "calibrate" /\ pc' = "row" /\ row' = row /\ printed' = printed
    BY <1>3 DEF Calibrate
  <2> QED BY <2>1 DEF Accounted, EveryRowPrinted
<1>4. CASE SkipRow
  <2>1. /\ pc = "row" /\ TooSmall(Rows[row]) /\ NextRow /\ printed' = printed
    BY <1>4 DEF SkipRow
  <2>2. printed + LeftOut(row - 1) = row - 1
    BY <2>1 DEF Accounted, EveryRowPrinted
  <2>3. printed' + LeftOut(row) = row
    BY <1>1, <1>2, <2>1, <2>2
  <2> QED BY <2>1, <2>3, NextRowAccounted
<1>5. CASE AllocRow
  <2>1. pc = "row" /\ ~TooSmall(Rows[row])
    BY <1>5 DEF AllocRow
  <2>2. printed + LeftOut(row - 1) = row - 1
    BY <2>1 DEF Accounted, EveryRowPrinted
  <2>3. CASE pc' = "chase" /\ UNCHANGED <<row, printed>>
    BY <2>1, <2>2, <2>3 DEF Accounted, EveryRowPrinted
  <2>4. CASE printed' = printed + 1 /\ NextRow
    <3>1. printed' + LeftOut(row) = row
      BY <1>1, <1>2, <2>1, <2>2, <2>4
    <3> QED BY <2>4, <3>1, NextRowAccounted
  <2> QED BY <1>5, <2>3, <2>4 DEF AllocRow, AfterFailure
<1>6. CASE Chase
  <2>1. pc = "chase" /\ UNCHANGED <<row, pc, printed>>
    BY <1>6 DEF Chase
  <2> QED BY <2>1 DEF Accounted, EveryRowPrinted
<1>7. CASE PrintRow
  <2>1. pc = "chase" /\ printed' = printed + 1 /\ pc' = "print" /\ row' = row
    BY <1>7 DEF PrintRow
  <2>2. printed + LeftOut(row - 1) = row - 1 /\ ~TooSmall(Rows[row])
    BY <2>1 DEF Accounted
  <2>3. printed' + LeftOut(row - 1) = row
    BY <1>1, <1>2, <2>1, <2>2
  <2> QED BY <2>1, <2>2, <2>3 DEF Accounted, EveryRowPrinted
<1>8. CASE FreeRow
  <2>1. pc = "print" /\ printed' = printed /\ NextRow
    BY <1>8 DEF FreeRow
  <2>2. printed + LeftOut(row - 1) = row /\ ~TooSmall(Rows[row])
    BY <2>1 DEF Accounted
  <2>3. printed' + LeftOut(row) = row
    BY <1>2, <2>1, <2>2
  <2> QED BY <2>1, <2>3, NextRowAccounted
<1>9. CASE UNCHANGED vars
  <2>1. UNCHANGED <<row, pc, printed>>
    BY <1>9 DEF vars
  <2> QED BY <2>1 DEF Accounted, EveryRowPrinted
<1> QED BY <1>3, <1>4, <1>5, <1>6, <1>7, <1>8, <1>9 DEF Next

\* So there are never more lines than rows.
LEMMA PrintedBound ==
  ASSUME Place, Accounted, printed \in Nat
  PROVE  printed \in 0..Len(Rows)
<1> DEFINE L == Len(Rows)
<1>1. L \in Nat \ {0} /\ row \in 1..L
  BY TableLength DEF Place
<1>2. LeftOut(row - 1) \in Nat /\ LeftOut(L) \in Nat
  <2>1. L + 1 \in Nat \ {0} /\ row \in Nat \ {0} /\ (L + 1) - 1 = L
    BY <1>1
  <2>2. LeftOut((L + 1) - 1) \in Nat /\ LeftOut(row - 1) \in Nat
    BY <2>1, LeftOutStep
  <2> QED BY <2>1, <2>2
<1>3. \/ printed + LeftOut(row - 1) = row - 1
      \/ printed + LeftOut(row - 1) = row
      \/ printed + LeftOut(L) = L
  BY DEF Place, Accounted, EveryRowPrinted
<1> HIDE DEF L
<1>4. printed \in 0..L
  BY <1>1, <1>2, <1>3
<1> QED BY <1>4 DEF L

-------------------------------------------------------------------------------

LEMMA RingStep ==
  ASSUME Place, OneRingAtATime, [Next]_vars
  PROVE  OneRingAtATime'
<1>1. Rounded(Rows[row].kib) \in Nat
  BY RoundedType DEF Place
<1> DEFINE size == Rounded(Rows[row].kib)
<1>2. NextRow => pc' \in {"row", "done"}
  BY DEF NextRow
<1>3. /\ pc \in {"calibrate", "row", "done"} => mapped = 0
      /\ pc \in {"chase", "print"} => mapped = size
  BY DEF Place, OneRingAtATime
<1>4. SUFFICES \/ pc' \in {"row", "done"} /\ mapped' = 0
               \/ pc' = "calibrate" /\ mapped' = 0
               \/ pc' \in {"chase", "print"} /\ row' = row /\ mapped' = size
  BY DEF OneRingAtATime
<1> HIDE DEF size
<1>5. CASE Calibrate
  BY <1>5, <1>3 DEF Calibrate
<1>6. CASE SkipRow
  BY <1>6, <1>2, <1>3 DEF SkipRow
<1>7. CASE AllocRow
  <2>1. pc = "row" /\ mapped = 0
    BY <1>3, <1>7 DEF AllocRow
  <2>2. \/ mapped' = mapped + size /\ pc' = "chase" /\ row' = row
        \/ NextRow /\ mapped' = mapped
    BY <1>7 DEF AllocRow, AfterFailure, size
  <2>3. mapped + size = size
    BY <1>1, <2>1 DEF size
  <2> QED BY <1>2, <2>1, <2>2, <2>3
<1>8. CASE Chase
  BY <1>8, <1>3 DEF Chase
<1>9. CASE PrintRow
  BY <1>9, <1>3 DEF PrintRow
<1>10. CASE FreeRow
  <2>1. pc = "print" /\ mapped' = mapped - size /\ NextRow
    BY <1>10 DEF FreeRow, MappedAfterFree, size
  <2>2. mapped' = 0
    <3>1. size \in Nat
      BY <1>1 DEF size
    <3> QED BY <3>1, <2>1, <1>3
  <2> QED BY <1>2, <2>1, <2>2
<1>11. CASE UNCHANGED vars
  BY <1>11, <1>3 DEF vars, Place
<1> QED BY <1>5, <1>6, <1>7, <1>8, <1>9, <1>10, <1>11 DEF Next

LEMMA InRingStep ==
  ASSUME InRing, calls \in 0..(Warmups + Samples), [Next]_vars
  PROVE  InRing' /\ calls' \in 0..(Warmups + Samples)
<1>1. Samples \in Nat \ {0} /\ Warmups = 8
  BY RowsAssumption DEF Warmups
<1>2. NextRow => pc' \in {"row", "done"}
  BY DEF NextRow
<1>3. CASE Calibrate
  BY <1>3 DEF Calibrate, InRing
<1>4. CASE SkipRow
  <2>1. pc = "row" /\ pc' \in {"row", "done"} /\ UNCHANGED <<calls, at, covered>>
    BY <1>2, <1>4 DEF SkipRow
  <2> QED BY <2>1 DEF InRing
<1>5. CASE AllocRow
  <2>1. calls' = 0 /\ at' = 0 /\ covered' = 0
    BY <1>5 DEF AllocRow
  <2> QED BY <1>1, <2>1 DEF InRing
<1>6. CASE Chase
  <2>1. /\ calls < Warmups + Samples /\ calls' = calls + 1
        /\ pc = "chase" /\ UNCHANGED <<row, pc>>
        /\ at' = EndsAt(Loads(Rows[row]), Rows[row].slots)
        /\ covered' = SlotsLoaded(Loads(Rows[row]), Rows[row].slots)
    BY <1>6 DEF Chase, MoreCalls
  <2>2. calls' \in 0..(Warmups + Samples) /\ calls' > 0
    BY <1>1, <2>1
  <2> QED BY <2>1, <2>2 DEF InRing
<1>7. CASE PrintRow
  BY <1>7 DEF PrintRow, InRing
<1>8. CASE FreeRow
  <2>1. pc' \in {"row", "done"} /\ calls' = calls /\ at' = 0 /\ covered' = 0
    BY <1>2, <1>8 DEF FreeRow
  <2> QED BY <2>1 DEF InRing
<1>9. CASE UNCHANGED vars
  BY <1>9 DEF vars, InRing
<1> QED BY <1>3, <1>4, <1>5, <1>6, <1>7, <1>8, <1>9 DEF Next

\* The pointer and the count of slots stay within the ring.
LEMMA InRingType ==
  ASSUME Place, InRing
  PROVE  at \in 0..(Rows[row].slots - 1) /\ covered \in 0..Rows[row].slots
<1> DEFINE slots == Rows[row].slots
           loads == Loads(Rows[row])
<1>1. slots \in Nat \ {0} /\ loads \in Nat \ {0}
  BY RowType, LoadsType DEF Place
<1>2. \/ at = EndsAt(loads, slots) /\ covered = SlotsLoaded(loads, slots)
      \/ at = 0 /\ covered = 0
  BY DEF InRing
<1> HIDE DEF slots, loads
<1>3. EndsAt(loads, slots) \in 0..(slots - 1)
  BY <1>1, DivMod DEF EndsAt
<1>4. SlotsLoaded(loads, slots) \in 0..slots
  BY <1>1 DEF SlotsLoaded
<1>5. at \in 0..(slots - 1) /\ covered \in 0..slots
  BY <1>1, <1>2, <1>3, <1>4
<1> QED BY <1>5 DEF slots

Baseline == baseline = IF pc = "calibrate" THEN 0 ELSE BaselineIters

LEMMA BaselineStep ==
  ASSUME Baseline, [Next]_vars
  PROVE  Baseline'
<1>1. NextRow => pc' \in {"row", "done"}
  BY DEF NextRow
<1>2. CASE Calibrate
  BY <1>2 DEF Calibrate, Baseline
<1>3. CASE SkipRow
  BY <1>1, <1>3 DEF SkipRow, Baseline
<1>4. CASE AllocRow
  BY <1>1, <1>4 DEF AllocRow, AfterFailure, Baseline
<1>5. CASE Chase \/ PrintRow
  BY <1>5 DEF Chase, PrintRow, Baseline
<1>6. CASE FreeRow
  BY <1>1, <1>6 DEF FreeRow, Baseline
<1>7. CASE UNCHANGED vars
  BY <1>7 DEF vars, Baseline
<1> QED BY <1>2, <1>3, <1>4, <1>5, <1>6, <1>7 DEF Next

\* SweepInv has these parts and no others.
LEMMA SweepParts ==
  ASSUME Place, Accounted, printed \in Nat, OneRingAtATime, InRing,
         calls \in 0..(Warmups + Samples), Baseline
  PROVE  SweepInv
<1>1. row \in 1..Len(Rows)
  BY DEF Place
<1>2. printed \in 0..Len(Rows)
  BY PrintedBound
<1>3. at \in 0..(Rows[row].slots - 1) /\ covered \in 0..Rows[row].slots
  BY InRingType
<1>4. baseline \in Nat
  BY DEF Baseline, BaselineIters
<1>5. mapped \in Nat
  BY <1>1, RoundedType DEF OneRingAtATime
<1>6. TypeOK
  BY <1>2, <1>3, <1>4, <1>5 DEF TypeOK, Place
<1>7. EveryRowPrinted
  BY DEF Accounted
<1> QED BY <1>6, <1>7 DEF SweepInv, Accounted, InRing, Baseline

\* The inductive invariant of a sweep, for every table and number of samples.
THEOREM SweepInvariant == Spec => []SweepInv
<1> DEFINE I == /\ Place /\ Accounted /\ printed \in Nat /\ OneRingAtATime /\ InRing
                /\ calls \in 0..(Warmups + Samples) /\ Baseline
<1>1. Init => I
  <2> SUFFICES ASSUME Init PROVE I
    OBVIOUS
  <2>1. Place /\ Accounted /\ printed \in Nat
    BY PlaceInit, AccountedInit
  <2>2. OneRingAtATime /\ InRing /\ Baseline
    BY DEF Init, OneRingAtATime, InRing, Baseline
  <2>3. calls \in 0..(Warmups + Samples)
    BY RowsAssumption DEF Init, Warmups
  <2> QED BY <2>1, <2>2, <2>3
<1>2. I /\ [Next]_vars => I'
  BY PlaceStep, AccountedStep, RingStep, InRingStep, BaselineStep
<1>3. I => SweepInv
  BY SweepParts
<1> HIDE DEF I
<1> QED BY <1>1, <1>2, <1>3, PTL DEF Spec

\* Every variable has its type in every reachable state, the pointer and the
\* count of covered slots within the ring of the row at hand.
THEOREM TypeCorrect == Spec => []TypeOK
<1>1. SweepInv => TypeOK
  BY DEF SweepInv
<1> QED BY <1>1, SweepInvariant, PTL

\* A row's ring is freed before the next one is mapped, whatever mmap fails
\* (alloc_aligned and free_ring in the row loops).
THEOREM OneRing == Spec => []OneRingAtATime
<1>1. SweepInv => OneRingAtATime
  BY DEF SweepInv
<1> QED BY <1>1, SweepInvariant, PTL

\* Whichever allocations fail, every row but those section A leaves out is
\* printed once, in turn.
THEOREM RowsAccounted == Spec => []EveryRowPrinted
<1>1. SweepInv => EveryRowPrinted
  BY DEF SweepInv
<1> QED BY <1>1, SweepInvariant, PTL

\* A call for a TLB row, or for a working set of up to 4 MiB, ends where it
\* began after loading from every slot.
THEOREM LapsAreWhole == Spec => []WholeLaps
<1>1. SweepInv => WholeLaps
  <2> SUFFICES ASSUME SweepInv, pc = "chase", calls > 0,
                      Rows[row].section # "A" \/ Rows[row].kib <= 4 * MiB
               PROVE  at = 0 /\ covered = Rows[row].slots
    BY DEF WholeLaps
  <2>1. row \in 1..Len(Rows)
    BY DEF SweepInv, TypeOK
  <2>2. /\ at = EndsAt(Loads(Rows[row]), Rows[row].slots)
        /\ covered = SlotsLoaded(Loads(Rows[row]), Rows[row].slots)
    BY DEF SweepInv
  <2> QED BY <2>1, <2>2, CallIsWholeLaps
<1> QED BY <1>1, SweepInvariant, PTL

\* What the empty loop's own iteration count adds to a load of any row's chase
\* is at most an eighth of an empty iteration.
THEOREM BaselineFitsAll == Spec => []BaselineFits
<1>1. SweepInv => BaselineFits
  <2> SUFFICES ASSUME SweepInv, pc = "print",
                      NEW extra \in {baseline - Iters(Rows[row]), Iters(Rows[row]) - baseline}
               PROVE  8 * extra <= Loads(Rows[row])
    BY DEF BaselineFits
  <2>1. baseline = 2048
    BY DEF SweepInv, BaselineIters
  <2>2. Iters(Rows[row]) \in {256, 512, 1024, 2048, 4096}
    <3>1. row \in 1..Len(Rows)
      BY DEF SweepInv, TypeOK
    <3> QED BY <3>1, IterRange
  <2>3. Loads(Rows[row]) = Iters(Rows[row]) * 64
    BY DEF Loads, OPS_PER_ITER
  <2> QED BY <2>1, <2>2, <2>3
<1> QED BY <1>1, SweepInvariant, PTL

-------------------------------------------------------------------------------
(* Between the two. *)

\* What MemorySweep takes a call of bench_chase for: how many of the ring's slots it
\* has loaded from, and how many links from the start of the ring it ends.
CallAsSwept ==
  stage = "chase" /\ load = CallLoads =>
    /\ Cardinality(seen) = SlotsLoaded(CallLoads, count)
    /\ \E s \in Slots : perm[s] = Base /\ p = At(s, EndsAt(CallLoads, count))

\* The sweeps' abstraction of a call, SlotsLoaded and EndsAt, is what the chase of a
\* ring of any size comes to, link by link, for any number of loads.
THEOREM CallsAreAsSwept == RingSpec => []CallAsSwept
<1>1. RingInv => CallAsSwept
  <2> SUFFICES ASSUME RingInv, stage = "chase", load = CallLoads
               PROVE  /\ Cardinality(seen) = SlotsLoaded(load, count)
                      /\ \E s \in Slots : perm[s] = Base /\ p = At(s, EndsAt(load, count))
    BY DEF CallAsSwept
  <2>1. count \in Nat \ {0} /\ load \in Nat /\ perm \in [Slots -> Slots] /\ Permutes
    BY CountsAssumption, ChaseAssumption DEF RingInv, RingTypeOK
  <2>2. PICK s \in Slots : Chasing(s)
    BY DEF RingInv
  <2>3. \A m \in Int : (s + m) % count \in Slots
    BY <2>1, RingPlace
  <2>4. \A m, n \in Int : (s + m) % count = (s + n) % count
                         /\ -count < m - n /\ m - n < count => m = n
    BY <2>1, Laps
  <2>5. CASE load < count
    <3> DEFINE f == [m \in 0..(load - 1) |-> At(s, m)]
    <3>1. seen = {At(s, m) : m \in 0..(load - 1)}
      BY <2>2 DEF Chasing
    <3>2. \A m \in 0..(load - 1) : m \in Int
      OBVIOUS
    <3>3. f \in [0..(load - 1) -> seen]
      BY <3>1
    <3>4. \A t \in seen : \E m \in 0..(load - 1) : f[m] = t
      BY <3>1
    <3>5. ASSUME NEW m \in 0..(load - 1), NEW n \in 0..(load - 1), f[m] = f[n]
          PROVE  m = n
      <4>1. perm[(s + m) % count] = perm[(s + n) % count]
        BY <3>5 DEF At
      <4>2. (s + m) % count = (s + n) % count
        BY <2>1, <2>3, <3>2, <4>1 DEF Permutes
      <4>3. -count < m - n /\ m - n < count
        BY <2>1, <2>5
      <4> QED BY <2>4, <3>2, <4>2, <4>3
    <3> HIDE DEF f
    <3>6. f \in Bijection(0..(load - 1), seen)
      BY <3>3, <3>4, <3>5 DEF Bijection, Injection, IsInjective, Surjection
    <3>7. IsFiniteSet(0..(load - 1)) /\ Cardinality(0..(load - 1)) = load
      <4>1. 0 \in Int /\ load - 1 \in Int
        BY <2>1
      <4>2. /\ IsFiniteSet(0..(load - 1))
            /\ Cardinality(0..(load - 1)) = IF 0 > load - 1 THEN 0 ELSE (load - 1) - 0 + 1
        BY <4>1, FS_Interval
      <4> QED BY <2>1, <4>2
    <3>8. Cardinality(seen) = load
      BY <3>6, <3>7, FS_Bijection DEF ExistsBijection
    <3>9. load % count = load
      <4>1. load \in 0..(count - 1)
        BY <2>1, <2>5
      <4> QED BY <2>1, <4>1, ModSmall
    <3> QED BY <2>2, <2>5, <3>8, <3>9 DEF Chasing, SlotsLoaded, EndsAt
  <2>6. CASE load >= count
    <3>1. seen = Slots
      <4>1. VisitsAllOnce
        BY RingVisits
      <4> QED BY <2>6, <4>1 DEF VisitsAllOnce
    <3>2. Cardinality(Slots) = count
      <4>1. 0 \in Int /\ count - 1 \in Int
        BY <2>1
      <4>2. Cardinality(0..(count - 1)) = IF 0 > count - 1 THEN 0 ELSE (count - 1) - 0 + 1
        BY <4>1, FS_Interval
      <4> QED BY <2>1, <4>2 DEF Slots
    <3>3. At(s, load % count) = At(s, load)
      <4> DEFINE r == load % count
      <4>1. r \in 0..(count - 1)
        BY <2>1, DivMod
      <4>2. r % count = load % count
        BY <2>1, <4>1, ModSmall
      <4>3. r \in Int /\ s \in Int /\ load \in Int /\ r + s = s + r /\ load + s = s + load
        BY <2>1, <4>1 DEF Slots
      <4>4. \A a, b, c \in Int : a % count = b % count => (a + c) % count = (b + c) % count
        BY <2>1, ModAdd
      <4> HIDE DEF r
      <4>5. (s + r) % count = (s + load) % count
        BY <4>2, <4>3, <4>4
      <4> QED BY <4>5 DEF At, r
    <3> QED BY <2>1, <2>2, <2>6, <3>1, <3>2, <3>3 DEF Chasing, SlotsLoaded, EndsAt
  <2> QED BY <2>1, <2>5, <2>6
<1> QED BY <1>1, RingInvariant, PTL

===============================================================================
