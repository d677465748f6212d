---------------------------------- MODULE Ring ----------------------------------
(***************************************************************************)
(* The pointer ring of src/uops_memory.cpp (and, with the same algorithm,  *)
(* of the latency, throughput, op2op and PMC harnesses): ring_alloc,       *)
(* init_ring_in_buffer and the dependent chase of run_chase.               *)
(*                                                                         *)
(* A slot is its number; the byte addresses base + slot * stride do not    *)
(* overlap because ring_alloc refuses a stride below a pointer's size.     *)
(* The LCG that drives the shuffle is abstracted to any j in 0..i.         *)
(***************************************************************************)
EXTENDS Integers

CONSTANTS
  Counts,     \* the slot counts a caller may ask for, 0 included
  CallLoads,  \* loads of one bench_chase call: iters * OPS_PER_ITER
  Passes      \* bench_chase calls of one run_chase: 8 warmups and the samples

ASSUME CountsAssumption == Counts \subseteq Nat
ASSUME ChaseAssumption == CallLoads \in Nat /\ Passes \in Nat \ {0}

VARIABLES
  stage,      \* "alloc", "shuffle", "link", "chase", "done" or "failed"
  count,      \* r.count
  perm,       \* the permutation being shuffled
  i,          \* the loop variable of the shuffle and link loops
  next,       \* the slots' contents: the slot pointed to, or Null
  p,          \* the chased pointer
  load,       \* loads of the current bench_chase call
  pass,       \* bench_chase calls completed
  seen,       \* ghost: the slots loaded from in the current call
  first       \* ghost: the slots loaded from in the first call

ringVars == <<stage, count, perm, i, next, p, load, pass, seen, first>>

Slots == 0..(count - 1)

Null == -1    \* what a fresh, zero-filled page holds

Base == 0     \* r.base is the address of slot 0

RingInit ==
  /\ stage = "alloc"
  /\ count \in Counts
  /\ perm = [s \in Slots |-> s]
  /\ next = [s \in Slots |-> Null]
  /\ i = 0 /\ p = Base /\ load = 0 /\ pass = 0
  /\ seen = {} /\ first = {}

\* Mutation: ring_alloc does not look at the count.
HasSlotsUnchecked == TRUE

HasSlots == count # 0

\* ring_alloc: no slots, no ring; mmap may fail; else the shuffle starts from
\* the identity at the last index.
Alloc ==
  /\ stage = "alloc"
  /\ \/ /\ HasSlots
        /\ stage' = "shuffle" /\ i' = count - 1
     \/ /\ stage' = "failed" /\ i' = i
  /\ UNCHANGED <<count, perm, next, p, load, pass, seen, first>>

\* Mutation: the element is copied, not swapped.
CopyOnly(f, a, b) == [f EXCEPT ![a] = f[b]]

Swap(f, a, b) == [f EXCEPT ![a] = f[b], ![b] = f[a]]

Shuffle ==
  /\ stage = "shuffle"
  /\ \/ /\ i > 0
        /\ \E j \in 0..i : perm' = Swap(perm, i, j)
        /\ i' = i - 1 /\ stage' = stage
     \/ /\ i = 0
        /\ stage' = "link" /\ UNCHANGED <<i, perm>>
  /\ UNCHANGED <<count, next, p, load, pass, seen, first>>

\* Mutations: the last slot does not close the ring; the permutation itself is
\* taken for the successor function.
SuccessorOpen(k) == perm[IF k + 1 < count THEN k + 1 ELSE k]
SuccessorOfSlot(k) == perm[perm[k]]

\* The slot that the slot perm[k] points to.
Successor(k) == perm[(k + 1) % count]

Link ==
  /\ stage = "link"
  /\ \/ /\ i < count
        /\ next' = [next EXCEPT ![perm[i]] = Successor(i)]
        /\ i' = i + 1 /\ UNCHANGED stage
     \/ /\ i = count
        /\ stage' = "chase" /\ UNCHANGED <<next, i>>
  /\ UNCHANGED <<count, perm, p, load, pass, seen, first>>

\* One movq (p), p.
Load ==
  /\ stage = "chase" /\ load < CallLoads
  /\ p' = next[p]
  /\ load' = load + 1
  /\ seen' = seen \cup {p}
  /\ UNCHANGED <<stage, count, perm, i, next, pass, first>>

\* Mutation: the next call goes on where this one stopped.
RestartHere == p

\* run_chase passes the same start to every call.
Restart == Base

EndPass ==
  /\ stage = "chase" /\ load = CallLoads
  /\ pass' = pass + 1
  /\ stage' = IF pass' = Passes THEN "done" ELSE "chase"
  /\ p' = Restart /\ load' = 0 /\ seen' = {}
  /\ first' = IF pass = 0 THEN seen ELSE first
  /\ UNCHANGED <<count, perm, i, next>>

RingNext == Alloc \/ Shuffle \/ Link \/ Load \/ EndPass

RingSpec == RingInit /\ [][RingNext]_ringVars

-------------------------------------------------------------------------------

RingTypeOK ==
  /\ stage \in {"alloc", "shuffle", "link", "chase", "done", "failed"}
  /\ count \in Counts
  /\ perm \in [Slots -> Slots]
  /\ next \in [Slots -> Slots \cup {Null}]
  /\ i \in 0..count
  /\ p \in Slots \cup {Base}
  /\ load \in 0..CallLoads /\ pass \in 0..Passes
  /\ seen \subseteq Slots /\ first \subseteq Slots

\* The comment at init_ring_in_buffer: a dependent chase visits all slots
\* exactly once before it returns to the start.  No load repeats a slot before
\* every slot has been loaded from, and the pointer is back at the start
\* exactly after whole laps.
VisitsAllOnce ==
  stage = "chase" =>
    /\ load < count => p \notin seen
    /\ load >= count => seen = Slots
    /\ p = Base <=> load % count = 0

\* Every bench_chase call of run_chase, warmup or sample, loads from the same
\* slots, so that the samples the median is taken of measure the same work.
SameWork == stage = "chase" /\ load = CallLoads /\ pass > 0 => seen = first

\* The slot m links after perm[s].
At(s, m) == perm[(s + m) % count]

Permutes == /\ \A a, b \in Slots : perm[a] = perm[b] => a = b
            /\ \A t \in Slots : \E k \in Slots : perm[k] = t

\* The first n links are in place.
Linked(n) == \A k \in 0..(n - 1) : next[perm[k]] = Successor(k)

\* A chase whose start, Base, is the slot perm[s].
Chasing(s) == /\ perm[s] = Base
              /\ p = At(s, load)
              /\ seen = {At(s, m) : m \in 0..(load - 1)}
              /\ pass > 0 => first = {At(s, m) : m \in 0..(CallLoads - 1)}

\* The inductive invariant behind VisitsAllOnce and SameWork.
RingInv ==
  /\ RingTypeOK
  /\ stage = "alloc" => perm = [s \in Slots |-> s]
  /\ stage \in {"alloc", "shuffle", "link"} => p = Base /\ seen = {} /\ load = 0 /\ pass = 0
  /\ stage \in {"shuffle", "link", "chase"} => count > 0 /\ Permutes
  /\ stage = "shuffle" => i \in Slots
  /\ stage = "link" => Linked(i)
  /\ stage = "chase" =>
       /\ Linked(count) /\ pass < Passes
       /\ \E s \in Slots : Chasing(s)

===============================================================================
