------------------------------ MODULE MemorySweep ------------------------------
(***************************************************************************)
(* Sections A and B of src/uops_memory.cpp: main measures an empty loop,   *)
(* whose time is subtracted everywhere, and for each row of a table a      *)
(* ring is allocated and chased, first to warm up and then for the         *)
(* samples.  The ring is not walked link by link: a call that makes m      *)
(* loads from the start has loaded from m different slots, or from all of  *)
(* them, and is back at the start after whole laps (ChaseProofs proves it  *)
(* of Ring, as CallsAreAsSwept).                                           *)
(* Sizes are in KiB.  touch_buffer only reads, and is not modelled.        *)
(***************************************************************************)
EXTENDS Integers, Sequences, FiniteSets

CONSTANTS
  Rows,       \* the tables: [section : {"A", "B1", "B2"}, slots, kib]
  Samples     \* samples per row

ASSUME RowsAssumption ==
  /\ Rows \in Seq([section : {"A", "B1", "B2"}, slots : Nat \ {0}, kib : Nat \ {0}])
  /\ Rows # <<>>
  /\ Samples \in Nat \ {0}

VARIABLES
  row,        \* the row of the tables
  pc,         \* "calibrate", "row", "chase", "print" or "done"
  baseline,   \* iterations of the empty loop in the EmptyMedians
  mapped,     \* KiB mapped for rings
  calls,      \* bench_chase calls of the row
  at,         \* the pointer after the last call, in links from the start
  covered,    \* slots of the ring that calls have loaded from
  printed     \* lines printed

vars == <<row, pc, baseline, mapped, calls, at, covered, printed>>

MiB == 1024
OPS_PER_ITER == 64
Warmups == 8

\* The tables' sizes are powers of two: the slots divide those of a working set of
\* 4 MiB in section A, and the most pages of any TLB row.
ASSUME TablesAssumption ==
  \A k \in 1..Len(Rows) :
    IF Rows[k].section = "A" THEN Rows[k].kib <= 4 * MiB => 65536 % Rows[k].slots = 0
                             ELSE 16384 % Rows[k].slots = 0

Init ==
  /\ row = 1 /\ pc = "calibrate" /\ baseline = 0
  /\ mapped = 0 /\ calls = 0 /\ at = 0 /\ covered = 0 /\ printed = 0

\* Mutation: as many iterations as in src/uops_research.cpp.
BaselineOfResearch == 100000

BaselineIters == 2048

\* calibrate_empty, once and for all rows.
Calibrate ==
  /\ pc = "calibrate" /\ pc' = "row"
  /\ baseline' = BaselineIters
  /\ UNCHANGED <<row, mapped, calls, at, covered, printed>>

\* Mutation: half the iterations, or fewer.
ChooseFewerIters(kib) == CASE kib <= 256      -> 2048
                           [] kib <= 4 * MiB  -> 512
                           [] OTHER           -> 128

choose_iters(kib) == CASE kib <= 256                           -> 4096
                       [] 256 < kib /\ kib <= 4 * MiB          -> 2048
                       [] 4 * MiB < kib /\ kib <= 32 * MiB     -> 1024
                       [] 32 * MiB < kib /\ kib <= 128 * MiB   -> 512
                       [] kib > 128 * MiB                      -> 256

\* The sub-sweep over 2 MiB pages has a rule of its own.
Iters(r) ==
  IF r.section = "B2" THEN IF r.kib >= 256 * MiB THEN 256 ELSE 512
                      ELSE choose_iters(r.kib)

Loads(r) == Iters(r) * OPS_PER_ITER

\* alloc_aligned rounds up to 2 MiB.
Rounded(kib) == ((kib + 2 * MiB - 1) \div (2 * MiB)) * (2 * MiB)

NextRow == IF row < Len(Rows) THEN row' = row + 1 /\ pc' = "row"
                              ELSE row' = row /\ pc' = "done"

\* Section A leaves out rings of fewer than 8 slots.
TooSmall(r) == r.section = "A" /\ r.slots < 8

SkipRow ==
  /\ pc = "row" /\ TooSmall(Rows[row])
  /\ NextRow
  /\ UNCHANGED <<baseline, mapped, calls, at, covered, printed>>

\* Mutation: a row whose mmap failed ends the sweep.
BreakOff == row' = row /\ pc' = "done"

AfterFailure == NextRow

AllocRow ==
  /\ pc = "row" /\ ~TooSmall(Rows[row])
  /\ \/ /\ mapped' = mapped + Rounded(Rows[row].kib)
        /\ pc' = "chase" /\ UNCHANGED <<row, printed>>
     \/ /\ printed' = printed + 1
        /\ AfterFailure /\ UNCHANGED mapped
  /\ calls' = 0 /\ at' = 0 /\ covered' = 0
  /\ UNCHANGED baseline

\* How many of the slots a call loads from, and where it ends.
SlotsLoaded(loads, slots) == IF loads < slots THEN loads ELSE slots
EndsAt(loads, slots) == loads % slots

\* Mutation: `i <= samples'.
OneSampleMore == calls <= Warmups + Samples

\* The loops of run_chase over warmups and samples go on.
MoreCalls == calls < Warmups + Samples

\* One call of bench_chase.  Every call starts from r.base, so that the calls of
\* a row load from the same slots (Ring!SameWork).
Chase ==
  /\ pc = "chase" /\ MoreCalls
  /\ calls' = calls + 1
  /\ at' = EndsAt(Loads(Rows[row]), Rows[row].slots)
  /\ covered' = SlotsLoaded(Loads(Rows[row]), Rows[row].slots)
  /\ UNCHANGED <<baseline, row, pc, mapped, printed>>

PrintRow ==
  /\ pc = "chase" /\ ~MoreCalls
  /\ printed' = printed + 1
  /\ pc' = "print"
  /\ UNCHANGED <<baseline, row, mapped, calls, at, covered>>

\* Mutation: the ring of a printed row is not freed.
MappedStill == mapped

MappedAfterFree == mapped - Rounded(Rows[row].kib)

FreeRow ==
  /\ pc = "print"
  /\ mapped' = MappedAfterFree
  /\ at' = 0 /\ covered' = 0
  /\ NextRow
  /\ UNCHANGED <<baseline, calls, printed>>

Next == Calibrate \/ SkipRow \/ AllocRow \/ Chase \/ PrintRow \/ FreeRow

Spec == Init /\ [][Next]_vars

-------------------------------------------------------------------------------

TypeOK ==
  /\ row \in 1..Len(Rows)
  /\ pc \in {"calibrate", "row", "chase", "print", "done"}
  /\ baseline \in Nat
  /\ mapped \in Nat /\ calls \in 0..(Warmups + Samples)
  /\ at \in 0..(Rows[row].slots - 1) /\ covered \in 0..Rows[row].slots
  /\ printed \in 0..Len(Rows)

\* At most one ring exists at a time, whichever rows failed: the process never
\* holds more than the largest working set of the tables.
OneRingAtATime ==
  mapped = IF pc \in {"chase", "print"} THEN Rounded(Rows[row].kib) ELSE 0

\* The rows up to last that section A leaves out.
LeftOut(last) == Cardinality({r \in 1..last : TooSmall(Rows[r])})

\* A row is accounted for, by a result or by "mmap failed", before the next one
\* begins: a failing allocation costs its own row only.
EveryRowPrinted ==
  /\ pc = "row" => printed + LeftOut(row - 1) = row - 1
  /\ pc = "done" => printed + LeftOut(Len(Rows)) = Len(Rows)

\* A sample of a TLB row, or of a working set of up to 4 MiB, is a whole number
\* of laps over the whole ring, so ns per load is an average over all of its
\* slots.
WholeLaps ==
  pc = "chase" /\ calls > 0 /\ (Rows[row].section # "A" \/ Rows[row].kib <= 4 * MiB) =>
    at = 0 /\ covered = Rows[row].slots

\* The empty loop is measured with one number of iterations and subtracted from
\* chases with other numbers: what that adds to a load, or takes from it, is never
\* more than an eighth of an empty iteration.
BaselineFits ==
  pc = "print" =>
    \A extra \in {baseline - Iters(Rows[row]), Iters(Rows[row]) - baseline} :
      8 * extra <= Loads(Rows[row])

\* The inductive invariant behind these: how far the rows are accounted for at
\* each place, and what the calls of a row have in common.
SweepInv ==
  /\ TypeOK /\ OneRingAtATime /\ EveryRowPrinted
  /\ baseline = IF pc = "calibrate" THEN 0 ELSE BaselineIters
  /\ pc \in {"calibrate", "chase"} => printed + LeftOut(row - 1) = row - 1
  /\ pc = "print" => printed + LeftOut(row - 1) = row
  /\ pc \in {"chase", "print"} => ~TooSmall(Rows[row])
  /\ IF pc \in {"chase", "print"} /\ calls > 0
       THEN /\ at = EndsAt(Loads(Rows[row]), Rows[row].slots)
            /\ covered = SlotsLoaded(Loads(Rows[row]), Rows[row].slots)
       ELSE at = 0 /\ covered = 0

===============================================================================
