------------------------------- MODULE RdpmcProbe -------------------------------
(***************************************************************************)
(* The Windows probes src/uops_latency.cpp and src/uops_research.cpp, which *)
(* share this code: a thread pins itself, tries whether rdpmc of the fixed *)
(* cycle counter works in user mode - an exception handler skips it if it  *)
(* does not - and then measures an empty loop and the benchmarks with that *)
(* counter, or else with the cycles that Windows accounts to the thread.   *)
(*                                                                         *)
(* A processor core counts its own cycles, whichever thread runs.  A       *)
(* driver or a trace session may stop, block or preset the counters at any *)
(* time; an interrupted thread may continue on any CPU of its mask.        *)
(***************************************************************************)
EXTENDS Integers, Sequences, FiniteSets, Median

CONSTANTS
  Cpus,          \* the logical CPUs of the host
  MaskBits,      \* bits of a DWORD_PTR
  Requests,      \* what the command line may ask for
  HwSize,        \* values of the counter: 2^48
  WordSize,      \* values of a uint64_t
  FirstModes,    \* how the counters may be set up at the start
  FirstCounts,   \* where they may stand then
  Loop,          \* Loop[c]: cycles of an empty measurement on CPU c
  Work,          \* Work[b][c]: cycles that benchmark b takes besides
  Spin,          \* cycles of the loop of detection
  Noise,         \* cycles of what comes in between
  EmptyWarmups, BenchWarmups, Samples,
  MaxDisturb,    \* bound: interruptions
  MaxReprogram   \* bound: changes of a counter by others

ASSUME CpusAssumption == Cpus \subseteq Nat /\ Cpus # {} /\ Requests \subseteq Nat
ASSUME SizesAssumption ==
  /\ MaskBits \in Nat \ {0} /\ HwSize \in Nat \ {0} /\ WordSize \in Nat
  /\ HwSize <= WordSize
  /\ FirstCounts \subseteq 0..(HwSize - 1)
ASSUME CyclesAssumption ==
  /\ Loop \in [Cpus -> Nat] /\ Work \in Seq([Cpus -> Nat])
  /\ Spin \in Nat \ {0} /\ Noise \in Nat
ASSUME CountsAssumption ==
  /\ {EmptyWarmups, BenchWarmups, MaxDisturb, MaxReprogram} \subseteq Nat
  /\ Samples \in Nat \ {0}

\* rdpmc answers a running or a standing counter, or traps.
Modes == {"counting", "stopped", "blocked"}

ASSUME ModesAssumption == FirstModes \subseteq [Cpus -> Modes]

VARIABLES
  requested, pinned,     \* logical_cpu and what pin_to_logical_cpu answered
  affinity, cpu,         \* where the thread may run and where it does
  mode, counter,         \* per CPU: what rdpmc does, and the counter
  pc, step,              \* the place in the program, and in read_rdpmc
  faulted,               \* rdpmc_faulted
  value,                 \* eax and edx after rdpmc
  first, last,           \* a and b of the detection, pc0 and pc1 of a sample
  available,             \* rdpmc_fixed_core_available
  bench,                 \* the empty loop, 0, or the benchmark
  spent,                 \* thread cycles since the measurement began
  calls, samples,        \* measurements made, and the clock's differences
  empty, result,         \* twice the medians
  truth, clean, bad, badEmpty, disturbs, reprograms   \* ghosts and bounds

place == <<requested, pinned, affinity>>
hw == <<mode, counter>>
reading == <<step, faulted, value, truth>>
bounds == <<disturbs, reprograms>>
stats == <<bench, calls, samples, empty, result, bad, badEmpty>>
vars == <<place, cpu, hw, pc, reading, first, last, available, spent, clean, stats, bounds>>

Reads == {"a", "b", "pc0", "pc1"}
Places == {"pin", "spin", "start", "run", "record", "medians", "print", "done"} \cup Reads

Init ==
  /\ requested \in Requests /\ pinned = FALSE
  /\ affinity = Cpus /\ cpu \in Cpus
  /\ mode \in FirstModes /\ counter \in [Cpus -> FirstCounts]
  /\ pc = "pin" /\ step = "reset"
  /\ faulted = FALSE /\ value = 0 /\ first = 0 /\ last = 0 /\ available = FALSE
  /\ bench = 0 /\ spent = 0 /\ calls = 0 /\ samples = <<>> /\ empty = 0 /\ result = 0
  /\ truth = 0 /\ clean = TRUE /\ bad = {} /\ badEmpty = {} /\ disturbs = 0 /\ reprograms = 0

-------------------------------------------------------------------------------
(* Pinning. *)

\* Mutation: a shift by more bits than the mask has, which the processor takes
\* modulo its width.
MaskUnchecked(n) == {n % MaskBits} \cap Cpus

\* The CPUs of the affinity mask; none if it cannot be formed or names no CPU.
Mask(n) == IF n < MaskBits THEN {n} \cap Cpus ELSE {}

\* main goes on whether or not it is pinned.
Pin ==
  /\ pc = "pin" /\ pc' = "a"
  /\ \/ /\ Mask(requested) # {}
        /\ pinned' = TRUE /\ affinity' = Mask(requested) /\ cpu' \in affinity'
     \/ UNCHANGED <<pinned, affinity, cpu>>
  /\ UNCHANGED <<requested, hw, reading, first, last, available, spent, clean, stats, bounds>>

-------------------------------------------------------------------------------
(* read_rdpmc, in four steps, and what is done with the answer.             *)

\* Mutation: the flag is left as the read before left it.
ResetFlagNot == faulted

FlagAtReset == FALSE

Reset ==
  /\ pc \in Reads /\ step = "reset" /\ step' = "rdpmc"
  /\ faulted' = FlagAtReset
  /\ UNCHANGED <<place, cpu, hw, pc, value, truth, first, last, available, spent, clean, stats, bounds>>

\* The instruction traps where user mode may not use it; eax and edx, outputs of
\* the asm statement, then hold whatever they held.
Rdpmc ==
  /\ pc \in Reads /\ step = "rdpmc"
  /\ IF mode[cpu] = "blocked"
       THEN step' = "trap" /\ value' \in FirstCounts /\ truth' = 0
       ELSE step' = "answer" /\ value' = counter[cpu] /\ truth' = counter[cpu]
  /\ UNCHANGED <<place, cpu, hw, pc, faulted, first, last, available, spent, clean, stats, bounds>>

\* Mutation: Rip is left at the instruction.
ResumeSame == "rdpmc"

\* Rip += 2: the thread continues behind the instruction.
ResumeAt == "answer"

\* rdpmc_exception_handler.
Handle ==
  /\ pc \in Reads /\ step = "trap" /\ step' = ResumeAt
  /\ faulted' = TRUE
  /\ UNCHANGED <<place, cpu, hw, pc, value, truth, first, last, available, spent, clean, stats, bounds>>

Answer == IF faulted THEN 0 ELSE value

\* What read_rdpmc returns to its caller at p, which goes on at q.
Answered(p, q) ==
  /\ pc = p /\ step = "answer"
  /\ pc' = q /\ step' = "reset" /\ value' = 0 /\ truth' = 0

-------------------------------------------------------------------------------
(* detect_rdpmc_fixed_core. *)

DetectFirst ==
  /\ Answered("a", IF faulted THEN "start" ELSE "spin")
  /\ first' = Answer
  /\ UNCHANGED <<place, cpu, hw, faulted, last, available, spent, clean, stats, bounds>>

\* Cycles pass on the thread's CPU, and are counted there if its counter counts.
Advance(n) ==
  counter' = IF mode[cpu] = "counting"
               THEN [counter EXCEPT ![cpu] = (@ + n) % HwSize] ELSE counter

DetectSpin ==
  /\ pc = "spin" /\ pc' = "b"
  /\ Advance(Spin)
  /\ UNCHANGED <<place, cpu, mode, reading, first, last, available, spent, clean, stats, bounds>>

\* Mutation: a counter that answers is taken for one that counts.
CountsIfAnswers == ~faulted

Counts == ~faulted /\ Answer > first

DetectSecond ==
  /\ Answered("b", "start")
  /\ available' = Counts
  /\ first' = 0
  /\ UNCHANGED <<place, cpu, hw, faulted, last, spent, clean, stats, bounds>>

-------------------------------------------------------------------------------
(* measure_once and the loops around it. *)

Warmups(b) == IF b = 0 THEN EmptyWarmups ELSE BenchWarmups

\* Cycles of a measurement.
Cost(b, c) == Loop[c] + IF b = 0 THEN 0 ELSE Work[b][c]

\* The thread's cycles are read; a counter that does not count now spoils what
\* is measured with it.
Start ==
  /\ pc = "start" /\ pc' = IF available THEN "pc0" ELSE "run"
  /\ spent' = 0
  /\ clean' = (available => mode[cpu] = "counting")
  /\ UNCHANGED <<place, cpu, hw, reading, first, last, available, stats, bounds>>

ReadBefore ==
  /\ Answered("pc0", "run")
  /\ first' = Answer
  /\ UNCHANGED <<place, cpu, hw, faulted, last, available, spent, clean, stats, bounds>>

\* Nothing masks the difference to 48 bits: a sample in which the counter
\* starts again from 0 is lost.
Run ==
  /\ pc = "run" /\ pc' = IF available THEN "pc1" ELSE "record"
  /\ Advance(Cost(bench, cpu))
  /\ spent' = spent + Cost(bench, cpu)
  /\ clean' = (clean /\ (available => counter[cpu] + Cost(bench, cpu) < HwSize))
  /\ UNCHANGED <<place, cpu, mode, reading, first, last, available, stats, bounds>>

ReadAfter ==
  /\ Answered("pc1", "record")
  /\ last' = Answer
  /\ UNCHANGED <<place, cpu, hw, faulted, first, available, spent, clean, stats, bounds>>

\* Mutation: a signed difference.
SignedClock == IF available THEN last - first ELSE spent

\* The clock of a sample: the counter's uint64_t difference, or thread cycles.
Clock == IF available THEN (last - first) % WordSize ELSE spent

\* The results of warmups are dropped.
Record ==
  /\ pc = "record"
  /\ calls' = calls + 1
  /\ IF calls < Warmups(bench)
       THEN UNCHANGED <<samples, bad>>
       ELSE /\ samples' = Append(samples, Clock)
            /\ bad' = IF clean THEN bad ELSE bad \cup {Len(samples) + 1}
  /\ pc' = IF Len(samples') = Samples THEN "medians" ELSE "start"
  /\ first' = 0 /\ last' = 0 /\ spent' = 0 /\ clean' = TRUE
  /\ UNCHANGED <<place, cpu, hw, reading, available, bench, empty, result, badEmpty, bounds>>

\* Where main goes after benchmark b: the rest of the table, in its order.
NextBench(b) ==
  /\ bench' = IF b < Len(Work) THEN b + 1 ELSE b
  /\ pc' = IF b < Len(Work) THEN "start" ELSE "done"

\* The medians of the empty loop are kept for all benchmarks.
Medians ==
  /\ pc = "medians"
  /\ IF bench = 0
       THEN /\ empty' = TwiceMedian(samples) /\ badEmpty' = bad /\ bad' = {}
            /\ NextBench(0) /\ UNCHANGED result
       ELSE /\ result' = TwiceMedian(samples) - empty
            /\ pc' = "print" /\ UNCHANGED <<bench, empty, bad, badEmpty>>
  /\ calls' = 0 /\ samples' = <<>>
  /\ UNCHANGED <<place, cpu, hw, reading, first, last, available, spent, clean, bounds>>

PrintRow ==
  /\ pc = "print"
  /\ NextBench(bench)
  /\ result' = 0 /\ bad' = {}
  /\ UNCHANGED <<place, cpu, hw, reading, first, last, available, spent, clean,
                 calls, samples, empty, badEmpty, bounds>>

Program == \/ Pin \/ Reset \/ Rdpmc \/ Handle
           \/ DetectFirst \/ DetectSpin \/ DetectSecond
           \/ Start \/ ReadBefore \/ Run \/ ReadAfter \/ Record \/ Medians \/ PrintRow

-------------------------------------------------------------------------------
(* What else happens (external). *)

\* The places where it makes a difference: before a counter is read or counts.
Interruptible == step = "rdpmc" \/ pc \in {"spin", "run"}

\* Another thread runs on the CPU: the counter counts its cycles, and this
\* thread's caches are cold when it continues, maybe on another CPU.
Preempt ==
  /\ Interruptible /\ disturbs < MaxDisturb
  /\ disturbs' = disturbs + 1
  /\ Advance(Noise)
  /\ cpu' \in affinity
  /\ spent' = spent + Noise
  /\ clean' = FALSE
  /\ UNCHANGED <<place, mode, pc, reading, first, last, available, stats, reprograms>>

\* A driver or a trace session sets the counters of all CPUs.
Reprogram ==
  /\ Interruptible /\ reprograms < MaxReprogram
  /\ reprograms' = reprograms + 1
  /\ \E m \in Modes, v \in FirstCounts :
       /\ mode' = [c \in Cpus |-> m]
       /\ counter' = [c \in Cpus |-> v]
  /\ clean' = (clean /\ ~available)
  /\ UNCHANGED <<place, cpu, pc, reading, first, last, available, spent, stats, disturbs>>

Next == Program \/ Preempt \/ Reprogram

Spec == Init /\ [][Next]_vars

\* The thread keeps running; nothing is assumed of the others.
FairSpec == Spec /\ WF_vars(Program)

-------------------------------------------------------------------------------

Counts48 == 0..(HwSize - 1)

TypeOK ==
  /\ requested \in Requests /\ pinned \in BOOLEAN
  /\ affinity \in SUBSET Cpus /\ cpu \in affinity
  /\ mode \in [Cpus -> Modes] /\ counter \in [Cpus -> Counts48]
  /\ pc \in Places /\ step \in {"reset", "rdpmc", "trap", "answer"}
  /\ faulted \in BOOLEAN /\ available \in BOOLEAN /\ clean \in BOOLEAN
  /\ value \in Counts48 /\ truth \in Counts48 /\ first \in Counts48 /\ last \in Counts48
  /\ bench \in 0..Len(Work) /\ spent \in Nat /\ calls \in Nat
  /\ samples \in Seq(Nat) /\ Len(samples) <= Samples
  /\ empty \in Int /\ result \in Int
  /\ bad \subseteq 1..Samples /\ badEmpty \subseteq 1..Samples
  /\ disturbs \in 0..MaxDisturb /\ reprograms \in 0..MaxReprogram

\* read_rdpmc answers the counter of the CPU that executed the instruction, or 0
\* if it trapped: neither a flag that an earlier read left behind nor what the
\* registers held before can become an answer.
AnswersOwnRead == step = "answer" => Answer = truth

\* "pinned=yes" in the header means the CPU that the header names, also for
\* numbers beyond the bits of a mask.
PinnedIsRequested == pinned => affinity = {requested} /\ cpu = requested

\* If the header calls rdpmc_core_cycles the primary column, and nobody has
\* touched the counters, then the counter of the CPU it is pinned to counts:
\* a counter that only answers is found out by the loop between the two reads.
DetectedCounterCounts ==
  available /\ pinned /\ reprograms = 0 => mode[cpu] = "counting"

\* The primary column of a pinned probe is the benchmark's own cycles on that
\* CPU, whichever clock was detected, although samples of the empty loop and of
\* the benchmark were interrupted, trapped, met a stopped or preset counter or
\* its end at 48 bits, as long as these are fewer than half of either.
MedianIsWork ==
  pc = "print" /\ pinned
  /\ 2 * Cardinality(bad) < Samples /\ 2 * Cardinality(badEmpty) < Samples
  => result = 2 * Work[bench][cpu]

\* The probe ends wherever rdpmc traps: the handler does not come back to the
\* same instruction.
ProbeEnds == <>(pc = "done")

===============================================================================
