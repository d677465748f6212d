---------------------------- MODULE RdpmcProbeProofs ----------------------------
(***************************************************************************)
(* Theorems about RdpmcProbe for every host, table of benchmarks, number   *)
(* of samples, counter width and number of disturbances.  The inductive    *)
(* invariant says, besides the types, what a read has found so far, where  *)
(* a pinned thread is, what the detection knows of a counter that stands   *)
(* still, what the clock of an undisturbed measurement shows, and so what  *)
(* the samples and the medians are.                                        *)
(***************************************************************************)
EXTENDS RdpmcProbe, Facts, TLAPS

\* The places in which samples are collected.
Measuring == {"start", "pc0", "run", "pc1", "record", "medians"}

\* The answer of read_rdpmc is the counter's, as nothing that makes a difference
\* comes between the instruction and the answer.
ReadInv ==
  /\ pc \notin Reads => step = "reset"
  /\ step = "rdpmc" => ~faulted
  /\ step = "trap" => truth = 0 /\ mode[cpu] = "blocked"
  /\ step = "answer" =>
       /\ Answer = truth
       /\ IF faulted THEN mode[cpu] = "blocked" ELSE mode[cpu] # "blocked" /\ value = counter[cpu]

\* A pinned thread is on the CPU asked for and may run nowhere else.
PinInv == pinned => affinity = {requested} /\ cpu = requested

\* A counter that stands still is at the same value at both reads.
DetectInv ==
  /\ pc \in {"pin", "a", "spin", "b"} => ~available
  /\ pc \in {"pc0", "pc1"} => available
  /\ pinned /\ reprograms = 0 =>
       /\ pc \in {"spin", "b"} /\ mode[cpu] # "counting" => first = counter[cpu]
       /\ available => mode[cpu] = "counting"

\* What the clock has seen of an undisturbed measurement.
ClockInv ==
  pinned /\ clean =>
    /\ pc = "pc0" => mode[cpu] = "counting"
    /\ pc = "run" => IF available THEN mode[cpu] = "counting" /\ first = counter[cpu] ELSE spent = 0
    /\ pc = "pc1" => mode[cpu] = "counting" /\ counter[cpu] = first + Cost(bench, cpu)
    /\ pc = "record" => IF available THEN last = first + Cost(bench, cpu)
                                      ELSE spent = Cost(bench, cpu)

\* All samples outside of bad are those of an undisturbed measurement.
SampleInv ==
  /\ pc \notin Measuring => samples = <<>> /\ (pc # "print" => bad = {})
  /\ pc \in Measuring \ {"medians"} => Len(samples) < Samples
  /\ pc = "medians" => Len(samples) = Samples
  /\ pc \in Measuring => bad \subseteq 1..Len(samples)
  /\ pc \in {"pin", "a", "spin", "b"} => bench = 0
  /\ pc = "print" => bench > 0
  /\ pinned /\ pc \in Measuring => \A n \in (1..Len(samples)) \ bad : samples[n] = Cost(bench, cpu)

\* The medians are what the measurements cost, if most samples are undisturbed.
BaselineInv ==
  pinned /\ 2 * Cardinality(badEmpty) < Samples =>
    /\ bench > 0 => empty = 2 * Cost(0, cpu)
    /\ pc = "print" /\ 2 * Cardinality(bad) < Samples
         => result = 2 * Cost(bench, cpu) - 2 * Cost(0, cpu)

\* The inductive invariant.
IInv == TypeOK /\ ReadInv /\ PinInv /\ DetectInv /\ ClockInv /\ SampleInv /\ BaselineInv

-------------------------------------------------------------------------------
(* Types. *)

\* What a measurement takes is a number of cycles.
LEMMA CostType ==
  ASSUME NEW b \in 0..Len(Work), NEW c \in Cpus
  PROVE  Cost(b, c) \in Nat
<1>1. Loop[c] \in Nat
  BY CyclesAssumption
<1>2. CASE b = 0
  BY <1>1, <1>2 DEF Cost
<1>3. CASE b # 0
  <2>1. Work[b] \in [Cpus -> Nat]
    <3> DEFINE S == [Cpus -> Nat]
    <3>1. Work \in Seq(S)
      BY CyclesAssumption
    <3> HIDE DEF S
    <3>2. Work[b] \in S
      BY <1>3, <3>1
    <3> QED BY <3>2 DEF S
  <2> QED BY <1>1, <1>3, <2>1 DEF Cost
<1> QED BY <1>2, <1>3

\* Cycles that pass move the counter of the thread's CPU within its range, if it
\* counts, and no other counter.
LEMMA AdvanceType ==
  ASSUME TypeOK, NEW k \in Nat, Advance(k)
  PROVE  /\ counter' \in [Cpus -> Counts48]
         /\ mode[cpu] # "counting" => counter' = counter
         /\ mode[cpu] = "counting" => counter'[cpu] = (counter[cpu] + k) % HwSize
<1>1. cpu \in Cpus /\ counter[cpu] + k \in Int
  BY DEF TypeOK, Counts48
<1>2. (counter[cpu] + k) % HwSize \in Counts48
  BY <1>1, DivMod, SizesAssumption DEF Counts48
<1> QED BY <1>1, <1>2 DEF Advance, TypeOK

\* What the counters are preset to are values of the counter.
LEMMA CountsType == 0 \in Counts48 /\ FirstCounts \subseteq Counts48 /\ Counts48 \subseteq Nat
  BY SizesAssumption DEF Counts48

\* read_rdpmc answers a value of the counter.
LEMMA AnswerType == TypeOK => Answer \in Counts48
  BY SizesAssumption DEF TypeOK, Answer, Counts48

\* A mask that names a CPU names the one asked for.
LEMMA MaskIsRequested ==
  ASSUME NEW n, Mask(n) # {}
  PROVE  Mask(n) = {n}
BY DEF Mask

\* Types are kept: the counters stay within their 48 bits, and clocks and medians
\* are whole numbers.
LEMMA TypeStep ==
  ASSUME IInv, [Next]_vars
  PROVE  TypeOK'
<1> USE DEF IInv, place, hw, reading, bounds, stats, Places, Reads
<1>1. CASE Pin
  BY <1>1 DEF TypeOK, Pin, Mask
<1>2. CASE Reset
  BY <1>2 DEF TypeOK, Reset, FlagAtReset
<1>3. CASE Rdpmc
  BY <1>3, CountsType DEF TypeOK, Rdpmc
<1>4. CASE Handle
  BY <1>4 DEF TypeOK, Handle, ResumeAt
<1>5. CASE DetectFirst
  BY <1>5, AnswerType, CountsType DEF TypeOK, DetectFirst, Answered
<1>6. CASE DetectSpin
  <2>1. Spin \in Nat /\ Advance(Spin)
    BY <1>6, CyclesAssumption DEF DetectSpin
  <2>2. counter' \in [Cpus -> Counts48]
    BY <2>1, AdvanceType
  <2> QED BY <1>6, <2>2 DEF TypeOK, DetectSpin
<1>7. CASE DetectSecond
  BY <1>7, AnswerType, CountsType DEF Counts, TypeOK, DetectSecond, Answered
<1>8. CASE Start
  BY <1>8 DEF TypeOK, Start
<1>9. CASE ReadBefore
  BY <1>9, AnswerType, CountsType DEF TypeOK, ReadBefore, Answered
<1>10. CASE Run
  <2>1. Cost(bench, cpu) \in Nat /\ Advance(Cost(bench, cpu))
    BY <1>10, CostType DEF Run, TypeOK
  <2>2. counter' \in [Cpus -> Counts48]
    BY <2>1, AdvanceType
  <2> QED BY <1>10, <2>1, <2>2 DEF TypeOK, Run
<1>11. CASE ReadAfter
  BY <1>11, AnswerType, CountsType DEF TypeOK, ReadAfter, Answered
<1>12. CASE Record
  <2>1. Clock \in Nat
    <3>1. last - first \in Int /\ spent \in Nat /\ WordSize \in Nat \ {0}
      BY SizesAssumption DEF TypeOK, Counts48
    <3>2. (last - first) % WordSize \in Nat
      BY <3>1, DivMod
    <3> QED BY <3>1, <3>2 DEF Clock
  <2>2. Len(samples) < Samples /\ Len(samples) \in Nat
    BY <1>12 DEF TypeOK, SampleInv, Measuring, Record
  <2>3. samples' \in Seq(Nat) /\ Len(samples') <= Samples
    <3>1. Append(samples, Clock) \in Seq(Nat) /\ Len(Append(samples, Clock)) = Len(samples) + 1
      BY <2>1 DEF TypeOK
    <3>2. samples' = samples \/ samples' = Append(samples, Clock)
      BY <1>12 DEF Record
    <3>3. samples \in Seq(Nat) /\ Samples \in Nat
      BY CountsAssumption DEF TypeOK
    <3> QED BY <2>2, <3>1, <3>2, <3>3
  <2>4. bad' \subseteq 1..Samples
    <3>1. bad' \subseteq bad \cup {Len(samples) + 1}
      BY <1>12 DEF Record
    <3>2. Len(samples) + 1 \in 1..Samples /\ bad \subseteq 1..Samples
      BY <2>2, CountsAssumption DEF TypeOK
    <3> QED BY <3>1, <3>2
  <2>5. 0 \in Counts48
    BY CountsType
  <2> QED BY <1>12, <2>3, <2>4, <2>5 DEF TypeOK, Record
<1>13. CASE Medians
  <2>1. TwiceMedian(samples) \in Int
    <3>1. samples \in Seq(Int) /\ Len(samples) = Samples
      BY <1>13 DEF TypeOK, SampleInv, Medians
    <3> QED BY <3>1, MedianType, CountsAssumption
  <2>2. <<>> \in Seq(Nat) /\ Len(<<>>) = 0
    OBVIOUS
  <2>3. Samples \in Nat /\ Len(Work) \in Nat
    BY CountsAssumption, CyclesAssumption
  <2>4. empty' \in Int /\ result' \in Int /\ samples' \in Seq(Nat) /\ Len(samples') <= Samples
    BY <1>13, <2>1, <2>2, <2>3 DEF Medians, TypeOK
  <2>5. bad' \subseteq 1..Samples /\ badEmpty' \subseteq 1..Samples
    BY <1>13 DEF Medians, TypeOK
  <2>6. bench' \in 0..Len(Work) /\ pc' \in Places
    BY <1>13, <2>3 DEF Medians, NextBench, TypeOK
  <2> QED BY <1>13, <2>4, <2>5, <2>6 DEF TypeOK, Medians
<1>14. CASE PrintRow
  BY <1>14, CyclesAssumption DEF TypeOK, PrintRow, NextBench
<1>15. CASE Preempt
  <2>1. Noise \in Nat /\ MaxDisturb \in Nat /\ Advance(Noise)
    BY <1>15, CyclesAssumption, CountsAssumption DEF Preempt
  <2>2. counter' \in [Cpus -> Counts48]
    BY <2>1, AdvanceType
  <2>3. disturbs' \in 0..MaxDisturb /\ spent' \in Nat /\ affinity' = affinity /\ cpu' \in affinity
    BY <1>15, <2>1 DEF Preempt, TypeOK
  <2> QED BY <1>15, <2>2, <2>3 DEF Preempt, TypeOK
<1>16. CASE Reprogram
  <2>1. PICK m \in Modes, v \in FirstCounts :
          mode' = [c \in Cpus |-> m] /\ counter' = [c \in Cpus |-> v]
    BY <1>16 DEF Reprogram
  <2>2. counter' \in [Cpus -> Counts48]
    BY <2>1, CountsType
  <2>3. mode' \in [Cpus -> Modes]
    BY <2>1
  <2> QED BY <1>16, <2>2, <2>3, CountsAssumption DEF TypeOK, Reprogram, Interruptible
<1>17. CASE UNCHANGED vars
  BY <1>17 DEF TypeOK, vars
<1> QED BY <1>1, <1>2, <1>3, <1>4, <1>5, <1>6, <1>7, <1>8, <1>9, <1>10, <1>11, <1>12, <1>13, <1>14,
          <1>15, <1>16, <1>17 DEF Next, Program

\* Nothing that happens between the instruction and the end of read_rdpmc touches
\* the flag, the registers or the counter that was read.
LEMMA ReadStep ==
  ASSUME IInv, [Next]_vars
  PROVE  ReadInv'
<1> USE DEF IInv, place, hw, reading, bounds, stats
<1>1. CASE Pin
  BY <1>1 DEF ReadInv, Answer, Reads, Pin
<1>2. CASE Reset
  BY <1>2 DEF ReadInv, Reset, FlagAtReset
<1>3. CASE Rdpmc
  BY <1>3 DEF ReadInv, Answer, Rdpmc
<1>4. CASE Handle
  BY <1>4 DEF ReadInv, Answer, Handle, ResumeAt
<1>5. CASE DetectFirst
  BY <1>5 DEF ReadInv, DetectFirst, Answered
<1>6. CASE DetectSpin
  BY <1>6 DEF ReadInv, Answer, Reads, DetectSpin
<1>7. CASE DetectSecond
  BY <1>7 DEF ReadInv, DetectSecond, Answered
<1>8. CASE Start
  BY <1>8 DEF ReadInv, Answer, Reads, Start
<1>9. CASE ReadBefore
  BY <1>9 DEF ReadInv, ReadBefore, Answered
<1>10. CASE Run
  BY <1>10 DEF ReadInv, Answer, Reads, Run
<1>11. CASE ReadAfter
  BY <1>11 DEF ReadInv, ReadAfter, Answered
<1>12. CASE Record
  BY <1>12 DEF ReadInv, Answer, Reads, Record
<1>13. CASE Medians
  BY <1>13 DEF ReadInv, Answer, Reads, Medians
<1>14. CASE PrintRow
  BY <1>14 DEF ReadInv, Answer, Reads, PrintRow
<1>15. CASE Preempt
  BY <1>15 DEF ReadInv, Answer, Reads, Preempt, Advance, Interruptible
<1>16. CASE Reprogram
  BY <1>16, SizesAssumption DEF TypeOK, ReadInv, Answer, Reads, Reprogram, Interruptible
<1>17. CASE UNCHANGED vars
  BY <1>17 DEF ReadInv, Answer, vars
<1> QED BY <1>1, <1>2, <1>3, <1>4, <1>5, <1>6, <1>7, <1>8, <1>9, <1>10, <1>11, <1>12, <1>13, <1>14,
          <1>15, <1>16, <1>17 DEF Next, Program

\* A pinned thread stays where it is, as its mask names one CPU.
LEMMA PinStep ==
  ASSUME IInv, [Next]_vars
  PROVE  PinInv'
<1> USE DEF IInv, place, hw, reading, bounds, stats
<1>1. CASE Pin
  <2>1. requested' = requested
    BY <1>1 DEF Pin
  <2>2. CASE Mask(requested) # {} /\ affinity' = Mask(requested) /\ cpu' \in affinity'
    <3>1. affinity' = {requested}
      BY <2>2, MaskIsRequested
    <3> QED BY <2>1, <2>2, <3>1 DEF PinInv
  <2>3. CASE UNCHANGED <<pinned, affinity, cpu>>
    BY <2>1, <2>3 DEF PinInv
  <2> QED BY <1>1, <2>2, <2>3 DEF Pin
<1>2. CASE Reset
  BY <1>2 DEF PinInv, Reset
<1>3. CASE Rdpmc
  BY <1>3 DEF PinInv, Rdpmc
<1>4. CASE Handle
  BY <1>4 DEF PinInv, Handle
<1>5. CASE DetectFirst
  BY <1>5 DEF PinInv, DetectFirst, Answered
<1>6. CASE DetectSpin
  BY <1>6 DEF PinInv, DetectSpin
<1>7. CASE DetectSecond
  BY <1>7 DEF PinInv, DetectSecond, Answered
<1>8. CASE Start
  BY <1>8 DEF PinInv, Start
<1>9. CASE ReadBefore
  BY <1>9 DEF PinInv, ReadBefore, Answered
<1>10. CASE Run
  BY <1>10 DEF PinInv, Run
<1>11. CASE ReadAfter
  BY <1>11 DEF PinInv, ReadAfter, Answered
<1>12. CASE Record
  BY <1>12 DEF PinInv, Record
<1>13. CASE Medians
  BY <1>13 DEF PinInv, Medians
<1>14. CASE PrintRow
  BY <1>14 DEF PinInv, PrintRow
<1>15. CASE Preempt
  BY <1>15 DEF PinInv, Preempt
<1>16. CASE Reprogram
  BY <1>16 DEF PinInv, Reprogram
<1>17. CASE UNCHANGED vars
  BY <1>17 DEF PinInv, vars
<1> QED BY <1>1, <1>2, <1>3, <1>4, <1>5, <1>6, <1>7, <1>8, <1>9, <1>10, <1>11, <1>12, <1>13, <1>14,
          <1>15, <1>16, <1>17 DEF Next, Program

\* Until somebody changes a counter, one that stands still stays where it is.
LEMMA DetectStep ==
  ASSUME IInv, [Next]_vars
  PROVE  DetectInv'
<1> USE DEF IInv, place, hw, reading, bounds, stats
<1>1. CASE Pin
  BY <1>1 DEF DetectInv, Pin
<1>2. CASE Reset
  BY <1>2 DEF DetectInv, Reset
<1>3. CASE Rdpmc
  BY <1>3 DEF DetectInv, Rdpmc
<1>4. CASE Handle
  BY <1>4 DEF DetectInv, Handle
<1>5. CASE DetectFirst
  BY <1>5 DEF DetectInv, ReadInv, Answer, DetectFirst, Answered
<1>6. CASE DetectSpin
  <2>1. Spin \in Nat /\ Advance(Spin)
    BY <1>6, CyclesAssumption DEF DetectSpin
  <2>2. mode[cpu] # "counting" => counter' = counter
    BY <2>1, AdvanceType
  <2> QED BY <1>6, <2>2 DEF DetectInv, DetectSpin
<1>7. CASE DetectSecond
  <2>1. pc = "b" /\ step = "answer" /\ pc' = "start" /\ UNCHANGED <<pinned, reprograms, mode, cpu>>
    BY <1>7 DEF DetectSecond, Answered
  <2>2. ASSUME available', pinned, reprograms = 0
        PROVE  mode[cpu] = "counting"
    <3>1. ~faulted /\ Answer > first /\ Answer = value
      BY <1>7, <2>2 DEF DetectSecond, Counts, Answer
    <3>2. value = counter[cpu] /\ first \in Int /\ value \in Int
      BY <2>1, <3>1, SizesAssumption DEF ReadInv, TypeOK, Counts48
    <3>3. first # counter[cpu]
      BY <3>1, <3>2
    <3> QED BY <2>1, <2>2, <3>3 DEF DetectInv
  <2> QED BY <2>1, <2>2 DEF DetectInv
<1>8. CASE Start
  BY <1>8 DEF DetectInv, Start
<1>9. CASE ReadBefore
  BY <1>9 DEF DetectInv, ReadBefore, Answered
<1>10. CASE Run
  BY <1>10 DEF DetectInv, Run
<1>11. CASE ReadAfter
  BY <1>11 DEF DetectInv, ReadAfter, Answered
<1>12. CASE Record
  BY <1>12 DEF DetectInv, Record
<1>13. CASE Medians
  BY <1>13 DEF DetectInv, Medians, NextBench
<1>14. CASE PrintRow
  BY <1>14 DEF DetectInv, PrintRow, NextBench
<1>15. CASE Preempt
  BY <1>15 DEF DetectInv, PinInv, TypeOK, Preempt, Advance, Interruptible
<1>16. CASE Reprogram
  BY <1>16 DEF DetectInv, PinInv, TypeOK, Reprogram
<1>17. CASE UNCHANGED vars
  BY <1>17 DEF DetectInv, vars
<1> QED BY <1>1, <1>2, <1>3, <1>4, <1>5, <1>6, <1>7, <1>8, <1>9, <1>10, <1>11, <1>12, <1>13, <1>14,
          <1>15, <1>16, <1>17 DEF Next, Program

\* What the clock shows of an undisturbed measurement is what it costs.
LEMMA ClockStep ==
  ASSUME IInv, [Next]_vars
  PROVE  ClockInv'
<1> USE DEF IInv, place, hw, reading, bounds, stats
<1>1. CASE Pin
  BY <1>1 DEF ClockInv, Pin
<1>2. CASE Reset
  BY <1>2 DEF ClockInv, Reset
<1>3. CASE Rdpmc
  BY <1>3 DEF ClockInv, Rdpmc
<1>4. CASE Handle
  BY <1>4 DEF ClockInv, Handle
<1>5. CASE DetectFirst
  BY <1>5 DEF ClockInv, DetectFirst, Answered
<1>6. CASE DetectSpin
  BY <1>6 DEF ClockInv, DetectSpin
<1>7. CASE DetectSecond
  BY <1>7 DEF ClockInv, DetectSecond, Answered
<1>8. CASE Start
  BY <1>8 DEF ClockInv, Start
<1>9. CASE ReadBefore
  BY <1>9 DEF ClockInv, ReadInv, DetectInv, Answer, ReadBefore, Answered
<1>10. CASE Run
  <2>1. /\ Cost(bench, cpu) \in Nat /\ Advance(Cost(bench, cpu))
        /\ UNCHANGED <<mode, cpu, first, bench, pinned>>
    BY <1>10, CostType DEF Run, TypeOK
  <2>2. ASSUME pinned, clean', available
        PROVE  mode[cpu] = "counting" /\ counter'[cpu] = first + Cost(bench, cpu)
    <3>0. clean /\ counter[cpu] + Cost(bench, cpu) < HwSize /\ pc = "run"
      BY <1>10, <2>2 DEF Run
    <3>1. mode[cpu] = "counting" /\ first = counter[cpu] /\ first \in Nat
      BY <2>2, <3>0 DEF ClockInv, TypeOK, Counts48
    <3>2. counter'[cpu] = (counter[cpu] + Cost(bench, cpu)) % HwSize
      BY <2>1, <3>1, AdvanceType
    <3>3. counter[cpu] + Cost(bench, cpu) \in 0..(HwSize - 1)
      BY <2>1, <3>0, <3>1, SizesAssumption
    <3>4. (counter[cpu] + Cost(bench, cpu)) % HwSize = counter[cpu] + Cost(bench, cpu)
      BY <3>3, ModSmall, SizesAssumption
    <3> QED BY <3>1, <3>2, <3>4
  <2>3. ASSUME pinned, clean', ~available
        PROVE  spent' = Cost(bench, cpu)
    <3>1. clean /\ pc = "run" /\ spent' = spent + Cost(bench, cpu)
      BY <1>10, <2>3 DEF Run
    <3>2. spent = 0
      BY <2>3, <3>1 DEF ClockInv
    <3> QED BY <2>1, <3>1, <3>2
  <2> QED BY <1>10, <2>1, <2>2, <2>3 DEF ClockInv, Run
<1>11. CASE ReadAfter
  BY <1>11 DEF ClockInv, ReadInv, DetectInv, Answer, ReadAfter, Answered
<1>12. CASE Record
  BY <1>12 DEF ClockInv, Record
<1>13. CASE Medians
  BY <1>13 DEF ClockInv, Medians, NextBench
<1>14. CASE PrintRow
  BY <1>14 DEF ClockInv, PrintRow, NextBench
<1>15. CASE Preempt
  BY <1>15 DEF ClockInv, Preempt
<1>16. CASE Reprogram
  BY <1>16 DEF ClockInv, ReadInv, DetectInv, Answer, Reprogram
<1>17. CASE UNCHANGED vars
  BY <1>17 DEF ClockInv, vars
<1> QED BY <1>1, <1>2, <1>3, <1>4, <1>5, <1>6, <1>7, <1>8, <1>9, <1>10, <1>11, <1>12, <1>13, <1>14,
          <1>15, <1>16, <1>17 DEF Next, Program

\* A sample that is not marked is what a measurement costs.
LEMMA SampleStep ==
  ASSUME IInv, [Next]_vars
  PROVE  SampleInv'
<1> USE DEF IInv, place, hw, reading, bounds, stats
<1>1. CASE Pin
  BY <1>1 DEF SampleInv, Measuring, Pin
<1>2. CASE Reset
  BY <1>2 DEF SampleInv, Measuring, Reset
<1>3. CASE Rdpmc
  BY <1>3 DEF SampleInv, Measuring, Rdpmc
<1>4. CASE Handle
  BY <1>4 DEF SampleInv, Measuring, Handle
<1>5. CASE DetectFirst
  <2>1. Len(samples) = 0 /\ samples = <<>> /\ bad = {}
    BY <1>5 DEF SampleInv, DetectFirst, Answered, Measuring
  <2> QED BY <1>5, <2>1, CountsAssumption DEF SampleInv, Measuring, DetectFirst, Answered
<1>6. CASE DetectSpin
  BY <1>6 DEF SampleInv, Measuring, DetectSpin
<1>7. CASE DetectSecond
  <2>1. Len(samples) = 0 /\ samples = <<>> /\ bad = {}
    BY <1>7 DEF SampleInv, DetectSecond, Answered, Measuring
  <2> QED BY <1>7, <2>1, CountsAssumption DEF SampleInv, Measuring, DetectSecond, Answered
<1>8. CASE Start
  BY <1>8 DEF SampleInv, Measuring, Start
<1>9. CASE ReadBefore
  BY <1>9 DEF SampleInv, Measuring, ReadBefore, Answered
<1>10. CASE Run
  BY <1>10 DEF SampleInv, Measuring, Run
<1>11. CASE ReadAfter
  BY <1>11 DEF SampleInv, Measuring, ReadAfter, Answered
<1>12. CASE Record
  <2>1. Len(samples) < Samples /\ Len(samples) \in Nat /\ bad \subseteq 1..Len(samples)
    BY <1>12 DEF TypeOK, SampleInv, Measuring, Record
  <2>2. ASSUME pinned, clean
        PROVE  Clock = Cost(bench, cpu)
    <3>1. CASE available
      <4>1. last = first + Cost(bench, cpu)
        BY <1>12, <2>2, <3>1 DEF ClockInv, Record
      <4>2. last - first = Cost(bench, cpu) /\ last - first \in 0..(WordSize - 1)
        <5>1. Cost(bench, cpu) \in Nat
          BY CostType DEF TypeOK
        <5> QED BY <4>1, <5>1, SizesAssumption DEF TypeOK, Counts48
      <4>3. (last - first) % WordSize = last - first
        BY <4>2, ModSmall, SizesAssumption
      <4> QED BY <3>1, <4>2, <4>3 DEF Clock
    <3>2. CASE ~available
      BY <1>12, <2>2, <3>2 DEF ClockInv, Record, Clock
    <3> QED BY <3>1, <3>2
  <2>3. /\ UNCHANGED <<pinned, bench, cpu>>
        /\ pc' = IF Len(samples') = Samples THEN "medians" ELSE "start"
    BY <1>12 DEF Record
  <2>4. CASE calls < Warmups(bench)
    <3>1. UNCHANGED <<samples, bad>>
      BY <1>12, <2>4 DEF Record
    <3> QED BY <1>12, <2>1, <2>3, <3>1 DEF SampleInv, Measuring, Record
  <2>5. CASE ~ (calls < Warmups(bench))
    <3>1. /\ samples' = Append(samples, Clock)
          /\ bad' = IF clean THEN bad ELSE bad \cup {Len(samples) + 1}
      BY <1>12, <2>5 DEF Record
    <3>2. /\ Len(samples') = Len(samples) + 1
          /\ \A n \in 1..Len(samples) : samples'[n] = samples[n]
          /\ samples'[Len(samples) + 1] = Clock
      BY <3>1 DEF TypeOK
    <3>3. bad' \subseteq 1..Len(samples')
      <4>1. 1..Len(samples) \subseteq 1..Len(samples') /\ Len(samples) + 1 \in 1..Len(samples')
        BY <2>1, <3>2
      <4>2. bad' \subseteq bad \cup {Len(samples) + 1}
        BY <3>1
      <4> QED BY <2>1, <4>1, <4>2
    <3>4. ASSUME pinned, NEW n \in (1..Len(samples')) \ bad'
          PROVE  samples'[n] = Cost(bench, cpu)
      <4>1. CASE n = Len(samples) + 1
        BY <2>2, <3>1, <3>2, <3>4, <4>1
      <4>2. CASE n # Len(samples) + 1
        <5>1. n \in (1..Len(samples)) \ bad
          BY <2>1, <3>1, <3>2, <3>4, <4>2
        <5>2. samples[n] = Cost(bench, cpu)
          BY <1>12, <3>4, <5>1 DEF SampleInv, Record, Measuring
        <5> QED BY <3>2, <5>1, <5>2
      <4> QED BY <4>1, <4>2
    <3>5. Len(samples') <= Samples
      BY <2>1, <3>2, CountsAssumption
    <3>6. Len(samples') # Samples => Len(samples') < Samples
      BY <2>1, <3>2, <3>5, CountsAssumption
    <3> QED BY <1>12, <2>3, <3>3, <3>4, <3>6 DEF SampleInv, Measuring
  <2> QED BY <2>4, <2>5
<1>13. CASE Medians
  <2>1. samples' = <<>> /\ Len(samples') = 0 /\ UNCHANGED <<pinned, cpu>> /\ Samples > 0
    BY <1>13, CountsAssumption DEF Medians
  <2>2. CASE bench = 0
    <3>1. bad' = {} /\ pc' \in {"start", "done"}
      BY <1>13, <2>2 DEF Medians, NextBench
    <3> QED BY <2>1, <3>1 DEF SampleInv, Measuring
  <2>3. CASE bench # 0
    <3>1. pc' = "print" /\ bench' = bench /\ bench \in Nat
      BY <1>13, <2>3, CyclesAssumption DEF Medians, TypeOK
    <3> QED BY <2>1, <2>3, <3>1 DEF SampleInv, Measuring
  <2> QED BY <2>2, <2>3
<1>14. CASE PrintRow
  <2>1. samples' = <<>> /\ Len(samples') = 0 /\ UNCHANGED <<pinned, cpu>> /\ Samples > 0
    BY <1>14, CountsAssumption DEF PrintRow, SampleInv, Measuring
  <2>2. bad' = {} /\ pc' \in {"start", "done"}
    BY <1>14 DEF PrintRow, NextBench
  <2> QED BY <2>1, <2>2 DEF SampleInv, Measuring
<1>15. CASE Preempt
  BY <1>15 DEF SampleInv, Measuring, PinInv, TypeOK, Preempt
<1>16. CASE Reprogram
  BY <1>16 DEF SampleInv, Measuring, Reprogram
<1>17. CASE UNCHANGED vars
  BY <1>17 DEF SampleInv, vars, Measuring
<1> QED BY <1>1, <1>2, <1>3, <1>4, <1>5, <1>6, <1>7, <1>8, <1>9, <1>10, <1>11, <1>12, <1>13, <1>14,
          <1>15, <1>16, <1>17 DEF Next, Program

\* Medians of mostly undisturbed samples are what a measurement costs.
LEMMA BaselineStep ==
  ASSUME IInv, [Next]_vars
  PROVE  BaselineInv'
<1> USE DEF IInv, place, hw, reading, bounds, stats
<1>1. CASE Pin
  BY <1>1 DEF BaselineInv, SampleInv, TypeOK, Measuring, Pin
<1>2. CASE Reset
  BY <1>2 DEF BaselineInv, Reset
<1>3. CASE Rdpmc
  BY <1>3 DEF BaselineInv, Rdpmc
<1>4. CASE Handle
  BY <1>4 DEF BaselineInv, Handle
<1>5. CASE DetectFirst
  BY <1>5 DEF BaselineInv, DetectFirst, Answered
<1>6. CASE DetectSpin
  BY <1>6 DEF BaselineInv, DetectSpin
<1>7. CASE DetectSecond
  BY <1>7 DEF BaselineInv, DetectSecond, Answered
<1>8. CASE Start
  BY <1>8 DEF BaselineInv, Start
<1>9. CASE ReadBefore
  BY <1>9 DEF BaselineInv, ReadBefore, Answered
<1>10. CASE Run
  BY <1>10 DEF BaselineInv, Run
<1>11. CASE ReadAfter
  BY <1>11 DEF BaselineInv, ReadAfter, Answered
<1>12. CASE Record
  BY <1>12 DEF BaselineInv, Record
<1>13. CASE Medians
  <2>1. /\ samples \in Seq(Int) /\ Len(samples) = Samples
        /\ bad \in SUBSET (1..Samples) /\ bench \in 0..Len(Work)
    BY <1>13 DEF TypeOK, SampleInv, Medians, Measuring
  <2>2. ASSUME pinned, 2 * Cardinality(bad) < Samples
        PROVE  TwiceMedian(samples) = 2 * Cost(bench, cpu)
    <3>1. Cost(bench, cpu) \in Int
      BY CostType DEF TypeOK
    <3>2. \A n \in (1..Samples) \ bad : samples[n] = Cost(bench, cpu)
      BY <1>13, <2>1, <2>2 DEF SampleInv, Medians, Measuring
    <3> QED BY <2>1, <2>2, <3>1, <3>2, MedianIsUndisturbed, CountsAssumption
  <2>3. UNCHANGED <<pinned, cpu>>
    BY <1>13 DEF Medians
  <2>4. CASE bench = 0
    <3>1. empty' = TwiceMedian(samples) /\ badEmpty' = bad /\ pc' # "print"
      BY <1>13, <2>4 DEF Medians, NextBench
    <3> QED BY <2>2, <2>3, <2>4, <3>1 DEF BaselineInv
  <2>5. CASE bench # 0
    <3>1. result' = TwiceMedian(samples) - empty /\ UNCHANGED <<bench, empty, bad, badEmpty>>
      BY <1>13, <2>5 DEF Medians
    <3>2. bench > 0
      BY <2>1, <2>5
    <3> QED BY <2>2, <2>3, <3>1, <3>2 DEF BaselineInv
  <2> QED BY <2>4, <2>5
<1>14. CASE PrintRow
  BY <1>14 DEF BaselineInv, SampleInv, TypeOK, Measuring, PrintRow, NextBench
<1>15. CASE Preempt
  BY <1>15 DEF BaselineInv, PinInv, TypeOK, Preempt
<1>16. CASE Reprogram
  BY <1>16 DEF BaselineInv, Reprogram
<1>17. CASE UNCHANGED vars
  BY <1>17 DEF BaselineInv, vars
<1> QED BY <1>1, <1>2, <1>3, <1>4, <1>5, <1>6, <1>7, <1>8, <1>9, <1>10, <1>11, <1>12, <1>13, <1>14,
          <1>15, <1>16, <1>17 DEF Next, Program

-------------------------------------------------------------------------------
(* The theorems. *)

\* The program starts with nothing read, measured or pinned.
LEMMA InitInv == Init => IInv
<1> SUFFICES ASSUME Init PROVE IInv
  OBVIOUS
<1> USE CpusAssumption, SizesAssumption, CountsAssumption, ModesAssumption, CyclesAssumption
<1>1. <<>> \in Seq(Nat) /\ Len(<<>>) = 0 /\ Len(Work) \in Nat
  OBVIOUS
<1>2. TypeOK
  <2>1. mode \in [Cpus -> Modes]
    BY DEF Init
  <2>2. counter \in [Cpus -> Counts48] /\ 0 \in Counts48
    BY CountsType DEF Init
  <2>3. 0 \in 0..MaxDisturb /\ 0 \in 0..MaxReprogram /\ 0 \in 0..Len(Work) /\ 0 <= Samples
    BY <1>1
  <2>4. /\ requested \in Requests /\ affinity \in SUBSET Cpus /\ cpu \in affinity
        /\ pc \in Places /\ pinned \in BOOLEAN /\ faulted \in BOOLEAN
        /\ available \in BOOLEAN /\ clean \in BOOLEAN
    BY DEF Init, Places
  <2>5. samples \in Seq(Nat) /\ Len(samples) <= Samples
    BY <1>1, <2>3 DEF Init
  <2>6. /\ value \in Counts48 /\ truth \in Counts48 /\ first \in Counts48 /\ last \in Counts48
        /\ bad \subseteq 1..Samples /\ badEmpty \subseteq 1..Samples
        /\ step \in {"reset", "rdpmc", "trap", "answer"}
        /\ spent \in Nat /\ calls \in Nat /\ empty \in Int /\ result \in Int
    BY <2>2 DEF Init
  <2>7. bench \in 0..Len(Work) /\ disturbs \in 0..MaxDisturb /\ reprograms \in 0..MaxReprogram
    BY <2>3 DEF Init
  <2> QED BY <2>1, <2>2, <2>4, <2>5, <2>6, <2>7 DEF TypeOK
<1>3. ReadInv /\ PinInv /\ DetectInv /\ ClockInv
  BY DEF Init, ReadInv, PinInv, DetectInv, ClockInv, Reads
<1>4. SampleInv /\ BaselineInv
  BY <1>1 DEF Init, SampleInv, BaselineInv, Measuring
<1> QED BY <1>2, <1>3, <1>4 DEF IInv

\* The invariant holds of all behaviours.
LEMMA Inductive == Spec => []IInv
<1>1. IInv /\ [Next]_vars => IInv'
  <2> SUFFICES ASSUME IInv, [Next]_vars PROVE IInv'
    OBVIOUS
  <2>1. TypeOK' /\ ReadInv' /\ PinInv' /\ DetectInv'
    BY TypeStep, ReadStep, PinStep, DetectStep
  <2>2. ClockInv' /\ SampleInv' /\ BaselineInv'
    BY ClockStep, SampleStep, BaselineStep
  <2> QED BY <2>1, <2>2 DEF IInv
<1> QED BY InitInv, <1>1, PTL DEF Spec

\* Type correctness: counters stay within their width, and at most as many
\* samples are kept as asked for.
THEOREM TypeCorrect == Spec => []TypeOK
<1>1. IInv => TypeOK
  BY DEF IInv
<1> QED BY Inductive, <1>1, PTL

\* read_rdpmc never answers with a flag or a register that an earlier read left
\* behind, wherever counters are blocked, preset or stopped meanwhile.
THEOREM ReadsAnswerThemselves == Spec => []AnswersOwnRead
<1>1. IInv => AnswersOwnRead
  BY DEF IInv, ReadInv, AnswersOwnRead
<1> QED BY Inductive, <1>1, PTL

\* A probe that says it is pinned runs on the CPU that was asked for, however
\* many CPUs and bits of a mask there are.
THEOREM PinnedStays == Spec => []PinnedIsRequested
<1>1. IInv => PinnedIsRequested
  BY DEF IInv, PinInv, PinnedIsRequested
<1> QED BY Inductive, <1>1, PTL

\* The detection is not fooled by a counter that answers and stands still.
THEOREM StoppedCounterFound == Spec => []DetectedCounterCounts
<1>1. IInv => DetectedCounterCounts
  BY DEF IInv, DetectInv, DetectedCounterCounts
<1> QED BY Inductive, <1>1, PTL

\* What is printed for a benchmark is its own cycles as long as fewer than half
\* of the samples were disturbed, for any number of benchmarks, samples and
\* disturbances and any width of the counter.
THEOREM PrintedMedianIsWork == Spec => []MedianIsWork
<1>1. IInv => MedianIsWork
  <2> SUFFICES ASSUME IInv, pc = "print", pinned,
                      2 * Cardinality(bad) < Samples, 2 * Cardinality(badEmpty) < Samples
               PROVE  result = 2 * Work[bench][cpu]
    BY DEF MedianIsWork
  <2>1. /\ result = 2 * Cost(bench, cpu) - 2 * Cost(0, cpu)
        /\ bench > 0 /\ bench \in 0..Len(Work) /\ cpu \in Cpus
    BY DEF IInv, BaselineInv, SampleInv, TypeOK, Measuring
  <2>2. Cost(bench, cpu) = Loop[cpu] + Work[bench][cpu] /\ Cost(0, cpu) = Loop[cpu]
    BY <2>1, CyclesAssumption DEF Cost
  <2>3. Loop[cpu] \in Nat /\ Work[bench][cpu] \in Nat
    BY <2>1, CyclesAssumption
  <2> QED BY <2>1, <2>2, <2>3
<1> QED BY Inductive, <1>1, PTL

===============================================================================
