------------------------------- MODULE PmcPasses -------------------------------
(***************************************************************************)
(* main, run_pass, measure_empty_baselines and measure_per_op of           *)
(* src/uops_latency_pmc.cpp over pmc_open and pmc_close of src/pmc.h: the  *)
(* passes open their counters, measure the empty loop and then each        *)
(* benchmark, and close the counters again.                                *)
(*                                                                         *)
(* A read is one step: by PmcRead!ReadLinearizable it returns the count    *)
(* at some instant of the call, modulo the width of the path that it       *)
(* takes, or 0 once the event is in the ERROR state.  What a read itself   *)
(* costs depends on its path as well.  The division by the number of       *)
(* operations is left out.  The kernel's descriptors, registers and events *)
(* are external code.                                                      *)
(***************************************************************************)
EXTENDS Integers, Sequences, FiniteSets, Median

CONSTANTS
  Passes,       \* the passes of main: [width, system]; system for RAPL
  NumRegs,      \* general-purpose counters of a core
  Others,       \* how many of them somebody else may hold (NMI watchdog)
  Work,         \* Work[b]: events of one call of benchmark b beyond the loop
  Loop,         \* events of the loop itself: one call of bench_empty
  ReadCost,     \* ReadCost[w]: events of one pmc_read that goes way w
  Noise,        \* events of an interruption
  HwSize,       \* 2^pmc_width
  WordSize,     \* 2^64
  Samples,      \* samples per measurement
  MaxDisturb    \* bound: interruptions and evictions during a pass

\* The ways of a pmc_read: the loop around rdpmc, which it leaves early when the
\* kernel has taken the register away, or read(), which then has nothing to read.
Ways == {"rdpmc", "taken", "read", "eof"}
Counting == {"rdpmc", "read"}

ASSUME PassesAssumption ==
  /\ Passes \in Seq([width : Nat \ {0}, system : BOOLEAN]) /\ Passes # <<>>
  /\ NumRegs \in Nat /\ Others \subseteq Nat
  /\ Work \in Seq(Nat) /\ Work # <<>> /\ Samples \in Nat \ {0}
  /\ {Loop, Noise, MaxDisturb} \subseteq Nat /\ ReadCost \in [Ways -> Nat]
  /\ HwSize \in Nat \ {0} /\ WordSize \in Nat \ {0}

\* A pass has no more counters than somebody else leaves registers.
ASSUME RegistersAssumption ==
  \A p \in 1..Len(Passes) :
    Passes[p].system \/ \A o \in Others : Passes[p].width + o <= NumRegs

\* What the reads of the counters of S cost that go the ways w.
Going(w, S, way) == Cardinality({k \in S : w[k] = way})
Cost(w, S) ==
  Going(w, S, "rdpmc") * ReadCost["rdpmc"] + Going(w, S, "taken") * ReadCost["taken"]
  + Going(w, S, "read") * ReadCost["read"] + Going(w, S, "eof") * ReadCost["eof"]

\* An undisturbed sample counts fewer events than a register holds.
ASSUME CountAssumption ==
  /\ HwSize <= WordSize
  /\ \A p \in 1..Len(Passes), b \in 1..Len(Work) :
       \A w \in [1..Passes[p].width -> Ways] :
         Cost(w, 1..Passes[p].width) + Loop + Work[b] < HwSize

VARIABLES
  \* kernel
  others,     \* registers somebody else holds
  capRdpmc,   \* cap_user_rdpmc: the kernel lets user code read the registers
  events,     \* the open perf events by file descriptor: [on, system, total]
  \* main, run_pass and the counters of the pass
  pass, pc,
  i,          \* the counter at hand
  ok,         \* all counters opened
  fd,         \* PmcCounter.fd of each counter
  rdpmcOk,    \* PmcCounter.rdpmc_ok
  bench,      \* what is measured: 0 is the empty loop
  before, after,
  deltas,     \* per_counter: a sequence of differences for each counter
  empties,    \* the medians of the empty loop
  result,     \* the medians of the benchmark before they are printed
  \* ghosts
  disturbs,   \* interruptions and evictions of this pass
  started,    \* the events of each counter when it was read before the call
  bad,        \* disturbed samples of the current measurement, per counter
  ways,       \* the ways the counters were read in each sample
  badEmpty, waysEmpty   \* the same of the empty loop's

kernelVars  == <<others, capRdpmc, events>>
counterVars == <<fd, rdpmcOk>>
ghostVars   == <<disturbs, started, bad, ways, badEmpty, waysEmpty>>
sampleVars  == <<before, after, deltas, empties, result>>
vars == <<kernelVars, pass, pc, i, ok, counterVars, bench, sampleVars, ghostVars>>

Width == Passes[pass].width
Counters == 1..Width
Each(v) == [k \in Counters |-> v]

Init ==
  /\ others \in Others /\ capRdpmc \in BOOLEAN /\ events = <<>>
  /\ pass = 1 /\ pc = "open" /\ i = 1 /\ ok = TRUE
  /\ fd = Each(-1) /\ rdpmcOk = Each(FALSE) /\ bench = 0
  /\ before = Each(0) /\ after = Each(0) /\ deltas = Each(<<>>)
  /\ empties = Each(0) /\ result = Each(0)
  /\ disturbs = 0 /\ started = Each(0)
  /\ bad = Each({}) /\ ways = <<>> /\ badEmpty = Each({}) /\ waysEmpty = <<>>

-------------------------------------------------------------------------------
(* The kernel (external). *)

\* open and perf_event_open return the lowest free descriptor, after stdio.
FreeFd == CHOOSE f \in 3..(3 + Cardinality(DOMAIN events)) :
            /\ f \notin DOMAIN events
            /\ \A g \in 3..(f - 1) : g \in DOMAIN events

InUse == others + Cardinality({f \in DOMAIN events : events[f].on /\ ~events[f].system})

\* A pinned event that finds no register goes into the ERROR state.
NewEvent == [on |-> Passes[pass].system \/ InUse < NumRegs,
             system |-> Passes[pass].system, total |-> 0]

\* close of a descriptor; of one that is not open, an error and no change.
CloseFd(f) == [g \in DOMAIN events \ {f} |-> events[g]]

\* Something ran that counts n in every event.
CountAll(n) ==
  [f \in DOMAIN events |->
     IF events[f].on THEN [events[f] EXCEPT !.total = @ + n] ELSE events[f]]

-------------------------------------------------------------------------------
(* pmc.h. *)

\* Mutation: the failed mmap closes the descriptor and leaves c.fd set.
FdKept == FreeFd

FdAfterFailedMmap == -1

\* One call of pmc_open, or of pmc_open_system, which maps no page.  An event on
\* a register has an index that is not 0.
OpenCounter ==
  /\ pc = "open"
  /\ \/ /\ UNCHANGED <<events, counterVars>> /\ ok' = FALSE
     \/ /\ ~Passes[pass].system
        /\ fd' = [fd EXCEPT ![i] = FdAfterFailedMmap] /\ ok' = FALSE
        /\ UNCHANGED <<events, rdpmcOk>>
     \/ /\ events' = [f \in DOMAIN events \cup {FreeFd} |->
                        IF f = FreeFd THEN NewEvent ELSE events[f]]
        /\ fd' = [fd EXCEPT ![i] = FreeFd] /\ ok' = ok
        /\ rdpmcOk' = [rdpmcOk EXCEPT ![i] =
                         ~Passes[pass].system /\ capRdpmc /\ NewEvent.on]
  /\ \/ /\ i < Width /\ i' = i + 1 /\ pc' = pc
     \/ /\ i = Width /\ i' = 1
        /\ pc' = IF ok' THEN "warmup" ELSE "close"
  /\ UNCHANGED <<others, capRdpmc, pass, bench, sampleVars, ghostVars>>

\* Mutation: only the page is unmapped.
KeepFd(f) == events

EventsAfterClose(f) == CloseFd(f)

\* One pmc_close; after the last one the next pass begins with counters of its own.
CloseCounter ==
  /\ pc = "close"
  /\ events' = IF fd[i] >= 0 THEN EventsAfterClose(fd[i]) ELSE events
  /\ \/ /\ i < Width
        /\ i' = i + 1 /\ fd' = [fd EXCEPT ![i] = -1]
        /\ UNCHANGED <<pass, pc, ok, rdpmcOk, bench, sampleVars, ghostVars>>
     \/ /\ i = Width /\ pass < Len(Passes)
        /\ pass' = pass + 1 /\ pc' = "open" /\ i' = 1 /\ ok' = TRUE /\ bench' = 0
        /\ LET none(v) == [k \in 1..Passes[pass + 1].width |-> v]
           IN  /\ fd' = none(-1) /\ rdpmcOk' = none(FALSE)
               /\ before' = none(0) /\ after' = none(0)
               /\ deltas' = none(<<>>) /\ empties' = none(0) /\ result' = none(0)
               /\ disturbs' = 0 /\ started' = none(0)
               /\ bad' = none({}) /\ ways' = <<>>
               /\ badEmpty' = none({}) /\ waysEmpty' = <<>>
     \/ /\ i = Width /\ pass = Len(Passes)
        /\ pc' = "done" /\ fd' = [fd EXCEPT ![i] = -1]
        /\ UNCHANGED <<pass, i, ok, rdpmcOk, bench, sampleVars, ghostVars>>
  /\ UNCHANGED <<others, capRdpmc>>

\* The way that pmc_read takes with counter k.
Way(k) == IF rdpmcOk[k] THEN IF events[fd[k]].on THEN "rdpmc" ELSE "taken"
                        ELSE IF events[fd[k]].on THEN "read" ELSE "eof"

\* rdpmc answers are masked to pmc_width bits; read() answers whole words.
Modulus(k) == IF rdpmcOk[k] THEN HwSize ELSE WordSize

Read(k) == IF events[fd[k]].on THEN events[fd[k]].total % Modulus(k) ELSE 0

-------------------------------------------------------------------------------
(* The measurements. *)

CallCost == Loop + IF bench = 0 THEN 0 ELSE Work[bench]

\* The calls before the first sample of a measurement.
WarmupCalls == IF ~Passes[pass].system THEN 8 ELSE IF bench = 0 THEN 4 ELSE 0

Warmup ==
  /\ pc = "warmup" /\ pc' = "before"
  /\ events' = CountAll(WarmupCalls * CallCost)
  /\ UNCHANGED <<others, capRdpmc, pass, i, ok, counterVars, bench, sampleVars, ghostVars>>

ReadBefore ==
  /\ pc = "before"
  /\ before' = [before EXCEPT ![i] = Read(i)]
  /\ events' = CountAll(ReadCost[Way(i)])
  /\ \/ i < Width /\ i' = i + 1 /\ pc' = pc
     \/ i = Width /\ i' = 1 /\ pc' = "run"
  /\ started' = [started EXCEPT ![i] = events[fd[i]].total]
  /\ UNCHANGED <<others, capRdpmc, pass, ok, counterVars, bench, after, deltas, empties,
                 result, disturbs, bad, ways, badEmpty, waysEmpty>>

Run ==
  /\ pc = "run" /\ pc' = "after"
  /\ events' = CountAll(CallCost)
  /\ UNCHANGED <<others, capRdpmc, pass, i, ok, counterVars, bench, sampleVars, ghostVars>>

\* Mutation: a signed difference.
SignedDelta(a, b) == a - b

\* uint64_t subtraction.
Delta(a, b) == (a - b) % WordSize

Sample == Len(deltas[1]) + 1

\* Ghost: the masked count of k has begun anew since it was read before the call.
Wrapped(k) == rdpmcOk[k] /\ events[fd[k]].total \div HwSize # started[k] \div HwSize

ReadAfter ==
  /\ pc = "after"
  /\ after' = [after EXCEPT ![i] = Read(i)]
  /\ events' = CountAll(ReadCost[Way(i)])
  /\ bad' = [bad EXCEPT ![i] = IF Wrapped(i) THEN @ \cup {Sample} ELSE @]
  /\ \/ /\ i < Width /\ i' = i + 1 /\ UNCHANGED <<pc, deltas, started, ways>>
     \/ /\ i = Width /\ i' = 1
        /\ deltas' = [k \in Counters |-> Append(deltas[k], Delta(after'[k], before[k]))]
        /\ started' = Each(0) /\ ways' = Append(ways, [k \in Counters |-> Way(k)])
        /\ pc' = IF Len(deltas'[1]) = Samples THEN "medians" ELSE "before"
  /\ UNCHANGED <<others, capRdpmc, pass, ok, counterVars, bench, before, empties, result,
                 disturbs, badEmpty, waysEmpty>>

\* The empty loop's medians are kept; a benchmark's are taken from its samples,
\* each less the empty loop's median, and the next benchmark begins.
Medians ==
  /\ pc = "medians"
  /\ IF bench = 0
       THEN /\ empties' = [k \in Counters |-> TwiceMedian(deltas[k])]
            /\ badEmpty' = bad /\ waysEmpty' = ways /\ UNCHANGED result
            /\ bench' = 1 /\ pc' = "warmup" /\ bad' = Each({}) /\ ways' = <<>>
       ELSE /\ result' = [k \in Counters |-> TwiceMedian(deltas[k]) - empties[k]]
            /\ pc' = "print"
            /\ UNCHANGED <<empties, badEmpty, waysEmpty, bench, bad, ways>>
  /\ deltas' = Each(<<>>)
  /\ UNCHANGED <<kernelVars, pass, i, ok, counterVars, before, after, disturbs, started>>

PrintRow ==
  /\ pc = "print"
  /\ \/ bench < Len(Work) /\ bench' = bench + 1 /\ pc' = "warmup"
     \/ bench = Len(Work) /\ bench' = bench /\ pc' = "close"
  /\ result' = Each(0) /\ bad' = Each({}) /\ ways' = <<>>
  /\ UNCHANGED <<kernelVars, pass, i, ok, counterVars, before, after, deltas, empties,
                 disturbs, started, badEmpty, waysEmpty>>

-------------------------------------------------------------------------------
(* What else happens while a pass measures (external). *)

Sampling == pc \in {"before", "run", "after"}
Measuring == Sampling \/ pc \in {"warmup", "medians", "print"}

\* The sample that is being taken is of no use, for any counter.
BadSample == [k \in Counters |-> bad[k] \cup {Sample}]

\* The thread is interrupted, and what runs then is counted as well.
Interrupt ==
  /\ Sampling /\ disturbs < MaxDisturb
  /\ events' = CountAll(Noise)
  /\ disturbs' = disturbs + 1
  /\ bad' = BadSample
  /\ UNCHANGED <<others, capRdpmc, pass, pc, i, ok, counterVars, bench, sampleVars,
                 started, ways, badEmpty, waysEmpty>>

\* A pinned event loses its register and reads 0 from now on.  As its reads then
\* cost something else, a sample in which this happens is of no use for the other
\* counters either.
Evict ==
  /\ Measuring /\ disturbs < MaxDisturb /\ ~Passes[pass].system
  /\ \E k \in Counters :
       /\ events[fd[k]].on
       /\ events' = [events EXCEPT ![fd[k]].on = FALSE]
  /\ bad' = IF Sampling THEN BadSample ELSE bad
  /\ disturbs' = disturbs + 1
  /\ UNCHANGED <<others, capRdpmc, pass, pc, i, ok, counterVars, bench, sampleVars,
                 started, ways, badEmpty, waysEmpty>>

Next == \/ OpenCounter \/ CloseCounter \/ Warmup \/ ReadBefore \/ Run \/ ReadAfter
        \/ Medians \/ PrintRow \/ Interrupt \/ Evict

Spec == Init /\ [][Next]_vars

-------------------------------------------------------------------------------

Places == {"open", "warmup", "before", "run", "after", "medians", "print", "close", "done"}

TypeOK ==
  /\ others \in Others /\ capRdpmc \in BOOLEAN
  /\ \A f \in DOMAIN events : events[f] \in [on : BOOLEAN, system : BOOLEAN, total : Nat]
  /\ pass \in 1..Len(Passes) /\ pc \in Places
  /\ i \in Counters /\ ok \in BOOLEAN /\ bench \in 0..Len(Work)
  /\ fd \in [Counters -> {-1} \cup Nat] /\ rdpmcOk \in [Counters -> BOOLEAN]
  /\ {before, after} \subseteq [Counters -> 0..(WordSize - 1)]
  /\ \A k \in Counters : deltas[k] \in Seq(0..(WordSize - 1)) /\ Len(deltas[k]) <= Samples
  /\ {empties, result} \subseteq [Counters -> Int]
  /\ disturbs \in 0..MaxDisturb /\ started \in [Counters -> Nat]
  /\ {bad, badEmpty} \subseteq [Counters -> SUBSET (1..Samples)]
  /\ {ways, waysEmpty} \subseteq Seq([Counters -> Ways])

\* Whatever failed to open, every open descriptor belongs to exactly one counter
\* of the pass, and no counter holds a descriptor that is not its own: none
\* leaks into the next pass, and none is closed twice.
OwnedFds ==
  /\ {fd[k] : k \in Counters} \ {-1} = DOMAIN events
  /\ \A k, l \in Counters : fd[k] = fd[l] => k = l \/ fd[k] = -1

\* The header's "Multiple passes because Zen 3 has 6 general-purpose counters":
\* with at most one register taken by somebody else, all counters of a pass
\* count at the same time, as long as the kernel evicts none.
AllCounting ==
  Sampling /\ disturbs = 0 => \A k \in Counters : events[fd[k]].on

\* More than half of the samples of counter k were undisturbed, and taken with
\* reads that went the ways w.
Mostly(k, undone, taken, w) ==
  2 * Cardinality(undone[k] \cup {n \in 1..Samples : taken[n] # w}) < Samples

\* What is printed for a counter is the benchmark's own count - the loop and the
\* reads of all the counters cancel out - although samples of both measurements
\* were interrupted, saw the kernel take a counter away, or met the end of the
\* register's 48 bits, if they are fewer than half.  A counter that is taken away
\* between the two measurements shifts the rows of all the others by what its
\* reads cost less.
MedianIsWork ==
  pc = "print" =>
    \A k \in Counters, m, n \in 1..Samples :
      /\ {ways[m][k], waysEmpty[n][k]} \subseteq Counting
      /\ Mostly(k, bad, ways, ways[m]) /\ Mostly(k, badEmpty, waysEmpty, waysEmpty[n])
      => result[k] = 2 * (Work[bench] + Cost(ways[m], Counters) - Cost(waysEmpty[n], Counters))

-------------------------------------------------------------------------------
(* The inductive invariant behind these. *)

PlaceInv ==
  /\ pass \in 1..Len(Passes) /\ pc \in Places
  /\ i \in Counters /\ ok \in BOOLEAN /\ bench \in 0..Len(Work)
  /\ disturbs \in 0..MaxDisturb
  /\ pc = "open" => bench = 0 /\ disturbs = 0
  /\ pc \in {"warmup", "run", "medians", "print"} => i = 1
  /\ pc = "print" => bench # 0

\* Which counters are open at each place.
FdInv ==
  /\ OwnedFds
  /\ fd \in [Counters -> {-1} \cup Nat] /\ rdpmcOk \in [Counters -> BOOLEAN]
  /\ IsFiniteSet(DOMAIN events)
  /\ pc = "open" =>
       /\ Cardinality(DOMAIN events) < i
       /\ \A k \in Counters : IF k < i THEN ok => fd[k] # -1 ELSE fd[k] = -1
  /\ Measuring => \A k \in Counters : fd[k] # -1
  /\ pc = "close" => \A k \in Counters : k < i => fd[k] = -1
  /\ pc = "done" => \A k \in Counters : fd[k] = -1

EventsInv ==
  /\ others \in Others /\ capRdpmc \in BOOLEAN
  /\ \A f \in DOMAIN events : events[f] \in [on : BOOLEAN, system : BOOLEAN, total : Nat]
  /\ disturbs = 0 => \A f \in DOMAIN events : events[f].on

\* As many samples of every counter, and the ways of each.
SamplesInv ==
  /\ {before, after} \subseteq [Counters -> 0..(WordSize - 1)]
  /\ deltas \in [Counters -> Seq(0..(WordSize - 1))]
  /\ started \in [Counters -> Nat]
  /\ \A k \in Counters :
       /\ Len(deltas[k]) = Len(deltas[1])
       /\ Sampling => Len(deltas[k]) < Samples
       /\ pc = "medians" => Len(deltas[k]) = Samples
       /\ ~Sampling /\ pc # "medians" => deltas[k] = <<>>
  /\ {empties, result} \subseteq [Counters -> Int]
  /\ {bad, badEmpty} \subseteq [Counters -> SUBSET (1..Samples)]
  /\ {ways, waysEmpty} \subseteq Seq([Counters -> Ways])
  /\ pc # "print" => Len(ways) = Len(deltas[1])
  /\ pc = "print" => Len(ways) = Samples
  /\ bench # 0 => Len(waysEmpty) = Samples

Now == [k \in Counters |-> Way(k)]

\* Events counted since counter k was read before the call, and in a whole sample.
Since(k) == CASE pc = "before" -> Cost(Now, k..(i - 1))
              [] pc = "run"    -> Cost(Now, k..Width)
              [] OTHER         -> Cost(Now, k..Width) + CallCost + Cost(Now, 1..(i - 1))

Whole(w) == Cost(w, Counters) + CallCost

\* What a sample that is not disturbed has seen so far.
CountInv ==
  Sampling => \A k \in Counters : events[fd[k]].on /\ Sample \notin bad[k] =>
    /\ k < i \/ pc # "before" =>
         /\ events[fd[k]].total = started[k] + Since(k)
         /\ before[k] = started[k] % Modulus(k)
    /\ k < i /\ pc = "after" =>
         /\ after[k] = (started[k] + Whole(Now)) % Modulus(k)
         /\ rdpmcOk[k] => (started[k] + Whole(Now)) \div HwSize = started[k] \div HwSize

DeltasInv ==
  \A k \in Counters : \A n \in (1..Len(deltas[k])) \ bad[k] :
    ways[n][k] \in Counting => deltas[k][n] = Whole(ways[n])

EmptiesInv ==
  bench # 0 =>
    \A k \in Counters, n \in 1..Samples :
      waysEmpty[n][k] \in Counting /\ Mostly(k, badEmpty, waysEmpty, waysEmpty[n])
      => empties[k] = 2 * (Cost(waysEmpty[n], Counters) + Loop)

PassInv ==
  /\ PlaceInv /\ FdInv /\ EventsInv /\ SamplesInv
  /\ CountInv /\ DeltasInv /\ EmptiesInv /\ MedianIsWork

===============================================================================
