# A TLA+ model of the uops-experiments harnesses

`src/` measures x86 instructions: latency, throughput, operand-to-operand
delays, store forwarding, memory hierarchy. A number it prints means something
only if a protocol was followed - the counter was read consistently, the pointer
chase really walked the whole ring, the ring was set up on the CPU the row
names, the empty-loop baseline contained the same reads as the sample. These
protocols are what this directory models. The numbers themselves are outside:
durations appear in one module only, `Kernels`, as cycles of an idealised core.

Paths below are relative to the repository (`src/pmc.h`, `tools/run_all.sh`).

## Inventory

| Component | State it keeps | Operations | Talks to | What is hard |
|---|---|---|---|---|
| PMC counters, `src/pmc.h` | `PmcCounter`: fd, mmap'ed perf page, `rdpmc_ok` | `pmc_open`, `pmc_open_system`, `pmc_read`, `pmc_close` | the kernel, through the perf page and descriptors | a seqlock read interrupted by overflow, rescheduling, loss of the register; widths 48 and 64; partial opens |
| PMC latency harness, `src/uops_latency_pmc.cpp` | counters of a pass, samples, empty-loop medians | five passes of open, baseline, benchmarks, close | PMC counters | six registers shared with the NMI watchdog; a counter lost in mid-run; baselines |
| Pointer ring and chase, `src/uops_memory.cpp` (and `init_pointer_ring` of five other harnesses) | the ring's slots, the permutation | `ring_alloc`, `init_ring_in_buffer`, `bench_chase` | everything that measures loads | one cycle through all slots, whatever the shuffle does |
| Working-set and TLB sweeps, `src/uops_memory.cpp` sections A, B | one ring at a time | allocate, warm up, sample, print, free | ring, mmap | failing allocations; fewer loads than slots |
| Cross-CCD experiment, `src/uops_memory.cpp` section C | ring, setup thread, affinities, cache lines | create, pin, join, move, chase | ring, scheduler, caches | two threads; every pin can fail; what the caches hold when the first sample starts |
| Windows latency probe, `src/uops_latency.cpp`, research probe `src/uops_research.cpp` | `rdpmc_faulted` | vectored exception handler, detection, `read_rdpmc` | OS | a flag shared with a handler; the primary column is chosen from what was detected at the start |
| Linux latency harness `src/uops_latency_linux.cpp` | samples, empty median | median / baseline | ring | as the PMC harness |
| Kernels: throughput, op2op, vector, store forwarding (`src/uops_*.cpp`) | register and flag chains inside a loop | one asm block per kernel | the core | whether the chain that is measured is the chain that is meant |
| Generator `tools/gen_from_xed.py` and its output `src/uops_generated.cpp` | stream state over the uops.info XML | collect, filter, emit | generated benchmarks | which operands make a chain |
| Comparison `tools/compare_uops.js` | keyed rows | CSV parse, key match, scale | results | keys that collide or never match |
| Run scripts `tools/run_all.sh`, `windows/*.ps1` | output directory, WPR session | sequence of programs | harness binaries, WPR | a step that fails half way |

What makes each correct:

* **PMC counters** - a read is linearizable modulo its width, never combines
  values of two epochs, ends, and a lost counter is recognisable as 0; no
  descriptor leaks or is closed twice.
* **PMC harness** - all counters of a pass count at once; the printed value is
  the benchmark's own count, although fewer than half of the samples were
  disturbed.
* **Ring** - one cycle of length `count`; each call does the same loads.
* **Sweeps** - rows are independent of each other's failures; a sample covers
  the working set that the row names.
* **Cross-CCD** - the ring is written by the setup thread on `setup_cpu`, chased
  by main on `measure_cpu`, never at the same time, and released on every path.
* **Kernels** - the time between two iterations is that of the path or of the
  pipes the row names; what the empty loop subtracts is what the row has besides.
* **Probes** - a read of the counter answers itself or 0; a counter that only
  answers is not taken for one that counts; a pinned probe is on the CPU it
  names; the primary column is the benchmark's own cycles, whatever happens to
  the counters meanwhile; a trapping `rdpmc` does not hang the probe.
* **Generator** - a generated kernel is a chain through an operand that the
  instruction reads.
* **Scripts** - "all done" and "Wrote" mean that the files are complete, of this
  run, and hold what they are named after; a recording is ended on every path,
  and nobody else's is touched.

`PROJECT.json` lists every hazard of this kind at its line with the properties
that cover it.

## Modules

| Module | Models | State <-> code |
|---|---|---|
| `MonitoredCounter` | abstract: what a caller of `pmc_read` is promised | a growing count, reads that answer the count at an instant of the call, a counter that may be lost |
| `PmcRead` | `pmc_read` of `src/pmc.h`, one action per load of the seqlock loop, against the kernel | `page` is the `perf_event_mmap_page`; `seq idx off val` are the locals; `hw slot count prev` the register and the kernel's accounting |
| `PmcPasses` | `main`, `run_pass`, `measure_empty_baselines`, `measure_per_op` of `src/uops_latency_pmc.cpp` over `pmc_open`/`pmc_close` | `fd` and `events` are descriptors and what they refer to; `rdpmcOk capRdpmc` which way a read goes; `deltas empties result` the vectors of samples and medians. A `pmc_read` is one step, justified by `PmcRead!ReadLinearizable`; it answers modulo the width of its path and costs what its way costs |
| `Ring` | `ring_alloc`, `init_ring_in_buffer`, `bench_chase`, the calls of `run_chase` | `perm i next` of the shuffle and link loops, `p` the chased pointer, `stage` which of these loops runs |
| `Median` | `median`, the same in all harnesses, over twice the values | none |
| `RdpmcProbe` | `src/uops_latency.cpp` and the same code in `src/uops_research.cpp`: `pin_to_logical_cpu`, `read_rdpmc` in four steps with the exception handler, `detect_rdpmc_fixed_core`, `measure_once`, `run_benchmark`, `main` | `pc` is the place in the program and `step` that in `read_rdpmc`; `faulted` is `rdpmc_faulted`, `value` eax and edx, `first last spent` the clocks' readings, `empty result` medians; `affinity cpu mode counter` the scheduler's and the cores' state |
| `RunScripts` | `tools/run_all.sh` and the two scripts `windows/run_windows_pmu*.ps1`, which run the same commands | `pc n` are the place in the script; `outputs` which run completed a file; `session started thrown etl` WPR's recording, `$started`, an exception, the trace files |
| `MemorySweep` | `calibrate_empty`, `section_a_working_set_sweep`, `section_b_tlb_sweep`, `choose_iters` with the tables of the source | `baseline` is the calibration's number of iterations, `mapped` is the memory held by rings, `covered` and `at` what a call has loaded from and where it ended: justified by `Ring!VisitsAllOnce` |
| `CrossCcd` | `section_c_cross_ccd`, `run_cross_ccd_scenario`, `setup_thread_main`, `main`'s re-pin | `pc` and `tpc` are the places of the two threads; `affinity cpu` the scheduler's view; `writer holders` who wrote a line last and which CCD holds it |
| `Kernels` | the asm loops and `bench_empty` of the three latency harnesses, `uops_research`, `uops_throughput`, `uops_op2op`, `uops_vector`, `uops_storefwd`, one row per benchmark, and of `uops_generated`, one row for the widths and element types of an instruction, with the operands that `emit_bench` of the generator writes; `main`'s baseline, `measure_once`, the adjustment of `run_benchmark` | `row` is the benchmark, `core` an external processor; `iter pc` the place in the unrolled loop; `ready free stored` when registers, flags and pipes are available and what the last store wrote; `empty elapsed` the two measurements |
| `Facts` | lemmas about remainders, and about medians: no code | |
| `PmcReadProofs`, `PmcPassesProofs`, `ChaseProofs` (of `Ring`, `MemorySweep` and what joins them), `CrossCcdProofs`, `RdpmcProbeProofs`, `RunScriptsProofs`, `KernelsProofs` | the proofs | |
| `MCPmcRead`, `MCRing`, `MCMemorySweep`, `MCCrossCcd`, `MCPmcPasses`, `MCKernels`, `MCRdpmcProbe`, `MCRunScripts` | instances for TLC, and the statements of comments that the code does not keep | |

Composition is by abstraction: `PmcPasses` uses a read as `PmcRead` guarantees
it - the count at an instant of the call, modulo 2^48 on the rdpmc path and 2^64 on the
other, or 0 of a counter that is lost - `MemorySweep` and `CrossCcd` use a chase as `Ring` guarantees it, `PmcPasses`
and `RdpmcProbe` share `Median`, so the interleavings of one level are not multiplied
with those of the next. `PmcPasses` also knows what `PmcRead` does not tell, how many
events a read costs: a constant for each way through `pmc_read` (the loop around `rdpmc`,
its early exit at index 0, `read()`, `read()` at end of file). A retry of the loop costs
more, but it needs an update of the page in the middle of a read, which is an interruption
and makes the sample a disturbed one. That a call of `MemorySweep` is a chase of `Ring` is a theorem
(`CallsAreAsSwept`).

What is abstracted: sizes 2^48 and 2^64 are `HwSize` and `WordSize` with one
dividing the other; slots are numbers, not addresses; the LCG of the shuffle may
yield any index; timings, formatting and messages are left out. Definitions
under "Mutation:" are deliberately wrong variants of the definition after them;
nothing of the models uses them.

The code around these programs - the perf subsystem, the scheduler, mmap, the
caches, the Windows Performance Recorder - is modelled from what the code relies
on. Five assumptions matter:
the kernel updates the perf page on the thread's own CPU, so that the reader
never sees a half-done update; the overflow interrupt is served before the
register laps itself (`Pending < HwSize - 1`); a 1 MB ring fits one L3, so that
a line leaves a CCD only when a CPU of the other CCD writes it; a core's cycle
counter counts for whichever thread runs there; `wpr` is one recorder for the
whole machine, whose exit code raises nothing in PowerShell 5, while a line on a
redirected stderr does.

## Runs

| Run | Checks | Instance and why it is enough |
|---|---|---|
| `pmc_read` | `TypeOK`, `ReadLinearizable`, `RetriesHaveCause`, `AtMostOneDrop`, the refinement `Implements`, the liveness `ReadTerminates` | a register modulo 4 in words modulo 8, two registers, periods up to 2, 5 events, 3 page updates: the register overflows, the count passes the register's width, and a read meets more than one update |
| `ring` | `RingTypeOK`, `VisitsAllOnce`, `SameWork` | 0 to 5 slots and every outcome of the shuffle; 4 loads per call is less than a lap, one lap, two, and a lap and a bit; three calls |
| `memory_sweep` | `TypeOK`, `OneRingAtATime`, `EveryRowPrinted`, `WholeLaps`, `BaselineFits` | all 28 rows of the source, each with or without a failing mmap, and one row below the minimum size; 2 samples stand for any number, all calls being alike |
| `sweep_warmup` | finding: `WarmupWalksRing` is violated | the same instance |
| `cross_ccd` | `TypeOK`, `NoOverlap`, `NothingLeaks`, `UnmarkedRowIsSetUp`, `AllRowsPrinted` | the four scenarios of the source on four machines (both CCDs, one CCD, CPUs 0 and 8, CPUs 1 and 8); two lines, so that the ring can be half written; two warmups and two samples; every failure of every call |
| `cross_ccd_signal` | finding: `SignalSurvives` is violated | the same |
| `cross_ccd_measure` | finding: `MeasuredWhereNamed` is violated | the machine with one CCD |
| `kernels` | `TypeOK`, `LatencyShown`, `ThroughputShown`, `UnchainedShowsNothing` | all rows with their real unrolling (64 to 512 instructions per iteration) and two iterations, so that what crosses the end of an iteration counts; every latency from 1 to 3 for each path, one or two pipes, pipelined or not, comparing addresses modulo 4096 or not. With two pipes only rows of four registers are limited by their registers; rows of eight would need a latency above four, and are left to `RowsShowThroughput`. A wrong path shifts a row by at least a cycle per two instructions, far beyond `Slack`, which is a few cycles per iteration |
| `rdpmc_probe` | `TypeOK`, `AnswersOwnRead`, `PinnedIsRequested`, `DetectedCounterCounts`, `MedianIsWork`, the liveness `ProbeEnds` | two CPUs with different cycles per loop, so that a thread that moves measures something else; every CPU's counter counting, stopped or blocked; a request beyond the mask whose shift would name a CPU; a counter of 64 values preset to 50, so that it starts again from 0 during the benchmarks; a word of 256, so that the difference wraps. 3 samples (the fewest the programs accept), one warmup, two benchmarks - the second shows a result or a clock kept from the first - and one interruption and one change by others: one disturbed sample in three is the largest minority |
| `run_scripts` | `TypeOK`, `OutputsOfThisRun`, `SessionReleased`, `TracesMatch`, `OthersSessionKept` | three binaries and the two traces in their order, two scripts after each other, so that the second meets what the first left; each command may fail, and Ctrl-C, a kill and another user of the recorder may come between any two |
| `kernels_half_cycle` | finding: `HalfCycle` is violated | the same |
| `pmc_passes` | `TypeOK`, `OwnedFds`, `AllCounting`, `MedianIsWork` | the five passes with their real widths 3, 5, 4, 3, 1 on six registers of which none or one is taken; 3 samples (the fewest the program accepts, so that one disturbed sample is a minority and two are not), one disturbance per pass: an interruption, or an eviction at any point of the measurements, also between the baseline and a benchmark. A read costs 2 events by `rdpmc`, 1 when its register is taken, 3 by `read()` and 2 at end of file, so that a change of way shows. A register of 48 values in words modulo 96 holds two samples, so masked counts begin anew between samples and within one |

Deadlock is checked in `pmc_read`; the other programs end, and their
configurations say so.

**Fairness.** `PmcRead!FairSpec`: the thread executes its next instruction while
it is scheduled, and a descheduled thread is scheduled again - what an operating
system guarantees to a runnable thread. Nothing is assumed of interrupts; that
`ReadTerminates` holds needs the kernel to stop updating the page, which the
bound `MaxUpdates` provides, and `RetriesHaveCause` says exactly that: each
retry is paid for by an update. `CrossCcd!FairSpec`: both threads keep running.
`pthread_join` waits, and nothing is assumed of migrations.
`RdpmcProbe!FairSpec`: the thread keeps running, `WF` of its own steps; nothing is
assumed of interrupts and of those who set the counters. `ProbeEnds` then depends
on the handler alone.

## Findings

1. **The sweep above 4 MiB chases a prefix of the ring** (`sweep_warmup`). Every
   `bench_chase` call starts at `r.base` and makes `iters * 64` loads: 65536 for
   8 to 32 MiB, 32768 up to 128 MiB, 16384 above. A ring of 1 GiB has 16777216
   slots. So all warmups and samples of the rows from 8 MiB on load the same
   lines - 1 MiB of them in the largest rows - and "walk the ring a few times"
   (`src/uops_memory.cpp:329`) is not what happens.
2. **The cross-CCD signal is erased by the warmup** (`cross_ccd_signal`). The
   comment at `src/uops_memory.cpp:647` explains why the buffer is not touched
   before the chase; `run_chase` then makes 8 unmeasured calls of 8 laps each.
3. **A row may be measured on another CPU than it names** (`cross_ccd_measure`).
   The pin to `measure_cpu` is not checked, and only a failed *setup* pin marks
   the row.

4. **addsd and mulsd are limited by their chains** (`kernels_half_cycle`). Four
   accumulators of latency 3 take 3 cycles for four instructions; the 0.5
   cycles of `src/uops_throughput.cpp:18` would need six. The printed 0.167 ns of
   `results/run_full_5950x/throughput.txt` are 0.75 cycles.

What the other modules show besides, as conditions in their properties:

* `SessionReleased` has three exceptions, which `causes` names: `wpr` itself fails
  to end the session, the script is killed, or Ctrl-C comes between `wpr -start`
  and `$started = $true` (`windows/run_windows_pmu_admin.ps1:40-41`): then `finally`
  does not cancel, and the next run refuses to start.
* `TracesMatch` needs `undisturbed`: PowerShell does not look at the exit codes of
  `wpr`, so after a failing `wpr -start` the script goes on and reports files it has
  not written.
* `OthersSessionKept` needs that nobody starts a recording after the check of the
  status: the check and `wpr -start` are not one step.
* `MedianIsWork` of `PmcPasses` counts a sample as lost in which a masked count passes
  2^48: `pmc_read` masks to 48 bits (`src/pmc.h:119-122`) and the difference is one of 64
  bits (`src/uops_latency_pmc.cpp:262`).
* It also counts the reads. They cancel out as long as they go the same ways in the empty
  loop and in the benchmark. When the kernel takes a counter away in between, its reads
  become shorter (`src/pmc.h:111-114`) and the rows of all the *other* counters of the pass
  are off by the difference, in every sample; the property says by how much.
* `MedianIsWork` of `RdpmcProbe` speaks of a pinned thread only. It counts a sample as lost in which the 48-bit counter
  starts again from 0: the difference is not masked (`src/uops_latency.cpp:330`).
* `BaselineFits` holds with a margin: at 256 iterations the 2048 of the calibration
  are 1792 too many, a ninth of an empty iteration per load.

What `Kernels` shows, as conditions in its properties:

* `adc`/`sbb` `dst->dst` and `CF->dst` have the same dependences; both rows
  print the slower of the two paths, and `LatencyShown` claims each only when it
  is the slower one.
* The address of `add r,[mem]` is constant, so the load is on no chain: fused and
  split rows print the latency of the addition (`shows` is `dst`, and `add, dst`).
* `cmovne+test` is divided by 64 instructions, not by 32 pairs: the row prints half
  of the sum of both latencies.
* E1 on a core that compares whole addresses, and E2, have no chain: after the
  chain of masks is subtracted their numbers are negative, as in
  `results/run_full_5950x/storefwd.txt`.

## Proofs

TLAPS proves that every invariant the passing runs check holds for every value of the
constants, and that `PmcRead` implements its abstract specification. Each module below
proves inductive invariants - they hold at first and every action preserves them, one
step of the proof per action - and derives the properties from them.

**`PmcReadProofs`** - `ReadInvariant`; `TypeCorrect`, `Linearizable`,
`RetriesBounded`, `OneDrop`, `ReadRefines`.
`ReadLinearizable` alone is not inductive: it speaks of the end of a read. `ReadInv`
adds `KernelInv` (register, page and count together account for every event,
`page.offset = count - prev`), `AttemptInv` (as long as the lock has not moved
since the attempt began, the loaded index and offset are the page's own, so what
`rdpmc` adds to them is the count at that instant) and `RetryInv` (each retry has
used up an update). `AtMostOneDrop` needs a second invariant, `DropInv`: a counter
that is lost answers 0 ever after, and until then no read returns less than the
count at its call. `ReadRefines` maps the steps of kernel and reader to those of
`MonitoredCounter`: the loads and retries of the loop stutter, the return is the
one step that answers, and by `ReadInv` its answer is a count the abstract counter
has had since the call.

**`PmcPassesProofs`** - `PassInvariant`; `TypeCorrect`, `DescriptorsOwned`,
`CountersTogether`, `MediansAreWork`.
`MedianIsWork` speaks of the printed row. `PassInv` follows a number there from the
counter: who holds which descriptor at each place of `run_pass`, and that no more
events than opened counters exist (`FdInv`), so that with `RegistersAssumption` each
gets a register; that every counter has as many samples, each with the ways its reads
went (`SamplesInv`); how many events an undisturbed sample has seen at each of its reads,
where the counters are read one after the other and so each counts the reads of the
others, each at the cost of its way (`CountInv`); that therefore every sample outside
`bad` is the whole sample for the ways it was taken (`DeltasInv`); and that the empty
loop's median is the loop and its reads (`EmptiesInv`). The last two steps are
`MedianIsUndisturbed`, with the samples that went other ways among the disturbed ones.
The answers start anywhere in the register; `CountInv` keeps the whole count at the first
read (`started`), so that an answer is its remainder and a sample is in `bad` if the
quotient has changed since.

**`ChaseProofs`** - of `Ring`: `RingInvariant`; `RingTypeCorrect`, `ChaseVisitsAllOnce`,
`PassesDoTheSameWork`. `RingInv` says that the shuffle keeps `perm` a permutation, that
the first `i` links are in place, and that the pointer after `load` loads is `load`
positions behind that of slot 0 in `perm` - so that the visited slots are the image of
an interval and a lap is `count` long.
Of `MemorySweep`: `SweepInvariant`; `TypeCorrect`, `OneRing`, `RowsAccounted`,
`LapsAreWhole`, `BaselineFitsAll`. `SweepInv` says at each place how many of the rows so
far have a line, counting those that section A leaves out, that the ring at hand is the
only one, and what a call has loaded from. `LapsAreWhole` then is arithmetic: the loads
of `choose_iters` are a multiple of the slots. `BaselineFitsAll` needs no table at all:
it is about the iterations that `choose_iters` chooses for any size.
Between the two: `CallsAreAsSwept`. `MemorySweep` does not chase; it writes down how many
slots a call of `bench_chase` loads from and where it ends. By `RingInv` that is where
the chase of `Ring` ends, link by link, and as many slots as it has seen, for any ring
and any number of loads.

**`CrossCcdProofs`** - `SetupInvariant`; `TypeCorrect`, `NoConcurrentUse`,
`EverythingReleased`, `UnmarkedRows`.
`SetupInv` relates the two program counters and says what the setup thread has
written at each of its places.

**`RdpmcProbeProofs`** - `TypeCorrect`, `ReadsAnswerThemselves`, `PinnedStays`,
`StoppedCounterFound`, `PrintedMedianIsWork`.
`MedianIsWork` speaks of the end of a benchmark; the inductive invariant `IInv` says
in six parts how it comes about: what a read has found so far (`ReadInv`), that a
pinned thread stays (`PinInv`), that a counter which stands still is where the first
read found it (`DetectInv`), what the clock shows in an undisturbed measurement
(`ClockInv`), so that every sample not in `bad` is the cost of a measurement
(`SampleInv`) and the medians are (`BaselineInv`, by `MedianIsUndisturbed`).

**`RunScriptsProofs`** - `ScriptsInvariant`; `TypeCorrect`, `CompleteOutputs`,
`RecordingEnds`, `TracesAreTheirOwn`, `OthersUntouched`.
`ScriptsInv` has one part per property: the outputs before the one at hand are of
this run (`OutputsInv`); a recording of ours that nothing in `causes` explains is
either just begun or known to `$started`, so that `finally` ends it (`ReleaseInv`);
what an undisturbed script has recorded and saved at each of its places (`TraceInv`);
and that whoever's session the script might end began it after the check of the
status (`OthersInv`). Ctrl-C, kills and the other users of the recorder are actions
like the commands, so the proof covers them at every point of the scripts.

**`KernelsProofs`** - `TypeCorrect`, `StopsAtFirst`; `EmptyCost`, `ChainCost`,
`TripCost`, `UnchainedCost`, `StreamCost`; `RowsShowLatency`, `RowsShowThroughput`,
`UnchainedRowsShowNothing`. For all rows, every assignment of latencies to paths, any
numbers of pipes and of iterations, the printed number is that of the path, or of the
pipes and registers, that the row is named for. The instructions of a loop are executed
one by one, so no induction over a sequence is needed: an invariant says where time
stands after `pc` instructions of iteration `iter`.
`RowShapes` first reduces the table to three shapes - a chain of one or two instructions
(`ChainedRow`), independent streams (`StreamRow`), a round trip through memory
(`TripRow`) - and `Timing` says what `Finish` is, a maximum, without mentioning sets.
`EmptyInv`: the empty loop costs a cycle per iteration at most, besides its masks.
`ChainInv`: what the next instruction waits for by the promised path is there no earlier
than the sum of the latencies so far, and nothing is later than that plus one cycle, and
the tail, per iteration. An iteration may lose its first instruction, where a cmovne that
takes over from the iteration before does so by a path that is faster.
`TripInv`: the same of the round trips, where the value is in the register or in the
bytes of the youngest store, and the store keeps its pipe a cycle longer.
`UnchainedInv`: where a load does not wait for the store, what is in flight is ahead of
the loop's counter by one mask at most.
`StreamInv` counts time in turns: with `Shared` turns to a cycle, each instruction of the
row is due `Limit` turns after the one before it. `StreamLate` says that none begins
later. The point is which pipes can be taken: of the `m` instructions that began last
each holds at most one, all others are free when the instruction before those was due and
done (`Freed`, `Behind`), so that the pipe which is free first is free in time
(`BeginsInTime`), and so is the register of the stream (`NextOf`). `StreamEarly` gives the
other side: register `a` has been written so many times, a latency apart; and the pipes
have been taken for so many cycles (`Taken`), which fit between the start and the end of
the loop only if it was long enough. `Limit` is the larger of the two, so the sum is
bounded from both sides by `Slack`.

**`Facts`** - the arithmetic of remainders, proved from the definition of division,
and `MedianIsUndisturbed`: of samples of which fewer than half are disturbed the
median is the undisturbed value, for an odd and an even number of samples. It rests
on the cardinalities of the samples below and up to a value; `RankedIsSample` shows
that each rank is taken at all.

**Assumptions.** They are named in the modules, and TLC evaluates them on the
instances. Most only give the constants their types (`BoundsAssumption`,
`CountsAssumption`, `ChaseAssumption`, `CpusAssumption`, `RegsAssumption`,
`PassesAssumption`, `RowsAssumption`, `CyclesAssumption`, `ModesAssumption`,
`RunsAssumption`, `ItersAssumption`, `MaxLatAssumption`, `PipesAssumption`). Those that
say more, and where the code justifies them:

* `SizesAssumption` of `PmcRead`: a period is shorter than the register, and the
  register's 2^48 divides the word's 2^64.
* `SizesAssumption` of `RdpmcProbe`: the counter's width is at most the word's.
* `RegistersAssumption` of `PmcPasses`: a pass has no more counters than six less
  those somebody else holds, unless it is the system-wide one. The header of
  `src/uops_latency_pmc.cpp` gives it as the reason for having passes. Without it
  a counter would stand still from the start: `AllCounting` would be false, and so
  would `MedianIsWork`.
* `CountAssumption` of `PmcPasses`: an undisturbed sample counts fewer events than a
  register holds, whichever ways its reads go, and a word is not narrower.
* `TablesAssumption` of `MemorySweep`: the slots of a TLB row, and of a working set
  of up to 4 MiB, divide the smallest number of loads. The tables of
  `src/uops_memory.cpp` have powers of two; only `LapsAreWhole` depends on it.
* `NamesAssumption` of `RunScripts`: no binary and no trace is named twice, as in the
  scripts' lists.

**Only model-checked.** Liveness (`ReadTerminates`, `AllRowsPrinted`, `ProbeEnds`),
which the prover does not reach, and the four findings, which are counterexamples.
TLC has also checked `EmptyInv`, `ChainInv`, `TripInv`, `UnchainedInv` and `StreamInv`
as invariants of the run `kernels`; they are stated in `Kernels.tla`, so that this can be
repeated by naming them in `Kernels.cfg`.

## Plan

1. Done: `PmcRead` (with its abstract specification), `Ring`, `CrossCcd`,
   `MemorySweep`, `PmcPasses`, `Kernels`, `RdpmcProbe`, `RunScripts`, and proofs of
   the invariants of all of them.
2. Left: the step from `MonitoredCounter` to the `Read` of `PmcPasses` is an argument of
   this file, not a theorem - the widths and the lost counter agree, but one counts events
   one by one and the other by the call; fewer and shorter leaves in the longest proofs.

## Not modelled, and why

* Clocks and frequency; in `Kernels` front end, window and values (whether a
  `cmov` moves, denormals, elimination of `add 0`).
* The CPU features that enable a row; in `RdpmcProbe` the columns besides the
  primary one, which are computed in the same way.
* In `RunScripts`: a failing `cd` or `mkdir` of `run_all.sh`, after which `set -e` leaves
  before the first binary; the exit code of a traced benchmark, which the scripts do not
  look at either.
* Printing, argument parsing, CPU feature strings, the priority of the process.
* The generator apart from the operands it writes: it reads one document from its
  beginning to its end, keeps copies of the attributes, and its outcome is checked
  in; `Kernels` has that outcome row by row. `results/` holds outputs.
* `tools/compare_uops.js`: string matching over files, without state.
* `windows/*.wprp`: static configuration.
* The sysfs parsers of `src/pmc.h`: pure I/O.
* `src/uops_memory.cpp:358` says that the total of loads is "a few hundred thousand
  even for the largest buffers"; it is 16384. This is a matter of finding 1.
