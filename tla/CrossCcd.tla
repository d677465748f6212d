-------------------------------- MODULE CrossCcd --------------------------------
(***************************************************************************)
(* Section C of src/uops_memory.cpp: for each scenario a setup thread,     *)
(* pinned to setup_cpu, writes a pointer ring line by line; the main       *)
(* thread joins it, moves to measure_cpu and chases the ring there.        *)
(* Allocation, thread creation and every pinning can fail.                 *)
(*                                                                         *)
(* One chase call loads from every line: 1 MB is 16384 slots and a call    *)
(* makes 2048 * 64 loads, 8 laps, so Ring!VisitsAllOnce applies.  The      *)
(* caches and the scheduler are external code; a 1 MB ring fits one L3, so *)
(* a line leaves a CCD only when a CPU of the other one writes it.         *)
(***************************************************************************)
EXTENDS Integers, Sequences

CONSTANTS
  CPUs,         \* logical CPU numbers
  Ccd(_),       \* the core complex die a CPU belongs to
  OnlineSets,   \* the CPUs the process may run on, one of these sets
  Scenarios,    \* the table of section_c_cross_ccd: [setup, measure]
  Lines,        \* slots of the ring, one cache line each
  Warmups,      \* bench_chase calls before the first sample (8 in run_chase)
  Samples       \* samples per scenario

ASSUME CpusAssumption ==
  /\ \A online \in OnlineSets : online \subseteq CPUs /\ online # {}
  /\ Scenarios \in Seq([setup : CPUs, measure : CPUs]) /\ Scenarios # <<>>

ASSUME BoundsAssumption ==
  Lines \in Nat \ {0} /\ Warmups \in Nat /\ Samples \in Nat \ {0}

Nobody == [thread |-> "none", cpu |-> -1]    \* the writer of an untouched line

VARIABLES
  online,      \* external: the CPUs pthread_setaffinity_np accepts
  logical,     \* argv[1]
  n,           \* the current scenario
  pc,          \* main: where in run_cross_ccd_scenario
  affinity,    \* the CPUs each thread may run on
  cpu,         \* the CPU each thread is on
  mapped,      \* r.base # nullptr
  writer,      \* which thread wrote each line last, and on which CPU
  holders,     \* external: the CCDs whose caches hold each line
  saOk,        \* sa.ok
  tpc,         \* setup thread: where in setup_thread_main
  line,        \* its loop variable
  calls,       \* bench_chase calls of this scenario
  ranOn,       \* ghost: the CPUs the samples of this scenario ran on
  setupOk      \* setup_ok, without which the row is marked

mainVars  == <<n, pc, mapped, calls, ranOn, setupOk>>
setupVars == <<saOk, tpc, line>>
cacheVars == <<writer, holders>>
vars == <<online, logical, mainVars, setupVars, cacheVars, affinity, cpu>>

Threads == {"main", "setup"}
AllLines == 0..(Lines - 1)
Scenario == Scenarios[n]
Running == tpc \in {"pin", "write", "touch"}    \* the setup thread is

Init ==
  /\ online \in OnlineSets /\ logical \in CPUs
  /\ n = 1 /\ pc = "begin"
  /\ affinity = [t \in Threads |-> online]
  /\ \E c \in online : cpu = [t \in Threads |-> c]
  /\ mapped = FALSE
  /\ writer = [l \in AllLines |-> Nobody] /\ holders = [l \in AllLines |-> {}]
  /\ saOk = FALSE /\ tpc = "none" /\ line = 0
  /\ calls = 0 /\ ranOn = {} /\ setupOk = FALSE

-------------------------------------------------------------------------------
(* Affinity and caches (external). *)

\* pthread_setaffinity_np fails, and changes nothing, without a CPU to run on.
Pin(t, c) ==
  /\ affinity' = IF c \in online THEN [affinity EXCEPT ![t] = {c}] ELSE affinity
  /\ cpu' = IF c \in online THEN [cpu EXCEPT ![t] = c] ELSE cpu

\* The scheduler moves a thread within its affinity.
Migrate ==
  /\ \E t \in Threads, c \in CPUs :
       /\ t = "setup" => Running
       /\ c \in affinity[t] \ {cpu[t]}
       /\ cpu' = [cpu EXCEPT ![t] = c]
  /\ UNCHANGED <<online, logical, mainVars, setupVars, cacheVars, affinity>>

\* Writing takes a line away from the other CCD; reading shares it.
Write(t, lines) ==
  /\ writer' = [l \in AllLines |->
                  IF l \in lines THEN [thread |-> t, cpu |-> cpu[t]] ELSE writer[l]]
  /\ holders' = [l \in AllLines |-> IF l \in lines THEN {Ccd(cpu[t])} ELSE holders[l]]

Read(t, lines) ==
  /\ holders' = [l \in AllLines |->
                   IF l \in lines THEN holders[l] \cup {Ccd(cpu[t])} ELSE holders[l]]
  /\ UNCHANGED writer

-------------------------------------------------------------------------------
(* main, section_c_cross_ccd and run_cross_ccd_scenario. *)

\* main re-pins itself before section C, and ignores the result.
Begin ==
  /\ pc = "begin" /\ pc' = "alloc"
  /\ Pin("main", logical)
  /\ UNCHANGED <<online, logical, n, mapped, calls, ranOn, setupOk, setupVars, cacheVars>>

\* setup_ok starts false.  ring_alloc initialises the ring too, on this CPU.
AllocRing ==
  /\ pc = "alloc"
  /\ \/ mapped' = TRUE /\ pc' = "create" /\ Write("main", AllLines)
     \/ mapped' = FALSE /\ pc' = "report" /\ UNCHANGED cacheVars
  /\ calls' = 0 /\ ranOn' = {} /\ setupOk' = FALSE /\ saOk' = FALSE
  /\ UNCHANGED <<online, logical, n, tpc, line, affinity, cpu>>

\* Mutation: the failed pthread_create returns without ring_free.
RingLeft == TRUE

\* Is the ring still mapped after a failed pthread_create?
RingAfterFailedCreate == FALSE

\* The new thread inherits main's affinity.
CreateThread ==
  /\ pc = "create"
  /\ \/ /\ tpc' = "pin" /\ line' = 0 /\ pc' = "assist" /\ UNCHANGED mapped
        /\ affinity' = [affinity EXCEPT !["setup"] = affinity["main"]]
        /\ cpu' \in {[cpu EXCEPT !["setup"] = c] : c \in affinity["main"]}
     \/ /\ mapped' = RingAfterFailedCreate /\ pc' = "report"
        /\ UNCHANGED <<tpc, line, affinity, cpu>>
  /\ UNCHANGED <<online, logical, n, calls, ranOn, setupOk, saOk, cacheVars>>

\* Belt and braces; pinning a thread that has exited changes nothing.
AssistPin ==
  /\ pc = "assist" /\ pc' = "join"
  /\ IF tpc = "exited" THEN UNCHANGED <<affinity, cpu>> ELSE Pin("setup", Scenario.setup)
  /\ UNCHANGED <<online, logical, n, mapped, calls, ranOn, setupOk, setupVars, cacheVars>>

\* Mutations: the thread is detached, not joined; the join waits for sa.ok.
Detached == TRUE
WaitsForOk == saOk /\ tpc = "exited"

Joinable == tpc = "exited"

Join ==
  /\ pc = "join" /\ Joinable
  /\ tpc' = IF tpc = "exited" THEN "none" ELSE tpc
  /\ setupOk' = saOk
  /\ pc' = "move"
  /\ UNCHANGED <<online, logical, n, mapped, calls, ranOn, saOk, line, cacheVars,
                 affinity, cpu>>

\* The result of this pin is ignored as well.
MoveToMeasureCpu ==
  /\ pc = "move" /\ pc' = "chase"
  /\ Pin("main", Scenario.measure)
  /\ UNCHANGED <<online, logical, n, mapped, calls, ranOn, setupOk, setupVars, cacheVars>>

\* One bench_chase call of run_chase: a warmup or a sample.
Chase ==
  /\ pc = "chase" /\ calls < Warmups + Samples
  /\ Read("main", AllLines)
  /\ calls' = calls + 1
  /\ ranOn' = IF calls < Warmups THEN {} ELSE ranOn \cup {cpu["main"]}
  /\ UNCHANGED <<online, logical, n, pc, mapped, setupOk, setupVars, affinity, cpu>>

FreeRing ==
  /\ pc = "chase" /\ calls = Warmups + Samples
  /\ mapped' = FALSE /\ pc' = "report"
  /\ UNCHANGED <<online, logical, n, calls, ranOn, setupOk, setupVars, cacheVars,
                 affinity, cpu>>

\* The row is printed, marked unless setup_ok, and the next scenario begins.
Report ==
  /\ pc = "report"
  /\ \/ n < Len(Scenarios) /\ n' = n + 1 /\ pc' = "alloc"
     \/ n = Len(Scenarios) /\ n' = n /\ pc' = "done"
  /\ UNCHANGED <<online, logical, mapped, calls, ranOn, setupOk, setupVars, cacheVars,
                 affinity, cpu>>

Main == \/ Begin \/ AllocRing \/ CreateThread \/ AssistPin \/ Join
        \/ MoveToMeasureCpu \/ Chase \/ FreeRing \/ Report

-------------------------------------------------------------------------------
(* setup_thread_main. *)

\* Mutation: the result of the thread's own pin is not looked at.
PinUnchecked == TRUE

PinSucceeds == Scenario.setup \in online

SetupPin ==
  /\ tpc = "pin"
  /\ Pin("setup", Scenario.setup)
  /\ saOk' = PinSucceeds
  /\ tpc' = IF PinSucceeds THEN "write" ELSE "exited"
  /\ UNCHANGED <<online, logical, mainVars, line, cacheVars>>

\* Mutation: the loops run one line too far.
LastLineTooFar == Lines

LastLine == Lines - 1

\* init_ring_in_buffer, a line at a time.
SetupWrite ==
  /\ tpc = "write"
  /\ Write("setup", {line})
  /\ \/ line < LastLine /\ line' = line + 1 /\ tpc' = tpc
     \/ line = LastLine /\ line' = 0 /\ tpc' = "touch"
  /\ UNCHANGED <<online, logical, mainVars, saOk, affinity, cpu>>

SetupTouch ==
  /\ tpc = "touch"
  /\ Read("setup", {line})
  /\ \/ line < LastLine /\ line' = line + 1 /\ tpc' = tpc
     \/ line = LastLine /\ line' = 0 /\ tpc' = "exited"
  /\ UNCHANGED <<online, logical, mainVars, saOk, affinity, cpu>>

SetupThread == SetupPin \/ SetupWrite \/ SetupTouch

Next == Main \/ SetupThread \/ Migrate

Spec == Init /\ [][Next]_vars

\* Both threads keep running: the kernel schedules a runnable thread.
FairSpec == Spec /\ WF_vars(Main) /\ WF_vars(SetupThread)

-------------------------------------------------------------------------------

TypeOK ==
  /\ online \in OnlineSets /\ logical \in CPUs
  /\ n \in 1..Len(Scenarios)
  /\ pc \in {"begin", "alloc", "create", "assist", "join", "move", "chase", "report", "done"}
  /\ affinity \in [Threads -> SUBSET online]
  /\ cpu \in [Threads -> online]
  /\ \A t \in Threads : cpu[t] \in affinity[t]
  /\ mapped \in BOOLEAN /\ saOk \in BOOLEAN /\ setupOk \in BOOLEAN
  /\ writer \in [AllLines -> [thread : Threads, cpu : CPUs] \cup {Nobody}]
  /\ \A l \in AllLines : holders[l] \subseteq {Ccd(c) : c \in online}
  /\ tpc \in {"none", "pin", "write", "touch", "exited"}
  /\ line \in AllLines
  /\ calls \in 0..(Warmups + Samples)
  /\ ranOn \subseteq online

\* The setup thread never touches the ring while main chases it, frees it or
\* has gone on to another scenario, and the ring it writes is mapped.
NoOverlap == Running => mapped /\ pc \in {"assist", "join"}

\* Between scenarios no ring stays mapped and no thread is left behind,
\* whichever of the calls failed.
NothingLeaks == pc \in {"report", "done"} => ~mapped /\ tpc = "none"

\* Lines that the setup thread of this scenario has written where it should.
WrittenBySetup(lines) ==
  \A l \in lines : writer[l] = [thread |-> "setup", cpu |-> Scenario.setup]

\* A row that is printed without the [setup-pin-failed] mark is a measurement:
\* every line of the ring was last written by the setup thread on setup_cpu,
\* and all samples were taken after that.
UnmarkedRowIsSetUp ==
  pc = "report" /\ setupOk =>
    /\ calls = Warmups + Samples
    /\ WrittenBySetup(AllLines)

\* The inductive invariant behind the three: which of main's steps overlap with
\* the setup thread's, and what that thread has achieved at each of its own.
SetupInv ==
  /\ TypeOK
  /\ tpc # "none" <=> pc \in {"assist", "join"}
  /\ mapped <=> pc \in {"create", "assist", "join", "move", "chase"}
  /\ pc \in {"create", "assist", "join"} => ~setupOk
  /\ pc = "create" \/ tpc = "pin" => ~saOk
  /\ tpc = "pin" => line = 0
  /\ tpc \in {"write", "touch"} => affinity["setup"] = {Scenario.setup}
  /\ tpc = "write" => WrittenBySetup(0..(line - 1))
  /\ tpc = "touch" \/ (tpc = "exited" /\ saOk) => WrittenBySetup(AllLines)
  /\ pc \in {"move", "chase", "report"} /\ setupOk => WrittenBySetup(AllLines)
  /\ pc = "report" /\ setupOk => calls = Warmups + Samples

\* Whatever fails, every scenario gets its row.
AllRowsPrinted == <>(pc = "done")

===============================================================================
