-------------------------------- MODULE Kernels --------------------------------
(***************************************************************************)
(* The measured loops of the latency, throughput, operand, vector, store-  *)
(* forwarding and generated harnesses, as what a core sees of them:        *)
(* instructions that read and write registers, flags and bytes of memory.  *)
(* Each harness times an empty loop, then a loop of `reps' copies of a     *)
(* body, and prints                                                        *)
(*     (elapsed - empty) / (iters * OPS_PER_ITER).                         *)
(* Whether that number is the latency or the throughput that the row names *)
(* depends on which results each instruction waits for.                    *)
(*                                                                         *)
(* The core is external and idealised: any latency for each path from an   *)
(* operand to the result, a number of pipes per unit, an unbounded window. *)
(* "alu" stands for the unit of any integer instruction, "fp" for that of  *)
(* any floating-point or vector instruction.                               *)
(***************************************************************************)
EXTENDS Integers, Sequences, FiniteSets, FiniteSetsExt

CONSTANTS
  Iters,     \* iterations of a loop: `iters' of the command line
  MaxLat,    \* latencies are 1 .. MaxLat cycles
  Pipes      \* the numbers of pipes a unit may have

ASSUME ItersAssumption == Iters \in Nat \ {0}
ASSUME MaxLatAssumption == MaxLat \in Nat \ {0}
ASSUME PipesAssumption == Pipes \subseteq Nat \ {0} /\ IsFiniteSet(Pipes)

-------------------------------------------------------------------------------
(* Instructions: a unit, the operands it waits for, each with the path its  *)
(* value takes to the result, and what it writes.  Operands that never      *)
(* change inside the loop are left out, but for those of an instruction     *)
(* that has no others: they are "k".  Flags appear where something waits    *)
(* for them.                                                                *)

Op(unit, reads, writes) ==
  [unit |-> unit, reads |-> reads, writes |-> writes, loads |-> {}, stores |-> {}]

\* An instruction of `unit' that reads its own destination, by each of `paths'.
Self(unit, reg, paths) == Op(unit, {reg} \X paths, {reg})

\* A store of x to bytes, and a load of bytes to x.  The latency from the data
\* of a store to the result of a load that waits for it is that of the load.
Store(bytes) == [Op("store", {<<"x", "data">>}, {"mem"}) EXCEPT !.stores = bytes]
Load(bytes) == [Op("load", {<<"k", "one">>}, {"x"}) EXCEPT !.loads = bytes]

\* Mutation: the line for %[c] copied for %[d] and not edited.
FourCopied == <<"a", "b", "c", "c">>

Four == <<"a", "b", "c", "d">>
Eight == <<"a", "b", "c", "d", "e", "f", "g", "h">>

\* What the compiler adds: the counter of the for loop, with its flags.
LoopEnd == Op("alu", {<<"i", "one">>}, {"i", "CF", "ZF"})

(* Rows.  A "lat" row promises the latency of the paths `shows', one per    *)
(* instruction; a "tput" row promises what the independent streams reach;   *)
(* a "control" row is a reference point and promises nothing.               *)

Row(kind, name, body, reps, shows) ==
  [file |-> "", kind |-> kind, name |-> name, body |-> body, reps |-> reps, tail |-> <<>>,
   shows |-> shows, ops |-> 64]

Lat(name, unit, paths, shows) ==
  Row("lat", name, <<Self(unit, "x", paths)>>, 64, <<shows>>)

\* One instruction per register, each on its own register.
Streams(regs, reps, name, unit, paths) ==
  Row("tput", name, [n \in DOMAIN regs |-> Self(unit, regs[n], paths)], reps, <<>>)

\* One instruction per register, none of which reads what another wrote.
Fresh(regs, reps, name, unit, path) ==
  Row("tput", name, [n \in DOMAIN regs |-> Op(unit, {<<"k", path>>}, {regs[n]})], reps, <<>>)

-------------------------------------------------------------------------------
(* The rows of the harnesses. *)

\* The eight integer chains that all latency harnesses have.
IntChains ==
  { Lat(n, "alu", {"dst"}, "dst") : n \in {"add r64,imm", "add r64,r64", "imul r64,imm",
                                           "shl r64,1", "ror r64,7"} }
  \cup { Lat(n, "alu", {"src"}, "src") : n \in {"popcnt", "lzcnt"} }
  \cup { Lat("crc32", "alu", {"dst", "src"}, "dst") }

\* And their five others.  sqrtsd leaves the upper half of its destination.
FpChains ==
  { Lat(n, "fp", {"dst"}, "dst") : n \in {"addsd", "mulsd", "divsd"} }
  \cup { Lat("sqrtsd", "fp", {"src", "dst"}, "src") }
  \cup { Lat("L1 pointer chase", "load", {"src"}, "src") }

In(file, rows) == { [r EXCEPT !.file = file] : r \in rows }

LinuxInt == In("latency_linux", IntChains)
LinuxFp == In("latency_linux", FpChains)
PmcInt == In("latency_pmc", IntChains)
PmcFp == In("latency_pmc", FpChains)
WindowsInt == In("latency", IntChains)
WindowsFp == In("latency", FpChains)

\* src/uops_research.cpp adds "add r64,0" and, as throughput, eight streams of
\* each instruction: REP64 of eight instructions are TP_OPS_PER_ITER = 512.
ResearchLatency ==
  In("research", IntChains \cup FpChains \cup {Lat("add r64,0", "alu", {"dst"}, "dst")})

ResearchStream(name, unit, paths) == [Streams(Eight, 64, name, unit, paths) EXCEPT !.ops = 512]

ResearchIntStreams ==
  In("research",
     { ResearchStream(n, "alu", {"dst"}) : n \in {"add r64,imm", "add r64,0", "add r64,r64",
                                                  "imul r64,imm", "shl r64,1", "ror r64,7"} }
     \cup { ResearchStream(n, "alu", {"src"}) : n \in {"popcnt", "lzcnt"} }
     \cup { ResearchStream("crc32", "alu", {"dst", "src"}) })

ResearchFpStreams ==
  In("research",
     { ResearchStream(n, "fp", {"dst"}) : n \in {"addsd", "mulsd", "divsd"} }
     \cup { ResearchStream("sqrtsd", "fp", {"src", "dst"}) })

\* src/uops_throughput.cpp: four registers sixteen times.  popcnt and lzcnt read
\* one source that never changes; crc32 reads it too, and its own destination.
ThroughputInt ==
  In("throughput",
     { Streams(Four, 16, n, "alu", {"dst"}) : n \in {"add r64,imm", "add r64,r64", "imul r64,imm",
                                                     "shl r64,1", "ror r64,7", "crc32"} }
     \cup { Fresh(Four, 16, n, "alu", "src") : n \in {"popcnt", "lzcnt"} })

\* addsd and mulsd have four registers, the others eight; sqrtsd has sources of
\* its own, but still merges into the upper half of its destination.
ThroughputFp ==
  In("throughput",
     { Streams(Four, 16, n, "fp", {"dst"}) : n \in {"addsd", "mulsd"} }
     \cup { Streams(Eight, 8, n, "fp", {"dst"}) : n \in {"divsd", "sqrtsd"} }
     \cup { Fresh(Eight, 8, "L1 independent loads", "load", "src") })

\* src/uops_vector.cpp: each instruction as a chain and as eight streams.
VectorPair(unit, path, names) ==
  In("vector", { Lat(n, unit, {path}, path) : n \in names }
               \cup { Streams(Eight, 8, n, unit, {path}) : n \in names })

VectorSse == VectorPair("fp", "dst", {"paddd xmm", "pmulld xmm", "pshufb xmm", "pcmpeqb xmm", "por xmm"})
VectorAvx2 == VectorPair("fp", "dst", {"vpaddd ymm", "vpmulld ymm", "vpshufb ymm", "vpor ymm", "vpaddq ymm"})
VectorAvxFp == VectorPair("fp", "dst", {"vaddps ymm", "vmulps ymm", "vaddpd ymm", "vmulpd ymm"})
VectorFma == VectorPair("fp", "dst", {"vfmadd231ps ymm", "vfmadd231pd ymm", "vfnmadd231ps ymm"})
VectorShuffles == VectorPair("fp", "src", {"vpermq ymm,imm8", "vpermd ymm,ymm"})
VectorDivSqrt == VectorPair("fp", "dst", {"vdivps ymm"}) \cup VectorPair("fp", "src", {"vsqrtpd ymm"})

\* Mutation: each register its own source, adc a,a and adc b,b.
AddCarryItself(dst, srcs) ==
  Op("alu", {<<dst, "dst">>, <<"CF", "cf">>} \cup { <<dst, "src">> : s \in srcs }, {dst, "CF", "ZF"})

\* src/uops_op2op.cpp: which operand closes the chain.  adc and sbb also read
\* and write the carry; the source is a constant, or the two registers take turns.
AddCarry(dst, srcs) ==
  Op("alu", {<<dst, "dst">>, <<"CF", "cf">>} \cup (srcs \X {"src"}), {dst, "CF", "ZF"})

CarryRows ==
  In("op2op",
     UNION { { Row("lat", n \o " dst->dst", <<AddCarry("a", {})>>, 64, <<"dst">>),
               Row("lat", n \o " src->dst", <<AddCarry("a", {"b"}), AddCarry("b", {"a"})>>, 32,
                   <<"src">>),
               Row("lat", n \o " CF->dst", <<AddCarry("a", {})>>, 64, <<"cf">>) }
             : n \in {"adc", "sbb"} })

\* cmovne reads both registers and ZF, whatever ZF is.  The tails, one per
\* iteration, set ZF again: xor z,z and test z,z wait for nothing in the loop.
CmovNE(dst, srcs) == Op("alu", {<<dst, "dst">>, <<"ZF", "zf">>} \cup (srcs \X {"src"}), {dst})
Test(reg) == Op("alu", {<<reg, "test">>}, {"CF", "ZF"})
SetZF == Op("alu", {<<"k", "one">>}, {"CF", "ZF"})

CmovRows ==
  In("op2op",
     { [Row("lat", "cmovne dst->dst", <<CmovNE("a", {})>>, 64, <<"dst">>) EXCEPT !.tail = <<SetZF>>],
       [Row("lat", "cmovne src->dst", <<CmovNE("a", {"b"}), CmovNE("b", {"a"})>>, 32, <<"src">>)
          EXCEPT !.tail = <<SetZF>>],
       Row("lat", "cmovne+test flags->dst", <<Test("a"), CmovNE("a", {})>>, 32, <<"test", "zf">>) })

\* The address of add r,[mem] is a constant: its load waits for nothing, and
\* the register is all that joins one instruction to the next.
MemoryOperandRows ==
  In("op2op",
     { Lat(n, "load", {"src"}, "src") : n \in {"mov simple addr", "mov indexed addr"} }
     \cup { Lat("add r,[mem] fused", "alu", {"dst"}, "dst"),
            Row("lat", "add r,r;add r,[mem] split",
                <<Self("alu", "x", {"add"}), Self("alu", "x", {"dst"})>>, 32, <<"add", "dst">>) })

\* src/uops_storefwd.cpp: a store, a load and a mask per op, thirty-two times.
Mask == Self("alu", "x", {"and"})

RoundTrip(kind, name, stored, loaded, shows) ==
  [Row(kind, name, <<Store(stored), Load(loaded), Mask>>, 32, shows) EXCEPT !.ops = 32]

ForwardingRows ==
  In("storefwd",
     { RoundTrip("lat", "A", 0..7, 0..7, <<"fwd">>),
       RoundTrip("lat", "B", 0..7, 4..11, <<"stall">>),
       RoundTrip("lat", "C", 0..3, 0..7, <<"stall">>),
       RoundTrip("lat", "D", 0..7, 0..3, <<"fwd">>) })

\* Mutation: 64 written 4, as in bench_fwd_partial_overlap.
AliasRowsNear ==
  In("storefwd",
     { RoundTrip("lat", "E1", 0..7, 4096..4103, <<"stall">>),
       RoundTrip("control", "E2", 0..7, 4..11, <<>>) })

AliasRows ==
  In("storefwd",
     { RoundTrip("lat", "E1", 0..7, 4096..4103, <<"stall">>),
       RoundTrip("control", "E2", 0..7, 64..71, <<>>) })

\* tools/gen_from_xed.py writes src/uops_generated.cpp.  The mutation forgets the
\* instructions of BMI1 and the bit scans.
OneSourceForgotten == {"POPCNT", "LZCNT"}

\* emit_bench's list of instructions that do not read their destination.
OneSource == {"POPCNT", "LZCNT", "TZCNT", "BLSI", "BLSR", "BLSMSK", "BSF", "BSR"}
SseOneSource == {"SQRTSD", "SQRTSS", "SQRTPD", "SQRTPS", "VSQRTPD", "VSQRTPS"}

\* The sources emit_bench writes: the destination, "x", or another register, "k".
EmittedSources(category, asm) ==
  CASE category = "RR_GPR64" -> IF asm \in OneSource THEN <<"x">> ELSE <<"k">>
    [] category = "RR_XMM" -> IF asm \in SseOneSource THEN <<"x">> ELSE <<"k">>
    [] category = "RR_I32_GPR64" -> <<"x">>
    [] category = "RRR_GPR64" -> <<"x", "k">>
    [] category = "RRR_XMM" -> <<"k", "x">>
    [] category = "FMA" -> <<"k", "k">>
    [] OTHER -> <<>>

\* `reads' names the path that each of an instruction's operands takes, the
\* destination first; it does not read one without a name.  One row stands for
\* the widths, element types and immediates of an instruction.
Generated(category, unit, reads, shows, asms) ==
  In("generated",
     { Row("lat", asm,
           << LET operands == <<"x">> \o EmittedSources(category, asm)
                  used == { n \in DOMAIN operands : reads[n] # "" }
                  waits == { n \in used : operands[n] = "x" }
              IN  Op(unit, { <<operands[n], reads[n]>> : n \in IF waits # {} THEN waits ELSE used },
                     {"x"}) >>,
           64, <<shows>>) : asm \in asms })

GeneratedAvx ==
  Generated("RRR_XMM", "fp", <<"", "src1", "src2">>, "src2",
            {"VADD", "VDIV", "VMAX", "VMIN", "VMUL", "VSUB"})
GeneratedAvxSqrt ==
  Generated("RR_XMM", "fp", <<"", "src">>, "src", {"VSQRTPD", "VSQRTPS"})
  \cup Generated("RRR_XMM", "fp", <<"", "src1", "src2">>, "src2", {"VSQRTSD", "VSQRTSS"})
GeneratedImmediates ==
  Generated("R_I32_GPR64", "alu", <<"dst">>, "dst", {"ADD", "AND", "OR", "SUB", "XOR"})
GeneratedMultiply ==
  Generated("RR_GPR64", "alu", <<"dst", "src">>, "dst", {"IMUL_rr"})
  \cup Generated("RR_I32_GPR64", "alu", <<"", "src">>, "src", {"IMUL_rri"})
GeneratedShifts ==
  Generated("SHIFT_R_1_GPR64", "alu", <<"dst">>, "dst", {"ROL", "ROR", "SAR", "SHL", "SHR"})
GeneratedScans == Generated("RR_GPR64", "alu", <<"dst", "src">>, "src", {"BSF", "BSR"})
GeneratedBits ==
  Generated("RR_GPR64", "alu", <<"", "src">>, "src", {"BLSI", "BLSMSK", "BLSR", "TZCNT", "LZCNT"})
GeneratedBmi ==
  Generated("RRR_GPR64", "alu", <<"", "src", "src2">>, "src",
            {"ANDN", "BEXTR", "BZHI", "PDEP", "PEXT", "SARX", "SHLX", "SHRX"})

\* The digits tell which operand is the addend: the chain leads through a factor
\* in the forms 132 and 213.
FmaForms(op) ==
  Generated("FMA", "fp", <<"factor", "addend", "factor">>, "factor", {op \o "132"})
  \cup Generated("FMA", "fp", <<"factor", "factor", "addend">>, "factor", {op \o "213"})
  \cup Generated("FMA", "fp", <<"addend", "factor", "factor">>, "addend", {op \o "231"})

GeneratedFmadd == FmaForms("VFMADD")
GeneratedFmsub == FmaForms("VFMSUB")
GeneratedFnmadd == FmaForms("VFNMADD")
GeneratedFnmsub == FmaForms("VFNMSUB")
GeneratedSse ==
  Generated("RR_XMM", "fp", <<"dst", "src">>, "dst", {"ADD", "DIV", "MAX", "MIN", "MUL", "SUB"})
GeneratedSseSqrt ==
  Generated("RR_XMM", "fp", <<"", "src">>, "src", {"SQRTPD"})
  \cup Generated("RR_XMM", "fp", <<"dst", "src">>, "src", {"SQRTSD"})

\* kBenchmarks.
GeneratedRows ==
  UNION { GeneratedAvx, GeneratedAvxSqrt, GeneratedImmediates, GeneratedMultiply, GeneratedShifts,
          GeneratedScans, GeneratedBits, GeneratedBmi,
          GeneratedFmadd, GeneratedFmsub, GeneratedFnmadd, GeneratedFnmsub,
          GeneratedSse, GeneratedSseSqrt }

AllRows ==
  UNION { LinuxInt, LinuxFp, PmcInt, PmcFp, WindowsInt, WindowsFp,
          ResearchLatency, ResearchIntStreams, ResearchFpStreams,
          ThroughputInt, ThroughputFp,
          VectorSse, VectorAvx2, VectorAvxFp, VectorFma, VectorShuffles, VectorDivSqrt,
          CarryRows, CmovRows, MemoryOperandRows, ForwardingRows, AliasRows,
          GeneratedRows }

\* Mutation: the empty loop of the other harnesses.
EmptyBodyUnmasked(file) == [body |-> <<>>, reps |-> 32, tail |-> <<>>]

\* bench_empty of the harness: nothing inside the loop, but for the masks that
\* src/uops_storefwd.cpp wants subtracted.
EmptyBody(file) ==
  [body |-> IF file = "storefwd" THEN <<Mask>> ELSE <<>>, reps |-> 32, tail |-> <<>>]

-------------------------------------------------------------------------------
(* The core and the measurement. *)

VARIABLES
  row,      \* the row being measured
  core,     \* the latencies, the pipes, whether fp units are pipelined, 4K aliasing
  phase,    \* "empty", "bench" or "done"
  iter,     \* iterations finished
  pc,       \* instructions of this iteration that are finished
  ready,    \* when the value of a location is there
  free,     \* when a pipe of a unit can begin another instruction
  stored,   \* the bytes of the youngest store
  empty,    \* cycles of the empty loop
  elapsed   \* cycles of the row's loop

vars == <<row, core, phase, iter, pc, ready, free, stored, empty, elapsed>>

Units == {"alu", "fp", "load", "store"}
Locations == Range(Eight) \cup {"x", "i", "k", "CF", "ZF", "mem"}

Instructions(k) == Range(k.body \o k.tail)
UsesMemory(k) == \E insn \in Instructions(k) : insn.stores # {}

\* The paths whose latency the row depends on, or promises; "one" is a single
\* cycle and "data" none.
Paths(k) ==
  ((Range(k.shows) \cup UNION { { r[2] : r \in insn.reads } : insn \in Instructions(k) })
     \ {"one", "data"})
  \cup (IF UsesMemory(k) THEN {"fwd", "stall"} ELSE {})

Latency(p) == IF p = "one" THEN 1 ELSE IF p = "data" THEN 0 ELSE core.lat[p]

Cores(k) ==
  [lat : [Paths(k) -> 1..MaxLat], pipes : Pipes,
   pipelined : IF \E insn \in Instructions(k) : insn.unit = "fp" THEN BOOLEAN ELSE {TRUE},
   aliases : IF UsesMemory(k) THEN BOOLEAN ELSE {FALSE}]

Idle(pipes) == [u \in Units |-> [p \in 1..pipes |-> 0]]
AtRest == [loc \in Locations |-> 0]

Init ==
  /\ row \in AllRows
  /\ core \in Cores(row)
  /\ phase = "empty" /\ iter = 0 /\ pc = 0
  /\ ready = AtRest /\ free = Idle(core.pipes) /\ stored = {}
  /\ empty = 0 /\ elapsed = 0

Code == IF phase = "empty" THEN EmptyBody(row.file) ELSE row

CodeLength == Len(Code.body) * Code.reps + Len(Code.tail) + 1

\* The next instruction: the copies of the body, the tail, the end of the loop.
NextInstruction ==
  LET copies == Len(Code.body) * Code.reps
  IN  IF pc < copies THEN Code.body[(pc % Len(Code.body)) + 1]
      ELSE IF pc < copies + Len(Code.tail) THEN Code.tail[pc - copies + 1]
      ELSE LoopEnd

\* How a load waits for the youngest store: it takes the bytes from the store
\* if all are there, waits for the cache if some are, or if the core compares
\* addresses modulo 4096 and these agree; otherwise it does not wait.
ForwardPaths(loaded) ==
  IF loaded = {} \/ stored = {} THEN {}
  ELSE IF loaded \subseteq stored THEN {"fwd"}
  ELSE IF loaded \cap stored # {} THEN {"stall"}
  ELSE IF core.aliases /\ { b % 4096 : b \in loaded } \cap stored # {} THEN {"stall"}
  ELSE {}

\* What an instruction waits for: its operands and, if it loads, the store.
Waits(insn) == insn.reads \cup ({"mem"} \X ForwardPaths(insn.loads))

\* It is as slow as the slowest of its paths.
Own(insn) == Max({ Latency(r[2]) : r \in Waits(insn) })

\* The pipe of a unit that is free first.
FirstFree(unit) ==
  CHOOSE p \in 1..core.pipes : \A q \in 1..core.pipes : free[unit][p] <= free[unit][q]

\* Its result is there when it had a pipe and every operand has gone its path.
Finish(insn) ==
  Max({free[insn.unit][FirstFree(insn.unit)] + Own(insn)}
      \cup { ready[r[1]] + Latency(r[2]) : r \in Waits(insn) })

\* How long it keeps others from its pipe.
Busy(insn) == IF insn.unit = "fp" /\ ~core.pipelined THEN Own(insn) ELSE 1

\* Mutation: `i <= iters'.
OneIterationMore == iter <= Iters

\* The condition of the for loop.
MoreIterations == iter < Iters

Execute ==
  LET insn == NextInstruction
      finish == Finish(insn)
  IN  /\ phase # "done" /\ MoreIterations
      /\ ready' = [loc \in Locations |-> IF loc \in insn.writes THEN finish ELSE ready[loc]]
      /\ free' = [free EXCEPT ![insn.unit][FirstFree(insn.unit)] = finish - Own(insn) + Busy(insn)]
      /\ stored' = IF insn.stores # {} THEN insn.stores ELSE stored
      /\ IF pc + 1 < CodeLength THEN pc' = pc + 1 /\ iter' = iter
                                ELSE pc' = 0 /\ iter' = iter + 1
      /\ UNCHANGED <<row, core, phase, empty, elapsed>>

\* read_tsc_end waits for every instruction before it.
Cycles == Max(Range(ready))

\* main measures the empty loop first.
EndEmpty ==
  /\ phase = "empty" /\ ~MoreIterations
  /\ empty' = Cycles
  /\ phase' = "bench" /\ iter' = 0 /\ pc' = 0
  /\ ready' = AtRest /\ free' = Idle(core.pipes) /\ stored' = {}
  /\ UNCHANGED <<row, core, elapsed>>

\* measure_once of the row, whose cycles run_benchmark adjusts and divides.
EndBench ==
  /\ phase = "bench" /\ ~MoreIterations
  /\ elapsed' = Cycles
  /\ phase' = "done"
  /\ UNCHANGED <<row, core, iter, pc, ready, free, stored, empty>>

Next == Execute \/ EndEmpty \/ EndBench

Spec == Init /\ [][Next]_vars

-------------------------------------------------------------------------------
(* Properties.  The printed number is Net / Printed. *)

Net == elapsed - empty
Divisor == Iters * row.ops

\* An iteration may lose or gain the latency of one instruction, at its ends.
Slack == Iters * (MaxLat + 1)

Abs(n) == IF n < 0 THEN -n ELSE n

TypeOK ==
  /\ row \in AllRows /\ core \in Cores(row)
  /\ phase \in {"empty", "bench", "done"}
  /\ iter \in 0..Iters /\ pc \in 0..(CodeLength - 1)
  /\ ready \in [Locations -> Nat]
  /\ free \in [Units -> [1..core.pipes -> Nat]]
  /\ empty \in Nat /\ elapsed \in Nat

\* The latencies that a row promises: it takes two of them in turns.
First == core.lat[row.shows[1]]
Last == core.lat[row.shows[Len(row.shows)]]

\* The paths of a row that it neither promises nor has subtracted, none of them
\* slower than those that it promises.
OtherPaths == Paths(row) \ (Range(row.shows) \cup {"and"})
Undisturbed ==
  \A p \in OtherPaths \ {"fwd", "stall"}, q \in Range(row.shows) : core.lat[p] <= core.lat[q]

\* A latency row prints the latency of the path that it is named for: the
\* instructions wait for one another along that path from the first to the last,
\* and what is subtracted is what the row has besides.  It may not where another
\* path is slower, nor E1 where the core compares all address bits.  A row that
\* promises two paths prints their mean.
LatencyShown ==
  phase = "done" /\ row.kind = "lat" /\ Undisturbed /\ (row.name = "E1" => core.aliases)
  => Abs(2 * Net - Divisor * (First + Last)) <= 2 * Slack

\* A throughput row prints what limits independent instructions: the pipes of
\* their unit, or - with too few registers - the time until an instruction finds
\* its own register again, whichever is longer.
Carried == { r[2] : r \in { r \in UNION { insn.reads : insn \in Instructions(row) } : r[1] # "k" } }

Regained == Max({0} \cup { core.lat[p] : p \in Carried })
Occupied == IF core.pipelined THEN 1 ELSE Max({ core.lat[p] : p \in Paths(row) })
Limit == Max({Regained * core.pipes, Occupied * Len(row.body)})

ThroughputShown ==
  phase = "done" /\ row.kind = "tput"
  => LET shared == core.pipes * Len(row.body)
     IN  Abs(Net * shared - Divisor * Limit) <= Slack * shared

\* Where a load does not wait for the store, the loop has no chain: nothing
\* beyond the two ends of an iteration is left of it once the masks of the empty
\* loop are subtracted.
Unchained == row.kind = "control" \/ (row.name = "E1" /\ ~core.aliases)

UnchainedShowsNothing ==
  phase = "done" /\ row.file = "storefwd" /\ Unchained => Net <= Slack

-------------------------------------------------------------------------------
(* The inductive invariants behind these: how long after the start of a loop   *)
(* each instruction can begin at the earliest and at the latest.               *)

\* Nothing is later than t.
Bounded(t) ==
  /\ \A loc \in Locations : ready[loc] <= t
  /\ \A u \in Units, p \in 1..core.pipes : free[u][p] <= t

\* A loop that has all its iterations stands at its first instruction.
Stopped == iter = Iters => pc = 0

\* The empty loop costs a cycle per iteration, and the masks that it may have.
EmptyInv ==
  IF row.file = "storefwd"
    THEN LET mask == core.lat["and"]
         IN  /\ phase = "empty" => /\ Bounded(iter * (32 * mask + 1) + pc * mask)
                                  /\ ready["x"] >= iter * (32 * mask) + pc * mask
             /\ phase # "empty" => empty \in Iters * (32 * mask) .. Iters * (32 * mask + 1)
    ELSE /\ phase = "empty" => Bounded(iter)
         /\ phase # "empty" => empty \in 0..Iters

\* What n instructions cost that take the two promised paths in turns.
Alternating(n) == (n \div 2) * (First + Last) + IF n % 2 = 0 THEN 0 ELSE First

\* An iteration of a chain of 64 instructions can lose the first of them, when the
\* one before it hands over its value by another path, and gain a tail and the end
\* of the loop.
Kept == Alternating(64) - First
Whole == Alternating(64) + Len(row.tail) + 1

ChainLate == iter * Whole + IF pc <= 64 THEN Alternating(pc) ELSE Alternating(64) + pc - 64

\* The operand that the next instruction of the chain waits for, by the promised path.
\* Nothing but the chain writes the one that the first instruction waits for.
ChainEarly ==
  IF pc \in 1..63
    THEN LET next == (pc % Len(row.body)) + 1
         IN  \E r \in row.body[next].reads :
               /\ r[2] = row.shows[IF Len(row.shows) = Len(row.body) THEN next ELSE 1]
               /\ ready[r[1]] >= iter * Kept + Alternating(pc) - First
    ELSE \E r \in row.body[1].reads :
           /\ r[1] \notin LoopEnd.writes
           /\ ready[r[1]] >= (iter + IF pc = 0 THEN 0 ELSE 1) * Kept

ChainInv ==
  row.kind = "lat" /\ row.file # "storefwd" /\ Undisturbed =>
    /\ phase = "bench" => Bounded(ChainLate) /\ ChainEarly
    /\ phase = "done" => elapsed \in Iters * Kept .. Iters * Whole

\* What n instructions of the round trip cost: a store nothing, a load that waits
\* for it the promised latency, a mask its own.
RoundTrips(n) ==
  (n \div 3) * (First + core.lat["and"]) + IF n % 3 = 2 THEN First ELSE 0

\* A chain of 32 round trips through memory.  A store keeps its pipe for a cycle.
TripEarly == iter * RoundTrips(96) + RoundTrips(pc)
TripLate == iter + TripEarly

TripInv ==
  row.kind = "lat" /\ row.file = "storefwd" /\ (row.name = "E1" => core.aliases) =>
    /\ phase = "bench" =>
         /\ \A loc \in Locations : ready[loc] <= TripLate
         /\ \A u \in Units, p \in 1..core.pipes :
              free[u][p] <= IF u = "store" /\ pc % 3 = 1 THEN TripLate + 1 ELSE TripLate
         /\ ready[IF pc % 3 = 1 THEN "mem" ELSE "x"] >= TripEarly
         /\ pc % 3 = 1 => stored = row.body[1].stores
    /\ phase = "done" => elapsed \in Iters * RoundTrips(96) .. Iters * (RoundTrips(96) + 1)

\* Loads that wait for nothing: the n-th of an iteration begins n cycles after it,
\* and what follows it is done before the next has its pipe.
LoadsBegun == iter * 33 + pc \div 3

UnchainedInv ==
  row.file = "storefwd" /\ Unchained =>
    /\ phase = "bench" =>
         /\ ready["x"] <= LoadsBegun + IF pc % 3 = 2 THEN 1 ELSE core.lat["and"]
         /\ ready["mem"] <= LoadsBegun + core.lat["and"]
         /\ ready["k"] = 0
         /\ \A loc \in Locations \ {"x", "mem"} : ready[loc] <= LoadsBegun + 1
         /\ \A p \in 1..core.pipes :
              /\ free["load"][p] <= LoadsBegun + IF pc % 3 = 2 THEN 1 ELSE 0
              /\ free["store"][p] <= LoadsBegun + core.lat["and"] + IF pc % 3 = 0 THEN 0 ELSE 1
              /\ free["alu"][p] <= LoadsBegun + 1
         /\ pc % 3 = 1 => stored = row.body[1].stores
    /\ phase = "done" => elapsed <= Iters * 33 + core.lat["and"]

\* Independent streams: the unit that they share, and the turns on its pipes and
\* registers, in which a cycle counts Shared.  The end of the loop takes a turn too.
StreamUnit == row.body[1].unit
Shared == core.pipes * Len(row.body)
Round == iter * (row.ops + 1)

\* The latest that the n-th instruction begins.  An iteration can last a cycle longer
\* for its counter.
Due(n) == n * Limit + iter * Shared

\* By when the pipes of all but the latest m instructions are free again, and those
\* that are not.
Freed(m) == IF Round + pc <= m THEN 0 ELSE Due(Round + pc - 1 - m) + Occupied * Shared
Behind(m) == { p \in 1..core.pipes : free[StreamUnit][p] * Shared > Freed(m) }

\* The next instruction of an iteration that writes the j-th register.
NextOf(j) ==
  pc - (pc % Len(row.body)) + (j - 1) + IF j <= pc % Len(row.body) THEN Len(row.body) ELSE 0

\* The latest that the last instruction before this one began, if it is not the end
\* of the loop.
LastDue == IF pc = 0 THEN Due(Round - 2) - Shared ELSE Due(Round + pc - 1)

StreamLate ==
  /\ \A m \in 0..(core.pipes - 1) : Cardinality(Behind(m)) <= m
  /\ StreamUnit # "alu" => \A p \in 1..core.pipes : free["alu"][p] * Shared <= Due(Round)
  /\ \A loc \in LoopEnd.writes : ready[loc] * Shared <= Due(Round)
  /\ \A loc \in {"k", "x", "mem"} : ready[loc] = 0
  /\ \A j \in DOMAIN Eight :
       /\ ready[Eight[j]] # 0 =>
            j <= Len(row.body) /\ ready[Eight[j]] * Shared <= LastDue + Own(row.body[1]) * Shared
       /\ j <= Len(row.body) /\ Regained # 0 =>
            ready[Eight[j]] * Shared <= Due(Round + NextOf(j))

\* The cycles in which a pipe of the unit was taken.
Taken == { s \in (1..core.pipes) \X (0..Cycles) : s[2] < free[StreamUnit][s[1]] }

StreamEarly ==
  /\ ready["a"] >= Regained * (iter * row.reps + (pc + Len(row.body) - 1) \div Len(row.body))
  /\ Cardinality(Taken) >= Occupied * (iter * row.ops + pc)
  /\ \A p \in 1..core.pipes :
       \E loc \in Locations \ {"CF", "ZF"} : free[StreamUnit][p] <= ready[loc]
  /\ Regained = 0 =>
       \A p, q \in 1..core.pipes :
         \/ free[StreamUnit][p] <= ready["i"]
         \/ free[StreamUnit][p] <= free[StreamUnit][q] + Occupied

StreamInv ==
  row.kind = "tput" =>
    /\ phase = "bench" => StreamLate /\ StreamEarly
    /\ phase = "done" =>
         elapsed * Shared \in Divisor * Limit .. Divisor * Limit + Slack * Shared

===============================================================================
