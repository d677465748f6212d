------------------------------- MODULE MCKernels -------------------------------
(***************************************************************************)
(* One pipe, where everything queues, and two, where independent work      *)
(* overlaps and a chain does not.                                          *)
(***************************************************************************)
EXTENDS Kernels

MCPipes == {1, 2}

-------------------------------------------------------------------------------

\* The comment of src/uops_throughput.cpp, "addsd/mulsd: 4 xmm regs (Zen 3
\* FADD/FMUL latency 3, 2 pipes -> 0.5 c/op)": on that core these rows print half
\* a cycle per instruction.
HalfCycle ==
  /\ phase = "done" /\ row.file = "throughput" /\ row.name \in {"addsd", "mulsd"}
  /\ core.lat["dst"] = 3 /\ core.pipes = 2 /\ core.pipelined
  => Abs(2 * Net - Divisor) <= 2 * Slack

===============================================================================
