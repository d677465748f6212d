------------------------------ MODULE MCPmcPasses ------------------------------
(***************************************************************************)
(* The five passes of main, with the number of counters each opens, on the *)
(* six registers of Zen 3 of which one may be taken; two benchmarks and    *)
(* three samples, the fewest the harness accepts.                          *)
(***************************************************************************)
EXTENDS PmcPasses

MCPasses == << [width |-> 3, system |-> FALSE], [width |-> 5, system |-> FALSE],
               [width |-> 4, system |-> FALSE], [width |-> 3, system |-> FALSE],
               [width |-> 1, system |-> TRUE] >>

MCOthers == {0, 1}

MCWork == <<3, 0>>

\* A read that finds its register taken away, or nothing to read, costs less.
MCReadCost == [rdpmc |-> 2, taken |-> 1, read |-> 3, eof |-> 2]

===============================================================================
