----------------------------- MODULE MCMemorySweep -----------------------------
(***************************************************************************)
(* The three tables of sections A and B as they stand in the source, after *)
(* a row of section A that is too small to be measured.                    *)
(***************************************************************************)
EXTENDS MemorySweep

MCWorkingSets == [k \in 0..17 |-> 8 * 2^k]
MCPages4K == <<64, 256, 1024, 4096, 16384>>
MCPages2M == <<8, 16, 64, 256, 1024>>

MCRows ==
  << [section |-> "A", slots |-> 4, kib |-> 1] >>
  \o [k \in 1..18 |-> [section |-> "A", slots |-> MCWorkingSets[k - 1] * 16,
                       kib |-> MCWorkingSets[k - 1]]]
  \o [k \in 1..5 |-> [section |-> "B1", slots |-> MCPages4K[k], kib |-> 4 * MCPages4K[k]]]
  \o [k \in 1..5 |-> [section |-> "B2", slots |-> MCPages2M[k], kib |-> 2 * MiB * MCPages2M[k]]]

-------------------------------------------------------------------------------

\* The comment of run_chase, "Warmup: walk the ring a few times so the first
\* measured sample is not dominated by cold-fault / page-walk traffic": when
\* the first sample begins, every slot of the ring has been loaded from.
WarmupWalksRing ==
  pc = "chase" /\ calls = Warmups => covered = Rows[row].slots

===============================================================================
