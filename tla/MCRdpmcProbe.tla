------------------------------ MODULE MCRdpmcProbe ------------------------------
(***************************************************************************)
(* A host with two kinds of core.  The command line names one of them, or  *)
(* a CPU beyond the bits of a mask that would stand for CPU 1 if the shift *)
(* were taken modulo the width.  The counters are about to start again     *)
(* from 0 before the last benchmark is done.                               *)
(***************************************************************************)
EXTENDS RdpmcProbe

MCCpus == {0, 1}
MCRequests == {1, 5}
MCFirstModes ==
  {[c \in MCCpus |-> IF c = 1 THEN m ELSE n] : m \in Modes, n \in {"counting", "blocked"}}
MCFirstCounts == {50}
MCLoop == [c \in MCCpus |-> 1 + c]
MCWork == << [c \in MCCpus |-> 2 + c], [c \in MCCpus |-> 1] >>

===============================================================================
