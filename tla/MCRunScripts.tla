------------------------------ MODULE MCRunScripts ------------------------------
(***************************************************************************)
(* Three binaries and the two traces of run_windows_pmu_admin.ps1, in two  *)
(* scripts one after the other, so that the second one finds what the      *)
(* first has left behind.                                                  *)
(***************************************************************************)
EXTENDS RunScripts

MCBinaries == <<"uops_latency_linux", "uops_latency_pmc", "uops_memory">>
MCProfiles == <<"cswitch", "sampling">>

===============================================================================
