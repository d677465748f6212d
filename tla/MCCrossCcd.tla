------------------------------- MODULE MCCrossCcd -------------------------------
(***************************************************************************)
(* Section C with its own table of scenarios, on machines that have all    *)
(* four CPUs of the table, only the first CCD, only the CPUs 0 and 8, or   *)
(* only the CPUs 1 and 8 (a restricted cpuset).                            *)
(***************************************************************************)
EXTENDS CrossCcd

MCCPUs == {0, 1, 8, 9}

MCCcd(c) == c \div 8

MCOnlineSets == {{0, 1, 8, 9}, {0, 1}, {0, 8}, {1, 8}}

\* A machine with one CCD.
MCOneCcd == {{0, 1}}

MCScenarios == << [setup |-> 1, measure |-> 0], [setup |-> 8, measure |-> 0],
                  [setup |-> 0, measure |-> 8], [setup |-> 9, measure |-> 8] >>

-------------------------------------------------------------------------------

\* The comment in run_cross_ccd_scenario, "we do NOT touch the buffer first --
\* that would re-pull the lines into measure_cpu's caches and erase the
\* cross-CCD signal": when the first sample of an unmarked cross-CCD row
\* begins, lines of the ring are still only in the other CCD.
SignalSurvives ==
  /\ pc = "chase" /\ calls = Warmups /\ setupOk
  /\ Ccd(Scenario.setup) # Ccd(Scenario.measure)
  => \E l \in AllLines : Ccd(Scenario.measure) \notin holders[l]

\* The comment above run_cross_ccd_scenario, "setup on setup_cpu, measure on
\* measure_cpu": the samples of an unmarked row ran on measure_cpu.
MeasuredWhereNamed ==
  pc = "report" /\ setupOk => ranOn = {Scenario.measure}

===============================================================================
