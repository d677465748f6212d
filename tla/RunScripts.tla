------------------------------- MODULE RunScripts -------------------------------
(***************************************************************************)
(* The scripts around the binaries.  tools/run_all.sh runs every benchmark *)
(* under `set -e', which ends it at the first command that fails.  The two *)
(* scripts of windows/ record a trace around uops_research.exe with the    *)
(* Windows Performance Recorder, whose session belongs to the machine and  *)
(* outlives them: there a failing program raises no error, but a line on   *)
(* its redirected stderr may, and so does Ctrl-C, and both run `finally'.  *)
(***************************************************************************)
EXTENDS Integers, Sequences, FiniteSets

CONSTANTS
  Binaries,   \* the names that run_all.sh runs, in order
  Profiles,   \* the tags of the traces a PMU script records, in order
  MaxRuns,    \* bound: scripts started, one after the other
  MaxOthers   \* bound: sessions that others start

ASSUME RunsAssumption == MaxRuns \in Nat /\ MaxOthers \in Nat

\* Lists of different names: nothing is run or recorded twice in one script.
ASSUME NamesAssumption ==
  /\ Binaries \in Seq({Binaries[k] : k \in DOMAIN Binaries})
  /\ Profiles \in Seq({Profiles[k] : k \in DOMAIN Profiles}) /\ Profiles # <<>>
  /\ \A k, l \in DOMAIN Binaries : Binaries[k] = Binaries[l] => k = l
  /\ \A k, l \in DOMAIN Profiles : Profiles[k] = Profiles[l] => k = l

VARIABLES
  pc, n,        \* the place in the script, and in Binaries or Profiles
  runs,         \* scripts started
  built,        \* binaries that are there
  outputs,      \* the run that completed a binary's output in OUTDIR, or 0
  session,      \* what WPR records: "none", "own" or "other"
  started,      \* $started
  thrown,       \* whether `finally' runs on the way out
  recorded,     \* benchmarks that ran since the session began
  etl,          \* what the trace files hold
  others,       \* sessions that others have started
  causes,       \* ghost: why a session of ours may be left over
  undisturbed,  \* ghost: no wpr command of this script failed, no one interfered
  raced,        \* ghost: somebody began a session after the check
  stolen        \* ghost: the script ended somebody else's session

allVars == <<built, outputs>>
wprVars == <<session, started, thrown, recorded, etl, others, causes, undisturbed, raced, stolen>>
vars == <<pc, n, runs, allVars, wprVars>>

Tags == {Profiles[k] : k \in DOMAIN Profiles}
Names == {Binaries[k] : k \in DOMAIN Binaries}
InTry == {"start", "mark", "exe", "stop", "unmark"}

Init ==
  /\ pc = "idle" /\ n = 1 /\ runs = 0
  /\ built = {} /\ outputs = [b \in Names |-> 0]
  /\ session = "none" /\ started = FALSE /\ thrown = FALSE /\ recorded = {}
  /\ etl = [t \in Tags |-> {}] /\ others = 0
  /\ causes = {} /\ undisturbed = TRUE
  /\ raced = FALSE /\ stolen = FALSE

\* A script has ended, whatever its last words; another may begin.
Leave ==
  /\ pc \in {"all done", "broken off", "failed", "refused", "wrote"}
  /\ pc' = "idle"
  /\ UNCHANGED <<n, runs, allVars, wprVars>>

-------------------------------------------------------------------------------
(* tools/run_all.sh *)

\* OUTDIR is named after the time, or given, and may then hold earlier results.
BeginAll ==
  /\ pc = "idle" /\ runs < MaxRuns
  /\ pc' = "run" /\ n' = 1 /\ runs' = runs + 1
  /\ built' \in SUBSET Names
  /\ \/ outputs' = [b \in Names |-> 0]
     \/ UNCHANGED outputs
  /\ UNCHANGED wprVars

\* Mutation: without `set -e' the next binary is run.
GoOn == pc' = "run" /\ n' = n + 1

AfterFailure == pc' = "broken off" /\ n' = n

\* run: the output is truncated, and is complete if the binary succeeds.
Run ==
  /\ pc = "run" /\ n <= Len(Binaries)
  /\ \/ /\ Binaries[n] \notin built
        /\ n' = n + 1 /\ UNCHANGED <<pc, outputs>>
     \/ /\ Binaries[n] \in built
        /\ \/ outputs' = [outputs EXCEPT ![Binaries[n]] = runs] /\ n' = n + 1 /\ pc' = pc
           \/ outputs' = [outputs EXCEPT ![Binaries[n]] = 0] /\ AfterFailure
  /\ UNCHANGED <<runs, built, wprVars>>

AllDone ==
  /\ pc = "run" /\ n > Len(Binaries)
  /\ pc' = "all done"
  /\ UNCHANGED <<n, runs, allVars, wprVars>>

-------------------------------------------------------------------------------
(* The scripts of windows/ *)

BeginTrace ==
  /\ pc = "idle" /\ runs < MaxRuns
  /\ pc' = "status" /\ n' = 1 /\ runs' = runs + 1
  /\ started' = FALSE /\ thrown' = FALSE /\ undisturbed' = TRUE
  /\ raced' = FALSE /\ stolen' = FALSE
  /\ UNCHANGED <<allVars, session, recorded, etl, others, causes>>

\* Mutation: the status is not looked at.
NeverRefuses == FALSE

Refuses == session # "none"

\* The first checks: Administrator, uops_research.exe, the profile, and the
\* status of WPR.
Status ==
  /\ pc = "status"
  /\ pc' \in IF Refuses THEN {"refused"} ELSE {"refused", "start"}
  /\ UNCHANGED <<n, runs, allVars, wprVars>>

\* wpr -start, which cannot succeed if something is recorded already.
WprStart ==
  /\ pc = "start" /\ pc' = "mark"
  /\ \/ session = "none" /\ session' = "own" /\ recorded' = {} /\ UNCHANGED undisturbed
     \/ undisturbed' = FALSE /\ UNCHANGED <<session, recorded>>
  /\ UNCHANGED <<n, runs, allVars, started, thrown, etl, others, causes, raced, stolen>>

\* $started = $true, whether or not wpr -start succeeded.
Mark ==
  /\ pc = "mark" /\ pc' = "exe"
  /\ started' = TRUE
  /\ UNCHANGED <<n, runs, allVars, session, thrown, recorded, etl, others, causes, undisturbed, raced, stolen>>

\* uops_research.exe, with its stderr redirected.
Exe ==
  /\ pc = "exe"
  /\ recorded' = IF session = "own" THEN recorded \cup {Profiles[n]} ELSE recorded
  /\ \/ pc' = "stop" /\ thrown' = FALSE
     \/ pc' = "finally" /\ thrown' = TRUE
  /\ UNCHANGED <<n, runs, allVars, session, started, etl, others, causes, undisturbed, raced, stolen>>

\* What wpr -stop and wpr -cancel do to the session if they succeed, and what is
\* left over if they do not.
EndSession ==
  /\ session # "none" /\ session' = "none"
  /\ causes' = {} /\ recorded' = {}
  /\ stolen' = (stolen \/ session = "other")
  /\ UNCHANGED <<undisturbed, raced>>

KeepSession ==
  /\ causes' = IF session = "own" THEN causes \cup {"wpr failed"} ELSE causes
  /\ undisturbed' = FALSE
  /\ UNCHANGED <<session, recorded, raced, stolen>>

\* Mutation: both traces are saved under one name.
FirstTraceFile(k) == Profiles[1]

TraceFile(k) == Profiles[k]

WprStop ==
  /\ pc = "stop" /\ pc' = "unmark"
  /\ \/ EndSession /\ etl' = [etl EXCEPT ![TraceFile(n)] = recorded]
     \/ KeepSession /\ UNCHANGED etl
  /\ UNCHANGED <<n, runs, allVars, started, thrown, others>>

Unmark ==
  /\ pc = "unmark" /\ pc' = "finally"
  /\ started' = FALSE
  /\ UNCHANGED <<n, runs, allVars, session, thrown, recorded, etl, others, causes, undisturbed, raced, stolen>>

\* Mutation: `finally' cancels only where nothing was thrown.
CancelsUnlessThrown == started /\ ~thrown

Cancels == started

\* Mutation: one trace too many.
OneMoreTrace == n <= Len(Profiles)

MoreTraces == n < Len(Profiles)

\* `finally', and the next trace, with $started unset, if nothing was thrown.
Finally ==
  /\ pc = "finally"
  /\ IF Cancels THEN EndSession \/ KeepSession
                ELSE UNCHANGED <<session, recorded, causes, undisturbed, raced, stolen>>
  /\ started' = FALSE
  /\ \/ thrown /\ pc' = "failed" /\ n' = n
     \/ ~thrown /\ MoreTraces /\ pc' = "start" /\ n' = n + 1
     \/ ~thrown /\ ~MoreTraces /\ pc' = "wrote" /\ n' = n
  /\ UNCHANGED <<runs, allVars, thrown, etl, others>>

\* Ctrl-C: `finally' runs.  It finds $started unset if the session has just begun.
Interrupt ==
  /\ pc \in InTry
  /\ pc' = "finally" /\ thrown' = TRUE
  /\ causes' = IF pc = "mark" /\ session = "own" THEN causes \cup {"interrupted"} ELSE causes
  /\ UNCHANGED <<n, runs, allVars, session, started, recorded, etl, others, undisturbed, raced, stolen>>

\* The console is closed or the machine logs out; the session goes on.
Kill ==
  /\ pc \in InTry \cup {"status", "finally"}
  /\ pc' = "idle"
  /\ causes' = IF session = "own" THEN causes \cup {"killed"} ELSE causes
  /\ UNCHANGED <<n, runs, allVars, session, started, thrown, recorded, etl, others, undisturbed, raced, stolen>>

Checked == pc \in InTry \cup {"finally"}

\* Somebody else begins or ends a session, ours included.
OtherStart ==
  /\ session = "none" /\ others < MaxOthers
  /\ session' = "other" /\ others' = others + 1
  /\ undisturbed' = (undisturbed /\ ~Checked) /\ raced' = (raced \/ Checked)
  /\ UNCHANGED <<pc, n, runs, allVars, started, thrown, recorded, etl, causes, stolen>>

OtherStop ==
  /\ session # "none"
  /\ session' = "none" /\ recorded' = {} /\ causes' = {}
  /\ undisturbed' = (undisturbed /\ ~Checked)
  /\ UNCHANGED <<pc, n, runs, allVars, started, thrown, etl, others, raced, stolen>>

Next ==
  \/ Leave \/ BeginAll \/ Run \/ AllDone
  \/ BeginTrace \/ Status \/ WprStart \/ Mark \/ Exe \/ WprStop \/ Unmark \/ Finally
  \/ Interrupt \/ Kill \/ OtherStart \/ OtherStop

Spec == Init /\ [][Next]_vars

-------------------------------------------------------------------------------

PlaceType ==
  /\ pc \in InTry \cup {"idle", "run", "all done", "broken off", "failed", "refused",
                       "status", "finally", "wrote"}
  /\ n \in 1..(Len(Binaries) + Len(Profiles) + 1)
  /\ pc \in InTry \cup {"status", "finally", "wrote"} => n <= Len(Profiles)

SessionType ==
  /\ session \in {"none", "own", "other"} /\ others \in 0..MaxOthers
  /\ {started, thrown, undisturbed, raced, stolen} \subseteq BOOLEAN
  /\ recorded \subseteq Tags /\ etl \in [Tags -> SUBSET Tags]
  /\ session = "none" => recorded = {}
  /\ causes \subseteq {"wpr failed", "interrupted", "killed"}

TypeOK ==
  /\ PlaceType /\ SessionType
  /\ runs \in 0..MaxRuns
  /\ built \subseteq Names /\ outputs \in [Names -> 0..runs]

\* "all done" is printed only if every binary that was built has written its
\* whole output in this very run, also where OUTDIR holds those of earlier ones;
\* and a run that fails has completed all outputs before the one that failed.
OutputsOfThisRun ==
  /\ pc \in {"run", "broken off", "all done"} =>
       \A k \in 1..(n - 1) : Binaries[k] \in built => outputs[Binaries[k]] = runs
  /\ pc = "all done" => n = Len(Binaries) + 1

\* No session of a script outlives it - the next run would refuse to start -
\* whatever was thrown, unless it was killed, wpr itself failed to end the
\* session, or Ctrl-C came between wpr -start and the assignment after it.
SessionReleased == pc \in {"idle", "wrote", "failed"} /\ session = "own" => causes # {}

\* If the script reports its traces, no wpr command failed and nobody else used
\* WPR meanwhile, each trace file holds its own benchmark run and no other.
TracesMatch == pc = "wrote" /\ undisturbed => \A t \in Tags : etl[t] = {t}

\* The script never stops, cancels or saves a trace of somebody else's session,
\* also where its own wpr -start has failed, unless that session began after the
\* check of the status.
OthersSessionKept == stolen => raced

\* The inductive invariant behind the four, in parts.  The outputs before the one
\* at hand are of this run.
OutputsInv ==
  /\ pc = "run" => n <= Len(Binaries) + 1
  /\ OutputsOfThisRun

\* Where a session of ours is, that nothing else accounts for: just begun, or
\* where $started says so.
ReleaseInv ==
  session = "own" /\ causes = {} =>
    pc = "mark" \/ (pc \in {"exe", "stop", "finally"} /\ started)

\* What an undisturbed script has recorded and saved at each of its places.
Saved(last) == \A k \in 1..last : etl[Profiles[k]] = {Profiles[k]}

TraceInv ==
  /\ pc = "status" => n = 1
  /\ pc = "finally" /\ ~thrown => ~started
  /\ undisturbed =>
       /\ pc = "start" => session = "none" /\ Saved(n - 1)
       /\ pc \in {"mark", "exe"} => session = "own" /\ recorded = {} /\ Saved(n - 1)
       /\ pc = "stop" => session = "own" /\ recorded = {Profiles[n]} /\ Saved(n - 1)
       /\ pc = "unmark" \/ (pc = "finally" /\ ~thrown) => session = "none" /\ Saved(n)
       /\ pc = "wrote" => n = Len(Profiles) /\ Saved(n)

\* After the check somebody else's session is one that has begun since.
OthersInv ==
  /\ Checked /\ session = "other" => raced
  /\ OthersSessionKept

ScriptsInv == TypeOK /\ OutputsInv /\ ReleaseInv /\ TraceInv /\ OthersInv

===============================================================================
