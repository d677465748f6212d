----------------------------- MODULE RunScriptsProofs -----------------------------
(***************************************************************************)
(* For every list of binaries and of traces, any number of scripts and any *)
(* number of interferences: what run_all.sh and the PMU scripts report is  *)
(* there, of this run and under its own name, and a recording is ended by  *)
(* the script that began it, with the exceptions that causes, undisturbed  *)
(* and raced name.                                                         *)
(***************************************************************************)
EXTENDS RunScripts, TLAPS

\* A place in a list has a name of the list.
LEMMA ListTypes ==
  /\ Len(Binaries) \in Nat /\ Len(Profiles) \in Nat \ {0}
  /\ DOMAIN Binaries = 1..Len(Binaries) /\ DOMAIN Profiles = 1..Len(Profiles)
  /\ \A k \in 1..Len(Binaries) : Binaries[k] \in Names
  /\ \A k \in 1..Len(Profiles) : Profiles[k] \in Tags
  /\ \A t \in Tags : \E k \in 1..Len(Profiles) : t = Profiles[k]
<1> DEFINE S == {Binaries[k] : k \in DOMAIN Binaries}
           T == {Profiles[k] : k \in DOMAIN Profiles}
<1>1. Binaries \in Seq(S) /\ Profiles \in Seq(T) /\ Profiles # <<>>
  BY NamesAssumption
<1>2. /\ Len(Binaries) \in Nat /\ Len(Profiles) \in Nat \ {0}
      /\ DOMAIN Binaries = 1..Len(Binaries) /\ DOMAIN Profiles = 1..Len(Profiles)
  <2> HIDE DEF S, T
  <2> QED BY <1>1
<1> QED BY <1>2 DEF Names, Tags

\* The places of a list are not left.
LEMMA PlaceStep == TypeOK /\ Next => PlaceType'
<1> SUFFICES ASSUME TypeOK, Next PROVE PlaceType'
  OBVIOUS
<1> USE DEF allVars, wprVars, InTry
<1>0. /\ PlaceType /\ SessionType
      /\ Len(Binaries) \in Nat /\ Len(Profiles) \in Nat \ {0} /\ MaxOthers \in Nat
  BY ListTypes, RunsAssumption DEF TypeOK
<1>1. CASE Leave
  BY <1>0, <1>1 DEF Leave, PlaceType
<1>2. CASE BeginAll
  BY <1>0, <1>2 DEF BeginAll, PlaceType
<1>3. CASE Run
  <2>1. /\ n <= Len(Binaries) /\ pc = "run"
        /\ \/ pc' = "run" /\ n' = n + 1
           \/ pc' = "broken off" /\ n' = n
    BY <1>3 DEF Run, AfterFailure
  <2>2. n' \in 1..(Len(Binaries) + Len(Profiles) + 1)
    <3> DEFINE b == Len(Binaries)
               p == Len(Profiles)
    <3>1. b \in Nat /\ p \in Nat /\ n \in 1..(b + p + 1) /\ n <= b /\ n' \in {n, n + 1}
      BY <1>0, <2>1 DEF PlaceType
    <3> HIDE DEF b, p
    <3>2. n' \in 1..(b + p + 1)
      BY <3>1
    <3> QED BY <3>2 DEF b, p
  <2> QED BY <2>1, <2>2 DEF PlaceType
<1>4. CASE AllDone
  BY <1>0, <1>4 DEF AllDone, PlaceType
<1>5. CASE BeginTrace
  BY <1>0, <1>5 DEF BeginTrace, PlaceType
<1>6. CASE Status
  BY <1>0, <1>6 DEF Status, PlaceType
<1>7. CASE WprStart
  BY <1>0, <1>7 DEF WprStart, PlaceType
<1>8. CASE Mark
  BY <1>0, <1>8 DEF Mark, PlaceType
<1>9. CASE Exe
  BY <1>0, <1>9 DEF Exe, PlaceType
<1>10. CASE WprStop
  BY <1>0, <1>10 DEF WprStop, EndSession, KeepSession, TraceFile, PlaceType
<1>11. CASE Unmark
  BY <1>0, <1>11 DEF Unmark, PlaceType
<1>12. CASE Finally
  <2>1. /\ pc = "finally"
        /\ \/ pc' \in {"failed", "wrote"} /\ n' = n
           \/ pc' = "start" /\ n' = n + 1 /\ n < Len(Profiles)
    BY <1>12 DEF Finally, MoreTraces
  <2>2. /\ n' \in 1..(Len(Binaries) + Len(Profiles) + 1)
        /\ n' <= Len(Profiles) \/ pc' = "failed"
    <3> DEFINE b == Len(Binaries)
               p == Len(Profiles)
    <3>1. /\ b \in Nat /\ p \in Nat /\ n \in 1..(b + p + 1) /\ n <= p
          /\ n' = n \/ (n' = n + 1 /\ n < p)
      BY <1>0, <2>1 DEF PlaceType
    <3> HIDE DEF b, p
    <3>2. n' \in 1..(b + p + 1) /\ n' <= p
      BY <3>1
    <3> QED BY <3>2 DEF b, p
  <2> QED BY <2>1, <2>2 DEF PlaceType
<1>13. CASE Interrupt
  BY <1>0, <1>13 DEF Interrupt, PlaceType
<1>14. CASE Kill
  BY <1>0, <1>14 DEF Kill, PlaceType
<1>15. CASE OtherStart
  BY <1>0, <1>15 DEF OtherStart, PlaceType
<1>16. CASE OtherStop
  BY <1>0, <1>16 DEF OtherStop, PlaceType
<1> QED
  BY <1>1, <1>2, <1>3, <1>4, <1>5, <1>6, <1>7, <1>8, <1>9, <1>10, <1>11, <1>12, <1>13,
     <1>14, <1>15, <1>16 DEF Next

\* A recording holds runs of the traces, and without a session nothing is
\* recorded.
LEMMA SessionStep == TypeOK /\ Next => SessionType'
<1> SUFFICES ASSUME TypeOK, Next PROVE SessionType'
  OBVIOUS
<1> USE DEF allVars, wprVars, InTry
<1>0. /\ PlaceType /\ SessionType
      /\ Len(Binaries) \in Nat /\ Len(Profiles) \in Nat \ {0} /\ MaxOthers \in Nat
  BY ListTypes, RunsAssumption DEF TypeOK
<1>1. CASE Leave
  BY <1>0, <1>1 DEF Leave, PlaceType, SessionType
<1>2. CASE BeginAll
  BY <1>0, <1>2 DEF BeginAll, PlaceType, SessionType
<1>3. CASE Run
  BY <1>0, <1>3 DEF Run, AfterFailure, PlaceType, SessionType
<1>4. CASE AllDone
  BY <1>0, <1>4 DEF AllDone, PlaceType, SessionType
<1>5. CASE BeginTrace
  BY <1>0, <1>5 DEF BeginTrace, PlaceType, SessionType
<1>6. CASE Status
  BY <1>0, <1>6 DEF Status, PlaceType, SessionType
<1>7. CASE WprStart
  BY <1>0, <1>7 DEF WprStart, PlaceType, SessionType
<1>8. CASE Mark
  BY <1>0, <1>8 DEF Mark, PlaceType, SessionType
<1>9. CASE Exe
  <2>1. Profiles[n] \in Tags
    BY <1>0, <1>9, ListTypes DEF Exe, PlaceType
  <2>2. recorded' \subseteq Tags /\ (session = "none" => recorded' = {})
    BY <1>0, <1>9, <2>1 DEF Exe, SessionType
  <2>3. thrown' \in BOOLEAN
    BY <1>9 DEF Exe
  <2>4. UNCHANGED <<session, started, etl, others, causes, undisturbed, raced, stolen>>
    BY <1>9 DEF Exe
  <2> QED BY <1>0, <2>2, <2>3, <2>4 DEF SessionType
<1>10. CASE WprStop
  BY <1>0, <1>10, ListTypes DEF WprStop, EndSession, KeepSession, TraceFile, PlaceType, SessionType
<1>11. CASE Unmark
  BY <1>0, <1>11 DEF Unmark, PlaceType, SessionType
<1>12. CASE Finally
  BY <1>0, <1>12 DEF Finally, EndSession, KeepSession, MoreTraces, PlaceType, SessionType
<1>13. CASE Interrupt
  BY <1>0, <1>13 DEF Interrupt, PlaceType, SessionType
<1>14. CASE Kill
  BY <1>0, <1>14 DEF Kill, PlaceType, SessionType
<1>15. CASE OtherStart
  <2>1. undisturbed' \in BOOLEAN /\ raced' \in BOOLEAN
    BY <1>15 DEF OtherStart
  <2>2. others' \in 0..MaxOthers
    <3>1. others \in 0..MaxOthers /\ others < MaxOthers /\ others' = others + 1
      BY <1>0, <1>15 DEF OtherStart, SessionType
    <3> QED BY <1>0, <3>1
  <2>3. /\ session' = "other" /\ session = "none"
        /\ UNCHANGED <<started, thrown, recorded, etl, causes, stolen>>
    BY <1>15 DEF OtherStart
  <2> QED BY <1>0, <2>1, <2>2, <2>3 DEF SessionType
<1>16. CASE OtherStop
  BY <1>0, <1>16 DEF OtherStop, PlaceType, SessionType
<1> QED
  BY <1>1, <1>2, <1>3, <1>4, <1>5, <1>6, <1>7, <1>8, <1>9, <1>10, <1>11, <1>12, <1>13,
     <1>14, <1>15, <1>16 DEF Next

LEMMA TypeStep == TypeOK /\ [Next]_vars => TypeOK'
<1> SUFFICES ASSUME TypeOK, [Next]_vars PROVE TypeOK'
  OBVIOUS
<1> USE DEF allVars, wprVars
<1>0. /\ MaxRuns \in Nat /\ runs \in 0..MaxRuns
      /\ outputs \in [Names -> 0..runs] /\ built \subseteq Names
  BY RunsAssumption DEF TypeOK
<1>1. CASE UNCHANGED vars
  BY <1>1 DEF vars, TypeOK, PlaceType, SessionType
<1>2. ASSUME Next PROVE TypeOK'
  <2>1. PlaceType' /\ SessionType'
    BY <1>2, PlaceStep, SessionStep
  <2>2. runs' \in 0..MaxRuns /\ built' \subseteq Names /\ outputs' \in [Names -> 0..runs']
    <3>1. CASE BeginAll
      <4>1. /\ runs' = runs + 1 /\ runs < MaxRuns /\ built' \subseteq Names
            /\ outputs' = [b \in Names |-> 0] \/ outputs' = outputs
        BY <3>1 DEF BeginAll
      <4>2. runs' \in 0..MaxRuns /\ 0..runs \subseteq 0..runs' /\ 0 \in 0..runs'
        BY <1>0, <4>1
      <4> QED BY <1>0, <4>1, <4>2
    <3>2. CASE Run
      <4>1. /\ runs' = runs /\ built' = built
            /\ \/ outputs' = outputs
               \/ outputs' = [outputs EXCEPT ![Binaries[n]] = runs]
               \/ outputs' = [outputs EXCEPT ![Binaries[n]] = 0]
        BY <3>2 DEF Run
      <4>2. runs \in 0..runs /\ 0 \in 0..runs
        BY <1>0
      <4> QED BY <1>0, <4>1, <4>2
    <3>3. CASE BeginTrace
      <4>1. runs' = runs + 1 /\ runs < MaxRuns /\ built' = built /\ outputs' = outputs
        BY <3>3 DEF BeginTrace
      <4>2. runs' \in 0..MaxRuns /\ 0..runs \subseteq 0..runs'
        BY <1>0, <4>1
      <4> QED BY <1>0, <4>1, <4>2
    <3>4. CASE ~(BeginAll \/ Run \/ BeginTrace)
      <4>1. UNCHANGED <<runs, built, outputs>>
        BY <1>2, <3>4 DEF Next, Leave, AllDone, Status, WprStart, Mark, Exe, WprStop, Unmark,
           Finally, Interrupt, Kill, OtherStart, OtherStop
      <4> QED BY <1>0, <4>1
    <3> QED BY <3>1, <3>2, <3>3, <3>4
  <2> QED BY <2>1, <2>2 DEF TypeOK
<1> QED BY <1>1, <1>2

-------------------------------------------------------------------------------
(* tools/run_all.sh *)

\* Only a binary that succeeds, or that was not built, is left behind; as the names
\* differ, the output of one is not written by another.
LEMMA OutputsStep == TypeOK /\ OutputsInv /\ Next => OutputsInv'
<1> SUFFICES ASSUME TypeOK, OutputsInv, Next PROVE OutputsInv'
  OBVIOUS
<1> USE DEF allVars, wprVars
<1> DEFINE b == Len(Binaries)
           Done(k) == Binaries[k] \in built => outputs[Binaries[k]] = runs
<1>0. /\ b \in Nat /\ n \in Nat \ {0} /\ runs \in Nat
      /\ outputs \in [Names -> 0..runs] /\ \A k \in 1..b : Binaries[k] \in Names
      /\ \A k, l \in 1..b : Binaries[k] = Binaries[l] => k = l
  <2>1. b \in Nat /\ DOMAIN Binaries = 1..b /\ \A k \in 1..b : Binaries[k] \in Names
    BY ListTypes
  <2>2. \A k, l \in 1..b : Binaries[k] = Binaries[l] => k = l
    BY <2>1, NamesAssumption
  <2>3. n \in Nat \ {0}
    <3> DEFINE m == b + Len(Profiles) + 1
    <3>1. m \in Nat
      BY ListTypes
    <3>2. n \in 1..m
      BY DEF TypeOK, PlaceType
    <3> HIDE DEF m
    <3> QED BY <3>1, <3>2
  <2>4. runs \in Nat /\ outputs \in [Names -> 0..runs]
    BY RunsAssumption DEF TypeOK
  <2> QED BY <2>1, <2>2, <2>3, <2>4
<1>1. CASE BeginAll
  <2>1. pc' = "run" /\ n' = 1
    BY <1>1 DEF BeginAll
  <2>2. n' <= b + 1 /\ \A k \in 1..(n' - 1) : Done(k)'
    BY <1>0, <2>1
  <2> QED BY <2>1, <2>2 DEF OutputsInv, OutputsOfThisRun
<1>2. CASE Run
  <2>0. /\ pc = "run" /\ n \in 1..b /\ UNCHANGED <<runs, built>>
        /\ \A k \in 1..(n - 1) : Done(k)
    BY <1>0, <1>2 DEF Run, OutputsInv, OutputsOfThisRun
  <2>1. CASE Binaries[n] \notin built
    <3>1. pc' = "run" /\ n' = n + 1 /\ outputs' = outputs
      BY <1>2, <2>0, <2>1 DEF Run
    <3>2. \A k \in 1..(n' - 1) : Done(k)'
      BY <1>0, <2>0, <2>1, <3>1
    <3> QED BY <1>0, <2>0, <3>1, <3>2 DEF OutputsInv, OutputsOfThisRun
  <2>2. CASE /\ outputs' = [outputs EXCEPT ![Binaries[n]] = runs]
             /\ n' = n + 1 /\ pc' = "run"
    <3>1. \A k \in 1..(n' - 1) : Done(k)'
      <4> SUFFICES ASSUME NEW k \in 1..(n' - 1) PROVE Done(k)'
        OBVIOUS
      <4>1. k \in 1..(n - 1) \/ k = n
        BY <1>0, <2>2
      <4> QED BY <1>0, <2>0, <2>2, <4>1
    <3> QED BY <1>0, <2>0, <2>2, <3>1 DEF OutputsInv, OutputsOfThisRun
  <2>3. CASE /\ outputs' = [outputs EXCEPT ![Binaries[n]] = 0]
             /\ n' = n /\ pc' = "broken off"
    <3>1. \A k \in 1..(n' - 1) : Done(k)'
      <4> SUFFICES ASSUME NEW k \in 1..(n - 1) PROVE Done(k)'
        BY <2>3
      <4>1. k \in 1..b /\ Binaries[k] # Binaries[n]
        BY <1>0, <2>0
      <4> QED BY <1>0, <2>0, <2>3, <4>1
    <3> QED BY <2>3, <3>1 DEF OutputsInv, OutputsOfThisRun
  <2> QED BY <1>2, <2>0, <2>1, <2>2, <2>3 DEF Run, AfterFailure
<1>3. CASE AllDone
  <2>1. /\ pc = "run" /\ pc' = "all done" /\ n > b
        /\ UNCHANGED <<n, runs, built, outputs>>
    BY <1>3 DEF AllDone
  <2>2. n <= b + 1 /\ \A k \in 1..(n - 1) : Done(k)
    BY <2>1 DEF OutputsInv, OutputsOfThisRun
  <2>3. n' = b + 1
    <3>1. b \in Nat /\ n \in Nat /\ n > b /\ n <= b + 1 /\ n' = n
      BY <1>0, <2>1, <2>2
    <3> HIDE DEF b
    <3> QED BY <3>1
  <2> QED BY <2>1, <2>2, <2>3 DEF OutputsInv, OutputsOfThisRun
<1>4. CASE OtherStart \/ OtherStop
  <2>1. UNCHANGED <<pc, n, runs, built, outputs>>
    BY <1>4 DEF OtherStart, OtherStop
  <2> QED BY <2>1 DEF OutputsInv, OutputsOfThisRun
<1>5. CASE ~(BeginAll \/ Run \/ AllDone \/ OtherStart \/ OtherStop)
  <2>1. pc' \notin {"run", "broken off", "all done"}
    BY <1>5 DEF Next, Leave, BeginTrace, Status, WprStart, Mark, Exe, WprStop, Unmark,
       Finally, Interrupt, Kill
  <2> QED BY <2>1 DEF OutputsInv, OutputsOfThisRun
<1> QED BY <1>1, <1>2, <1>3, <1>4, <1>5

-------------------------------------------------------------------------------
(* The scripts of windows/ *)

\* What ending a session, or failing to, leaves of it.
LEMMA EndOrKeep ==
  ASSUME EndSession \/ KeepSession
  PROVE  \/ session' = "none" /\ causes' = {} /\ recorded' = {} /\ session # "none"
         \/ session' = session /\ (session = "own" => causes' # {}) /\ undisturbed' = FALSE
BY DEF EndSession, KeepSession

\* A session that is not accounted for stays within reach of `finally'.
LEMMA ReleaseStep == TypeOK /\ ReleaseInv /\ Next => ReleaseInv'
<1> SUFFICES ASSUME TypeOK, ReleaseInv, Next, session' = "own", causes' = {}
             PROVE  pc' = "mark" \/ (pc' \in {"exe", "stop", "finally"} /\ started')
  BY DEF ReleaseInv
<1> USE DEF allVars, wprVars, InTry
<1>1. CASE WprStart
  BY <1>1 DEF WprStart
<1>2. CASE Mark
  BY <1>2 DEF Mark
<1>3. CASE Exe
  BY <1>3 DEF Exe, ReleaseInv
<1>4. CASE WprStop
  BY <1>4, EndOrKeep DEF WprStop
<1>5. CASE Finally
  <2>1. CASE started
    BY <1>5, <2>1, EndOrKeep DEF Finally, Cancels
  <2>2. CASE ~started
    BY <1>5, <2>2 DEF Finally, Cancels, ReleaseInv
  <2> QED BY <2>1, <2>2
<1>6. CASE Interrupt
  BY <1>6 DEF Interrupt, ReleaseInv
<1>7. CASE Kill
  BY <1>7 DEF Kill
<1>8. CASE OtherStart \/ OtherStop
  BY <1>8 DEF OtherStart, OtherStop
<1>9. CASE Leave \/ BeginAll \/ Run \/ AllDone \/ BeginTrace \/ Status \/ Unmark
  BY <1>9 DEF Leave, BeginAll, Run, AllDone, BeginTrace, Status, Unmark, ReleaseInv
<1> QED BY <1>1, <1>2, <1>3, <1>4, <1>5, <1>6, <1>7, <1>8, <1>9 DEF Next

\* A trace that is saved under its own name joins those before it.
LEMMA SaveNext ==
  ASSUME NEW k \in 1..Len(Profiles), etl \in [Tags -> SUBSET Tags], Saved(k - 1),
         etl' = [etl EXCEPT ![Profiles[k]] = {Profiles[k]}]
  PROVE  \A j \in 1..k : etl'[Profiles[j]] = {Profiles[j]}
<1> DEFINE p == Len(Profiles)
<1>1. p \in Nat /\ DOMAIN Profiles = 1..p /\ \A j \in 1..p : Profiles[j] \in Tags
  BY ListTypes
<1>2. SUFFICES ASSUME NEW j \in 1..k PROVE etl'[Profiles[j]] = {Profiles[j]}
  OBVIOUS
<1>3. k \in 1..p
  OBVIOUS
<1> HIDE DEF p
<1>4. j \in 1..p /\ (j = k \/ j \in 1..(k - 1))
  BY <1>1, <1>3
<1>5. Profiles[j] \in Tags
  BY <1>1, <1>4
<1>6. CASE j = k
  BY <1>5, <1>6
<1>7. CASE j # k
  <2>1. Profiles[j] # Profiles[k]
    BY <1>1, <1>3, <1>4, <1>7, NamesAssumption
  <2>2. etl[Profiles[j]] = {Profiles[j]}
    BY <1>4, <1>7 DEF Saved
  <2> QED BY <1>5, <2>1, <2>2
<1> QED BY <1>6, <1>7

\* An undisturbed script records one benchmark at a time and saves it under its
\* own name.
LEMMA TraceStep == TypeOK /\ TraceInv /\ Next => TraceInv'
<1> SUFFICES ASSUME TypeOK, TraceInv, Next PROVE TraceInv'
  OBVIOUS
<1> USE DEF allVars, wprVars, InTry
<1>0. n \in Nat /\ 1..0 = {}
  <2> DEFINE m == Len(Binaries) + Len(Profiles) + 1
  <2>1. m \in Nat
    BY ListTypes
  <2>2. n \in 1..m
    BY DEF TypeOK, PlaceType
  <2> HIDE DEF m
  <2> QED BY <2>1, <2>2
<1>1. CASE BeginTrace
  BY <1>1 DEF BeginTrace, TraceInv
<1>2. CASE Status
  <2>1. /\ pc = "status" /\ pc' \in {"refused", "start"} /\ (pc' = "start" => session = "none")
        /\ UNCHANGED <<n, session, etl>>
    BY <1>2 DEF Status, Refuses
  <2>2. n' - 1 = 0
    BY <2>1 DEF TraceInv
  <2> QED BY <1>0, <2>1, <2>2 DEF TraceInv, Saved
<1>3. CASE WprStart
  <2>1. /\ pc = "start" /\ pc' = "mark" /\ UNCHANGED <<n, etl>>
        /\ undisturbed' => undisturbed /\ session' = "own" /\ recorded' = {}
    BY <1>3 DEF WprStart
  <2> QED BY <2>1 DEF TraceInv, Saved
<1>4. CASE Mark
  BY <1>4 DEF Mark, TraceInv, Saved
<1>5. CASE Exe
  <2>1. /\ pc = "exe" /\ UNCHANGED <<n, session, etl, undisturbed>>
        /\ pc' = "stop" \/ (pc' = "finally" /\ thrown')
        /\ session = "own" => recorded' = recorded \cup {Profiles[n]}
    BY <1>5 DEF Exe
  <2> QED BY <2>1 DEF TraceInv, Saved
<1>6. CASE WprStop
  <2>1. pc = "stop" /\ pc' = "unmark" /\ n' = n
    BY <1>6 DEF WprStop
  <2>2. n \in 1..Len(Profiles) /\ etl \in [Tags -> SUBSET Tags]
    <3> DEFINE m == Len(Profiles)
               l == Len(Binaries) + m + 1
    <3>1. n \in 1..l /\ n <= m /\ etl \in [Tags -> SUBSET Tags]
      BY <2>1 DEF TypeOK, PlaceType, SessionType
    <3>2. m \in Nat /\ l \in Nat
      BY ListTypes
    <3> HIDE DEF m, l
    <3>3. n \in 1..m
      BY <3>1, <3>2
    <3> QED BY <3>1, <3>3 DEF m
  <2>3. ASSUME undisturbed' PROVE session' = "none" /\ Saved(n)'
    <3>1. /\ EndSession /\ undisturbed
          /\ etl' = [etl EXCEPT ![Profiles[n]] = recorded]
      BY <1>6, <2>3 DEF WprStop, EndSession, KeepSession, TraceFile
    <3>2. recorded = {Profiles[n]} /\ Saved(n - 1)
      BY <2>1, <3>1 DEF TraceInv
    <3>3. \A j \in 1..n : etl'[Profiles[j]] = {Profiles[j]}
      BY <2>2, <3>1, <3>2, SaveNext
    <3> QED BY <2>1, <3>1, <3>3 DEF EndSession, Saved
  <2> QED BY <2>1, <2>3 DEF TraceInv
<1>7. CASE Unmark
  BY <1>7 DEF Unmark, TraceInv, Saved
<1>8. CASE Finally
  <2>1. pc = "finally" /\ etl' = etl
    BY <1>8 DEF Finally
  <2>2. CASE thrown
    BY <1>8, <2>2 DEF Finally, TraceInv
  <2>3. CASE ~thrown
    <3>1. ~started
      BY <2>1, <2>3 DEF TraceInv
    <3>2. UNCHANGED <<session, undisturbed>>
      BY <1>8, <3>1 DEF Finally, Cancels
    <3>3. \/ pc' = "start" /\ n' = n + 1
          \/ pc' = "wrote" /\ n' = n /\ n = Len(Profiles)
      <4> DEFINE m == Len(Profiles)
      <4>1. /\ m \in Nat /\ n <= m
            /\ \/ pc' = "start" /\ n' = n + 1
               \/ pc' = "wrote" /\ n' = n /\ ~(n < m)
        BY <1>8, <2>1, <2>3, ListTypes DEF Finally, MoreTraces, TypeOK, PlaceType
      <4> HIDE DEF m
      <4>2. \/ pc' = "start" /\ n' = n + 1
            \/ pc' = "wrote" /\ n' = n /\ n = m
        BY <1>0, <4>1
      <4> QED BY <4>2 DEF m
    <3>4. undisturbed => session = "none" /\ Saved(n)
      BY <2>1, <2>3 DEF TraceInv
    <3>5. pc' = "start" => n' - 1 = n
      BY <1>0, <3>3
    <3> QED BY <2>1, <3>2, <3>3, <3>4, <3>5 DEF TraceInv, Saved
  <2> QED BY <2>2, <2>3
<1>9. CASE Interrupt
  BY <1>9 DEF Interrupt, TraceInv
<1>10. CASE OtherStart \/ OtherStop
  <2>1. /\ UNCHANGED <<pc, n, started, thrown, etl>>
        /\ undisturbed' => undisturbed /\ ~Checked
    BY <1>10 DEF OtherStart, OtherStop
  <2> QED BY <2>1 DEF TraceInv, Checked, Saved
<1>11. CASE Leave \/ BeginAll \/ Run \/ AllDone \/ Kill
  <2>1. pc' \in {"idle", "run", "broken off", "all done"}
    BY <1>11 DEF Leave, BeginAll, Run, AllDone, Kill, AfterFailure
  <2> QED BY <2>1 DEF TraceInv
<1> QED BY <1>1, <1>2, <1>3, <1>4, <1>5, <1>6, <1>7, <1>8, <1>9, <1>10, <1>11 DEF Next

\* Between its check and its end a script meets somebody else's session only if
\* that began meanwhile.
LEMMA OthersStep == TypeOK /\ OthersInv /\ Next => OthersInv'
<1> SUFFICES ASSUME TypeOK, OthersInv, Next PROVE OthersInv'
  OBVIOUS
<1> USE DEF allVars, wprVars, InTry, Checked
<1>1. CASE WprStop \/ Finally
  <2>1. Checked /\ raced' = raced
    BY <1>1 DEF WprStop, Finally, EndSession, KeepSession
  <2>2. /\ session' \in {"none", session}
        /\ stolen' => stolen \/ session = "other"
    BY <1>1 DEF WprStop, Finally, EndSession, KeepSession
  <2>3. (session = "other" => raced) /\ (stolen => raced)
    BY <2>1 DEF OthersInv, OthersSessionKept
  <2>4. (session' = "other" => raced) /\ (stolen' => raced)
    BY <2>2, <2>3
  <2> QED BY <2>1, <2>4 DEF OthersInv, OthersSessionKept
<1>2. CASE Status
  BY <1>2 DEF Status, Refuses, OthersInv, OthersSessionKept
<1>3. CASE WprStart
  <2>1. /\ pc = "start" /\ UNCHANGED <<raced, stolen>>
        /\ session' = session \/ session' = "own"
    BY <1>3 DEF WprStart
  <2> QED BY <2>1 DEF OthersInv, OthersSessionKept
<1>4. CASE OtherStart
  <2>1. /\ stolen' = stolen /\ raced' = (raced \/ Checked) /\ pc' = pc
    BY <1>4 DEF OtherStart
  <2> QED BY <2>1 DEF OthersInv, OthersSessionKept
<1>5. CASE OtherStop
  BY <1>5 DEF OtherStop, OthersInv, OthersSessionKept
<1>6. CASE BeginTrace
  BY <1>6 DEF BeginTrace, OthersInv, OthersSessionKept
<1>7. CASE Mark \/ Exe \/ Unmark \/ Interrupt
  <2>1. Checked /\ UNCHANGED <<session, raced, stolen>>
    BY <1>7 DEF Mark, Exe, Unmark, Interrupt
  <2> QED BY <2>1 DEF OthersInv, OthersSessionKept
<1>8. CASE Leave \/ BeginAll \/ Run \/ AllDone \/ Kill
  <2>1. pc' \in {"idle", "run", "broken off", "all done"} /\ UNCHANGED <<raced, stolen>>
    BY <1>8 DEF Leave, BeginAll, Run, AllDone, Kill, AfterFailure
  <2> QED BY <2>1 DEF OthersInv, OthersSessionKept
<1> QED BY <1>1, <1>2, <1>3, <1>4, <1>5, <1>6, <1>7, <1>8 DEF Next

-------------------------------------------------------------------------------

LEMMA InitInv == Init => ScriptsInv
<1> SUFFICES ASSUME Init PROVE ScriptsInv
  OBVIOUS
<1>1. PlaceType
  <2> DEFINE m == Len(Binaries) + Len(Profiles) + 1
  <2>1. m \in Nat /\ 1 <= m
    BY ListTypes
  <2>2. 1 \in 1..m
    <3> HIDE DEF m
    <3> QED BY <2>1
  <2> QED BY <2>2 DEF Init, PlaceType, InTry
<1>2. SessionType
  <2>1. session \in {"none", "own", "other"} /\ others \in 0..MaxOthers /\ causes = {}
    BY RunsAssumption DEF Init
  <2>2. {started, thrown, undisturbed, raced, stolen} \subseteq BOOLEAN
    BY DEF Init
  <2>3. recorded = {} /\ etl \in [Tags -> SUBSET Tags]
    BY DEF Init
  <2> QED BY <2>1, <2>2, <2>3 DEF SessionType
<1>3. runs \in 0..MaxRuns /\ built \subseteq Names /\ outputs \in [Names -> 0..runs]
  BY RunsAssumption DEF Init
<1>4. OutputsInv /\ ReleaseInv /\ TraceInv /\ OthersInv
  BY DEF Init, OutputsInv, OutputsOfThisRun, ReleaseInv, TraceInv, OthersInv,
     OthersSessionKept, Checked, InTry
<1> QED BY <1>1, <1>2, <1>3, <1>4 DEF ScriptsInv, TypeOK

\* The invariant of the scripts.
THEOREM ScriptsInvariant == Spec => []ScriptsInv
<1>1. ScriptsInv /\ [Next]_vars => ScriptsInv'
  <2> SUFFICES ASSUME ScriptsInv, [Next]_vars PROVE ScriptsInv'
    OBVIOUS
  <2>1. CASE Next
    BY <2>1, TypeStep, OutputsStep, ReleaseStep, TraceStep, OthersStep DEF ScriptsInv
  <2>2. CASE UNCHANGED vars
    <3>1. TypeOK'
      BY <2>2, TypeStep DEF ScriptsInv
    <3>2. OutputsInv' /\ ReleaseInv' /\ TraceInv' /\ OthersInv'
      BY <2>2 DEF ScriptsInv, vars, allVars, wprVars, OutputsInv, OutputsOfThisRun, ReleaseInv,
         TraceInv, Saved, OthersInv, OthersSessionKept, Checked
    <3> QED BY <3>1, <3>2 DEF ScriptsInv
  <2> QED BY <2>1, <2>2
<1> QED BY InitInv, <1>1, PTL DEF Spec

\* The scripts never leave their lists, and a trace holds runs of the traces.
THEOREM TypeCorrect == Spec => []TypeOK
<1>1. ScriptsInv => TypeOK
  BY DEF ScriptsInv
<1> QED BY ScriptsInvariant, <1>1, PTL

\* "all done" is printed only when each binary that was built has written all of
\* its output in this run, and a run that breaks off has completed those before.
THEOREM CompleteOutputs == Spec => []OutputsOfThisRun
<1>1. ScriptsInv => OutputsOfThisRun
  BY DEF ScriptsInv, OutputsInv
<1> QED BY ScriptsInvariant, <1>1, PTL

\* A recording of ours that is left over was left by a kill, by a failing wpr or by
\* Ctrl-C in the gap between wpr -start and $started = $true.
THEOREM RecordingEnds == Spec => []SessionReleased
<1>1. ScriptsInv => SessionReleased
  BY DEF ScriptsInv, ReleaseInv, SessionReleased
<1> QED BY ScriptsInvariant, <1>1, PTL

\* An undisturbed script that reports its traces has written each of them, with
\* the benchmark run it is named after.
THEOREM TracesAreTheirOwn == Spec => []TracesMatch
<1>1. ScriptsInv => TracesMatch
  <2> SUFFICES ASSUME TraceInv, pc = "wrote", undisturbed, NEW t \in Tags PROVE etl[t] = {t}
    BY DEF ScriptsInv, TracesMatch
  <2>1. PICK k \in 1..Len(Profiles) : t = Profiles[k]
    BY ListTypes
  <2>2. \A j \in 1..Len(Profiles) : etl[Profiles[j]] = {Profiles[j]}
    BY DEF TraceInv, Saved
  <2> QED BY <2>1, <2>2
<1> QED BY ScriptsInvariant, <1>1, PTL

\* The scripts end a session of somebody else only if it began after their check.
THEOREM OthersUntouched == Spec => []OthersSessionKept
<1>1. ScriptsInv => OthersSessionKept
  BY DEF ScriptsInv, OthersInv
<1> QED BY ScriptsInvariant, <1>1, PTL

===============================================================================
