----------------------------- MODULE CrossCcdProofs -----------------------------
(***************************************************************************)
(* For every table of scenarios, machine, ring size and number of samples: *)
(* the setup thread and main never use the ring at the same time, nothing  *)
(* is left behind by a failing call, and a row without the                 *)
(* [setup-pin-failed] mark was measured on a ring that the setup thread    *)
(* wrote on setup_cpu.                                                     *)
(***************************************************************************)
EXTENDS CrossCcd, TLAPS

USE DEF Threads, AllLines

\* A scenario of the table.
LEMMA ScenarioType ==
  ASSUME n \in 1..Len(Scenarios)
  PROVE  Scenario \in [setup : CPUs, measure : CPUs]
<1> DEFINE S == [setup : CPUs, measure : CPUs]
<1>1. Scenarios \in Seq(S)
  BY CpusAssumption
<1>2. Scenarios[n] \in S
  <2> HIDE DEF S
  <2> QED BY <1>1
<1> QED BY <1>2 DEF Scenario

\* Pinning keeps a thread on a CPU of its affinity, within the online CPUs, and
\* leaves the other thread alone.
LEMMA PinType ==
  ASSUME TypeOK, NEW t \in Threads, NEW c \in CPUs, Pin(t, c)
  PROVE  /\ affinity' \in [Threads -> SUBSET online]
         /\ cpu' \in [Threads -> online]
         /\ \A u \in Threads : cpu'[u] \in affinity'[u]
         /\ \A u \in Threads \ {t} : affinity'[u] = affinity[u] /\ cpu'[u] = cpu[u]
         /\ c \in online => affinity'[t] = {c}
         /\ affinity'[t] \in {affinity[t], {c}}
  BY DEF TypeOK, Pin

\* Writing and reading lines keeps the caches' bookkeeping well-typed.
LEMMA AccessType ==
  ASSUME TypeOK, NEW t \in Threads, NEW lines \in SUBSET AllLines,
         Write(t, lines) \/ Read(t, lines), online' = online
  PROVE  /\ writer' \in [AllLines -> [thread : Threads, cpu : CPUs] \cup {Nobody}]
         /\ \A l \in AllLines : holders'[l] \subseteq {Ccd(c) : c \in online'}
<1>1. cpu[t] \in online /\ cpu[t] \in CPUs
  BY CpusAssumption DEF TypeOK
<1>2. CASE Write(t, lines)
  BY <1>1, <1>2 DEF TypeOK, Write
<1>3. CASE Read(t, lines)
  BY <1>1, <1>3 DEF TypeOK, Read
<1> QED BY <1>2, <1>3

\* What SetupInv's clauses about the setup thread's work depend on.
LEMMA WrittenFrame ==
  ASSUME UNCHANGED <<writer, n>>
  PROVE  \A lines : WrittenBySetup(lines)' <=> WrittenBySetup(lines)
  BY DEF WrittenBySetup, Scenario

\* The invariant of section C.
THEOREM SetupInvariant == Spec => []SetupInv
<1>1. Init => SetupInv
  <2> SUFFICES ASSUME Init PROVE SetupInv
    OBVIOUS
  <2>1. 1 \in 1..Len(Scenarios)
    BY CpusAssumption
  <2>2. TypeOK
    <3>1. 0 \in AllLines /\ 0 \in 0..(Warmups + Samples)
      BY BoundsAssumption
    <3>2. affinity \in [Threads -> SUBSET online] /\ cpu \in [Threads -> online]
      BY DEF Init
    <3>3. \A t \in Threads : cpu[t] \in affinity[t]
      BY DEF Init
    <3>4. writer \in [AllLines -> {Nobody}] /\ \A l \in AllLines : holders[l] = {}
      BY DEF Init
    <3> QED BY <2>1, <3>1, <3>2, <3>3, <3>4 DEF Init, TypeOK
  <2> QED BY <2>2 DEF Init, SetupInv
<1>2. SetupInv /\ [Next]_vars => SetupInv'
  <2> SUFFICES ASSUME SetupInv, [Next]_vars PROVE SetupInv'
    OBVIOUS
  <2> USE DEF Running, mainVars, setupVars, cacheVars
  <2>0. /\ TypeOK /\ n \in 1..Len(Scenarios)
        /\ "main" \in Threads /\ "setup" \in Threads
        /\ logical \in CPUs
        /\ Scenario.setup \in CPUs /\ Scenario.measure \in CPUs
        /\ Warmups + Samples \in Nat /\ Lines \in Nat \ {0}
    BY ScenarioType, BoundsAssumption DEF SetupInv, TypeOK
  <2>1. CASE Begin
    <3> USE <2>1 DEF Begin
    <3>1. TypeOK'
      <4>1. Pin("main", logical)
        OBVIOUS
      <4> HIDE DEF Threads
      <4> QED BY <2>0, <4>1, PinType DEF TypeOK
    <3> QED BY <3>1 DEF SetupInv
  <2>2. CASE AllocRing
    <3> USE <2>2 DEF AllocRing
    <3>1. /\ writer' \in [AllLines -> [thread : Threads, cpu : CPUs] \cup {Nobody}]
          /\ \A l \in AllLines : holders'[l] \subseteq {Ccd(c) : c \in online'}
      <4>1. CASE Write("main", AllLines)
        BY <2>0, <4>1, AccessType
      <4>2. CASE UNCHANGED cacheVars
        BY <2>0, <4>2 DEF cacheVars, TypeOK
      <4> QED BY <4>1, <4>2
    <3>2. TypeOK'
      <4>1. 0 \in 0..(Warmups + Samples)
        BY <2>0
      <4> HIDE DEF Threads, AllLines
      <4> QED BY <2>0, <3>1, <4>1 DEF TypeOK
    <3> QED BY <2>0, <3>2 DEF SetupInv, TypeOK
  <2>3. CASE CreateThread
    <3> USE <2>3 DEF CreateThread
    <3>1. CASE tpc' = "pin"
      <4>1. PICK c \in affinity["main"] : cpu' = [cpu EXCEPT !["setup"] = c]
        BY <3>1 DEF SetupInv
      <4>2. /\ affinity' = [affinity EXCEPT !["setup"] = affinity["main"]]
            /\ pc' = "assist" /\ line' = 0 /\ mapped' = mapped
        BY <3>1 DEF SetupInv
      <4>3. affinity["main"] \subseteq online
        BY <2>0 DEF TypeOK
      <4>4. TypeOK'
        BY <2>0, <3>1, <4>1, <4>2, <4>3 DEF TypeOK, cacheVars
      <4> QED BY <3>1, <4>2, <4>4 DEF SetupInv
    <3>2. CASE /\ mapped' = RingAfterFailedCreate /\ pc' = "report"
               /\ UNCHANGED <<tpc, line, affinity, cpu>>
      <4>1. TypeOK'
        BY <2>0, <3>2 DEF TypeOK, cacheVars, RingAfterFailedCreate
      <4> QED BY <3>2, <4>1 DEF SetupInv, RingAfterFailedCreate
    <3> QED BY <3>1, <3>2
  <2>4. CASE AssistPin
    <3> USE <2>4 DEF AssistPin
    <3>1. CASE tpc = "exited" /\ UNCHANGED <<affinity, cpu>>
      <4>1. TypeOK'
        BY <2>0, <3>1 DEF TypeOK
      <4> QED BY <3>1, <4>1, WrittenFrame DEF SetupInv
    <3>2. CASE tpc # "exited" /\ Pin("setup", Scenario.setup)
      <4>1. /\ affinity' \in [Threads -> SUBSET online] /\ cpu' \in [Threads -> online]
            /\ \A u \in Threads : cpu'[u] \in affinity'[u]
            /\ affinity'["setup"] \in {affinity["setup"], {Scenario.setup}}
        <5> HIDE DEF Threads
        <5> QED BY <2>0, <3>2, PinType
      <4>2. TypeOK'
        <5> HIDE DEF Threads, AllLines
        <5> QED BY <2>0, <4>1 DEF TypeOK
      <4>3. Scenario' = Scenario
        BY DEF Scenario
      <4> QED BY <3>2, <4>1, <4>2, <4>3, WrittenFrame DEF SetupInv
    <3> QED BY <3>1, <3>2
  <2>5. CASE Join
    <3> USE <2>5 DEF Join, Joinable
    <3>1. TypeOK'
      BY <2>0 DEF TypeOK
    <3> QED BY <3>1, WrittenFrame DEF SetupInv
  <2>6. CASE MoveToMeasureCpu
    <3> USE <2>6 DEF MoveToMeasureCpu
    <3>1. /\ affinity' \in [Threads -> SUBSET online] /\ cpu' \in [Threads -> online]
          /\ \A u \in Threads : cpu'[u] \in affinity'[u]
      <4> HIDE DEF Threads
      <4> QED BY <2>0, PinType
    <3>2. TypeOK'
      <4> HIDE DEF Threads, AllLines
      <4> QED BY <2>0, <3>1 DEF TypeOK
    <3> QED BY <3>2, WrittenFrame DEF SetupInv
  <2>7. CASE Chase
    <3> USE <2>7 DEF Chase
    <3>1. writer' = writer
      BY DEF Read
    <3>2. \A l \in AllLines : holders'[l] \subseteq {Ccd(c) : c \in online'}
      BY <2>0, AccessType
    <3>3. calls' \in 0..(Warmups + Samples) /\ ranOn' \subseteq online
      BY <2>0 DEF TypeOK
    <3>4. TypeOK'
      <4> HIDE DEF Threads, AllLines
      <4> QED BY <2>0, <3>1, <3>2, <3>3 DEF TypeOK
    <3> QED BY <3>1, <3>4, WrittenFrame DEF SetupInv
  <2>8. CASE FreeRing
    <3> USE <2>8 DEF FreeRing
    <3>1. TypeOK'
      BY <2>0 DEF TypeOK
    <3> QED BY <3>1, WrittenFrame DEF SetupInv
  <2>9. CASE Report
    <3> USE <2>9 DEF Report
    <3>1. n' \in 1..Len(Scenarios)
      BY <2>0
    <3>2. TypeOK'
      <4> HIDE DEF Threads, AllLines
      <4> QED BY <2>0, <3>1 DEF TypeOK
    <3> QED BY <3>2 DEF SetupInv
  <2>10. CASE SetupPin
    <3> USE <2>10 DEF SetupPin, PinSucceeds
    <3>1. /\ affinity' \in [Threads -> SUBSET online] /\ cpu' \in [Threads -> online]
          /\ \A u \in Threads : cpu'[u] \in affinity'[u]
          /\ Scenario.setup \in online => affinity'["setup"] = {Scenario.setup}
      <4> HIDE DEF Threads
      <4> QED BY <2>0, PinType
    <3>2. TypeOK'
      <4> HIDE DEF Threads, AllLines
      <4> QED BY <2>0, <3>1 DEF TypeOK
    <3>3. WrittenBySetup(0..(line - 1))'
      <4>1. line' = 0 /\ 0..(0 - 1) = {}
        BY DEF SetupInv
      <4> QED BY <4>1 DEF WrittenBySetup
    <3>4. Scenario' = Scenario
      BY DEF Scenario
    <3> QED BY <3>1, <3>2, <3>3, <3>4 DEF SetupInv
  <2>11. CASE SetupWrite
    <3> USE <2>11 DEF SetupWrite, LastLine
    <3>1. line \in AllLines /\ WrittenBySetup(0..(line - 1)) /\ cpu["setup"] = Scenario.setup
      BY <2>0 DEF SetupInv, TypeOK
    <3>2. /\ writer' \in [AllLines -> [thread : Threads, cpu : CPUs] \cup {Nobody}]
          /\ \A l \in AllLines : holders'[l] \subseteq {Ccd(c) : c \in online'}
      BY <2>0, <3>1, AccessType
    <3>3. line' \in AllLines
      BY <2>0, <3>1
    <3>4. TypeOK'
      <4> HIDE DEF Threads, AllLines
      <4> QED BY <2>0, <3>2, <3>3 DEF TypeOK
    <3>5. Scenario' = Scenario
      BY DEF Scenario
    <3>6. \A l \in 0..line : writer'[l] = [thread |-> "setup", cpu |-> Scenario.setup]
      BY <2>0, <3>1 DEF Write, WrittenBySetup
    <3>7. CASE line < LastLine /\ line' = line + 1 /\ tpc' = tpc
      <4>1. WrittenBySetup(0..(line - 1))'
        BY <2>0, <3>1, <3>5, <3>6, <3>7 DEF WrittenBySetup
      <4> QED BY <3>4, <3>5, <3>7, <4>1 DEF SetupInv
    <3>8. CASE line = LastLine /\ line' = 0 /\ tpc' = "touch"
      <4>1. WrittenBySetup(AllLines)'
        BY <2>0, <3>5, <3>6, <3>8 DEF WrittenBySetup
      <4> QED BY <3>4, <3>5, <3>8, <4>1 DEF SetupInv
    <3> QED BY <3>7, <3>8
  <2>12. CASE SetupTouch
    <3> USE <2>12 DEF SetupTouch, LastLine
    <3>1. line \in AllLines /\ writer' = writer
      BY <2>0 DEF TypeOK, Read
    <3>2. \A l \in AllLines : holders'[l] \subseteq {Ccd(c) : c \in online'}
      BY <2>0, <3>1, AccessType
    <3>3. line' \in AllLines
      BY <2>0, <3>1
    <3>4. TypeOK'
      <4> HIDE DEF Threads, AllLines
      <4> QED BY <2>0, <3>1, <3>2, <3>3 DEF TypeOK
    <3>5. Scenario' = Scenario
      BY DEF Scenario
    <3>6. WrittenBySetup(AllLines)'
      BY <3>1, WrittenFrame DEF SetupInv
    <3> HIDE DEF AllLines
    <3> QED BY <3>4, <3>5, <3>6 DEF SetupInv
  <2>13. CASE Migrate
    <3> USE <2>13 DEF Migrate
    <3>1. TypeOK'
      <4>1. PICK t \in Threads, c \in CPUs :
               c \in affinity[t] \ {cpu[t]} /\ cpu' = [cpu EXCEPT ![t] = c]
        OBVIOUS
      <4>2. cpu' \in [Threads -> online] /\ \A u \in Threads : cpu'[u] \in affinity[u]
        BY <2>0, <4>1 DEF TypeOK
      <4> HIDE DEF Threads, AllLines
      <4> QED BY <2>0, <4>2 DEF TypeOK
    <3>2. Scenario' = Scenario
      BY DEF Scenario
    <3>3. /\ WrittenBySetup(AllLines)' <=> WrittenBySetup(AllLines)
          /\ WrittenBySetup(0..(line - 1))' <=> WrittenBySetup(0..(line - 1))
      BY DEF WrittenBySetup, Scenario
    <3>4. UNCHANGED <<online, logical, n, pc, mapped, calls, ranOn, setupOk, saOk, tpc,
                      line, writer, holders, affinity>>
      OBVIOUS
    <3> HIDE DEF AllLines, Migrate
    <3> QED BY <3>1, <3>2, <3>3, <3>4 DEF SetupInv
  <2>14. CASE UNCHANGED vars
    <3>1. TypeOK'
      BY <2>0, <2>14 DEF vars, TypeOK
    <3>2. UNCHANGED <<n, pc, mapped, calls, setupOk, saOk, tpc, line, writer, affinity>>
      BY <2>14 DEF vars
    <3>3. /\ WrittenBySetup(AllLines)' <=> WrittenBySetup(AllLines)
          /\ WrittenBySetup(0..(line - 1))' <=> WrittenBySetup(0..(line - 1))
          /\ Scenario' = Scenario
      BY <3>2 DEF WrittenBySetup, Scenario
    <3> HIDE DEF AllLines
    <3> QED BY <3>1, <3>2, <3>3 DEF SetupInv
  <2> QED BY <2>1, <2>2, <2>3, <2>4, <2>5, <2>6, <2>7, <2>8, <2>9, <2>10, <2>11, <2>12,
            <2>13, <2>14 DEF Next, Main, SetupThread
<1> QED BY <1>1, <1>2, PTL DEF Spec

\* Whatever was pinned or migrated, each thread is on a CPU of its affinity, which
\* is one of the CPUs that are online, and the lines have been written by the two
\* threads only and are held by CCDs with an online CPU.
THEOREM TypeCorrect == Spec => []TypeOK
<1>1. SetupInv => TypeOK
  BY DEF SetupInv
<1> QED BY <1>1, SetupInvariant, PTL

\* The setup thread never touches the ring while main chases or frees it, nor
\* after main has gone on, and it never touches an unmapped ring.
THEOREM NoConcurrentUse == Spec => []NoOverlap
<1>1. SetupInv => NoOverlap
  BY DEF SetupInv, NoOverlap, Running
<1> QED BY <1>1, SetupInvariant, PTL

\* Whichever call fails, no ring stays mapped and no thread is left behind when
\* a scenario's row is printed.
THEOREM EverythingReleased == Spec => []NothingLeaks
<1>1. SetupInv => NothingLeaks
  BY DEF SetupInv, NothingLeaks
<1> QED BY <1>1, SetupInvariant, PTL

\* A row without the mark is a full set of samples on a ring that the setup
\* thread wrote on setup_cpu.
THEOREM UnmarkedRows == Spec => []UnmarkedRowIsSetUp
<1>1. SetupInv => UnmarkedRowIsSetUp
  BY DEF SetupInv, UnmarkedRowIsSetUp
<1> QED BY <1>1, SetupInvariant, PTL

===============================================================================
